-------------------------- MODULE MCRelayTransport --------------------------
(* Instances of RelayTransport for model checking. *)
EXTENDS RelayTransport, TLC

CONSTANTS m1, m2, m3

MsgSymmetry == Permutations(Msg)
=============================================================================
