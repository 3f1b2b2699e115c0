--------------------------- MODULE MCNegativeCache ---------------------------
(* Instances of NegativeCache for model checking. *)
EXTENDS NegativeCache

CONSTANTS m1, m2, m3, m4, p1, p2, s1, s2

MCOnePeer == [m \in Message |-> p1]
MCTwoPeers == [m \in Message |-> IF m = m4 THEN p2 ELSE p1]
==============================================================================
