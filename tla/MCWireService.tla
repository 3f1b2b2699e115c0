---------------------------- MODULE MCWireService ---------------------------
(* Instances of WireService for model checking. *)
EXTENDS WireService, TLC

CONSTANTS m1, m2

MsgSymmetry == Permutations(Msg)

FullView  == [r \in Rdv |-> Rdv]
\* In the beginning everybody has an input pipe of each kind, or an edge peer only one that waits.
Everybody == {[p \in Peer |-> Listener]}
EdgeWaits == {[p \in Peer |-> IF p \in Edge THEN Own ELSE Listener]} \union Everybody
AllAtLast == [e \in Edge |-> Max(Rdv)]
============================================================================
