----------------------------- MODULE MCPeerView -----------------------------
(* Instances of PeerView for model checking. *)
EXTENDS PeerView

FirstIsSeed == [p \in Peer |-> IF p = Min(Peer) THEN {} ELSE {Min(Peer)}]

\* A top group of three that loses a message, and groups of two that have a parent group:
\* one fault of any kind, and two crashes.
ThreeLossy == [peers |-> Peer, pipe |-> FALSE, faults |-> {"lose"}, max |-> 1]
TwoBelow(kinds, n) == [peers |-> Peer \ {Max(Peer)}, pipe |-> TRUE, faults |-> kinds, max |-> n]
AnyKind == {"stop", "late", "lose", "crash", "fail"}
Mixed   == {ThreeLossy, TwoBelow(AnyKind, 1), TwoBelow({"crash"}, 2)}
Late    == {TwoBelow({"late"}, 1)}
Stopped == {TwoBelow({"stop"}, 1)}
============================================================================
