--------------------------- MODULE MCEndpointPoll ---------------------------
(* Small instances of EndpointPoll. *)
EXTENDS EndpointPoll, TLC

CONSTANTS w1, w2, p1, p2, p3, p4, p5, m1, d1, s1, s2, s3, stopper, ep, conn

Tasks == Poll \cup Message \cup Data
OwnerOfAll == [t \in Tasks |-> IF t \in Data THEN conn ELSE ep]
Alike == Permutations(Worker) \cup Permutations(Poll) \cup Permutations(Socket)
============================================================================
