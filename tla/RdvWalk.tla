------------------------------ MODULE RdvWalk -------------------------------
(***************************************************************************)
(* The walk of a message along the peer views of rendezvous peers: walk of *)
(* src/src/jxta_rdv_service_server.c.  One copy goes up and one down the   *)
(* order of the view, from neighbour to neighbour; every peer that wants   *)
(* it to go on walks the message it received.  Its header holds the        *)
(* direction and the time to live.  WireService and QueryFlow walk their   *)
(* messages this way.                                                      *)
(***************************************************************************)
EXTENDS ViewOrder

CONSTANTS Rdv,   \* rendezvous peers
          View   \* the peer view of each

\* A message that has not been walked has no header.
NoWalk == [dir |-> "both", ttl |-> 0]

\* Mutant: the walk ends a hop early.
UseTTLShort(r, header) ==
  LET size == Cardinality(View[r])
      ttl == IF header = NoWalk THEN size ELSE header.ttl
  IN IF size - 2 < ttl - 1 THEN size - 2 ELSE ttl - 1
\* The time to live of a walk that begins is the size of the view, and it never exceeds
\* what is left of the view.
UseTTL(r, header) ==
  LET size == Cardinality(View[r])
      ttl == IF header = NoWalk THEN size ELSE header.ttl
  IN IF size - 1 < ttl - 1 THEN size - 1 ELSE ttl - 1

WalkTo(r, header, dir, q) ==
  IF UseTTL(r, header) >= 1 /\ header.dir \in {"both", dir} /\ q # None
  THEN {[to |-> q, walk |-> [dir |-> dir, ttl |-> UseTTL(r, header)]]}
  ELSE {}

\* Where r sends a message with that header, and the headers of the copies.
Hops(r, header) ==
  WalkTo(r, header, "up", UpOf(View[r], r)) \union WalkTo(r, header, "down", DownOf(View[r], r))
=============================================================================
