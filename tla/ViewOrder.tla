----------------------------- MODULE ViewOrder ------------------------------
(***************************************************************************)
(* The order of a peer view.  The peers of a view, sorted by identifier,   *)
(* are thought of as a ring: every peer in it has one neighbour up and one *)
(* down, unless it is alone.  Peer identifiers are numbers.                *)
(***************************************************************************)
EXTENDS Integers, FiniteSets, FiniteSetsExt

CONSTANT None  \* no peer

\* Mutant: the order is not closed to a ring.
UpOfOpen(S, p) ==
  LET above == {q \in S : q > p}
  IN IF p \in S /\ above # {} THEN Min(above) ELSE None
\* addjust_up_down_peers.
UpOf(S, p) ==
  LET above == {q \in S : q > p}
  IN IF p \notin S \/ S = {p} THEN None
     ELSE IF above # {} THEN Min(above) ELSE Min(S)

DownOf(S, p) ==
  LET below == {q \in S : q < p}
  IN IF p \notin S \/ S = {p} THEN None
     ELSE IF below # {} THEN Max(below) ELSE Max(S)
============================================================================
