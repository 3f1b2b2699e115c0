---------------------------- MODULE MCQueryFlow -----------------------------
(* Instances of QueryFlow for model checking. *)
EXTENDS QueryFlow

FullView == [r \in Rdv |-> Rdv]
Leases   == [e \in Edge |-> IF e = Min(Edge) THEN 1 ELSE 3]
AtTwo    == [e \in Elem |-> 2]
Apart    == [e \in Elem |-> IF e = "name" THEN 2 ELSE 3]
Alone    == [p \in Peer |-> {}]
EdgesNear == [p \in Peer |-> IF p \in Edge THEN Edge \ {p} ELSE {}]

Suspects == {<<1, 4>>, <<3, 5>>}
TargetSuspect == {<<4, 5>>}

\* One or two peers with an advertisement; edge peers that have asked before, or none;
\* replica tables that are settled, or name everybody.
Everyone == [r \in Rdv |-> (Rdv \ {r}) \X Elem]

MCInit ==
  /\ mru \in {[p \in Peer |-> <<>>], [p \in Peer |-> IF p \in Edge THEN <<None>> ELSE <<>>]}
  /\ holds \in [Peer -> {{}} \union {{e} : e \in Elem}]
  /\ Cardinality({p \in Peer : holds[p] # {}}) \in 1 .. 2
  /\ srdi \in [Rdv -> SUBSET Edge]
  /\ replica \in {[r \in Rdv |-> {}], FullReplicas, Everyone}
  /\ Init
  /\ \/ Settled /\ cached = {}
     \/ replica = Everyone /\ Cardinality(cached) <= 1

MCSpec == MCInit /\ [][Next]_queryVars
FairMCSpec ==
  MCSpec /\ \A p \in Peer : WF_queryVars(Handle(p)) /\ WF_queryVars(\E q \in Query : TakeAnswer(q, p))
=============================================================================
