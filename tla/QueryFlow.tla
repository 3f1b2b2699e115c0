----------------------------- MODULE QueryFlow ------------------------------
(***************************************************************************)
(* A discovery query on its way: remoteQuery and the query and response    *)
(* listeners of src/src/jxta_discovery_service_ref.c, the resolver that    *)
(* carries them (jxta_resolver_service_ref.c), and the forwarding of       *)
(* queries of jxta_srdi_service_ref.c.                                     *)
(*                                                                         *)
(* An edge peer gives a query to its rendezvous.  A rendezvous that has no *)
(* answer of its own sends it to the peers its index names, else to the    *)
(* rendezvous that its replica table names, else to the rendezvous that    *)
(* ought to have the replica, else it walks it on.  The hop count limits   *)
(* the forwarding, the time to live the walk.  Nobody remembers queries,   *)
(* so one may come to a peer more than once.  An answer goes straight to   *)
(* the peer that asked.                                                    *)
(*                                                                         *)
(* A query has one or more elements, of which an advertisement satisfies   *)
(* some (a disjunction).  How the tables are filled is the subject of      *)
(* SrdiIndex: here they are given, and entries may be missing or outdated; *)
(* so is the negative cache of the endpoint (NegativeCache).  Views and    *)
(* leases do not change.  Nothing is repeated when it is lost, so a loss   *)
(* only ends a query sooner and is left out.                               *)
(***************************************************************************)
EXTENDS RdvWalk, Sequences, SequencesExt

CONSTANTS Edge, Lease,  \* edge peers and their rendezvous
          Elem,         \* the elements of the queries
          ReplicaPeer,  \* the rendezvous getReplicaPeer computes for each element
          Near,         \* the peers a peer reaches with a multicast
          Query,        \* query identifiers
          Asker,        \* the peers that ask
          Target,       \* the peers a query may be addressed to
          Suspect,      \* pairs of a peer and one that may be in its negative cache
          Capacity      \* mru_capacity

Peer == Rdv \union Edge

ASSUME QueryAssumption ==
  /\ Rdv \subseteq Nat /\ IsFiniteSet(Rdv) /\ Edge \subseteq Nat /\ Rdv \intersect Edge = {}
  /\ View \in [Rdv -> SUBSET Rdv] /\ \A r \in Rdv : r \in View[r]
  /\ Lease \in [Edge -> Rdv] /\ None \notin Peer
  /\ ReplicaPeer \in [Elem -> Rdv]
  /\ Near \in [Peer -> SUBSET Peer]
  /\ Asker \subseteq Peer /\ Target \subseteq Peer
  /\ Suspect \subseteq Peer \X Peer /\ \A s \in Suspect : s[1] # s[2]
  /\ Capacity \in Nat \ {0}

VARIABLES
  holds,      \* the elements that a peer's advertisement satisfies, {} if it has none
  srdi,       \* the edge peers in the index of each rendezvous
  replica,    \* the replica table of each: pairs of a rendezvous and an element
  cached,     \* pairs of a peer and one in its negative cache: sending is queued
  mru,        \* the peers that were sent a route, the last one at the end
  asked,      \* for each query who asked whom, None when it was everybody
  listeners,  \* the queries whose listener is in the table of the peer that asked
  net,        \* the queries under way
  answers,    \* the responses under way, of a peer to a query
  heard,      \* the peers whose response the listener of a query was given
  stored      \* the peers whose response was published without a listener

tables == <<holds, srdi, replica, cached>>
queryVars == <<tables, mru, asked, listeners, net, answers, heard, stored>>

Nobody == [by |-> None, of |-> None]

(***************************************************************************)
(* Handling a query at peer p.  A record holds what the handler changes:   *)
(* the hop count and the route of the query, the peers that were sent a    *)
(* route, what is sent, and the status so far.                             *)
(***************************************************************************)
Handling(p, hc, route) ==
  [hc |-> hc, route |-> route, mru |-> mru[p], out |-> {}, ok |-> TRUE]

Copy(a, p, q, d, header) ==
  [to |-> d, from |-> p, q |-> q, hc |-> a.hc, route |-> a.route, walk |-> header]

\* mru_check, for a query that goes to one peer after the other: the first that was not
\* sent the route lately is sent it.
RouteNews(a, peers) == {i \in DOMAIN peers : ~ a.route /\ peers[i] \notin Range(a.mru)}
MruCheck(a, peers) ==
  LET new == RouteNews(a, peers)
  IN IF new = {} THEN a
     ELSE [a EXCEPT !.mru = Append(IF Len(@) = Capacity THEN Tail(@) ELSE @, peers[Min(new)]),
                    !.route = TRUE]

\* sendQuery to one peer after the other, with the hop count for each; the route stays in
\* the query.
SendQuery(a, p, q, peers, hops) ==
  LET sent(i) == [a EXCEPT !.hc = hops[i], !.route = @ \/ \E j \in RouteNews(a, peers) : j <= i]
  IN [MruCheck(a, peers) EXCEPT
        !.out = {Copy(sent(i), p, q, peers[i], NoWalk) : i \in DOMAIN peers}]

\* A destination in the negative cache is reported unreachable, although the message is
\* queued for it.
Reachable(p, d) == <<p, d>> \notin cached

\* Mutant: a forwarded query does not count as a hop.
IncrementNot(a) == [a EXCEPT !.hc = IF @ < 0 THEN 0 ELSE @]
\* increment_hop_count and hopcount_ok.
Increment(a) == [a EXCEPT !.hc = (IF @ < 0 THEN 0 ELSE @) + 1]
HopcountOk(hc) == hc < 3

\* forwardQuery_peers: one hop, the status that of the last peer.
ForwardPeers(a, p, q, peers) ==
  LET b      == Increment(a)
      others == Restrict(peers, {i \in DOMAIN peers : peers[i] # p})
  IN IF HopcountOk(b.hc)
     THEN [SendQuery(b, p, q, others, [i \in DOMAIN others |-> b.hc]) EXCEPT
             !.ok = peers = <<>> \/ Reachable(p, Last(peers))]
     ELSE [b EXCEPT !.ok = TRUE]

\* forwardQuery_peer for one peer after the other: each counts as a hop.
ForwardPeer(a, p, q, peers) ==
  LET near == Restrict(peers, {i \in DOMAIN peers : HopcountOk(a.hc + i)})
  IN [SendQuery(a, p, q, near, [i \in DOMAIN near |-> a.hc + i]) EXCEPT !.hc = @ + Len(peers)]

\* discovery_service_send_to_replica: the status asks for a walk.
SendToReplica(a, p, q, peers) ==
  CASE a.hc # 0 -> [a EXCEPT !.hc = @ + 1, !.ok = a.hc + 1 >= 3]
    [] a.hc = 0 /\ peers = <<>> -> [a EXCEPT !.hc = 1, !.ok = FALSE]
    [] OTHER -> [ForwardPeer(a, p, q, peers) EXCEPT !.ok = TRUE]

\* query_srdi and query_replica, and the replica peers of the query's elements.
Indexed(p, drop) == srdi[p] \ drop
Replicas(p) == {row[1] : row \in replica[p]}
ReplicaPeers(p) == {ReplicaPeer[e] : e \in Elem} \ {p}
Destinations(p, drop) ==
  CASE Indexed(p, drop) # {} -> Indexed(p, drop)
    [] Indexed(p, drop) = {} /\ Replicas(p) # {} -> Replicas(p)
    [] OTHER -> ReplicaPeers(p)

\* Mutant: the hop to a peer of the index counts as well.
ForwardCounted(a, p, q, drop, peers) ==
  CASE Indexed(p, drop) # {} -> ForwardPeers(a, p, q, peers)
    [] Indexed(p, drop) = {} /\ Replicas(p) # {} -> ForwardPeers(a, p, q, peers)
    [] OTHER -> SendToReplica(a, p, q, peers)
\* What a rendezvous without an answer does, the tail of discovery_service_query_listener
\* and discovery_service_forward_from_local, with the destinations in some order.
Forward(a, p, q, drop, peers) ==
  CASE Indexed(p, drop) # {} -> ForwardPeers([a EXCEPT !.hc = @ - 1], p, q, peers)
    [] Indexed(p, drop) = {} /\ Replicas(p) # {} -> ForwardPeers(a, p, q, peers)
    [] OTHER -> SendToReplica(a, p, q, peers)

\* do_send to nobody in particular: the walk of an edge peer or of a rendezvous, and a
\* multicast.
Everybody(a, p, q) ==
  LET hops == IF p \in Rdv THEN Hops(p, NoWalk) ELSE {[to |-> Lease[p], walk |-> NoWalk]}
  IN {Copy(a, p, q, h.to, h.walk) : h \in hops} \union {Copy(a, p, q, d, NoWalk) : d \in Near[p]}

----------------------------------------------------------------------------
\* remoteQuery returns the query's identifier in any case, with its listener taken back
\* when the sending failed.
Asked(p, q, of, a) ==
  /\ asked[q] = Nobody
  /\ asked' = [asked EXCEPT ![q] = [by |-> p, of |-> of]]
  /\ listeners' = IF a.ok THEN listeners \union {q} ELSE listeners
  /\ mru' = [mru EXCEPT ![p] = a.mru]
  /\ net' = net \union a.out
  /\ UNCHANGED <<tables, answers, heard, stored>>

\* remoteQuery at an edge peer.
AskEdge(p, q, of) ==
  LET a == Handling(p, 0, FALSE)
      b == MruCheck(a, <<None>>)
  IN Asked(p, q, of, IF of = None THEN [b EXCEPT !.out = Everybody(b, p, q)]
                     ELSE [SendQuery(a, p, q, <<of>>, <<0>>) EXCEPT !.ok = Reachable(p, of)])

\* remoteQuery at a rendezvous: discovery_service_forward_from_local, else the walk.
AskRdv(p, q) ==
  \E peers \in SetToSeqs(Destinations(p, {})) :
    LET a == Forward(Handling(p, 0, FALSE), p, q, {}, peers)
        b == MruCheck([a EXCEPT !.hc = 1], <<None>>)
        walks == Destinations(p, {}) = {}
    IN Asked(p, q, None, IF walks THEN [b EXCEPT !.out = Everybody(b, p, q), !.ok = TRUE] ELSE a)

\* resolver_service_query_cb for a query of another peer: the listener has an answer, ...
Answer(p, k) ==
  /\ k \in net /\ k.to = p /\ asked[k.q].by # p /\ holds[p] # {}
  /\ net' = net \ {k}
  /\ answers' = answers \union {<<k.q, p>>}
  /\ UNCHANGED <<tables, mru, asked, listeners, heard, stored>>

\* ... or it is an edge peer, "done deal", ...
Unsolved(p, k) ==
  /\ k \in net /\ k.to = p /\ p \in Edge /\ (asked[k.q].by = p \/ holds[p] = {})
  /\ net' = net \ {k}
  /\ UNCHANGED <<tables, mru, asked, listeners, answers, heard, stored>>

\* The walk goes on with the message as it came, unless the query had no route and was
\* replaced in it.
Onward(a, p, k) ==
  LET b == IF k.route THEN [a EXCEPT !.hc = k.hc, !.route = TRUE] ELSE a
  IN {Copy(b, p, k.q, h.to, h.walk) : h \in Hops(p, k.walk)}

\* ... or a rendezvous that passes it on.  It may know the route that the query lacks.
PassOn(p, k) ==
  /\ k \in net /\ k.to = p /\ p \in Rdv /\ asked[k.q].by # p /\ holds[p] = {}
  /\ \E route \in {k.route, TRUE}, peers \in SetToSeqs(Destinations(p, {asked[k.q].by})) :
       LET a == Forward(Handling(p, k.hc, route), p, k.q, {asked[k.q].by}, peers)
       IN /\ mru' = [mru EXCEPT ![p] = a.mru]
          /\ net' = (net \ {k}) \union a.out \union (IF a.ok THEN {} ELSE Onward(a, p, k))
  /\ UNCHANGED <<tables, asked, listeners, answers, heard, stored>>

\* A rendezvous ignores its own query, "to give it a chance to continue walk".
OwnQuery(p, k) ==
  /\ k \in net /\ k.to = p /\ p \in Rdv /\ asked[k.q].by = p
  /\ net' = (net \ {k}) \union {[k EXCEPT !.to = h.to, !.from = p, !.walk = h.walk] :
                              h \in Hops(p, k.walk)}
  /\ UNCHANGED <<tables, mru, asked, listeners, answers, heard, stored>>

\* resolver_service_response_cb and discovery_service_response_listener: without a listener
\* the advertisement is published for the peer itself.
TakeAnswer(q, p) ==
  /\ <<q, p>> \in answers
  /\ answers' = answers \ {<<q, p>>}
  /\ IF q \in listeners THEN heard' = [heard EXCEPT ![q] = @ \union {p}] /\ UNCHANGED stored
                        ELSE stored' = [stored EXCEPT ![q] = @ \union {p}] /\ UNCHANGED heard
  /\ UNCHANGED <<tables, mru, asked, listeners, net>>

----------------------------------------------------------------------------
Init ==
  /\ holds \in [Peer -> {{}} \union {{e} : e \in Elem}]
  /\ srdi \in [Rdv -> SUBSET Edge] /\ \A r \in Rdv : \A e \in srdi[r] : Lease[e] = r
  /\ replica \in [Rdv -> SUBSET (Rdv \X Elem)]
  /\ \A r \in Rdv : \A row \in replica[r] : row[1] # r
  /\ cached \in SUBSET Suspect
  /\ mru \in [Peer -> {<<>>, <<None>>}]
  /\ asked = [q \in Query |-> Nobody]
  /\ listeners = {} /\ net = {} /\ answers = {}
  /\ heard = [q \in Query |-> {}] /\ stored = [q \in Query |-> {}]

Ask ==
  \E q \in Query : \/ \E p \in Edge \intersect Asker, of \in {None} \union Target : p # of /\ AskEdge(p, q, of)
                   \/ \E p \in Rdv \intersect Asker : AskRdv(p, q)

Handle(p) == \E k \in net : Answer(p, k) \/ Unsolved(p, k) \/ PassOn(p, k) \/ OwnQuery(p, k)

Next ==
  \/ Ask
  \/ \E p \in Peer : Handle(p) \/ \E q \in Query : TakeAnswer(q, p)

QuerySpec == Init /\ [][Next]_queryVars

(***************************************************************************)
(* Properties.                                                             *)
(***************************************************************************)
QueryTypeOK ==
  /\ holds \in [Peer -> SUBSET Elem] /\ srdi \in [Rdv -> SUBSET Edge]
  /\ replica \in [Rdv -> SUBSET (Rdv \X Elem)]
  /\ asked \in [Query -> [by: Peer \union {None}, of: Peer \union {None}]]
  /\ listeners \subseteq Query /\ answers \subseteq Query \X Peer
  /\ \A k \in net : k.to \in Peer /\ k.from \in Peer /\ k.hc \in 0 .. 3 /\ asked[k.q] # Nobody

\* The replica tables that have all that the index has (SrdiIndex), ...
FullReplicas ==
  [r \in Rdv |-> {row \in (Rdv \ {r}) \X Elem :
                    /\ ReplicaPeer[row[2]] = r
                    /\ \E p \in {row[1]} \union srdi[row[1]] : row[2] \in holds[p]}]

\* ... or nothing in a group that is too small for replicas, and the index every
\* advertisement of the edge peers.
Settled ==
  /\ \A e \in Edge : holds[e] # {} <=> e \in srdi[Lease[e]]
  /\ replica \in {[r \in Rdv |-> {}], FullReplicas}

(* With settled tables and nothing lost a query is answered if some other peer of the group
   has an answer, wherever it is connected: the hop limit does not stop the query before the
   peer that published (the comment on the hop count in discovery_service_query_listener). *)
FoundWhenSettled ==
  \A q \in Query :
    /\ asked[q] # Nobody /\ asked[q].of = None /\ cached = {} /\ Settled
    /\ \A k \in net : k.q # q
    /\ \A r \in answers : r[1] # q
    /\ \E p \in Peer \ {asked[q].by} : holds[p] # {}
    => heard[q] # {}

\* How far a query may still go: the hops it has left, then the steps of its walk.
Left(k) ==
  IF k.to \in Edge THEN 0
  ELSE (3 - k.hc) * (Cardinality(Rdv) + 1) + (IF k.walk = NoWalk THEN Cardinality(Rdv) ELSE k.walk.ttl)

(* Every query comes to an end, whatever the tables say: what a peer sends on has less far
   to go than the query it received, so that rendezvous whose tables name each other do not
   send it to and fro, although a walk starts again with the time to live of a full view
   and the walked message keeps its old hop count (increment_hop_count, replace_rq_element
   and walk). *)
EveryHopCounts ==
  [][asked' = asked =>
       \A k \in net' \ net : k.to \in Peer /\ \E o \in net \ net' : o.q = k.q /\ Left(k) < Left(o)]_queryVars

(* What is answered to a query whose identifier was returned is given to its listener. *)
AnswersAreHeard == \A q \in Query : stored[q] = {}

(* A query that could have been answered is not kept from it by an index entry that is
   out of date. *)
FoundWhenHeld ==
  \A q \in Query :
    /\ asked[q] # Nobody /\ asked[q].of = None
    /\ \A k \in net : k.q # q
    /\ \A r \in answers : r[1] # q
    /\ \E e \in Edge \ {asked[q].by} : holds[e] # {} /\ e \in srdi[Lease[e]]
    => heard[q] # {}
============================================================================
