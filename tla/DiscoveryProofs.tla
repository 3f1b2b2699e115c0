-------------------------- MODULE DiscoveryProofs ---------------------------
(***************************************************************************)
(* Theorems about the discovery of advertisements: the rounds in which the *)
(* services push their index, and the way of a query.                      *)
(***************************************************************************)
EXTENDS PeriodicTask, QueryFlow, FiniteSetTheorems, SequenceTheorems, WellFoundedInduction, TLAPS

(***************************************************************************)
(* Rounds of one service never work at the same time, for any number of    *)
(* workers and of tasks, and whatever stop does in between.                *)
(*                                                                         *)
(* RoundsDoNotOverlap alone is not inductive: a worker may begin a round   *)
(* that waits while another is at work, and a start may schedule one.  The *)
(* invariant says that a service has one token: the task that waits, or    *)
(* the worker in the handler that has not scheduled its next round; a      *)
(* service that was never started has none.                                *)
(***************************************************************************)

\* The worker is in a handler and has not passed the token on.
Active(w) == step[w] \in {"enter", "work", "again"}

RoundsType ==
  /\ state \in [PeriodicService -> {"INITED", "STARTED", "STOPPING", "CANCELLING", "STOPPED"}]
  /\ step \in [Worker -> {"idle", "enter", "work", "again", "done"}]
  /\ running \in [Worker -> Task \cup {NoTask}]
  /\ \A w \in Worker : step[w] = "idle" <=> running[w] = NoTask
  /\ pending \subseteq Task

OneToken ==
  /\ \A t, u \in pending : OwnerOf[t] = OwnerOf[u] => t = u
  /\ \A w \in Worker, t \in pending : Active(w) => OwnerOf[running[w]] # OwnerOf[t]
  /\ \A v, w \in Worker :
       v # w /\ Active(v) /\ Active(w) => OwnerOf[running[v]] # OwnerOf[running[w]]

NoneBeforeStart ==
  \A s \in PeriodicService : state[s] = "INITED" =>
    /\ \A t \in pending : OwnerOf[t] # s
    /\ \A w \in Worker : Active(w) => OwnerOf[running[w]] # s

RoundsInv == RoundsType /\ OneToken /\ NoneBeforeStart
----------------------------------------------------------------------------
\* The owner of a task is its service.
LEMMA OwnerOfTask ==
  /\ \A t \in Task : OwnerOf[t] \in PeriodicService
  /\ \A s \in PeriodicService, r \in Round : <<s, r>> \in Task /\ OwnerOf[<<s, r>>] = s
<1>1. ASSUME NEW t \in Task PROVE OwnerOf[t] \in PeriodicService
  BY PeriodicAssumption DEF PeriodicAssumption
<1>2. ASSUME NEW s \in PeriodicService, NEW r \in Round
      PROVE  <<s, r>> \in Task /\ OwnerOf[<<s, r>>] = s
  BY PeriodicAssumption DEF PeriodicAssumption
<1> QED BY <1>1, <1>2

\* Nothing runs and nothing waits in the beginning.
LEMMA RoundsInit == PeriodicInit => RoundsInv
  BY DEF PeriodicInit, TaskServiceInit, RoundsInv, RoundsType, OneToken, NoneBeforeStart, Active

(***************************************************************************)
(* A task may be submitted for a service that has no token: none of its    *)
(* tasks waits and every worker in its handler is on its way out.  Here    *)
(* steps and states are already those after the step.                      *)
(***************************************************************************)
NoToken(s) ==
  /\ \A t \in pending : OwnerOf[t] # s
  /\ \A w \in Worker : step'[w] \in {"enter", "work", "again"} => OwnerOf[running[w]] # s

LEMMA ScheduleKeepsRounds ==
  ASSUME RoundsInv, NEW s \in PeriodicService, Schedule(s), NoToken(s),
         step' \in [Worker -> {"idle", "enter", "work", "again", "done"}],
         state' \in [PeriodicService -> {"INITED", "STARTED", "STOPPING", "CANCELLING", "STOPPED"}],
         \A w \in Worker : step'[w] = step[w] \/ (step[w] = "again" /\ step'[w] = "done"),
         \A q \in PeriodicService : state'[q] = "INITED" => state[q] = "INITED" /\ q # s
  PROVE  RoundsInv'
<1>1. PICK r \in Round : Submit(<<s, r>>)
  BY DEF Schedule
<1>2. pending' = pending \cup {<<s, r>>} /\ running' = running
  BY <1>1 DEF Submit
<1>3. <<s, r>> \in Task /\ OwnerOf[<<s, r>>] = s
  BY OwnerOfTask
<1>4. \A w \in Worker : Active(w)' => Active(w) /\ OwnerOf[running[w]] # s
  BY DEF Active, NoToken
<1>5. RoundsType'
  BY <1>2, <1>3 DEF RoundsInv, RoundsType
<1>6. OneToken'
  <2>1. \A t, u \in pending' : OwnerOf[t] = OwnerOf[u] => t = u
    BY <1>2, <1>3 DEF NoToken, RoundsInv, OneToken
  <2>2. \A w \in Worker, t \in pending' : Active(w)' => OwnerOf[running'[w]] # OwnerOf[t]
    BY <1>2, <1>3, <1>4 DEF RoundsInv, OneToken
  <2>3. \A v, w \in Worker :
          v # w /\ Active(v)' /\ Active(w)' => OwnerOf[running'[v]] # OwnerOf[running'[w]]
    BY <1>2, <1>4 DEF RoundsInv, OneToken
  <2> QED BY <2>1, <2>2, <2>3 DEF OneToken
<1>7. NoneBeforeStart'
  BY <1>2, <1>3, <1>4 DEF RoundsInv, NoneBeforeStart
<1> QED BY <1>5, <1>6, <1>7 DEF RoundsInv

\* The token passes from the task to the worker that begins it.
LEMMA DueKeepsRounds ==
  ASSUME RoundsInv, NEW w \in Worker, NEW t \in Task, Due(w, t)
  PROVE  RoundsInv'
<1>1. /\ t \in pending /\ pending' = pending \ {t}
      /\ running' = [running EXCEPT ![w] = t] /\ step' = [step EXCEPT ![w] = "enter"]
      /\ state' = state
  BY DEF Due, Begin, Goto
<1>2. t # NoTask
  BY PeriodicAssumption DEF PeriodicAssumption
<1>3. RoundsType'
  BY <1>1, <1>2 DEF RoundsInv, RoundsType
<1>4. /\ running'[w] = t
      /\ \A v \in Worker : v # w => running'[v] = running[v] /\ (Active(v)' <=> Active(v))
  BY <1>1 DEF RoundsInv, RoundsType, Active
<1>5. OneToken'
  BY <1>1, <1>4 DEF RoundsInv, OneToken
<1>6. NoneBeforeStart'
  BY <1>1, <1>4 DEF RoundsInv, NoneBeforeStart
<1> QED BY <1>3, <1>5, <1>6 DEF RoundsInv

\* A step inside a handler keeps the token with the worker or drops it.
LEMMA HandlerKeepsRounds ==
  ASSUME RoundsInv, NEW w \in Worker, NEW where \in {"enter", "work", "again", "done"},
         Active(w), Goto(w, where), UNCHANGED <<taskServiceVars, state>>
  PROVE  RoundsInv'
<1>1. step' = [step EXCEPT ![w] = where] /\ UNCHANGED <<pending, running, state>>
  BY DEF Goto, taskServiceVars
<1>2. \A v \in Worker : Active(v)' => Active(v)
  BY <1>1 DEF Active, RoundsInv, RoundsType
<1>3. RoundsType'
  BY <1>1 DEF RoundsInv, RoundsType, Active
<1>4. OneToken' /\ NoneBeforeStart'
  BY <1>1, <1>2 DEF RoundsInv, OneToken, NoneBeforeStart
<1> QED BY <1>3, <1>4 DEF RoundsInv

\* The worker leaves the handler.
LEMMA ReturnKeepsRounds ==
  ASSUME RoundsInv, NEW w \in Worker, Return(w)
  PROVE  RoundsInv'
<1>1. /\ step' = [step EXCEPT ![w] = "idle"] /\ running' = [running EXCEPT ![w] = NoTask]
      /\ UNCHANGED <<pending, state>>
  BY DEF Return, End, Goto
<1>2. RoundsType'
  BY <1>1 DEF RoundsInv, RoundsType
<1>3. \A v \in Worker : Active(v)' => Active(v) /\ running'[v] = running[v]
  BY <1>1 DEF Active, RoundsInv, RoundsType
<1>4. OneToken' /\ NoneBeforeStart'
  BY <1>1, <1>3 DEF RoundsInv, OneToken, NoneBeforeStart
<1> QED BY <1>2, <1>4 DEF RoundsInv

\* A stop only takes tasks away.
LEMMA StopKeepsRounds ==
  ASSUME RoundsInv, NEW s \in PeriodicService, stop(s) \/ Cancel(s) \/ Stopped(s)
  PROVE  RoundsInv'
<1>1. /\ pending' \subseteq pending /\ UNCHANGED <<running, step>>
      /\ \E to \in {"STOPPING", "CANCELLING", "STOPPED"} : state' = [state EXCEPT ![s] = to]
  BY DEF stop, Cancel, Stopped, Revoke, Revoked, taskServiceVars
<1>2. \A q \in PeriodicService : state'[q] = "INITED" => state[q] = "INITED"
  BY <1>1 DEF RoundsInv, RoundsType
<1>3. RoundsType'
  BY <1>1 DEF RoundsInv, RoundsType
<1>4. \A w \in Worker : Active(w)' <=> Active(w)
  BY <1>1 DEF Active
<1>5. OneToken' /\ NoneBeforeStart'
  BY <1>1, <1>2, <1>4 DEF RoundsInv, OneToken, NoneBeforeStart
<1> QED BY <1>3, <1>5 DEF RoundsInv
----------------------------------------------------------------------------
\* Every step of the services keeps the invariant.
LEMMA RoundsNext == RoundsInv /\ [PeriodicNext]_roundVars => RoundsInv'
<1> SUFFICES ASSUME RoundsInv, [PeriodicNext]_roundVars PROVE RoundsInv'
  OBVIOUS
<1>1. ASSUME NEW s \in PeriodicService, start(s) PROVE RoundsInv'
  <2>1. /\ Schedule(s) /\ step' = step
        /\ state[s] = "INITED" /\ state' = [state EXCEPT ![s] = "STARTED"]
    BY <1>1 DEF start
  <2>2. NoToken(s)
    BY <2>1 DEF NoToken, RoundsInv, NoneBeforeStart, Active
  <2>3. /\ step' \in [Worker -> {"idle", "enter", "work", "again", "done"}]
        /\ state' \in [PeriodicService ->
                         {"INITED", "STARTED", "STOPPING", "CANCELLING", "STOPPED"}]
        /\ \A q \in PeriodicService : state'[q] = "INITED" => state[q] = "INITED" /\ q # s
    BY <2>1 DEF RoundsInv, RoundsType
  <2> QED BY <2>1, <2>2, <2>3, ScheduleKeepsRounds
<1>2. ASSUME NEW s \in PeriodicService, stop(s) \/ Cancel(s) \/ Stopped(s) PROVE RoundsInv'
  BY <1>2, StopKeepsRounds
<1>3. ASSUME NEW w \in Worker, ScheduleAgain(w) PROVE RoundsInv'
  <2> DEFINE s == OwnerOf[running[w]]
  <2>1. /\ step[w] = "again" /\ Schedule(s) /\ step' = [step EXCEPT ![w] = "done"]
        /\ state' = state
    BY <1>3 DEF ScheduleAgain, Goto
  <2>2. running[w] \in Task
    BY <2>1 DEF RoundsInv, RoundsType
  <2>3. s \in PeriodicService
    BY <2>2, OwnerOfTask
  <2>4. Active(w)
    BY <2>1 DEF Active
  <2>5. NoToken(s)
    BY <2>1, <2>4 DEF NoToken, RoundsInv, RoundsType, OneToken, Active
  <2>6. state[s] # "INITED"
    BY <2>3, <2>4 DEF RoundsInv, NoneBeforeStart
  <2>7. /\ step' \in [Worker -> {"idle", "enter", "work", "again", "done"}]
        /\ state' \in [PeriodicService ->
                         {"INITED", "STARTED", "STOPPING", "CANCELLING", "STOPPED"}]
        /\ \A v \in Worker : step'[v] = step[v] \/ (step[v] = "again" /\ step'[v] = "done")
    BY <2>1 DEF RoundsInv, RoundsType
  <2> HIDE DEF s
  <2>8. \A q \in PeriodicService : state'[q] = "INITED" => state[q] = "INITED" /\ q # s
    BY <2>1, <2>6
  <2> QED BY <2>1, <2>3, <2>5, <2>7, <2>8, ScheduleKeepsRounds
<1>4. ASSUME NEW w \in Worker, advertisement_handling_func(w) \/ DiscoveryWork(w)
                               \/ remove_unused_connections(w) \/ CheckStarted(w)
      PROVE  RoundsInv'
  <2>1. /\ Active(w) /\ UNCHANGED <<taskServiceVars, state>>
        /\ \E where \in {"enter", "work", "again", "done"} : Goto(w, where)
    BY <1>4 DEF advertisement_handling_func, DiscoveryWork, remove_unused_connections,
                CheckStarted, Active
  <2> QED BY <2>1, HandlerKeepsRounds
<1>5. ASSUME NEW w \in Worker, Return(w) PROVE RoundsInv'
  BY <1>5, ReturnKeepsRounds
<1>6. ASSUME NEW w \in Worker, NEW t \in Task, Due(w, t) PROVE RoundsInv'
  BY <1>6, DueKeepsRounds
<1>7. CASE UNCHANGED roundVars
  BY <1>7 DEF roundVars, taskServiceVars, RoundsInv, RoundsType, OneToken, NoneBeforeStart,
              Active
<1> QED BY <1>1, <1>2, <1>3, <1>4, <1>5, <1>6, <1>7 DEF PeriodicNext, HandlerStep

(***************************************************************************)
(* advertisement_handling_func changes expired_loop and delta_loop without *)
(* a lock, and remove_unused_connections rebuilds its list: no two workers *)
(* are ever in rounds of the same service that have not scheduled the next *)
(* one.                                                                    *)
(***************************************************************************)
THEOREM RoundsTheorem == PeriodicSpec => []RoundsDoNotOverlap
<1>1. RoundsInv => RoundsDoNotOverlap
  BY DEF RoundsInv, OneToken, Active, RoundsDoNotOverlap
<1> QED BY <1>1, RoundsInit, RoundsNext, PTL DEF PeriodicSpec

----------------------------------------------------------------------------
(***************************************************************************)
(* Theorems about a query on its way, for any rendezvous, edge peers,      *)
(* views, leases, tables and elements.                                     *)
(*                                                                         *)
(* A query has a finite number of hops and of steps of its walk left       *)
(* (Left).  That they become fewer follows from what a copy may look like: *)
(* its hop count is between 0 and 3, it is sent on by a rendezvous, and    *)
(* its walk has no more steps than there are rendezvous.                   *)
(***************************************************************************)

\* A nonempty set of natural numbers has a least element.
LEMMA LeastNumber ==
  ASSUME NEW S \in SUBSET Nat, S # {}
  PROVE  \E m \in S : \A n \in S : m <= n
<1>1. PICK m \in S : \A n \in S : ~ (<<n, m>> \in OpToRel(<, Nat))
  BY NatLessThanWellFounded, WFMin
<1>2. \A n \in S : ~ (n < m)
  BY <1>1 DEF OpToRel
<1> QED BY <1>2

\* A finite one has a greatest element.
LEMMA GreatestNumber ==
  ASSUME NEW S \in SUBSET Nat, S # {}, IsFiniteSet(S)
  PROVE  \E m \in S : \A n \in S : n <= m
<1> DEFINE Open(T) == T # {} /\ \A m \in T : \E n \in T : m < n
           Sizes   == {k \in Nat : \E T \in SUBSET Nat :
                                     IsFiniteSet(T) /\ Open(T) /\ Cardinality(T) = k}
<1>1. ASSUME Sizes # {} PROVE FALSE
  <2>1. Sizes \in SUBSET Nat
    OBVIOUS
  <2>2. PICK k \in Sizes : \A l \in Sizes : k <= l
    BY <1>1, <2>1, LeastNumber
  <2>3. PICK T \in SUBSET Nat : IsFiniteSet(T) /\ Open(T) /\ Cardinality(T) = k
    BY <2>2
  <2>4. PICK x \in T : TRUE
    BY <2>3
  <2> DEFINE rest == T \ {x}
  <2>5. IsFiniteSet(rest) /\ Cardinality(rest) = k - 1 /\ Cardinality(rest) \in Nat
    BY <2>3, <2>4, FS_RemoveElement, FS_CardinalityType
  <2>6. k \in Nat /\ ~ (k <= k - 1)
    BY <2>2
  <2>7. k - 1 \notin Sizes
    BY <2>2, <2>6
  <2>8. rest \in SUBSET Nat
    OBVIOUS
  <2>9. ~ Open(rest)
    BY <2>5, <2>7, <2>8
  <2>10. PICK y \in T : x < y
    BY <2>3
  <2>11. PICK m \in rest : \A n \in rest : ~ (m < n)
    BY <2>9, <2>10
  <2>12. PICK n \in T : m < n
    BY <2>3, <2>11
  <2>13. n = x
    BY <2>11, <2>12
  <2>14. y \in rest /\ m \in Nat /\ x \in Nat /\ y \in Nat /\ ~ (m < y)
    BY <2>10, <2>11
  <2> QED BY <2>10, <2>12, <2>13, <2>14
<1>2. ~ Open(S)
  <2>1. Cardinality(S) \in Nat
    BY FS_CardinalityType
  <2> QED BY <1>1, <2>1
<1> QED BY <1>2

\* What Min and Max choose.
LEMMA MinIsLeast ==
  ASSUME NEW S \in SUBSET Nat, S # {}
  PROVE  Min(S) \in S /\ \A n \in S : Min(S) <= n
BY LeastNumber DEF Min

LEMMA MaxIsGreatest ==
  ASSUME NEW S \in SUBSET Nat, S # {}, IsFiniteSet(S)
  PROVE  Max(S) \in S /\ \A n \in S : n <= Max(S)
<1>1. \E m \in S : \A n \in S : m >= n
  BY GreatestNumber
<1> QED BY <1>1 DEF Max

\* A neighbour of p is in its view.
LEMMA NeighbourInView ==
  ASSUME NEW S \in SUBSET Nat, IsFiniteSet(S), NEW p
  PROVE  {UpOf(S, p), DownOf(S, p)} \subseteq S \union {None}
<1> DEFINE above == {x \in S : x > p}
           below == {x \in S : x < p}
<1>1. CASE p \notin S \/ S = {p}
  BY <1>1 DEF UpOf, DownOf
<1>2. CASE p \in S /\ S # {p}
  <2>1. above \in SUBSET Nat /\ below \in SUBSET Nat /\ IsFiniteSet(below) /\ S # {}
    BY <1>2, FS_Subset
  <2>2. /\ above # {} => Min(above) \in above
        /\ below # {} => Max(below) \in below
        /\ Min(S) \in S /\ Max(S) \in S
    BY <2>1, MinIsLeast, MaxIsGreatest
  <2> QED BY <1>2, <2>2 DEF UpOf, DownOf
<1> QED BY <1>1, <1>2

----------------------------------------------------------------------------
\* What a query carries of its walk, and the steps that it has left.
Header == [dir: {"both", "up", "down"}, ttl: Nat]
Steps(walk) == IF walk = NoWalk THEN Cardinality(Rdv) ELSE walk.ttl

QueryCopy == [to: Peer, from: Peer, q: Query, hc: 0 .. 3, route: BOOLEAN, walk: Header]

QueryInv == QueryTypeOK /\ net \subseteq QueryCopy

LEMMA RdvIsFinite ==
  /\ IsFiniteSet(Rdv) /\ Cardinality(Rdv) \in Nat
  /\ \A S \in SUBSET Rdv : /\ IsFiniteSet(S) /\ S \in SUBSET Nat
                           /\ Cardinality(S) \in Nat /\ Cardinality(S) <= Cardinality(Rdv)
BY QueryAssumption, FS_Subset, FS_CardinalityType DEF QueryAssumption

\* A walk goes to a rendezvous and has fewer steps left.
LEMMA WalkGoesOn ==
  ASSUME NEW p \in Rdv, NEW header \in Header, NEW h \in Hops(p, header)
  PROVE  /\ h.to \in Rdv /\ h.walk \in Header
         /\ h.walk # NoWalk /\ h.walk.ttl < Steps(header)
<1> DEFINE n == Cardinality(View[p])
           t == UseTTL(p, header)
<1>1. View[p] \in SUBSET Rdv
  BY QueryAssumption
<1>2. n \in Nat /\ n <= Cardinality(Rdv) /\ Cardinality(Rdv) \in Nat
      /\ IsFiniteSet(View[p]) /\ View[p] \in SUBSET Nat
  BY <1>1, RdvIsFinite
<1>3. {UpOf(View[p], p), DownOf(View[p], p)} \subseteq Rdv \union {None}
  BY <1>1, <1>2, NeighbourInView
<1>4. PICK dir \in {"up", "down"}, q \in Rdv \union {None} : h \in WalkTo(p, header, dir, q)
  BY <1>3 DEF Hops
<1>5. t >= 1 /\ q # None /\ h = [to |-> q, walk |-> [dir |-> dir, ttl |-> t]]
  BY <1>4 DEF WalkTo
<1>6. header.ttl \in Nat
  BY DEF Header
<1>7. t \in Int /\ t < Steps(header)
  <2>1. CASE header = NoWalk
    <3>1. t \in {n - 1}
      BY <1>2, <2>1 DEF UseTTL
    <3> QED BY <1>2, <2>1, <3>1 DEF Steps
  <2>2. CASE header # NoWalk
    <3> HIDE DEF n
    <3>1. t = IF n - 1 < header.ttl - 1 THEN n - 1 ELSE header.ttl - 1
      BY <2>2 DEF UseTTL, n
    <3> QED BY <1>2, <1>6, <2>2, <3>1 DEF Steps
  <2> QED BY <2>1, <2>2
<1> HIDE DEF t
<1>8. t \in Nat
  BY <1>5, <1>7
<1>9. h.walk = [dir |-> dir, ttl |-> t] /\ h.walk.ttl = t /\ h.to = q
  BY <1>5
<1>10. h.walk # NoWalk
  BY <1>5, <1>9 DEF NoWalk
<1> QED BY <1>4, <1>5, <1>7, <1>8, <1>9, <1>10 DEF Header

----------------------------------------------------------------------------
(***************************************************************************)
(* What a handler sends, seen from the query it handles.                   *)
(***************************************************************************)
\* The record that a handler works on, with the hop count it is at.
Working(a, hc) ==
  /\ DOMAIN a = {"hc", "route", "mru", "out", "ok"}
  /\ a.hc = hc /\ hc \in Int /\ a.route \in BOOLEAN

\* S are copies of query q to peers of D, with a hop count of H and not walked.
Sent(S, q, D, H) ==
  \A k \in S : k \in QueryCopy /\ k.q = q /\ k.walk = NoWalk /\ k.to \in D /\ k.hc \in H

LEMMA MruCheckWorks ==
  ASSUME NEW a, NEW hc, Working(a, hc), NEW peers
  PROVE  Working(MruCheck(a, peers), hc)
<1> DEFINE new == RouteNews(a, peers)
           m == Append(IF Len(a.mru) = Capacity THEN Tail(a.mru) ELSE a.mru, peers[Min(new)])
<1>1. CASE new = {}
  BY <1>1 DEF MruCheck
<1>2. CASE new # {}
  <2>1. MruCheck(a, peers) = [a EXCEPT !.mru = m, !.route = TRUE]
    BY <1>2 DEF MruCheck
  <2> HIDE DEF m
  <2> DEFINE r == [a EXCEPT !.mru = m, !.route = TRUE]
  <2>2. DOMAIN r = DOMAIN a /\ r.hc = a.hc /\ r.route \in BOOLEAN
    BY DEF Working
  <2> HIDE DEF r
  <2> QED BY <2>1, <2>2 DEF Working, r
<1> QED BY <1>1, <1>2

LEMMA NoWalkIsHeader == NoWalk \in Header
BY DEF NoWalk, Header

LEMMA SendQuerySends ==
  ASSUME NEW a, NEW hc, Working(a, hc), NEW p \in Peer, NEW q \in Query, NEW D \in SUBSET Peer,
         NEW H \in SUBSET (0 .. 3),
         NEW peers, NEW hops, \A i \in DOMAIN peers : peers[i] \in D /\ hops[i] \in H
  PROVE  /\ Working(SendQuery(a, p, q, peers, hops), hc)
         /\ Sent(SendQuery(a, p, q, peers, hops).out, q, D, H)
<1> DEFINE b == MruCheck(a, peers)
           sent(i) == [a EXCEPT !.hc = hops[i],
                                !.route = a.route \/ \E j \in RouteNews(a, peers) : j <= i]
           out == {Copy(sent(i), p, q, peers[i], NoWalk) : i \in DOMAIN peers}
           r == SendQuery(a, p, q, peers, hops)
<1>1. Working(b, hc)
  BY MruCheckWorks
<1>2. r = [b EXCEPT !.out = out]
  BY DEF SendQuery
<1>3. ASSUME NEW k \in out
      PROVE  k \in QueryCopy /\ k.q = q /\ k.walk = NoWalk /\ k.to \in D /\ k.hc \in H
  <2>1. PICK i \in DOMAIN peers : k = Copy(sent(i), p, q, peers[i], NoWalk)
    BY <1>3
  <2>2. sent(i).hc = hops[i] /\ sent(i).route \in BOOLEAN
    <3> DEFINE late == a.route \/ \E j \in RouteNews(a, peers) : j <= i
    <3>1. late \in BOOLEAN
      OBVIOUS
    <3> HIDE DEF late
    <3> DEFINE s == [a EXCEPT !.hc = hops[i], !.route = late]
    <3>2. s.hc = hops[i] /\ s.route \in BOOLEAN
      BY <3>1 DEF Working
    <3>3. sent(i) = s
      BY DEF late
    <3> HIDE DEF sent, s
    <3> QED BY <3>2, <3>3
  <2> HIDE DEF sent
  <2>3. k = [to |-> peers[i], from |-> p, q |-> q, hc |-> hops[i],
             route |-> sent(i).route, walk |-> NoWalk]
    BY <2>1, <2>2 DEF Copy
  <2>4. peers[i] \in D /\ peers[i] \in Peer /\ hops[i] \in 0 .. 3 /\ hops[i] \in H
    OBVIOUS
  <2> QED BY <2>2, <2>3, <2>4, NoWalkIsHeader DEF QueryCopy
<1> HIDE DEF out, b
<1>4. LET s == [b EXCEPT !.out = out]
      IN  s.out = out /\ Working(s, hc)
  BY <1>1 DEF Working
<1> HIDE DEF r
<1>5. r.out = out /\ Working(r, hc)
  BY <1>1, <1>2, <1>4
<1> QED BY <1>3, <1>5 DEF Sent, r

\* The members of a set, in some order.
LEMMA InSomeOrder ==
  ASSUME NEW D, NEW peers \in SetToSeqs(D)
  PROVE  DOMAIN peers = 1 .. Cardinality(D) /\ \A i \in DOMAIN peers : peers[i] \in D
BY DEF SetToSeqs

LEMMA ForwardPeersSends ==
  ASSUME NEW a, NEW hc, Working(a, hc), a.out = {}, NEW p \in Peer, NEW q \in Query,
         NEW D \in SUBSET Peer, NEW peers \in SetToSeqs(D),
         NEW h, h = (IF hc < 0 THEN 0 ELSE hc) + 1
  PROVE  /\ Working(ForwardPeers(a, p, q, peers), h)
         /\ Sent(ForwardPeers(a, p, q, peers).out, q, D, {h} \cap {1, 2})
<1> DEFINE b == Increment(a)
           others == Restrict(peers, {i \in DOMAIN peers : peers[i] # p})
           hops == [i \in DOMAIN others |-> b.hc]
           s == SendQuery(b, p, q, others, hops)
           r == ForwardPeers(a, p, q, peers)
           H == {h} \cap {1, 2}
<1>1. H \in SUBSET (0 .. 3) /\ h \in Nat /\ h # 0
  BY DEF Working
<1>2. Working(b, h) /\ b.hc = h /\ b.out = {}
  BY <1>1 DEF Increment, Working
<1>3. ForwardPeers(a, p, q, peers) =
        IF h < 3 THEN [s EXCEPT !.ok = peers = <<>> \/ Reachable(p, Last(peers))]
                 ELSE [b EXCEPT !.ok = TRUE]
  BY <1>2 DEF ForwardPeers, HopcountOk
<1> HIDE DEF b
<1>4. CASE h < 3
  <2>1. \A i \in DOMAIN others : others[i] \in D /\ hops[i] \in H
    <3>1. h = 1 \/ h = 2
      BY ONLY <1>1, <1>4
    <3>2. h \in H
      BY ONLY <3>1
    <3> HIDE DEF H
    <3> QED BY <1>2, <3>2, InSomeOrder DEF Restrict
  <2> HIDE DEF others, hops, H
  <2>2. Working(s, h) /\ Sent(s.out, q, D, H)
    BY <1>1, <1>2, <2>1, SendQuerySends
  <2> DEFINE ok == peers = <<>> \/ Reachable(p, Last(peers))
  <2>3. r = [s EXCEPT !.ok = ok]
    BY <1>3, <1>4
  <2> HIDE DEF s, ok, r
  <2>4. Working(r, h) /\ r.out = s.out
    BY <2>2, <2>3 DEF Working
  <2> QED BY <2>2, <2>4 DEF r, H
<1>5. CASE ~ (h < 3)
  <2>1. r = [b EXCEPT !.ok = TRUE]
    BY <1>3, <1>5
  <2> HIDE DEF r
  <2>2. Working(r, h) /\ r.out = {}
    BY <1>2, <2>1 DEF Working
  <2> QED BY <2>2 DEF r, Sent
<1> QED BY <1>4, <1>5

\* From the third hop on there is nothing more to do.
LEMMA StopsAtThree ==
  ASSUME NEW a, NEW hc, Working(a, hc), NEW p, NEW q, NEW peers,
         ~ ForwardPeers(a, p, q, peers).ok
  PROVE  (IF hc < 0 THEN 0 ELSE hc) + 1 < 3
<1> DEFINE b == Increment(a)
           h == (IF hc < 0 THEN 0 ELSE hc) + 1
<1>1. b.hc = h /\ DOMAIN b = {"hc", "route", "mru", "out", "ok"}
  BY DEF Increment, Working
<1> HIDE DEF b, h
<1>2. ~ (h < 3) => ForwardPeers(a, p, q, peers) = [b EXCEPT !.ok = TRUE]
  BY <1>1 DEF ForwardPeers, HopcountOk, b
<1> QED BY <1>1, <1>2 DEF h

\* forwardQuery_peer sends to rendezvous that are a hop or two away.
LEMMA ForwardPeerSends ==
  ASSUME NEW a, Working(a, 0), NEW p \in Peer, NEW q \in Query,
         NEW D \in SUBSET Rdv, NEW peers \in SetToSeqs(D)
  PROVE  /\ DOMAIN ForwardPeer(a, p, q, peers) = {"hc", "route", "mru", "out", "ok"}
         /\ Sent(ForwardPeer(a, p, q, peers).out, q, D, {1, 2})
<1> DEFINE near == Restrict(peers, {i \in DOMAIN peers : HopcountOk(a.hc + i)})
           hops == [i \in DOMAIN near |-> a.hc + i]
           s == SendQuery(a, p, q, near, hops)
           n == Len(peers)
           r == ForwardPeer(a, p, q, peers)
           H == {1, 2}
<1>1. H \in SUBSET (0 .. 3) /\ D \in SUBSET Peer
  BY DEF Peer
<1>2. Cardinality(D) \in Nat
  BY RdvIsFinite
<1>3. \A i \in DOMAIN near : near[i] \in D /\ hops[i] \in H
  <2> SUFFICES ASSUME NEW i \in DOMAIN near PROVE near[i] \in D /\ hops[i] \in H
    OBVIOUS
  <2>1. i \in 1 .. Cardinality(D) /\ near[i] = peers[i] /\ peers[i] \in D /\ a.hc + i < 3
    BY InSomeOrder DEF Restrict, HopcountOk
  <2>2. a.hc = 0
    BY DEF Working
  <2>3. i = 1 \/ i = 2
    BY <1>2, <2>1, <2>2
  <2>4. hops[i] = i
    BY <2>2, <2>3
  <2> QED BY <2>1, <2>3, <2>4
<1> HIDE DEF near, hops, H
<1>4. Working(s, 0) /\ Sent(s.out, q, D, H)
  BY <1>1, <1>3, SendQuerySends
<1>5. r = [s EXCEPT !.hc = s.hc + n]
  BY DEF ForwardPeer, near, hops
<1> HIDE DEF s, n, r
<1>6. DOMAIN r = DOMAIN s /\ r.out = s.out
  BY <1>4, <1>5 DEF Working
<1> QED BY <1>4, <1>6 DEF Working, r, H

(***************************************************************************)
(* A rendezvous at hop count hc passes a query on nearer to its end: to an *)
(* edge peer, where it stops, or with a higher hop count.                  *)
(***************************************************************************)
Nearer(S, q, hc) ==
  \A k \in S : /\ k \in QueryCopy /\ k.q = q /\ k.walk = NoWalk
               /\ \/ k.to \in Edge /\ hc < 3
                  \/ k.to \in Rdv /\ k.hc > hc

\* If it is to walk on, the hop count has not become lower.
MayWalk(a, hc) ==
  /\ DOMAIN a = {"hc", "route", "mru", "out", "ok"} /\ a.route \in BOOLEAN
  /\ a.hc \in 0 .. 2 /\ a.hc >= hc

LEMMA DestinationsAreRdv ==
  ASSUME QueryInv, NEW p \in Rdv, NEW drop
  PROVE  /\ Indexed(p, drop) \in SUBSET Edge
         /\ Replicas(p) \in SUBSET Rdv
         /\ ReplicaPeers(p) \in SUBSET Rdv
<1>1. srdi[p] \in SUBSET Edge /\ replica[p] \in SUBSET (Rdv \X Elem)
  BY DEF QueryInv, QueryTypeOK
<1>2. ReplicaPeer \in [Elem -> Rdv]
  BY QueryAssumption
<1>3. Indexed(p, drop) \in SUBSET Edge
  BY <1>1 DEF Indexed
<1>4. Replicas(p) \in SUBSET Rdv
  BY <1>1 DEF Replicas
<1>5. ReplicaPeers(p) \in SUBSET Rdv
  BY <1>2 DEF ReplicaPeers
<1> QED BY <1>3, <1>4, <1>5


\* To a peer of the index the query goes without a hop, to a rendezvous with one.
LEMMA ForwardSends ==
  ASSUME QueryInv, NEW p \in Rdv, NEW hc \in 0 .. 3, NEW q \in Query, NEW drop,
         NEW a, Working(a, hc), a.out = {}, NEW peers \in SetToSeqs(Destinations(p, drop)),
         NEW r, r = Forward(a, p, q, drop, peers)
  PROVE  Nearer(r.out, q, hc) /\ (~ r.ok => MayWalk(r, hc))
<1>1. /\ Indexed(p, drop) \in SUBSET Edge /\ Replicas(p) \in SUBSET Rdv
      /\ ReplicaPeers(p) \in SUBSET Rdv /\ p \in Peer
      /\ Indexed(p, drop) \in SUBSET Peer /\ Replicas(p) \in SUBSET Peer
  BY DestinationsAreRdv DEF Peer
<1>2. CASE Indexed(p, drop) # {}
  <2> DEFINE D == Indexed(p, drop)
             b == [a EXCEPT !.hc = a.hc - 1]
             h == (IF hc - 1 < 0 THEN 0 ELSE hc - 1) + 1
  <2>1. Destinations(p, drop) = D /\ r = ForwardPeers(b, p, q, peers)
    BY <1>2 DEF Destinations, Forward
  <2>2. Working(b, hc - 1) /\ b.out = {}
    BY DEF Working
  <2> HIDE DEF b, D
  <2>3. Working(r, h) /\ Sent(r.out, q, D, {h} \cap {1, 2})
    BY <1>1, <2>1, <2>2, ForwardPeersSends DEF D
  <2>4. h \in Nat /\ h >= hc /\ (h \in {1, 2} => hc < 3)
    OBVIOUS
  <2> HIDE DEF h
  <2>5. Nearer(r.out, q, hc)
    BY <1>1, <2>3, <2>4 DEF Sent, Nearer, D
  <2>6. ~ r.ok => MayWalk(r, hc)
    <3> SUFFICES ASSUME ~ r.ok PROVE h < 3
      BY <2>3, <2>4 DEF MayWalk, Working
    <3> QED BY <2>1, <2>2, <2>4, StopsAtThree DEF h
  <2> QED BY <2>5, <2>6
<1>3. CASE Indexed(p, drop) = {} /\ Replicas(p) # {}
  <2> DEFINE D == Replicas(p)
  <2>1. Destinations(p, drop) = D /\ r = ForwardPeers(a, p, q, peers)
    BY <1>3 DEF Destinations, Forward
  <2>2. hc + 1 = (IF hc < 0 THEN 0 ELSE hc) + 1
    OBVIOUS
  <2> HIDE DEF D
  <2>3. Working(r, hc + 1) /\ Sent(r.out, q, D, {hc + 1} \cap {1, 2})
    BY <1>1, <2>1, <2>2, ForwardPeersSends DEF D
  <2>4. Nearer(r.out, q, hc)
    BY <1>1, <2>3 DEF Sent, Nearer, D
  <2>5. ~ r.ok => MayWalk(r, hc)
    <3> SUFFICES ASSUME ~ r.ok PROVE hc + 1 < 3
      BY <2>3 DEF MayWalk, Working
    <3> QED BY <2>1, StopsAtThree
  <2> QED BY <2>4, <2>5
<1>4. CASE Indexed(p, drop) = {} /\ Replicas(p) = {}
  <2> DEFINE D == ReplicaPeers(p)
  <2>1. Destinations(p, drop) = D /\ r = SendToReplica(a, p, q, peers)
    BY <1>4 DEF Destinations, Forward
  <2>2. a.hc = hc
    BY DEF Working
  <2>3. CASE hc # 0
    <3> DEFINE n == hc + 1
               far == n >= 3
               s == [a EXCEPT !.hc = n, !.ok = far]
    <3>1. r = s
      BY <2>1, <2>2, <2>3 DEF SendToReplica
    <3>2. far \in BOOLEAN /\ n \in Nat /\ n >= hc /\ (~ far => n < 3)
      OBVIOUS
    <3> HIDE DEF far, n
    <3>3. /\ s.out = {} /\ s.hc = n /\ s.route \in BOOLEAN /\ s.ok = far
          /\ DOMAIN s = {"hc", "route", "mru", "out", "ok"}
      BY <3>2 DEF Working
    <3> HIDE DEF s
    <3> QED BY <3>1, <3>2, <3>3 DEF Nearer, MayWalk
  <2>4. CASE hc = 0 /\ peers = <<>>
    <3> DEFINE s == [a EXCEPT !.hc = 1, !.ok = FALSE]
    <3>1. r = s
      BY <2>1, <2>2, <2>4 DEF SendToReplica
    <3>2. s.out = {} /\ s.hc = 1 /\ s.route \in BOOLEAN
          /\ DOMAIN s = {"hc", "route", "mru", "out", "ok"}
      BY DEF Working
    <3> HIDE DEF s
    <3> QED BY <2>4, <3>1, <3>2 DEF Nearer, MayWalk
  <2>5. CASE hc = 0 /\ peers # <<>>
    <3> DEFINE f == ForwardPeer(a, p, q, peers)
    <3>1. r = [f EXCEPT !.ok = TRUE]
      BY <2>1, <2>2, <2>5 DEF SendToReplica
    <3> HIDE DEF D
    <3>2. /\ DOMAIN f = {"hc", "route", "mru", "out", "ok"}
          /\ Sent(f.out, q, D, {1, 2})
      BY <1>1, <2>1, <2>5, ForwardPeerSends DEF D
    <3> HIDE DEF f
    <3>3. r.out = f.out /\ r.ok
      BY <3>1, <3>2
    <3> QED BY <1>1, <2>5, <3>2, <3>3 DEF Sent, Nearer, D
  <2> QED BY <2>3, <2>4, <2>5
<1> QED BY <1>2, <1>3, <1>4

----------------------------------------------------------------------------
\* The hops and the steps that a query has left, as numbers.
LEMMA HopsAndSteps ==
  ASSUME NEW R \in Nat, NEW x \in 0 .. 3, NEW y \in 0 .. 3, NEW s \in Nat, NEW t \in Nat
  PROVE  /\ (3 - x) * (R + 1) + s \in Nat
         /\ x < y => (3 - y) * (R + 1) + R < (3 - x) * (R + 1) + s
         /\ x <= y /\ t < s => (3 - y) * (R + 1) + t < (3 - x) * (R + 1) + s
         /\ x < 3 => 0 < (3 - x) * (R + 1) + s
<1>1. x \in {0, 1, 2, 3} /\ y \in {0, 1, 2, 3}
  OBVIOUS
<1>2. /\ 0 * (R + 1) = 0 /\ 1 * (R + 1) = R + 1
      /\ 2 * (R + 1) = R + R + 2 /\ 3 * (R + 1) = R + R + R + 3
  OBVIOUS
<1> DEFINE l(h) == IF h = 3 THEN 0 ELSE IF h = 2 THEN R + 1 ELSE
                   IF h = 1 THEN R + R + 2 ELSE R + R + R + 3
<1>3. \A h \in {0, 1, 2, 3} : (3 - h) * (R + 1) = l(h)
  BY <1>2
<1>4. (3 - x) * (R + 1) = l(x) /\ (3 - y) * (R + 1) = l(y)
  BY <1>1, <1>3
<1>5. /\ l(x) + s \in Nat
      /\ x < y => l(y) + R < l(x) + s
      /\ x <= y /\ t < s => l(y) + t < l(x) + s
      /\ x < 3 => 0 < l(x) + s
  BY <1>1
<1> QED BY <1>4, <1>5

\* How far a query at a rendezvous may still go.
LEMMA LeftOfRdv ==
  ASSUME NEW k \in QueryCopy, k.to \in Rdv
  PROVE  /\ Left(k) = (3 - k.hc) * (Cardinality(Rdv) + 1) + Steps(k.walk)
         /\ Steps(k.walk) \in Nat /\ k.hc \in 0 .. 3
<1>1. k.to \notin Edge
  BY QueryAssumption
<1>2. Steps(k.walk) \in Nat /\ k.hc \in 0 .. 3
  BY RdvIsFinite DEF QueryCopy, Header, Steps
<1> QED BY <1>1, <1>2 DEF Left, Steps

\* S are copies of the query of o that have less far to go.
Less(S, o) == \A k \in S : k \in QueryCopy /\ k.q = o.q /\ Left(k) < Left(o)

LEMMA NearerIsLess ==
  ASSUME NEW o \in QueryCopy, o.to \in Rdv, NEW S, Nearer(S, o.q, o.hc)
  PROVE  Less(S, o)
<1> SUFFICES ASSUME NEW k \in S PROVE k \in QueryCopy /\ k.q = o.q /\ Left(k) < Left(o)
  BY DEF Less
<1>1. k \in QueryCopy /\ k.q = o.q /\ k.walk = NoWalk
  BY DEF Nearer
<1>2. Left(o) = (3 - o.hc) * (Cardinality(Rdv) + 1) + Steps(o.walk)
      /\ Steps(o.walk) \in Nat /\ o.hc \in 0 .. 3
  BY LeftOfRdv
<1>3. Cardinality(Rdv) \in Nat /\ k.hc \in 0 .. 3
  BY <1>1, RdvIsFinite DEF QueryCopy
<1>4. CASE k.to \in Edge /\ o.hc < 3
  <2>1. Left(k) = 0
    BY <1>4 DEF Left
  <2> QED BY <1>1, <1>2, <1>3, <1>4, <2>1, HopsAndSteps
<1>5. CASE k.to \in Rdv /\ k.hc > o.hc
  <2>1. Left(k) = (3 - k.hc) * (Cardinality(Rdv) + 1) + Cardinality(Rdv)
    BY <1>1, <1>5, LeftOfRdv DEF Steps
  <2>2. o.hc < k.hc
    BY <1>2, <1>3, <1>5
  <2>3. (3 - k.hc) * (Cardinality(Rdv) + 1) + Cardinality(Rdv)
          < (3 - o.hc) * (Cardinality(Rdv) + 1) + Steps(o.walk)
    BY <1>2, <1>3, <2>2, HopsAndSteps
  <2> QED BY <1>1, <1>2, <2>1, <2>3
<1> QED BY <1>4, <1>5 DEF Nearer

\* The walk of o goes on to the neighbours of p with the hop count hc.
LEMMA OnwardIsLess ==
  ASSUME NEW o \in QueryCopy, o.to \in Rdv, NEW p \in Rdv, NEW hc \in 0 .. 3, o.hc <= hc,
         NEW route \in BOOLEAN, NEW h \in Hops(p, o.walk),
         NEW k, k = [to |-> h.to, from |-> p, q |-> o.q, hc |-> hc, route |-> route,
                     walk |-> h.walk]
  PROVE  k \in QueryCopy /\ k.q = o.q /\ Left(k) < Left(o)
<1>1. o.walk \in Header /\ o.q \in Query
  BY DEF QueryCopy
<1>2. h.to \in Rdv /\ h.walk \in Header /\ h.walk # NoWalk /\ h.walk.ttl < Steps(o.walk)
  BY <1>1, WalkGoesOn
<1>3. k \in QueryCopy /\ k.q = o.q
  BY <1>1, <1>2 DEF QueryCopy, Peer
<1>4. k.to \in Rdv /\ k.walk = h.walk /\ k.hc = hc
  BY <1>2
<1>5. Left(k) = (3 - hc) * (Cardinality(Rdv) + 1) + h.walk.ttl /\ h.walk.ttl \in Nat
  BY <1>2, <1>3, <1>4, LeftOfRdv DEF Steps, Header
<1>6. Left(o) = (3 - o.hc) * (Cardinality(Rdv) + 1) + Steps(o.walk)
      /\ Steps(o.walk) \in Nat /\ o.hc \in 0 .. 3
  BY LeftOfRdv
<1>7. (3 - hc) * (Cardinality(Rdv) + 1) + h.walk.ttl
        < (3 - o.hc) * (Cardinality(Rdv) + 1) + Steps(o.walk)
  BY <1>2, <1>5, <1>6, RdvIsFinite, HopsAndSteps
<1> QED BY <1>3, <1>5, <1>6, <1>7

\* When o is handled and S sent in its place, every new copy has less far to go than o.
LEMMA HandledEnds ==
  ASSUME net \subseteq QueryCopy, NEW o \in net, o.to \in Rdv \/ net' \subseteq net,
         NEW S, Less(S, o), net' = (net \ {o}) \union S
  PROVE  /\ net' \subseteq QueryCopy
         /\ \A k \in net' \ net :
              k.to \in Peer /\ \E g \in net \ net' : g.q = k.q /\ Left(k) < Left(g)
<1>1. net' \subseteq QueryCopy
  BY DEF Less
<1> SUFFICES ASSUME NEW k \in net' \ net
             PROVE  k.to \in Peer /\ \E g \in net \ net' : g.q = k.q /\ Left(k) < Left(g)
  BY <1>1
<1>2. k \in S /\ k.q = o.q /\ Left(k) < Left(o) /\ k.to \in Peer
  BY DEF Less, QueryCopy
<1>3. o \notin S
  <2>1. o \in QueryCopy /\ o.to \in Rdv
    OBVIOUS
  <2>2. Left(o) \in Nat
    BY <2>1, LeftOfRdv, RdvIsFinite, HopsAndSteps
  <2>3. ~ (Left(o) < Left(o))
    BY <2>2
  <2> QED BY <2>3 DEF Less
<1>4. o \in net \ net'
  BY <1>3
<1> QED BY <1>2, <1>4

\* The copies of a query that a peer sends to everybody.
LEMMA EverybodySends ==
  ASSUME NEW a, NEW hc \in 0 .. 3, Working(a, hc), NEW p \in Peer, NEW q \in Query
  PROVE  \A k \in Everybody(a, p, q) : k \in QueryCopy /\ k.q = q
<1> DEFINE hops == IF p \in Rdv THEN Hops(p, NoWalk) ELSE {[to |-> Lease[p], walk |-> NoWalk]}
<1>1. Lease \in [Edge -> Rdv] /\ Near \in [Peer -> SUBSET Peer]
  BY QueryAssumption
<1>2. ASSUME NEW h \in hops PROVE h.to \in Peer /\ h.walk \in Header
  <2>1. CASE p \in Rdv
    BY <1>2, <2>1, WalkGoesOn, NoWalkIsHeader DEF Peer
  <2>2. CASE p \notin Rdv
    <3>1. Lease[p] \in Rdv
      BY <1>1, <2>2 DEF Peer
    <3> QED BY <1>2, <2>2, <3>1, NoWalkIsHeader DEF Peer
  <2> QED BY <2>1, <2>2
<1>3. ASSUME NEW d \in Peer, NEW header \in Header
      PROVE  Copy(a, p, q, d, header) \in QueryCopy /\ Copy(a, p, q, d, header).q = q
  BY <1>3 DEF Copy, QueryCopy, Working
<1>4. Near[p] \subseteq Peer
  BY <1>1
<1>5. Everybody(a, p, q) = {Copy(a, p, q, h.to, h.walk) : h \in hops}
                             \union {Copy(a, p, q, d, NoWalk) : d \in Near[p]}
  BY DEF Everybody
<1> HIDE DEF hops
<1>6. ASSUME NEW k \in {Copy(a, p, q, h.to, h.walk) : h \in hops}
      PROVE  k \in QueryCopy /\ k.q = q
  BY <1>2, <1>3, <1>6
<1>7. ASSUME NEW k \in {Copy(a, p, q, d, NoWalk) : d \in Near[p]}
      PROVE  k \in QueryCopy /\ k.q = q
  BY <1>3, <1>4, <1>7, NoWalkIsHeader
<1> QED BY <1>5, <1>6, <1>7

LEMMA HandlingWorks ==
  ASSUME NEW p, NEW hc \in Int, NEW route \in BOOLEAN
  PROVE  Working(Handling(p, hc, route), hc) /\ Handling(p, hc, route).out = {}
BY DEF Working, Handling

\* A question is new: it changes asked, and its copies are typed.
LEMMA AskedStep ==
  ASSUME QueryInv, NEW p \in Peer, NEW q \in Query, NEW of \in Peer \union {None}, NEW a,
         \A k \in a.out : k \in QueryCopy /\ k.q = q,
         Asked(p, q, of, a)
  PROVE  QueryInv' /\ asked' # asked
<1>1. /\ asked[q] = Nobody /\ asked' = [asked EXCEPT ![q] = [by |-> p, of |-> of]]
      /\ listeners' \subseteq listeners \union {q} /\ net' = net \union a.out
      /\ UNCHANGED <<tables, answers, heard, stored>>
  BY DEF Asked
<1>2. p # None
  BY QueryAssumption
<1>3. asked \in [Query -> [by: Peer \union {None}, of: Peer \union {None}]]
  BY DEF QueryInv, QueryTypeOK
<1>4. [by |-> p, of |-> of] \in [by: Peer \union {None}, of: Peer \union {None}]
      /\ [by |-> p, of |-> of] # Nobody
  BY <1>2 DEF Nobody
<1>5. /\ asked' \in [Query -> [by: Peer \union {None}, of: Peer \union {None}]]
      /\ asked'[q] # Nobody /\ \A x \in Query \ {q} : asked'[x] = asked[x]
  BY <1>1, <1>3, <1>4
<1>6. net' \subseteq QueryCopy
  BY <1>1 DEF QueryInv
<1>7. \A k \in net' : k.to \in Peer /\ k.from \in Peer /\ k.hc \in 0 .. 3 /\ asked'[k.q] # Nobody
  <2> SUFFICES ASSUME NEW k \in net'
               PROVE  /\ k.to \in Peer /\ k.from \in Peer /\ k.hc \in 0 .. 3
                      /\ asked'[k.q] # Nobody
    OBVIOUS
  <2>1. k.to \in Peer /\ k.from \in Peer /\ k.hc \in 0 .. 3 /\ k.q \in Query
    BY <1>6 DEF QueryCopy
  <2>2. k \in net => asked[k.q] # Nobody
    BY DEF QueryInv, QueryTypeOK
  <2> QED BY <1>1, <1>5, <2>1, <2>2
<1>8. QueryTypeOK'
  BY <1>1, <1>5, <1>7 DEF QueryInv, QueryTypeOK, tables
<1>9. asked' # asked
  BY <1>1, <1>5
<1> QED BY <1>6, <1>8, <1>9 DEF QueryInv

LEMMA AskEdgeStep ==
  ASSUME QueryInv, NEW p \in Edge, NEW q \in Query, NEW of \in {None} \union Target,
         AskEdge(p, q, of)
  PROVE  QueryInv' /\ asked' # asked
<1> DEFINE a == Handling(p, 0, FALSE)
           b == MruCheck(a, <<None>>)
           everybody == [b EXCEPT !.out = Everybody(b, p, q)]
           sent == SendQuery(a, p, q, <<of>>, <<0>>)
           one == [sent EXCEPT !.ok = Reachable(p, of)]
<1>1. p \in Peer /\ of \in Peer \union {None} /\ Target \subseteq Peer
  BY QueryAssumption DEF Peer
<1>2. Asked(p, q, of, IF of = None THEN everybody ELSE one)
  BY DEF AskEdge
<1>3. Working(a, 0) /\ 0 \in 0 .. 3
  BY DEF Working, Handling
<1> HIDE DEF a
<1>4. Working(b, 0)
  BY <1>3, MruCheckWorks
<1>5. CASE of = None
  <2> HIDE DEF b
  <2>1. \A k \in Everybody(b, p, q) : k \in QueryCopy /\ k.q = q
    BY <1>1, <1>3, <1>4, EverybodySends
  <2>2. everybody.out = Everybody(b, p, q)
    BY <1>4 DEF Working
  <2> HIDE DEF everybody
  <2> QED BY <1>1, <1>2, <1>5, <2>1, <2>2, AskedStep
<1>6. CASE of # None
  <2>1. of \in Peer
    BY <1>1, <1>6
  <2> DEFINE one1 == <<of>>
             zero == <<0>>
  <2>2. \A i \in DOMAIN one1 : one1[i] \in {of} /\ zero[i] \in {0}
    OBVIOUS
  <2>3. {0} \in SUBSET (0 .. 3) /\ {of} \in SUBSET Peer
    BY <2>1
  <2> HIDE DEF one1, zero
  <2>4. Working(sent, 0) /\ Sent(sent.out, q, {of}, {0})
    BY <1>1, <1>3, <2>2, <2>3, SendQuerySends DEF one1, zero
  <2> HIDE DEF sent
  <2>5. one.out = sent.out
    BY <2>4 DEF Working
  <2> HIDE DEF one
  <2>6. \A k \in one.out : k \in QueryCopy /\ k.q = q
    BY <2>4, <2>5 DEF Sent
  <2> QED BY <1>1, <1>2, <1>6, <2>6, AskedStep
<1> QED BY <1>5, <1>6

LEMMA AskRdvStep ==
  ASSUME QueryInv, NEW p \in Rdv, NEW q \in Query, AskRdv(p, q)
  PROVE  QueryInv' /\ asked' # asked
<1>1. PICK peers \in SetToSeqs(Destinations(p, {})) :
        LET a == Forward(Handling(p, 0, FALSE), p, q, {}, peers)
            b == MruCheck([a EXCEPT !.hc = 1], <<None>>)
            walks == Destinations(p, {}) = {}
        IN  Asked(p, q, None,
                  IF walks THEN [b EXCEPT !.out = Everybody(b, p, q), !.ok = TRUE] ELSE a)
  BY DEF AskRdv
<1> DEFINE a == Forward(Handling(p, 0, FALSE), p, q, {}, peers)
           c == [a EXCEPT !.hc = 1]
           b == MruCheck(c, <<None>>)
           everybody == [b EXCEPT !.out = Everybody(b, p, q), !.ok = TRUE]
<1>2. Asked(p, q, None, IF Destinations(p, {}) = {} THEN everybody ELSE a)
  BY <1>1
<1>3. p \in Peer /\ None \in Peer \union {None}
  BY DEF Peer
<1> DEFINE h == Handling(p, 0, FALSE)
<1>4. Working(h, 0) /\ h.out = {} /\ 0 \in 0 .. 3
  BY DEF Working, Handling
<1> HIDE DEF h
<1>5. Nearer(a.out, q, 0) /\ (~ a.ok => MayWalk(a, 0))
  <2>1. a = Forward(h, p, q, {}, peers)
    BY DEF h
  <2> HIDE DEF a
  <2> QED BY <1>4, <2>1, ForwardSends
<1>6. CASE Destinations(p, {}) = {}
  <2>1. ~ a.ok
    <3>1. Indexed(p, {}) = {} /\ Replicas(p) = {} /\ peers = <<>>
      <4>1. Indexed(p, {}) = {} /\ Replicas(p) = {}
        BY <1>6 DEF Destinations
      <4>2. Cardinality(Destinations(p, {})) = 0
        BY <1>6, FS_EmptySet
      <4>3. DOMAIN peers = 1 .. 0 /\ peers \in [1 .. 0 -> {}]
        BY <1>6, <4>2 DEF SetToSeqs
      <4> QED BY <4>1, <4>3
    <3>2. h.hc = 0
      BY <1>4 DEF Working
    <3>3. a = [h EXCEPT !.hc = 1, !.ok = FALSE]
      BY <3>1, <3>2 DEF Forward, SendToReplica, h
    <3> QED BY <1>4, <3>3 DEF Working
  <2>2. MayWalk(a, 0)
    BY <1>5, <2>1
  <2> HIDE DEF a
  <2>3. Working(c, 1)
    BY <2>2 DEF MayWalk, Working
  <2> HIDE DEF c
  <2>4. Working(b, 1)
    BY <2>3, MruCheckWorks
  <2>5. \A k \in Everybody(b, p, q) : k \in QueryCopy /\ k.q = q
    BY <1>3, <2>4, EverybodySends
  <2> HIDE DEF b
  <2>6. everybody.out = Everybody(b, p, q)
    BY <2>4 DEF Working
  <2> HIDE DEF everybody
  <2> QED BY <1>2, <1>3, <1>6, <2>5, <2>6, AskedStep
<1>7. CASE Destinations(p, {}) # {}
  <2> HIDE DEF a
  <2>1. \A k \in a.out : k \in QueryCopy /\ k.q = q
    BY <1>5 DEF Nearer
  <2> QED BY <1>2, <1>3, <1>7, <2>1, AskedStep
<1> QED BY <1>6, <1>7

\* What handling a query does to the rest of the state.
HopStep == QueryInv' /\ \A k \in net' \ net :
  k.to \in Peer /\ \E o \in net \ net' : o.q = k.q /\ Left(k) < Left(o)

LEMMA HandledStep ==
  ASSUME QueryInv, NEW o \in net, o.to \in Rdv \/ net' \subseteq net,
         NEW S, Less(S, o), net' = (net \ {o}) \union S,
         UNCHANGED <<tables, asked, listeners>>, answers' \subseteq Query \X Peer
  PROVE  HopStep
<1>1. net \subseteq QueryCopy /\ QueryTypeOK
  BY DEF QueryInv
<1>2. /\ net' \subseteq QueryCopy
      /\ \A k \in net' \ net :
           k.to \in Peer /\ \E g \in net \ net' : g.q = k.q /\ Left(k) < Left(g)
  BY <1>1, HandledEnds
<1>3. \A k \in net' : k.to \in Peer /\ k.from \in Peer /\ k.hc \in 0 .. 3 /\ asked[k.q] # Nobody
  <2> SUFFICES ASSUME NEW k \in net'
               PROVE  /\ k.to \in Peer /\ k.from \in Peer /\ k.hc \in 0 .. 3
                      /\ asked[k.q] # Nobody
    OBVIOUS
  <2>1. k.to \in Peer /\ k.from \in Peer /\ k.hc \in 0 .. 3
    BY <1>2 DEF QueryCopy
  <2>2. \E g \in net : g.q = k.q
    BY DEF Less
  <2> QED BY <1>1, <2>1, <2>2 DEF QueryTypeOK
<1>4. QueryTypeOK'
  BY <1>1, <1>3 DEF QueryTypeOK, tables
<1> QED BY <1>2, <1>4 DEF HopStep, QueryInv

LEMMA AnswerStep ==
  ASSUME QueryInv, NEW p \in Peer, NEW k \in net, Answer(p, k) \/ Unsolved(p, k)
  PROVE  HopStep
<1>1. k.q \in Query
  BY DEF QueryInv, QueryCopy
<1>2. /\ net' = (net \ {k}) \union {} /\ UNCHANGED <<tables, asked, listeners>>
      /\ answers' \subseteq answers \union {<<k.q, p>>}
  BY DEF Answer, Unsolved
<1>3. answers' \subseteq Query \X Peer
  BY <1>1, <1>2 DEF QueryInv, QueryTypeOK
<1>4. Less({}, k) /\ net' \subseteq net
  BY <1>2 DEF Less
<1> QED BY <1>2, <1>3, <1>4, HandledStep

LEMMA PassOnStep ==
  ASSUME QueryInv, NEW p \in Peer, NEW k \in net, PassOn(p, k)
  PROVE  HopStep
<1> DEFINE drop == {asked[k.q].by}
<1>1. PICK route \in {k.route, TRUE}, peers \in SetToSeqs(Destinations(p, drop)) :
        LET a == Forward(Handling(p, k.hc, route), p, k.q, drop, peers)
        IN  /\ mru' = [mru EXCEPT ![p] = a.mru]
            /\ net' = (net \ {k}) \union a.out \union (IF a.ok THEN {} ELSE Onward(a, p, k))
  BY ZenonT(30) DEF PassOn
<1> DEFINE h == Handling(p, k.hc, route)
           a == Forward(h, p, k.q, drop, peers)
           onward == IF a.ok THEN {} ELSE Onward(a, p, k)
<1>2. /\ p \in Rdv /\ k.to \in Rdv /\ UNCHANGED <<tables, asked, listeners, answers>>
      /\ net' = (net \ {k}) \union (a.out \union onward)
  BY <1>1 DEF PassOn
<1>3. k \in QueryCopy /\ k.hc \in 0 .. 3 /\ k.q \in Query /\ route \in BOOLEAN
  BY DEF QueryInv, QueryCopy
<1>4. Working(h, k.hc) /\ h.out = {}
  BY <1>3, HandlingWorks
<1> HIDE DEF h
<1>5. Nearer(a.out, k.q, k.hc) /\ (~ a.ok => MayWalk(a, k.hc))
  BY <1>2, <1>3, <1>4, ForwardSends
<1> HIDE DEF a, drop
<1>6. Less(a.out, k)
  BY <1>2, <1>3, <1>5, NearerIsLess
<1>7. Less(onward, k)
  <2> SUFFICES ASSUME NEW c \in onward
               PROVE  c \in QueryCopy /\ c.q = k.q /\ Left(c) < Left(k)
    BY DEF Less
  <2>1. ~ a.ok /\ c \in Onward(a, p, k)
    OBVIOUS
  <2> DEFINE b == IF k.route THEN [a EXCEPT !.hc = k.hc, !.route = TRUE] ELSE a
  <2>2. MayWalk(a, k.hc)
    BY <1>5, <2>1
  <2>3. b.hc \in 0 .. 3 /\ k.hc <= b.hc /\ b.route \in BOOLEAN
    <3>1. CASE k.route
      BY <1>3, <2>2, <3>1 DEF MayWalk
    <3>2. CASE ~ k.route
      BY <1>3, <2>2, <3>2 DEF MayWalk
    <3> QED BY <3>1, <3>2
  <2>4. PICK g \in Hops(p, k.walk) : c = Copy(b, p, k.q, g.to, g.walk)
    BY <2>1 DEF Onward
  <2> HIDE DEF b
  <2>5. c = [to |-> g.to, from |-> p, q |-> k.q, hc |-> b.hc, route |-> b.route,
             walk |-> g.walk]
    BY <2>4 DEF Copy
  <2> HIDE DEF onward
  <2> DEFINE hc == b.hc
             onRoute == b.route
  <2>6. hc \in 0 .. 3 /\ k.hc <= hc /\ onRoute \in BOOLEAN
        /\ c = [to |-> g.to, from |-> p, q |-> k.q, hc |-> hc, route |-> onRoute,
                walk |-> g.walk]
    BY <2>3, <2>5
  <2> HIDE DEF hc, onRoute
  <2> QED BY <1>2, <1>3, <2>6, OnwardIsLess
<1> HIDE DEF onward
<1>8. Less(a.out \union onward, k)
  BY <1>6, <1>7 DEF Less
<1>9. answers' \subseteq Query \X Peer
  BY <1>2 DEF QueryInv, QueryTypeOK
<1> QED BY <1>2, <1>8, <1>9, HandledStep

LEMMA OwnQueryStep ==
  ASSUME QueryInv, NEW p \in Peer, NEW k \in net, OwnQuery(p, k)
  PROVE  HopStep
<1> DEFINE S == {[k EXCEPT !.to = h.to, !.from = p, !.walk = h.walk] : h \in Hops(p, k.walk)}
<1>1. /\ p \in Rdv /\ k.to \in Rdv /\ UNCHANGED <<tables, asked, listeners, answers>>
      /\ net' = (net \ {k}) \union S
  BY DEF OwnQuery
<1>2. k \in QueryCopy
  BY DEF QueryInv
<1>3. Less(S, k)
  <2> SUFFICES ASSUME NEW c \in S
               PROVE  c \in QueryCopy /\ c.q = k.q /\ Left(c) < Left(k)
    BY DEF Less
  <2>3. PICK h \in Hops(p, k.walk) : c = [k EXCEPT !.to = h.to, !.from = p, !.walk = h.walk]
    OBVIOUS
  <2> HIDE DEF S
  <2> DEFINE hc == k.hc
             route == k.route
  <2>1. hc \in 0 .. 3 /\ k.hc <= hc /\ route \in BOOLEAN
    BY <1>2 DEF QueryCopy
  <2>2. c = [to |-> h.to, from |-> p, q |-> k.q, hc |-> hc, route |-> route, walk |-> h.walk]
    BY <1>2, <2>3 DEF QueryCopy
  <2> HIDE DEF hc, route
  <2> QED BY <1>1, <1>2, <2>1, <2>2, OnwardIsLess
<1>4. answers' \subseteq Query \X Peer
  BY <1>1 DEF QueryInv, QueryTypeOK
<1> HIDE DEF S
<1> QED BY <1>1, <1>3, <1>4, HandledStep

LEMMA TakeAnswerStep ==
  ASSUME QueryInv, NEW p \in Peer, NEW q \in Query, TakeAnswer(q, p)
  PROVE  HopStep
<1>1. UNCHANGED <<tables, asked, listeners, net>> /\ answers' \subseteq answers
  BY DEF TakeAnswer
<1>2. QueryInv'
  BY <1>1 DEF QueryInv, QueryTypeOK, tables
<1> QED BY <1>1, <1>2 DEF HopStep

----------------------------------------------------------------------------
LEMMA QueryInit == Init => QueryInv
<1> SUFFICES ASSUME Init PROVE QueryInv
  OBVIOUS
<1>1. holds \in [Peer -> SUBSET Elem] /\ replica \in [Rdv -> SUBSET (Rdv \X Elem)]
      /\ srdi \in [Rdv -> SUBSET Edge] /\ listeners = {} /\ answers = {} /\ net = {}
  <2>1. {{}} \union {{e} : e \in Elem} \subseteq SUBSET Elem
    OBVIOUS
  <2> QED BY <2>1 DEF Init
<1>2. asked \in [Query -> [by: Peer \union {None}, of: Peer \union {None}]]
  BY DEF Init, Nobody
<1> QED BY <1>1, <1>2 DEF QueryInv, QueryTypeOK

\* A step asks a new query, or what it sends has less far to go.
LEMMA QueryNext ==
  ASSUME QueryInv, [Next]_queryVars
  PROVE  QueryInv' /\ (asked' = asked => HopStep)
<1>1. ASSUME NEW q \in Query, NEW p \in Edge, NEW of \in {None} \union Target, AskEdge(p, q, of)
      PROVE  QueryInv' /\ (asked' = asked => HopStep)
  BY <1>1, AskEdgeStep
<1>2. ASSUME NEW q \in Query, NEW p \in Rdv, AskRdv(p, q)
      PROVE  QueryInv' /\ (asked' = asked => HopStep)
  BY <1>2, AskRdvStep
<1>3. ASSUME NEW p \in Peer, Handle(p)
      PROVE  QueryInv' /\ (asked' = asked => HopStep)
  <2>1. PICK k \in net : Answer(p, k) \/ Unsolved(p, k) \/ PassOn(p, k) \/ OwnQuery(p, k)
    BY <1>3 DEF Handle
  <2>2. HopStep
    BY <2>1, AnswerStep, PassOnStep, OwnQueryStep
  <2> QED BY <2>2 DEF HopStep
<1>4. ASSUME NEW p \in Peer, NEW q \in Query, TakeAnswer(q, p)
      PROVE  QueryInv' /\ (asked' = asked => HopStep)
  BY <1>4, TakeAnswerStep DEF HopStep
<1>5. CASE UNCHANGED queryVars
  BY <1>5 DEF queryVars, tables, QueryInv, QueryTypeOK, HopStep
<1> QED BY <1>1, <1>2, <1>3, <1>4, <1>5 DEF Next, Ask

(* The state is well formed: the hop count of a query stays between 0 and 3, whatever
   increment_hop_count and hopcount_ok make of the one it came with. *)
THEOREM QueryTypeTheorem == QuerySpec => []QueryTypeOK
<1>1. Init => QueryInv
  BY QueryInit
<1>2. QueryInv /\ [Next]_queryVars => QueryInv'
  BY QueryNext
<1>3. QueryInv => QueryTypeOK
  BY DEF QueryInv
<1> QED BY <1>1, <1>2, <1>3, PTL DEF QuerySpec

(* Every query comes to an end: what a peer sends on, whether forwardQuery_peers sends it
   to the peers of a table or walk to the neighbours in the view, has less far to go than
   the query it received. *)
THEOREM HopsTheorem == QuerySpec => EveryHopCounts
<1> DEFINE Counts == asked' = asked =>
             \A k \in net' \ net :
               k.to \in Peer /\ \E o \in net \ net' : o.q = k.q /\ Left(k) < Left(o)
<1>1. Init => QueryInv
  BY QueryInit
<1>2. QueryInv /\ [Next]_queryVars => QueryInv'
  BY QueryNext
<1>3. QueryInv /\ [Next]_queryVars => [Counts]_queryVars
  BY QueryNext DEF HopStep
<1> QED BY <1>1, <1>2, <1>3, PTL DEF QuerySpec, EveryHopCounts
==============================================================================
