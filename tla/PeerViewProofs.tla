---------------------------- MODULE PeerViewProofs ----------------------------
(***************************************************************************)
(* Theorems about the peer views, for any group, any seeds and any faults: *)
(* the two halves of a view agree, and the neighbours it keeps are those   *)
(* of a ring, so that peers with the same view are neighbours mutually.    *)
(*                                                                         *)
(* The invariant is that up and down are what addjust_up_down_peers would  *)
(* compute from the vector, nobody if selfPVE is not in it.  It is kept by *)
(* every operation on its own, given that a message is about a peer.  The  *)
(* ring is a fact about finite sets of numbers: that such a set has a      *)
(* greatest element is shown by taking a counterexample with the least     *)
(* cardinality.                                                            *)
(***************************************************************************)
EXTENDS PeerView, FiniteSetTheorems, WellFoundedInduction, TLAPS

\* A nonempty set of natural numbers has a least element.
LEMMA LeastNumber ==
  ASSUME NEW S \in SUBSET Nat, S # {}
  PROVE  \E m \in S : \A n \in S : m <= n
<1>1. PICK m \in S : \A n \in S : ~ (<<n, m>> \in OpToRel(<, Nat))
  BY NatLessThanWellFounded, WFMin
<1>2. \A n \in S : ~ (n < m)
  BY <1>1 DEF OpToRel
<1> QED BY <1>2

\* A finite one has a greatest element.
LEMMA GreatestNumber ==
  ASSUME NEW S \in SUBSET Nat, S # {}, IsFiniteSet(S)
  PROVE  \E m \in S : \A n \in S : n <= m
<1> DEFINE Open(T) == T # {} /\ \A m \in T : \E n \in T : m < n
           Sizes   == {k \in Nat : \E T \in SUBSET Nat :
                                     IsFiniteSet(T) /\ Open(T) /\ Cardinality(T) = k}
<1>1. ASSUME Sizes # {} PROVE FALSE
  <2>1. Sizes \in SUBSET Nat
    OBVIOUS
  <2>2. PICK k \in Sizes : \A l \in Sizes : k <= l
    BY <1>1, <2>1, LeastNumber
  <2>3. PICK T \in SUBSET Nat : IsFiniteSet(T) /\ Open(T) /\ Cardinality(T) = k
    BY <2>2
  <2>4. PICK x \in T : TRUE
    BY <2>3
  <2> DEFINE rest == T \ {x}
  <2>5. IsFiniteSet(rest) /\ Cardinality(rest) = k - 1 /\ Cardinality(rest) \in Nat
    BY <2>3, <2>4, FS_RemoveElement, FS_CardinalityType
  <2>6. k \in Nat /\ ~ (k <= k - 1)
    BY <2>2
  <2>7. k - 1 \notin Sizes
    BY <2>2, <2>6
  <2>8. rest \in SUBSET Nat
    OBVIOUS
  <2>9. ~ Open(rest)
    BY <2>5, <2>7, <2>8
  <2>10. PICK y \in T : x < y
    BY <2>3
  <2>11. PICK m \in rest : \A n \in rest : ~ (m < n)
    BY <2>9, <2>10
  <2>12. PICK n \in T : m < n
    BY <2>3, <2>11
  <2>13. n = x
    BY <2>11, <2>12
  <2>14. y \in rest /\ m \in Nat /\ x \in Nat /\ y \in Nat /\ ~ (m < y)
    BY <2>10, <2>11
  <2> QED BY <2>10, <2>12, <2>13, <2>14
<1>2. ~ Open(S)
  <2>1. Cardinality(S) \in Nat
    BY FS_CardinalityType
  <2> QED BY <1>1, <2>1
<1> QED BY <1>2

\* What Min and Max choose.
LEMMA MinIsLeast ==
  ASSUME NEW S \in SUBSET Nat, S # {}
  PROVE  Min(S) \in S /\ \A n \in S : Min(S) <= n
BY LeastNumber DEF Min

LEMMA MaxIsGreatest ==
  ASSUME NEW S \in SUBSET Nat, S # {}, IsFiniteSet(S)
  PROVE  Max(S) \in S /\ \A n \in S : n <= Max(S)
<1>1. \E m \in S : \A n \in S : m >= n
  BY GreatestNumber
<1> QED BY <1>1 DEF Max
----------------------------------------------------------------------------
\* q follows p in the ring: the next number up, or the least after the greatest.
Follows(S, p, q) ==
  \/ p < q /\ \A x \in S : ~ (p < x /\ x < q)
  \/ (\A x \in S : x <= p) /\ \A x \in S : q <= x

\* The neighbour up of p is the one that follows it.
LEMMA UpFollows ==
  ASSUME NEW S \in SUBSET Nat, IsFiniteSet(S), NEW p \in S, NEW q \in S, p # q
  PROVE  UpOf(S, p) = q <=> Follows(S, p, q)
<1> DEFINE above == {x \in S : x > p}
<1>1. S # {p}
  OBVIOUS
<1>2. CASE above # {}
  <2>1. UpOf(S, p) = Min(above)
    BY <1>1, <1>2 DEF UpOf
  <2>2. Min(above) \in above /\ \A n \in above : Min(above) <= n
    BY <1>2, MinIsLeast
  <2> HIDE DEF above
  <2> DEFINE u == Min(above)
  <2>3. u \in S /\ p < u /\ \A n \in S : p < n => u <= n
    BY <2>2 DEF above
  <2> HIDE DEF u
  <2>4. u = q <=> Follows(S, p, q)
    BY <2>3 DEF Follows
  <2> QED BY <2>1, <2>4 DEF u
<1>3. CASE above = {}
  <2>1. UpOf(S, p) = Min(S)
    BY <1>1, <1>3 DEF UpOf
  <2>2. Min(S) \in S /\ \A n \in S : Min(S) <= n
    BY MinIsLeast
  <2>3. \A x \in S : x <= p
    BY <1>3
  <2> DEFINE u == Min(S)
  <2> HIDE DEF u
  <2>4. u \in S /\ \A n \in S : u <= n
    BY <2>2 DEF u
  <2>5. u = q <=> Follows(S, p, q)
    BY <2>3, <2>4 DEF Follows
  <2> QED BY <2>1, <2>5 DEF u
<1> QED BY <1>2, <1>3

\* The neighbour down of q is the one that it follows.
LEMMA DownFollows ==
  ASSUME NEW S \in SUBSET Nat, IsFiniteSet(S), NEW p \in S, NEW q \in S, p # q
  PROVE  DownOf(S, q) = p <=> Follows(S, p, q)
<1> DEFINE below == {x \in S : x < q}
<1>1. S # {q}
  OBVIOUS
<1>2. CASE below # {}
  <2>1. DownOf(S, q) = Max(below)
    BY <1>1, <1>2 DEF DownOf
  <2>2. IsFiniteSet(below)
    BY FS_Subset
  <2>3. Max(below) \in below /\ \A n \in below : n <= Max(below)
    BY <1>2, <2>2, MaxIsGreatest
  <2> HIDE DEF below
  <2> DEFINE d == Max(below)
  <2>4. d \in S /\ d < q /\ \A n \in S : n < q => n <= d
    BY <2>3 DEF below
  <2> HIDE DEF d
  <2>5. d = p <=> Follows(S, p, q)
    BY <2>4 DEF Follows
  <2> QED BY <2>1, <2>5 DEF d
<1>3. CASE below = {}
  <2>1. DownOf(S, q) = Max(S)
    BY <1>1, <1>3 DEF DownOf
  <2>2. Max(S) \in S /\ \A n \in S : n <= Max(S)
    BY MaxIsGreatest
  <2>3. \A x \in S : q <= x
    BY <1>3
  <2> DEFINE d == Max(S)
  <2> HIDE DEF d
  <2>4. d \in S /\ \A n \in S : n <= d
    BY <2>2 DEF d
  <2>5. d = p <=> Follows(S, p, q)
    BY <2>3, <2>4 DEF Follows
  <2> QED BY <2>1, <2>5 DEF d
<1> QED BY <1>2, <1>3

\* The neighbours of p are others in the ring, or nobody.
LEMMA NeighboursInRing ==
  ASSUME NEW S \in SUBSET Nat, IsFiniteSet(S), NEW p
  PROVE  {UpOf(S, p), DownOf(S, p)} \subseteq (S \ {p}) \union {None}
<1> DEFINE above == {x \in S : x > p}
           below == {x \in S : x < p}
<1>1. CASE p \notin S \/ S = {p}
  BY <1>1 DEF UpOf, DownOf
<1>2. CASE p \in S /\ S # {p}
  <2>1. UpOf(S, p) \in S \ {p}
    <3>1. CASE above # {}
      <4>1. UpOf(S, p) = Min(above) /\ Min(above) \in above
        BY <1>2, <3>1, MinIsLeast DEF UpOf
      <4>2. p \in Nat
        BY <1>2
      <4> QED BY <4>1, <4>2
    <3>2. CASE above = {}
      <4>1. UpOf(S, p) = Min(S) /\ Min(S) \in S /\ \A n \in S : Min(S) <= n
        BY <1>2, <3>2, MinIsLeast DEF UpOf
      <4>2. PICK n \in S : n # p
        BY <1>2
      <4>3. ~ (n > p) /\ n \in Nat /\ p \in Nat
        BY <1>2, <3>2
      <4> QED BY <4>1, <4>2, <4>3
    <3> QED BY <3>1, <3>2
  <2>2. DownOf(S, p) \in S \ {p}
    <3>1. CASE below # {}
      <4>1. IsFiniteSet(below) /\ below \in SUBSET Nat
        BY FS_Subset
      <4>2. DownOf(S, p) = Max(below) /\ Max(below) \in below
        BY <1>2, <3>1, <4>1, MaxIsGreatest DEF DownOf
      <4>3. p \in Nat
        BY <1>2
      <4> QED BY <4>2, <4>3
    <3>2. CASE below = {}
      <4>1. DownOf(S, p) = Max(S) /\ Max(S) \in S /\ \A n \in S : n <= Max(S)
        BY <1>2, <3>2, MaxIsGreatest DEF DownOf
      <4>2. PICK n \in S : n # p
        BY <1>2
      <4>3. ~ (n < p) /\ n \in Nat /\ p \in Nat
        BY <1>2, <3>2
      <4> QED BY <4>1, <4>2, <4>3
    <3> QED BY <3>1, <3>2
  <2> QED BY <2>1, <2>2
<1> QED BY <1>1, <1>2
----------------------------------------------------------------------------
(***************************************************************************)
(* What every operation on the view of a peer keeps.                       *)
(***************************************************************************)
ViewOK(p, v) ==
  /\ v \in Views /\ v.order \subseteq v.table
  /\ v.up = IF v.self THEN UpOf(v.order, p) ELSE None
  /\ v.down = IF v.self THEN DownOf(v.order, p) ELSE None

ViewInv ==
  /\ view \in [Peer -> Views]
  /\ \A p \in Peer : ViewOK(p, view[p])
  /\ \A m \in net : m.about \in Peer

\* The vectors are finite sets of numbers.
LEMMA OrderIsFinite ==
  ASSUME NEW S \in SUBSET Peer
  PROVE  IsFiniteSet(S) /\ S \in SUBSET Nat
BY FS_Subset, ViewAssumption DEF ViewAssumption

\* addjust_up_down_peers makes a view whose halves agree whole.
LEMMA AdjustMends ==
  ASSUME NEW p \in Peer, NEW v \in Views, v.order \subseteq v.table
  PROVE  ViewOK(p, Adjust(p, v))
<1> DEFINE u == IF v.self THEN UpOf(v.order, p) ELSE None
           d == IF v.self THEN DownOf(v.order, p) ELSE None
<1>1. v.order \in SUBSET Peer /\ v.table \in SUBSET Peer
  BY DEF Views
<1>2. {u, d} \subseteq Peer \union {None}
  BY <1>1, OrderIsFinite, NeighboursInRing
<1>3. Adjust(p, v) = [v EXCEPT !.up = u, !.down = d]
  BY DEF Adjust
<1> HIDE DEF u, d
<1>4. /\ Adjust(p, v).up = u /\ Adjust(p, v).down = d
      /\ Adjust(p, v).order = v.order /\ Adjust(p, v).table = v.table
      /\ Adjust(p, v).self = v.self
      /\ Adjust(p, v) \in Views
  BY <1>1, <1>2, <1>3 DEF Views
<1> QED BY <1>4 DEF ViewOK, u, d

\* An empty view is whole.
LEMMA EmptyIsWhole == ASSUME NEW p PROVE ViewOK(p, EmptyView)
<1>1. UpOf({}, p) = None /\ DownOf({}, p) = None
  BY DEF UpOf, DownOf
<1> QED BY <1>1 DEF ViewOK, EmptyView, Views

\* jxta_peerview_add_pve, jxta_peerview_remove_pve and remove_expired_PVEs.
LEMMA AddKeepsView ==
  ASSUME NEW p \in Peer, NEW v, ViewOK(p, v), NEW q \in Peer, NEW self \in BOOLEAN
  PROVE  ViewOK(p, AddPve(p, v, q, self))
<1> DEFINE w == [v EXCEPT !.table = @ \union {q}, !.order = @ \union {q}, !.self = @ \/ self]
<1>1. w \in Views /\ w.order \subseteq w.table
  BY DEF ViewOK, Views
<1> HIDE DEF w
<1>2. ViewOK(p, Adjust(p, w))
  BY <1>1, AdjustMends
<1> QED BY <1>2 DEF AddPve, w

LEMMA RemoveKeepsView ==
  ASSUME NEW p \in Peer, NEW v, ViewOK(p, v), NEW q
  PROVE  ViewOK(p, RemovePve(p, v, q))
<1> DEFINE w == [v EXCEPT !.table = @ \ {q}, !.order = @ \ {q}, !.self = @ /\ q # p]
<1>1. w \in Views /\ w.order \subseteq w.table
  BY DEF ViewOK, Views
<1> HIDE DEF w
<1>2. ViewOK(p, Adjust(p, w))
  BY <1>1, AdjustMends
<1> QED BY <1>2 DEF RemovePve, w

LEMMA ExpiryKeepsView ==
  ASSUME NEW p \in Peer, NEW v, ViewOK(p, v), NEW expired
  PROVE  ViewOK(p, RemoveExpired(p, v, expired))
<1> DEFINE w == [v EXCEPT !.order = @ \ expired]
<1>1. w \in Views /\ w.order \subseteq w.table
  BY DEF ViewOK, Views
<1> HIDE DEF w
<1>2. ViewOK(p, Adjust(p, w))
  BY <1>1, AdjustMends
<1> QED BY <1>2 DEF RemoveExpired, w

\* One peer's view changes to a whole one.
LEMMA OneViewChanges ==
  ASSUME ViewInv, NEW p \in Peer, NEW v, ViewOK(p, v), view' = [view EXCEPT ![p] = v],
         \A m \in net' : m.about \in Peer
  PROVE  ViewInv'
<1>1. v \in Views
  BY DEF ViewOK
<1>2. view' \in [Peer -> Views] /\ \A q \in Peer : view'[q] = IF q = p THEN v ELSE view[q]
  BY <1>1 DEF ViewInv
<1>3. \A q \in Peer : ViewOK(q, view'[q])
  BY <1>2 DEF ViewInv
<1> QED BY <1>2, <1>3 DEF ViewInv

\* A referral is to somebody in the view, or to the peer itself.
LEMMA ReferralsInView ==
  ASSUME NEW p, NEW v, NEW q, NEW times, NEW R \in Referrals(p, v, q, times), NEW k \in R
  PROVE  k.about \in v.order \union {p}
<1>1. R = {} \/ R \subseteq Known(p, v, q) \/ R = {SelfPvm(p, q, TRUE)}
  <2> DEFINE K == Known(p, v, q)
             B == Cardinality(v.order) > (IF Running(p) THEN 1 ELSE 0)
  <2>1. R \in CASE v.order = {} -> {{}}
              [] B -> {T \in SUBSET K : Cardinality(T) <= times /\ (T = {} => q \in v.order)}
              [] OTHER -> {{SelfPvm(p, q, TRUE)}}
    BY Zenon DEF Referrals
  <2> HIDE DEF K, B
  <2>2. R = {} \/ R \subseteq K \/ R = {SelfPvm(p, q, TRUE)}
    BY <2>1
  <2> QED BY <2>2 DEF K
<1>2. ASSUME k \in Known(p, v, q) PROVE k.about \in v.order
  <2>1. PICK e \in v.order : k = Pvm(p, e, e # p \/ ~v.self, q, TRUE)
    BY <1>2, Zenon DEF Known
  <2> DEFINE cached == e # p \/ ~v.self
  <2> HIDE DEF cached
  <2>2. k.about = e
    BY <2>1 DEF Pvm
  <2> QED BY <2>2
<1>3. SelfPvm(p, q, TRUE).about = p
  BY DEF SelfPvm, Pvm
<1> QED BY <1>1, <1>2, <1>3

\* get_pve keeps a view whole.
LEMMA GetKeepsView ==
  ASSUME NEW p \in Peer, NEW v, ViewOK(p, v), NEW m, m.about \in Peer
  PROVE  ViewOK(p, GetPve(p, v, m))
BY AddKeepsView DEF GetPve

\* Handling a message that is about a peer keeps the invariant.
LEMMA ProcessKeepsViews ==
  ASSUME ViewInv, NEW p \in Peer, NEW m, m.about \in Peer, NEW times, NEW rest,
         \A k \in rest : k.about \in Peer, Process(p, m, rest, times)
  PROVE  ViewInv'
<1>1. ViewOK(p, view[p])
  BY DEF ViewInv
<1>2. CASE m.failure
  <2>1. view' = [view EXCEPT ![p] = RemovePve(p, view[p], m.about)] /\ net' = rest
    BY <1>2 DEF Process, ViewInv
  <2>2. ViewOK(p, RemovePve(p, view[p], m.about))
    BY <1>1, RemoveKeepsView
  <2> QED BY <2>1, <2>2, OneViewChanges
<1>3. CASE ~ m.failure
  <2> DEFINE v == GetPve(p, view[p], m)
  <2>1. PICK R \in Refer(p, v, m, times) :
          /\ view' = [view EXCEPT ![p] = v]
          /\ net' = rest \union Answer(p, m) \union Probe(p, m) \union R
    BY <1>3 DEF Process
  <2>2. ViewOK(p, v)
    BY <1>1, GetKeepsView
  <2> HIDE DEF v
  <2>3. v.order \subseteq Peer
    BY <2>2 DEF ViewOK, Views
  <2>4. \A k \in Answer(p, m) \union Probe(p, m) : k.about = p
    BY DEF Answer, Probe, SelfPvm, Pvm
  <2>5. \A k \in R : k.about \in v.order \union {p}
    BY <2>1, ReferralsInView DEF Refer
  <2>6. \A k \in net' : k.about \in Peer
    BY <2>1, <2>3, <2>4, <2>5
  <2> QED BY <2>1, <2>2, <2>6, OneViewChanges
<1> QED BY <1>2, <1>3

\* So does sending on the pipe, heard by the peer itself or not.
LEMMA PipeKeepsViews ==
  ASSUME ViewInv, NEW p \in Peer, NEW announce, NEW failure, SendOnPipe(p, announce, failure)
  PROVE  ViewInv'
<1> DEFINE sent == net \union ToOthers(p, announce, failure)
           m    == RdvRequest(p, p, announce, failure)
<1>1. m.about = p /\ \A k \in sent : k.about \in Peer
  BY DEF ViewInv, ToOthers, RdvRequest
<1>2. CASE Echoed(p)
  <2>1. Process(p, m, sent, hears[p])
    BY <1>2 DEF SendOnPipe
  <2> HIDE DEF m, sent
  <2> QED BY <1>1, <2>1, ProcessKeepsViews
<1>3. CASE ~ Echoed(p)
  <2>1. net' = sent /\ UNCHANGED view
    BY <1>3 DEF SendOnPipe
  <2> QED BY <1>1, <2>1 DEF ViewInv
<1> QED BY <1>2, <1>3

\* The rest of a round: neighbours that cannot be reached are removed, one after the other,
\* and the announcement may make an own entry.
LEMMA RoundSendKeepsViews ==
  ASSUME ViewInv, NEW p \in Peer, RoundSend(p)
  PROVE  ViewInv'
<1> DEFINE m == RdvRequest(p, p, TRUE, FALSE)
           V1(gone) == Kept(p, view[p], round[p].down, gone)
           V2(gone) == Kept(p, V1(gone), round[p].up, gone)
           V3(gone) == IF Echoed(p) THEN GetPve(p, V2(gone), m) ELSE V2(gone)
<1>1. PICK gone \in SUBSET ({round[p].up, round[p].down} \ {None}) :
        /\ \E D \in Refresh(p, view[p], round[p].down, gone),
              U \in Refresh(p, V1(gone), round[p].up, gone), seeds \in SeedBatches(p, V2(gone)) :
             net' = net \union D \union U \union {SelfPvm(p, q, FALSE) : q \in seeds}
                        \union ToOthers(p, TRUE, FALSE)
        /\ view' = [view EXCEPT ![p] = V3(gone)]
  BY DEF RoundSend
<1>2. \A v, q : ViewOK(p, v) => ViewOK(p, Kept(p, v, q, gone))
  BY RemoveKeepsView DEF Kept
<1>3. ViewOK(p, view[p])
  BY DEF ViewInv
<1>4. ViewOK(p, V1(gone))
  BY <1>2, <1>3
<1>5. ViewOK(p, V2(gone))
  <2> HIDE DEF V1
  <2> QED BY <1>2, <1>4
<1>6. ViewOK(p, V3(gone))
  <2>1. m.about = p
    BY DEF RdvRequest
  <2> HIDE DEF V2, m
  <2> QED BY <1>5, <2>1, GetKeepsView
<1>7. \A k \in net' : k.about \in Peer
  <2> HIDE DEF V1, V2, V3
  <2>1. PICK D \in Refresh(p, view[p], round[p].down, gone),
             U \in Refresh(p, V1(gone), round[p].up, gone), seeds \in SeedBatches(p, V2(gone)) :
               net' = net \union D \union U \union {SelfPvm(p, q, FALSE) : q \in seeds}
                          \union ToOthers(p, TRUE, FALSE)
    BY <1>1
  <2>2. \A v, q : \A B \in Refresh(p, v, q, gone) : \A k \in B : k.about = p
    BY DEF Refresh, SelfPvm, Pvm
  <2>3. \A k \in ToOthers(p, TRUE, FALSE) : k.about = p
    BY DEF ToOthers, RdvRequest
  <2>4. \A q : SelfPvm(p, q, FALSE).about = p
    BY DEF SelfPvm, Pvm
  <2>5. \A k \in net : k.about \in Peer
    BY DEF ViewInv
  <2>6. \A k \in net' : \/ k \in net \/ k \in D \/ k \in U \/ k \in ToOthers(p, TRUE, FALSE)
                       \/ \E q \in seeds : k = SelfPvm(p, q, FALSE)
    BY <2>1
  <2>7. \A k \in D \union U : k.about = p
    BY <2>1, <2>2
  <2> QED BY <2>3, <2>4, <2>5, <2>6, <2>7
<1>8. view' = [view EXCEPT ![p] = V3(gone)]
  BY <1>1
<1> HIDE DEF V3
<1> QED BY <1>6, <1>7, <1>8, OneViewChanges

\* Every step keeps the invariant.
LEMMA ViewNext == ViewInv /\ [Next]_viewVars => ViewInv'
<1> SUFFICES ASSUME ViewInv, [Next]_viewVars PROVE ViewInv'
  OBVIOUS
<1>1. ASSUME UNCHANGED view, \A m \in net' : m.about \in Peer PROVE ViewInv'
  BY <1>1 DEF ViewInv
<1>2. \A p \in Peer : ViewOK(p, view[p])
  BY DEF ViewInv
<1>3. \A m \in net : m.about \in Peer
  BY DEF ViewInv
<1>4. ASSUME NEW p \in Peer, NEW m \in net, Receive(p, m) PROVE ViewInv'
  <2>1. CASE net' = net \ {m} /\ UNCHANGED view
    BY <1>1, <1>3, <2>1
  <2>2. CASE Process(p, m, net \ {m}, IF m.wire THEN hears[p] ELSE 1)
    BY <1>3, <2>2, ProcessKeepsViews
  <2> QED BY <1>4, <2>1, <2>2 DEF Receive
<1>5. ASSUME NEW p \in Peer, NEW q \in Peer, ProbeCached(p, q) PROVE ViewInv'
  <2> DEFINE m == [to |-> p, about |-> q, response |-> FALSE, edge |-> FALSE, cached |-> TRUE,
                   failure |-> FALSE, wire |-> FALSE]
  <2>1. Process(p, m, net, 1) /\ m.about = q
    BY <1>5 DEF ProbeCached
  <2> HIDE DEF m
  <2> QED BY <1>3, <2>1, ProcessKeepsViews
<1>6. ASSUME NEW p \in Peer, EdgeRequest(p) PROVE ViewInv'
  BY <1>6, PipeKeepsViews DEF EdgeRequest
<1>7. ASSUME NEW p \in Peer, Start(p) PROVE ViewInv'
  <2>1. view' = [view EXCEPT ![p] = AddPve(p, view[p], p, TRUE)] /\ net' = net
    BY <1>7 DEF Start, ViewInv
  <2> QED BY <1>2, <1>3, <2>1, AddKeepsView, OneViewChanges
<1>8. ASSUME NEW p \in Peer, StopNotice(p) PROVE ViewInv'
  BY <1>8, PipeKeepsViews DEF StopNotice
<1>8a. ASSUME NEW p \in Peer, StopRemove(p) PROVE ViewInv'
  <2>1. view' = [view EXCEPT ![p] = RemovePve(p, view[p], p)] /\ net' = net
    BY <1>8a DEF StopRemove, ViewInv
  <2>2. ViewOK(p, RemovePve(p, view[p], p))
    BY <1>2, RemoveKeepsView
  <2> QED BY <1>3, <2>1, <2>2, OneViewChanges
<1>9. ASSUME NEW p \in Peer, RoundBegin(p) \/ GetLocalView(p) PROVE ViewInv'
  <2>1. view' = [view EXCEPT ![p] = RemoveExpired(p, view[p], stale[p])] /\ net' = net
    BY <1>9 DEF RoundBegin, GetLocalView, ViewInv
  <2>2. ViewOK(p, RemoveExpired(p, view[p], stale[p]))
    BY <1>2, ExpiryKeepsView
  <2> QED BY <1>3, <2>1, <2>2, OneViewChanges
<1>10. ASSUME NEW p \in Peer, RoundSend(p) PROVE ViewInv'
  BY <1>10, RoundSendKeepsViews
<1>11. ASSUME NEW p \in Peer, Crash(p) PROVE ViewInv'
  <2>1. view' = [view EXCEPT ![p] = EmptyView] /\ net' = net
    BY <1>11 DEF Crash
  <2> QED BY <1>3, <2>1, EmptyIsWhole, OneViewChanges
<1>12. ASSUME NEW p, NEW q, \/ Expire(p, q) \/ ExpireLate(p, q)
                             \/ Initialise(p) \/ StopDone(p)
       PROVE  ViewInv'
  BY <1>1, <1>3, <1>12 DEF Expire, ExpireLate, Initialise, StopDone
<1>13. ASSUME NEW m \in net, Lose(m) PROVE ViewInv'
  BY <1>1, <1>3, <1>13 DEF Lose
<1>14. CASE UNCHANGED viewVars
  BY <1>1, <1>3, <1>14 DEF viewVars
<1> QED
  BY <1>4, <1>5, <1>6, <1>7, <1>8, <1>8a, <1>9, <1>10, <1>11, <1>12, <1>13, <1>14 DEF Next

\* It holds in the beginning.
LEMMA ViewInit == Init => ViewInv
<1> SUFFICES ASSUME Init PROVE ViewInv
  OBVIOUS
<1>1. \A p \in Peer : view[p] = EmptyView /\ ViewOK(p, view[p])
  BY EmptyIsWhole DEF Init
<1> QED BY <1>1 DEF Init, ViewInv, ViewOK
----------------------------------------------------------------------------
(***************************************************************************)
(* What a view shows is in its table, and its neighbours are others that   *)
(* it shows, whatever was added, removed, refused or has expired.          *)
(***************************************************************************)
THEOREM HalvesTheorem == ViewSpec => []HalvesAgree
<1>1. ViewInv => HalvesAgree
  <2> SUFFICES ASSUME ViewInv, NEW p \in Peer
               PROVE  /\ view[p].order \subseteq view[p].table
                      /\ {view[p].up, view[p].down} \subseteq (view[p].order \ {p}) \union {None}
    BY DEF HalvesAgree
  <2>1. view[p].order \in SUBSET Peer /\ ViewOK(p, view[p])
    BY DEF ViewInv, Views
  <2> QED BY <2>1, OrderIsFinite, NeighboursInRing DEF ViewOK
<1> QED BY <1>1, ViewInit, ViewNext, PTL DEF ViewSpec

(***************************************************************************)
(* Peers with the same view, and with selfPVE in it, are each other's up   *)
(* and down peer or neither, and two that know only each other are         *)
(* neighbours, however rounds, handlers, stops and restarts interleave: a  *)
(* walk that goes up and one that goes down meet the same ring.            *)
(***************************************************************************)
THEOREM RingTheorem == ViewSpec => []NeighboursMatch
<1>1. ViewInv => NeighboursMatch
  <2> SUFFICES ASSUME ViewInv, NEW p \in Peer, NEW q \in Peer, p # q,
                      view[p].self, view[q].self,
                      view[p].order = view[q].order, {p, q} \subseteq view[p].order
               PROVE  /\ view[p].up = q <=> view[q].down = p
                      /\ Cardinality(view[p].order) = 2 => view[p].up = q
    BY DEF NeighboursMatch, AreNeighbours
  <2> DEFINE S == view[p].order
  <2>1. S \in SUBSET Peer /\ view[p].up = UpOf(S, p) /\ view[q].down = DownOf(S, q)
    BY DEF ViewInv, ViewOK, Views
  <2>2. IsFiniteSet(S) /\ S \in SUBSET Nat /\ p \in S /\ q \in S
    BY <2>1, OrderIsFinite
  <2> HIDE DEF S
  <2>3. /\ UpOf(S, p) = q <=> Follows(S, p, q)
        /\ DownOf(S, q) = p <=> Follows(S, p, q)
    BY <2>2, UpFollows, DownFollows
  <2>4. ASSUME Cardinality(S) = 2 PROVE Follows(S, p, q)
    <3>1. IsFiniteSet(S \ {p}) /\ Cardinality(S \ {p}) = 1 /\ q \in S \ {p}
      BY <2>2, <2>4, FS_RemoveElement
    <3>2. IsFiniteSet((S \ {p}) \ {q}) /\ Cardinality((S \ {p}) \ {q}) = 0
      BY ONLY <3>1, FS_RemoveElement
    <3>3. (S \ {p}) \ {q} = {}
      BY <3>2, FS_EmptySet
    <3>4. \A x \in S : x = p \/ x = q
      BY <3>3
    <3>5. p \in Nat /\ q \in Nat
      BY <2>2
    <3>6. CASE p < q
      <4>1. \A x \in S : ~ (p < x /\ x < q)
        BY <3>4, <3>5
      <4> QED BY <3>6, <4>1 DEF Follows
    <3>7. CASE ~ (p < q)
      <4>1. (\A x \in S : x <= p) /\ \A x \in S : q <= x
        BY <3>4, <3>5, <3>7
      <4> QED BY <4>1 DEF Follows
    <3> QED BY <3>6, <3>7
  <2> QED BY <2>1, <2>3, <2>4 DEF S
<1> QED BY <1>1, ViewInit, ViewNext, PTL DEF ViewSpec
============================================================================
