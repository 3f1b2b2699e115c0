-------------------------- MODULE WireServiceProofs --------------------------
(***************************************************************************)
(* Theorems about propagated pipes, for any rendezvous and edge peers, any *)
(* views, messages, listeners and handlers.                                *)
(*                                                                         *)
(* A message is counted at a peer twice: in the list of those seen, and    *)
(* among the packets that are handled.  While the list forgets nothing the *)
(* two numbers are together at most that of the handlers.                  *)
(***************************************************************************)
EXTENDS WireService, FiniteSetTheorems, FunctionTheorems, SequenceTheorems, TLAPS

\* Where id is in a list, counted from the oldest.
Entries(s, id) == {n \in 1 .. Len(s) : s[Len(s) + 1 - n] = id}

\* The packets with message id that p handles.
Handled(p, id) == {k \in handling[p] : k.id = id}

WireTypes ==
  /\ sent \in [Msg -> Peer \cup {None}]
  /\ seen \in [Peer -> Seq(Msg)]
  /\ given \in [Peer -> [Msg -> Nat]]
  /\ DOMAIN handling = Peer
  /\ \A k \in net : k.id \in Msg /\ sent[k.id] # None
  /\ \A p \in Peer : \A k \in handling[p] : k.id \in Msg /\ sent[k.id] \notin {None, p}

\* A message that was not sent was given to nobody, and its sender gave it once.
SentOnceInv ==
  \A p \in Peer, id \in Msg :
    /\ sent[id] = None => given[p][id] = 0
    /\ sent[id] = p => given[p][id] <= 1

\* A peer that did not send it gave it as often as it is in the list, and the
\* handlers are as many as may enter it.
CountedInv ==
  \A p \in Peer :
    /\ IsFiniteSet(handling[p]) /\ Cardinality(handling[p]) <= Handlers
    /\ \A n \in 1 .. Len(seen[p]) : sent[seen[p][n]] # None
    /\ \A id \in Msg :
         /\ sent[id] # p => given[p][id] <= Cardinality(Entries(seen[p], id))
         /\ Cardinality(Entries(seen[p], id)) + Cardinality(Handled(p, id)) <= Handlers

----------------------------------------------------------------------------
\* The list.

LEMMA UpTo ==
  ASSUME NEW n \in Nat
  PROVE  Cardinality(1 .. n) = n
BY FS_Interval

LEMMA EntriesFinite ==
  ASSUME NEW s \in Seq(Msg), NEW id
  PROVE  IsFiniteSet(Entries(s, id)) /\ Cardinality(Entries(s, id)) \in Nat
<1>1. Len(s) \in Nat /\ IsFiniteSet(1 .. Len(s)) /\ Entries(s, id) \in SUBSET (1 .. Len(s))
  BY FS_Interval DEF Entries
<1> QED BY <1>1, FS_Subset, FS_CardinalityType

LEMMA EntriesNew ==
  ASSUME NEW s \in Seq(Msg), NEW x \in Msg, NEW id \in Msg
  PROVE  /\ <<x>> \o s \in Seq(Msg)
         /\ Cardinality(Entries(<<x>> \o s, id)) =
              Cardinality(Entries(s, id)) + (IF id = x THEN 1 ELSE 0)
<1> DEFINE a == <<x>>
           b == a \o s
<1>1. a \in Seq(Msg) /\ Len(a) = 1 /\ a[1] = x
  OBVIOUS
<1> HIDE DEF a
<1>2. /\ b \in Seq(Msg) /\ Len(b) = Len(s) + 1 /\ Len(s) \in Nat
      /\ \A i \in 1 .. Len(s) + 1 : b[i] = IF i <= 1 THEN a[i] ELSE s[i - 1]
  <2>1. /\ b \in Seq(Msg) /\ Len(b) = Len(a) + Len(s)
        /\ \A i \in 1 .. Len(a) + Len(s) : b[i] = IF i <= Len(a) THEN a[i] ELSE s[i - Len(a)]
    BY <1>1, ConcatProperties
  <2> HIDE DEF b
  <2>2. Len(s) \in Nat /\ Len(a) + Len(s) = Len(s) + 1
    BY <1>1
  <2> QED BY <1>1, <2>1, <2>2
<1> HIDE DEF b
<1>3. ASSUME NEW n \in 1 .. Len(s)
      PROVE  n \in 1 .. Len(b) /\ b[Len(b) + 1 - n] = s[Len(s) + 1 - n]
  <2> DEFINE i == Len(b) + 1 - n
  <2>1. i \in 1 .. Len(s) + 1 /\ ~ (i <= 1) /\ i - 1 = Len(s) + 1 - n /\ n \in 1 .. Len(b)
    BY <1>2
  <2> HIDE DEF i
  <2>2. b[i] = s[i - 1]
    BY <1>2, <2>1
  <2> QED BY <2>1, <2>2 DEF i
<1>4. Len(s) + 1 \in 1 .. Len(b) /\ b[Len(b) + 1 - (Len(s) + 1)] = x
  <2>1. Len(b) + 1 - (Len(s) + 1) = 1 /\ 1 \in 1 .. Len(s) + 1 /\ Len(s) + 1 \in 1 .. Len(b)
    BY <1>2
  <2> QED BY <1>1, <1>2, <2>1
<1>5. \A n \in 1 .. Len(b) : n \in 1 .. Len(s) \/ n = Len(s) + 1
  BY <1>2
<1>6. Entries(b, id) = Entries(s, id) \cup (IF id = x THEN {Len(s) + 1} ELSE {})
  BY <1>3, <1>4, <1>5 DEF Entries
<1>7. Len(s) + 1 \notin Entries(s, id)
  BY <1>2 DEF Entries
<1>8. IsFiniteSet(Entries(s, id)) /\ Cardinality(Entries(s, id)) \in Nat
  BY EntriesFinite
<1>9. Cardinality(Entries(b, id)) = Cardinality(Entries(s, id)) + (IF id = x THEN 1 ELSE 0)
  <2>1. CASE id = x
    BY <1>6, <1>7, <1>8, <2>1, FS_AddElement
  <2>2. CASE id # x
    BY <1>6, <1>8, <2>2
  <2> QED BY <2>1, <2>2
<1>10. b \in Seq(Msg)
  BY <1>2
<1> QED BY <1>9, <1>10 DEF b, a

LEMMA EntriesSeen ==
  ASSUME NEW s \in Seq(Msg), NEW id \in Msg, id \notin Range(s)
  PROVE  Cardinality(Entries(s, id)) = 0
<1>1. \A n \in 1 .. Len(s) : Len(s) + 1 - n \in DOMAIN s
  OBVIOUS
<1>2. Entries(s, id) = {}
  BY <1>1 DEF Entries, Range
<1> QED BY <1>2, FS_EmptySet

(* A list of finitely many messages, each at most H times and one of them
   less often, is shorter than H times their number. *)
LEMMA ListIsShort ==
  ASSUME IsFiniteSet(Msg), NEW H \in Nat, NEW s \in Seq(Msg), NEW x \in Msg,
         \A id \in Msg : Cardinality(Entries(s, id)) <= H,
         Cardinality(Entries(s, x)) < H
  PROVE  Len(s) < H * Cardinality(Msg)
<1> DEFINE c(id) == Cardinality(Entries(s, id))
           g == [id \in Msg |-> CHOOSE f : f \in Injection(Entries(s, id), 1 .. c(id))]
           pair(n) == <<s[Len(s) + 1 - n], g[s[Len(s) + 1 - n]][n]>>
           N == 1 .. Len(s)
           T == (Msg \X (1 .. H)) \ {<<x, H>>}
           F == [n \in N |-> pair(n)]
<1>1. ASSUME NEW id \in Msg
      PROVE  /\ c(id) \in Nat /\ g[id] \in [Entries(s, id) -> 1 .. c(id)]
             /\ \A m, n \in Entries(s, id) : g[id][m] = g[id][n] => m = n
  <2>1. IsFiniteSet(Entries(s, id)) /\ c(id) \in Nat
    BY EntriesFinite
  <2>2. ExistsBijection(1 .. c(id), Entries(s, id))
    BY <2>1, FS_CardinalityType
  <2>3. ExistsBijection(Entries(s, id), 1 .. c(id))
    BY <2>2, Fun_ExistsBijSymmetric
  <2>4. \E f : f \in Injection(Entries(s, id), 1 .. c(id))
    BY <2>3 DEF ExistsBijection, Bijection
  <2>5. g[id] \in Injection(Entries(s, id), 1 .. c(id))
    BY <2>4
  <2> HIDE DEF g, c
  <2> QED BY <2>1, <2>5, Fun_InjectionProperties DEF c
<1>2. ASSUME NEW n \in N
      PROVE  s[Len(s) + 1 - n] \in Msg /\ n \in Entries(s, s[Len(s) + 1 - n])
  <2>1. Len(s) + 1 - n \in 1 .. Len(s)
    OBVIOUS
  <2> QED BY <2>1 DEF Entries
<1>3. c(x) < H /\ \A id \in Msg : c(id) <= H
  OBVIOUS
<1> HIDE DEF c, g
<1>4. ASSUME NEW n \in N PROVE pair(n) \in T
  <2> DEFINE id == s[Len(s) + 1 - n]
  <2>1. id \in Msg /\ n \in Entries(s, id) /\ g[id][n] \in 1 .. c(id) /\ c(id) \in Nat /\ c(id) <= H
    BY <1>1, <1>2, <1>3
  <2> HIDE DEF id
  <2>2. g[id][n] \in 1 .. H /\ (id = x => g[id][n] # H)
    BY <1>3, <2>1
  <2>3. <<id, g[id][n]>> \in Msg \X (1 .. H) /\ <<id, g[id][n]>> # <<x, H>>
    BY <2>1, <2>2
  <2> QED BY <2>3 DEF id
<1>5. ASSUME NEW m \in N, NEW n \in N, pair(m) = pair(n) PROVE m = n
  <2>1. s[Len(s) + 1 - m] = s[Len(s) + 1 - n]
        /\ g[s[Len(s) + 1 - n]][m] = g[s[Len(s) + 1 - n]][n]
    BY <1>5
  <2> QED BY <1>1, <1>2, <2>1
<1> HIDE DEF pair
<1>6. F \in [N -> T] /\ \A m, n \in N : F[m] = F[n] => m = n
  BY <1>4, <1>5
<1> HIDE DEF F
<1>7. F \in Injection(N, T)
  BY <1>6, Fun_IsInj
<1>8. IsFiniteSet(T) /\ Cardinality(T) = Cardinality(Msg) * H - 1
  <2> DEFINE M == Msg \X (1 .. H)
  <2>1. IsFiniteSet(1 .. H) /\ Cardinality(1 .. H) = H
    BY FS_Interval
  <2>2. IsFiniteSet(M) /\ Cardinality(M) = Cardinality(Msg) * H
    BY <2>1, FS_Product
  <2>3. H \in 1 .. H
    <3>1. c(x) \in Nat
      BY <1>1
    <3> QED BY <1>3, <3>1
  <2>4. <<x, H>> \in M
    BY <2>3
  <2>5. T = M \ {<<x, H>>}
    OBVIOUS
  <2> HIDE DEF M, T
  <2> QED BY <2>2, <2>4, <2>5, FS_RemoveElement
<1> HIDE DEF T
<1>9. Cardinality(N) <= Cardinality(T)
  BY <1>7, <1>8, FS_Injection
<1>10. Len(s) \in Nat /\ Cardinality(N) = Len(s)
  <2>1. Len(s) \in Nat
    OBVIOUS
  <2> QED BY <2>1, UpTo
<1>11. Cardinality(Msg) \in Nat
  BY FS_CardinalityType
<1>12. Cardinality(Msg) * H = H * Cardinality(Msg) /\ Cardinality(Msg) * H \in Int
  BY <1>11
<1> QED BY <1>8, <1>9, <1>10, <1>12

----------------------------------------------------------------------------
\* What is sent on has the message's identifier.
LEMMA SentOn ==
  ASSUME NEW p, NEW id, NEW header, NEW k \in Remote(p, id, header) \cup Walk(p, id, header)
  PROVE  k.id = id
BY DEF Remote, Walk, EdgeWalk

\* The listeners of a peer are given a message.
LEMMA GivenHere ==
  ASSUME WireTypes, NEW p \in Peer, NEW x \in Msg, given' = Local(p, x)
  PROVE  /\ given' \in [Peer -> [Msg -> Nat]]
         /\ \A q \in Peer, id \in Msg :
              /\ q # p \/ id # x => given'[q][id] = given[q][id]
              /\ given'[q][id] <= given[q][id] + 1
<1>1. given \in [Peer -> [Msg -> Nat]] /\ given' = [given EXCEPT ![p][x] = given[p][x] + 1]
  BY DEF WireTypes, Local
<1> DEFINE more == [given[p] EXCEPT ![x] = given[p][x] + 1]
<1>2. /\ more \in [Msg -> Nat]
      /\ \A id \in Msg : /\ id # x => more[id] = given[p][id]
                         /\ more[id] <= given[p][id] + 1
  BY <1>1
<1>3. given' = [given EXCEPT ![p] = more]
  BY <1>1
<1> HIDE DEF more
<1>4. /\ given' \in [Peer -> [Msg -> Nat]] /\ given'[p] = more
      /\ \A q \in Peer : q # p => given'[q] = given[q]
  BY <1>1, <1>2, <1>3
<1>5. \A q \in Peer, id \in Msg : given[q][id] \in Nat
  BY <1>1
<1> QED BY <1>2, <1>4, <1>5

LEMMA WireTypesInit == Init => WireTypes /\ SentOnceInv
BY WireAssumption DEF Init, WireTypes, SentOnceInv

LEMMA PropagateStep ==
  ASSUME WireTypes, SentOnceInv, NEW p \in Peer, NEW x \in Msg, Propagate(p, x)
  PROVE  WireTypes' /\ SentOnceInv' /\ (CountedInv => CountedInv')
<1>1. /\ sent[x] = None /\ sent' = [sent EXCEPT ![x] = p] /\ given' = Local(p, x)
      /\ net' = net \cup Remote(p, x, NoWalk) \cup Walk(p, x, NoWalk)
      /\ UNCHANGED <<seen, handling>> /\ p # None
  BY WireAssumption DEF Propagate
<1>2. /\ sent' \in [Msg -> Peer \cup {None}] /\ sent'[x] = p
      /\ \A id \in Msg : sent[id] # None => id # x /\ sent'[id] = sent[id]
      /\ \A id \in Msg : id # x => sent'[id] = sent[id]
  BY <1>1 DEF WireTypes
<1>3. /\ given' \in [Peer -> [Msg -> Nat]]
      /\ \A q \in Peer, id \in Msg :
           /\ q # p \/ id # x => given'[q][id] = given[q][id]
           /\ given'[q][id] <= given[q][id] + 1
  BY <1>1, GivenHere
<1>4. \A k \in net' : k.id \in Msg /\ sent'[k.id] # None
  <2> SUFFICES ASSUME NEW k \in net' PROVE k.id \in Msg /\ sent'[k.id] # None
    OBVIOUS
  <2>1. CASE k \in net
    BY <1>2, <2>1 DEF WireTypes
  <2>2. CASE k \notin net
    <3>1. k.id = x
      BY <1>1, <2>2, SentOn
    <3> QED BY <1>1, <1>2, <3>1
  <2> QED BY <2>1, <2>2
<1>5. WireTypes'
  BY <1>1, <1>2, <1>3, <1>4 DEF WireTypes
<1>6. SentOnceInv'
  <2> SUFFICES ASSUME NEW q \in Peer, NEW id \in Msg
               PROVE  /\ sent'[id] = None => given'[q][id] = 0
                      /\ sent'[id] = q => given'[q][id] <= 1
    BY DEF SentOnceInv
  <2>1. sent[id] = None => given[q][id] = 0
    BY DEF SentOnceInv
  <2>2. sent[id] = q => given[q][id] <= 1
    BY DEF SentOnceInv
  <2>3. CASE id = x
    BY <1>1, <1>2, <1>3, <2>1, <2>3
  <2>4. CASE id # x
    BY <1>2, <1>3, <2>1, <2>2, <2>4
  <2> QED BY <2>3, <2>4
<1>7. ASSUME CountedInv PROVE CountedInv'
  <2> SUFFICES ASSUME NEW q \in Peer
               PROVE  /\ \A n \in 1 .. Len(seen[q]) : sent'[seen[q][n]] # None
                      /\ \A id \in Msg :
                           sent'[id] # q => given'[q][id] <= Cardinality(Entries(seen[q], id))
    BY <1>1, <1>7 DEF CountedInv, Handled
  <2>1. \A n \in 1 .. Len(seen[q]) : sent'[seen[q][n]] # None
    <3>1. seen[q] \in Seq(Msg)
      BY DEF WireTypes
    <3> QED BY <1>2, <1>7, <3>1 DEF CountedInv
  <2>2. ASSUME NEW id \in Msg, sent'[id] # q
        PROVE  given'[q][id] <= Cardinality(Entries(seen[q], id))
    <3>1. sent[id] # q /\ (q # p \/ id # x)
      BY <1>1, <1>2, <2>2, WireAssumption
    <3> QED BY <1>3, <1>7, <3>1 DEF CountedInv
  <2> QED BY <2>1, <2>2
<1> QED BY <1>5, <1>6, <1>7

LEMMA CheckStep ==
  ASSUME WireTypes, SentOnceInv, NEW p \in Peer, NEW k \in net, Check(p, k)
  PROVE  WireTypes' /\ SentOnceInv' /\ (CountedInv => CountedInv')
<1>1. /\ net' = net \ {k} /\ UNCHANGED <<sent, seen, given>>
      /\ Cardinality(handling[p]) < Handlers /\ Handlers \in Nat
      /\ \/ UNCHANGED handling
         \/ /\ handling' = [handling EXCEPT ![p] = handling[p] \cup {k}]
            /\ sent[k.id] # p /\ k.id \notin Range(seen[p])
  BY WireAssumption DEF Check, Seen
<1>2. k.id \in Msg /\ sent[k.id] # None /\ DOMAIN handling = Peer
  BY DEF WireTypes
<1>3. /\ \A q \in Peer : q # p => handling'[q] = handling[q]
      /\ \/ handling'[p] = handling[p]
         \/ /\ handling'[p] = handling[p] \cup {k}
            /\ sent[k.id] # p /\ k.id \notin Range(seen[p])
  BY <1>1, <1>2
<1>4. WireTypes'
  <2>1. DOMAIN handling' = Peer
    BY <1>1, <1>2
  <2>2. \A q \in Peer : \A j \in handling'[q] : j.id \in Msg /\ sent[j.id] \notin {None, q}
    BY <1>2, <1>3 DEF WireTypes
  <2> QED BY <1>1, <2>1, <2>2 DEF WireTypes
<1>5. SentOnceInv'
  BY <1>1 DEF SentOnceInv
<1>6. ASSUME CountedInv PROVE CountedInv'
  <2> SUFFICES ASSUME NEW q \in Peer
               PROVE  /\ IsFiniteSet(handling'[q]) /\ Cardinality(handling'[q]) <= Handlers
                      /\ \A id \in Msg : Cardinality(Entries(seen[q], id))
                                           + Cardinality(Handled(q, id)') <= Handlers
    BY <1>1, <1>6 DEF CountedInv
  <2>1. CASE handling'[q] = handling[q]
    BY <1>6, <2>1 DEF CountedInv, Handled
  <2>2. CASE /\ q = p /\ handling'[p] = handling[p] \cup {k}
             /\ k.id \notin Range(seen[p])
    <3>1. IsFiniteSet(handling[p]) /\ Cardinality(handling[p]) \in Nat
      BY <1>6, FS_CardinalityType DEF CountedInv
    <3>2. IsFiniteSet(handling'[p]) /\ Cardinality(handling'[p]) <= Handlers
      <4> DEFINE S == handling[p]
                 T == S \cup {k}
      <4>1. IsFiniteSet(S) /\ Cardinality(S) \in Nat /\ handling'[p] = T
        BY <2>2, <3>1
      <4> HIDE DEF S
      <4>2. CASE k \in S
        <5>1. T = S
          BY <4>2
        <5> QED BY <1>1, <4>1, <5>1 DEF S
      <4>3. CASE k \notin S
        <5>1. IsFiniteSet(T) /\ Cardinality(T) = Cardinality(S) + 1
          BY <4>1, <4>3, FS_AddElement
        <5>2. Cardinality(S) < Handlers
          BY <1>1 DEF S
        <5> HIDE DEF T
        <5> QED BY <1>1, <4>1, <5>1, <5>2
      <4> QED BY <4>2, <4>3
    <3>3. ASSUME NEW id \in Msg
          PROVE  Cardinality(Entries(seen[p], id)) + Cardinality(Handled(p, id)') <= Handlers
      <4>1. CASE id = k.id
        <5>1. seen[p] \in Seq(Msg)
          BY DEF WireTypes
        <5>2. Cardinality(Entries(seen[p], id)) = 0
          BY <2>2, <4>1, <5>1, EntriesSeen
        <5>3. Handled(p, id)' \in SUBSET handling'[p]
          BY DEF Handled
        <5>4. Cardinality(Handled(p, id)') <= Cardinality(handling'[p])
          BY <3>2, <5>3, FS_Subset
        <5>5. Cardinality(Handled(p, id)') \in Nat /\ Cardinality(handling'[p]) \in Nat
          BY <3>2, <5>3, FS_Subset, FS_CardinalityType
        <5> QED BY <1>1, <3>2, <5>2, <5>4, <5>5
      <4>2. CASE id # k.id
        <5>1. Handled(p, id)' = Handled(p, id)
          BY <2>2, <4>2 DEF Handled
        <5> QED BY <1>6, <5>1 DEF CountedInv
      <4> QED BY <4>1, <4>2
    <3> QED BY <2>2, <3>2, <3>3
  <2> QED BY <1>3, <2>1, <2>2
<1> QED BY <1>4, <1>5, <1>6

\* The list forgets nothing while it has room for what all handlers may enter.
LEMMA NothingForgotten ==
  ASSUME WireTypes, CountedInv, RoomForAll, NEW p \in Peer, NEW k \in handling[p]
  PROVE  Remember(seen[p], k.id) = <<k.id>> \o seen[p]
<1>1. seen[p] \in Seq(Msg) /\ k.id \in Msg /\ Handlers \in Nat /\ MaxCache \in Nat
  BY WireAssumption DEF WireTypes
<1>2. ASSUME NEW id \in Msg
      PROVE  /\ IsFiniteSet(Handled(p, id)) /\ Cardinality(Handled(p, id)) \in Nat
             /\ Cardinality(Entries(seen[p], id)) \in Nat
             /\ Cardinality(Entries(seen[p], id)) + Cardinality(Handled(p, id)) <= Handlers
  <2>1. Handled(p, id) \in SUBSET handling[p] /\ IsFiniteSet(handling[p])
    BY DEF Handled, CountedInv
  <2>2. IsFiniteSet(Handled(p, id))
    BY <2>1, FS_Subset
  <2> QED BY <1>1, <2>2, FS_CardinalityType, EntriesFinite DEF CountedInv
<1>3. Cardinality(Handled(p, k.id)) # 0
  <2>1. k \in Handled(p, k.id)
    BY DEF Handled
  <2> QED BY <1>1, <1>2, <2>1, FS_EmptySet
<1>4. \A id \in Msg : Cardinality(Entries(seen[p], id)) <= Handlers
  BY <1>1, <1>2
<1>5. Cardinality(Entries(seen[p], k.id)) < Handlers
  BY <1>1, <1>2, <1>3
<1>6. Len(seen[p]) < Handlers * Cardinality(Msg)
  BY <1>1, <1>4, <1>5, ListIsShort DEF RoomForAll
<1>7. /\ Len(seen[p]) \in Nat /\ Handlers * Cardinality(Msg) \in Int
      /\ Handlers * Cardinality(Msg) <= MaxCache + 1
  <2>1. Cardinality(Msg) \in Nat
    BY FS_CardinalityType DEF RoomForAll
  <2> QED BY <1>1, <2>1 DEF RoomForAll
<1>8. ~ (Len(seen[p]) > MaxCache)
  BY <1>1, <1>6, <1>7
<1> QED BY <1>8 DEF Remember

LEMMA AcceptStep ==
  ASSUME WireTypes, SentOnceInv, NEW p \in Peer, NEW k \in handling[p], Accept(p, k)
  PROVE  WireTypes' /\ SentOnceInv' /\ (RoomForAll /\ CountedInv => CountedInv')
<1> DEFINE x == k.id
<1>1. /\ handling' = [handling EXCEPT ![p] = handling[p] \ {k}]
      /\ seen' = [seen EXCEPT ![p] = Remember(seen[p], x)]
      /\ given' = Local(p, x) /\ UNCHANGED sent
      /\ net' \subseteq net \cup Remote(p, x, k.walk) \cup Walk(p, x, k.walk)
  BY DEF Accept
<1>2. /\ x \in Msg /\ sent[x] # None /\ sent[x] # p /\ DOMAIN handling = Peer
      /\ seen \in [Peer -> Seq(Msg)]
  BY DEF WireTypes
<1>3. /\ given' \in [Peer -> [Msg -> Nat]]
      /\ \A q \in Peer, id \in Msg :
           /\ q # p \/ id # x => given'[q][id] = given[q][id]
           /\ given'[q][id] <= given[q][id] + 1
  BY <1>1, <1>2, GivenHere
<1>4. \A j \in net' : j.id \in Msg /\ sent[j.id] # None
  <2> SUFFICES ASSUME NEW j \in net' PROVE j.id \in Msg /\ sent[j.id] # None
    OBVIOUS
  <2>1. j \in net \/ j.id = x
    BY <1>1, SentOn
  <2> QED BY <1>2, <2>1 DEF WireTypes
<1>5. /\ DOMAIN handling' = Peer /\ handling'[p] = handling[p] \ {k}
      /\ \A q \in Peer : q # p => handling'[q] = handling[q] /\ seen'[q] = seen[q]
      /\ seen'[p] = Remember(seen[p], x)
  BY <1>1, <1>2
<1>6. Remember(seen[p], x) \in Seq(Msg)
  <2>1. seen[p] \in Seq(Msg) /\ <<x>> \in Seq(Msg) /\ MaxCache \in Nat
    BY <1>2, WireAssumption
  <2>2. Len(seen[p]) > MaxCache => Front(seen[p]) \in Seq(Msg)
    BY <2>1 DEF Front
  <2> QED BY <2>1, <2>2, ConcatProperties DEF Remember
<1>7. WireTypes'
  <2>1. seen' \in [Peer -> Seq(Msg)]
    BY <1>1, <1>2, <1>6
  <2>2. \A q \in Peer : \A j \in handling'[q] : j.id \in Msg /\ sent[j.id] \notin {None, q}
    BY <1>5 DEF WireTypes
  <2> QED BY <1>1, <1>3, <1>4, <1>5, <2>1, <2>2 DEF WireTypes
<1>8. SentOnceInv'
  <2> SUFFICES ASSUME NEW q \in Peer, NEW id \in Msg
               PROVE  /\ sent[id] = None => given'[q][id] = 0
                      /\ sent[id] = q => given'[q][id] <= 1
    BY <1>1 DEF SentOnceInv
  <2>1. /\ sent[id] = None => given[q][id] = 0
        /\ sent[id] = q => given[q][id] <= 1
    BY DEF SentOnceInv
  <2>2. CASE q # p \/ id # x
    BY <1>3, <2>1, <2>2
  <2>3. CASE q = p /\ id = x
    BY <1>2, <2>3
  <2> QED BY <2>2, <2>3
<1>9. ASSUME RoomForAll, CountedInv PROVE CountedInv'
  <2> SUFFICES ASSUME NEW q \in Peer
               PROVE  /\ IsFiniteSet(handling'[q]) /\ Cardinality(handling'[q]) <= Handlers
                      /\ \A n \in 1 .. Len(seen'[q]) : sent[seen'[q][n]] # None
                      /\ \A id \in Msg :
                           /\ sent[id] # q => given'[q][id] <= Cardinality(Entries(seen'[q], id))
                           /\ Cardinality(Entries(seen'[q], id)) + Cardinality(Handled(q, id)')
                                <= Handlers
    BY <1>1 DEF CountedInv
  <2>1. CASE q # p
    <3>1. handling'[q] = handling[q] /\ seen'[q] = seen[q]
      BY <1>5, <2>1
    <3>2. \A id \in Msg : Handled(q, id)' = Handled(q, id)
      BY <3>1 DEF Handled
    <3> QED BY <1>3, <1>9, <2>1, <3>1, <3>2 DEF CountedInv
  <2>2. CASE q = p
    <3>1. seen'[p] = <<x>> \o seen[p]
      BY <1>5, <1>9, NothingForgotten
    <3>2. IsFiniteSet(handling[p]) /\ Cardinality(handling[p]) \in Nat
          /\ Cardinality(handling[p]) <= Handlers /\ Handlers \in Nat
      BY <1>9, FS_CardinalityType, WireAssumption DEF CountedInv
    <3>3. IsFiniteSet(handling'[p]) /\ Cardinality(handling'[p]) <= Handlers
      <4>1. /\ IsFiniteSet(handling[p] \ {k})
            /\ Cardinality(handling[p] \ {k}) <= Cardinality(handling[p])
        BY <3>2, FS_RemoveElement
      <4>2. Cardinality(handling[p] \ {k}) \in Nat
        BY <4>1, FS_CardinalityType
      <4> QED BY <1>5, <3>2, <4>1, <4>2
    <3>4. \A n \in 1 .. Len(seen'[p]) : sent[seen'[p][n]] # None
      <4> DEFINE a == <<x>>
                 s == seen[p]
      <4>1. a \in Seq(Msg) /\ Len(a) = 1 /\ a[1] = x /\ s \in Seq(Msg)
        BY <1>2
      <4>2. \A n \in 1 .. Len(s) : sent[s[n]] # None
        BY <1>9 DEF CountedInv
      <4> HIDE DEF a, s
      <4>3. /\ Len(a \o s) = Len(a) + Len(s) /\ Len(s) \in Nat
            /\ \A n \in 1 .. Len(a) + Len(s) :
                 (a \o s)[n] = IF n <= Len(a) THEN a[n] ELSE s[n - Len(a)]
        <5>1. /\ Len(a \o s) = Len(a) + Len(s)
              /\ \A n \in 1 .. Len(a) + Len(s) :
                   (a \o s)[n] = IF n <= Len(a) THEN a[n] ELSE s[n - Len(a)]
          BY <4>1, ConcatProperties
        <5>2. Len(s) \in Nat
          BY <4>1
        <5> QED BY <5>1, <5>2
      <4>4. ASSUME NEW n \in 1 .. Len(a \o s) PROVE sent[(a \o s)[n]] # None
        <5>1. CASE n = 1
          BY <1>2, <4>1, <4>3, <5>1
        <5>2. CASE n # 1
          <6>1. n - 1 \in 1 .. Len(s) /\ (a \o s)[n] = s[n - 1]
            BY <4>1, <4>3, <5>2
          <6> QED BY <4>2, <6>1
        <5> QED BY <5>1, <5>2
      <4> QED BY <3>1, <4>4 DEF a, s
    <3>5. ASSUME NEW id \in Msg
          PROVE  /\ sent[id] # p => given'[p][id] <= Cardinality(Entries(seen'[p], id))
                 /\ Cardinality(Entries(seen'[p], id)) + Cardinality(Handled(p, id)') <= Handlers
      <4>1. /\ Cardinality(Entries(seen'[p], id)) =
                 Cardinality(Entries(seen[p], id)) + (IF id = x THEN 1 ELSE 0)
            /\ Cardinality(Entries(seen[p], id)) \in Nat
        BY <1>2, <3>1, EntriesNew, EntriesFinite
      <4>2. /\ sent[id] # p => given[p][id] <= Cardinality(Entries(seen[p], id))
            /\ Cardinality(Entries(seen[p], id)) + Cardinality(Handled(p, id)) <= Handlers
        BY <1>9 DEF CountedInv
      <4>3. IsFiniteSet(Handled(p, id)) /\ Cardinality(Handled(p, id)) \in Nat
        <5>1. Handled(p, id) \in SUBSET handling[p]
          BY DEF Handled
        <5> QED BY <3>2, <5>1, FS_Subset, FS_CardinalityType
      <4>4. given[p][id] \in Nat /\ given'[p][id] \in Nat
        BY <1>3 DEF WireTypes
      <4>5. CASE id = x
        <5>1. Handled(p, id)' = Handled(p, id) \ {k} /\ k \in Handled(p, id)
          BY <1>5, <4>5 DEF Handled
        <5>2. Cardinality(Handled(p, id)') = Cardinality(Handled(p, id)) - 1
          BY <4>3, <5>1, FS_RemoveElement
        <5>3. given'[p][id] <= given[p][id] + 1
          BY <1>3
        <5> HIDE DEF x
        <5> QED BY <3>2, <4>1, <4>2, <4>3, <4>4, <4>5, <5>2, <5>3
      <4>6. CASE id # x
        <5>1. Handled(p, id)' = Handled(p, id)
          BY <1>5, <4>6 DEF Handled
        <5> QED BY <1>3, <4>1, <4>2, <4>6, <5>1
      <4> QED BY <4>5, <4>6
    <3> QED BY <2>2, <3>3, <3>4, <3>5
  <2> QED BY <2>1, <2>2
<1> QED BY <1>7, <1>8, <1>9

\* Steps that give nobody a message and bring none on the way.
LEMMA OtherStep ==
  ASSUME WireTypes, SentOnceInv, UNCHANGED <<sent, seen, handling, given>>, net' \subseteq net
  PROVE  WireTypes' /\ SentOnceInv' /\ (CountedInv => CountedInv')
<1>1. WireTypes'
  BY DEF WireTypes
<1>2. SentOnceInv'
  BY DEF SentOnceInv
<1>3. CountedInv => CountedInv'
  BY DEF CountedInv, Handled
<1> QED BY <1>1, <1>2, <1>3

LEMMA WireStep ==
  ASSUME WireTypes, SentOnceInv, [Next]_wireVars
  PROVE  WireTypes' /\ SentOnceInv' /\ (RoomForAll /\ CountedInv => CountedInv')
<1>1. ASSUME NEW p \in Peer, NEW id \in Msg, Propagate(p, id)
      PROVE  WireTypes' /\ SentOnceInv' /\ (RoomForAll /\ CountedInv => CountedInv')
  BY <1>1, PropagateStep
<1>2. ASSUME NEW p \in Peer, NEW k \in net, Check(p, k)
      PROVE  WireTypes' /\ SentOnceInv' /\ (RoomForAll /\ CountedInv => CountedInv')
  BY <1>2, CheckStep
<1>3. ASSUME NEW p \in Peer, NEW k \in handling[p], Accept(p, k)
      PROVE  WireTypes' /\ SentOnceInv' /\ (RoomForAll /\ CountedInv => CountedInv')
  BY <1>3, AcceptStep
<1>4. ASSUME NEW p \in Peer, NEW l \in Listener, Open(p, l) \/ Close(p, l)
      PROVE  WireTypes' /\ SentOnceInv' /\ (RoomForAll /\ CountedInv => CountedInv')
  <2>1. UNCHANGED <<sent, seen, handling, given>> /\ net' \subseteq net
    BY <1>4 DEF Open, Close
  <2> QED BY <2>1, OtherStep
<1>5. ASSUME NEW k \in net, Lose(k)
      PROVE  WireTypes' /\ SentOnceInv' /\ (RoomForAll /\ CountedInv => CountedInv')
  <2>1. UNCHANGED <<sent, seen, handling, given>> /\ net' \subseteq net
    BY <1>5 DEF Lose
  <2> QED BY <2>1, OtherStep
<1>6. ASSUME UNCHANGED wireVars
      PROVE  WireTypes' /\ SentOnceInv' /\ (RoomForAll /\ CountedInv => CountedInv')
  <2>1. UNCHANGED <<sent, seen, handling, given>> /\ net' \subseteq net
    BY <1>6 DEF wireVars
  <2> QED BY <2>1, OtherStep
<1> QED BY <1>1, <1>2, <1>3, <1>4, <1>5, <1>6 DEF Next

LEMMA CountedInit == Init => CountedInv
<1> SUFFICES ASSUME Init, NEW p \in Peer
             PROVE  /\ IsFiniteSet(handling[p]) /\ Cardinality(handling[p]) <= Handlers
                    /\ Len(seen[p]) = 0
                    /\ \A id \in Msg :
                         /\ given[p][id] <= Cardinality(Entries(seen[p], id))
                         /\ Cardinality(Entries(seen[p], id)) + Cardinality(Handled(p, id))
                              <= Handlers
  BY DEF CountedInv
<1>1. Handlers \in Nat /\ IsFiniteSet({}) /\ Cardinality({}) = 0
  BY WireAssumption, FS_EmptySet
<1>2. handling[p] = {} /\ seen[p] = << >>
  BY DEF Init
<1>3. ASSUME NEW id \in Msg
      PROVE  /\ Entries(seen[p], id) = {} /\ Handled(p, id) = {}
             /\ given[p][id] = 0
  BY <1>2 DEF Init, Entries, Handled
<1>4. Len(seen[p]) = 0
  BY <1>2
<1>5. IsFiniteSet(handling[p]) /\ Cardinality(handling[p]) <= Handlers
  BY <1>1, <1>2
<1>6. ASSUME NEW id \in Msg
      PROVE  /\ given[p][id] <= Cardinality(Entries(seen[p], id))
             /\ Cardinality(Entries(seen[p], id)) + Cardinality(Handled(p, id)) <= Handlers
  <2>1. /\ Cardinality(Entries(seen[p], id)) = 0 /\ Cardinality(Handled(p, id)) = 0
        /\ given[p][id] = 0
    BY <1>1, <1>3
  <2> QED BY <1>1, <2>1
<1> QED BY <1>4, <1>5, <1>6

LEMMA WireInvariant == WireSpec => [](WireTypes /\ SentOnceInv)
<1>1. Init => WireTypes /\ SentOnceInv
  BY WireTypesInit
<1>2. WireTypes /\ SentOnceInv /\ [Next]_wireVars => (WireTypes /\ SentOnceInv)'
  BY WireStep
<1> QED BY <1>1, <1>2, PTL DEF WireSpec

----------------------------------------------------------------------------
LEMMA CountedGivesOnce ==
  ASSUME WireTypes, SentOnceInv, CountedInv
  PROVE  GivenOnce
<1> SUFFICES ASSUME NEW p \in Peer, NEW id \in Msg
             PROVE  given[p][id] <= IF sent[id] = p THEN 1 ELSE Handlers
  BY DEF GivenOnce
<1>1. Handlers \in Nat /\ Handlers > 0 /\ given[p][id] \in Nat
  BY WireAssumption DEF WireTypes
<1>2. CASE sent[id] = p
  BY <1>1, <1>2 DEF SentOnceInv
<1>3. CASE sent[id] # p
  <2>1. /\ given[p][id] <= Cardinality(Entries(seen[p], id))
        /\ Cardinality(Entries(seen[p], id)) + Cardinality(Handled(p, id)) <= Handlers
    BY <1>3 DEF CountedInv
  <2>2. Cardinality(Entries(seen[p], id)) \in Nat
    BY EntriesFinite DEF WireTypes
  <2>3. Cardinality(Handled(p, id)) \in Nat
    <3>1. Handled(p, id) \in SUBSET handling[p] /\ IsFiniteSet(handling[p])
      BY DEF Handled, CountedInv
    <3> QED BY <3>1, FS_Subset, FS_CardinalityType
  <2>4. given[p][id] <= Handlers
    BY <1>1, <2>1, <2>2, <2>3
  <2> QED BY <1>3, <2>4
<1> QED BY <1>2, <1>3

(* A peer goes through its listeners with a message at most as often as
   its threads handle messages at the same time, if the list of those
   seen has room for what they may all enter (wire_msgid_new). *)
THEOREM GivenOnceTheorem == WireSpec => []GivenOnce
<1>1. CASE RoomForAll
  <2>1. Init => CountedInv
    BY CountedInit
  <2>2. WireTypes /\ SentOnceInv /\ CountedInv /\ [Next]_wireVars => CountedInv'
    BY <1>1, WireStep
  <2>3. WireTypes /\ SentOnceInv /\ CountedInv => GivenOnce
    BY CountedGivesOnce
  <2> QED BY <2>1, <2>2, <2>3, WireInvariant, PTL DEF WireSpec
<1>2. CASE ~ RoomForAll
  <2>1. GivenOnce
    BY <1>2 DEF GivenOnce
  <2> QED BY <2>1, PTL
<1> QED BY <1>1, <1>2

(* What a peer sent does not come back to its listeners over the network,
   whatever its list forgot (check_wire_header). *)
THEOREM NoEchoTheorem == WireSpec => []NoEcho
<1>1. WireTypes /\ SentOnceInv => NoEcho
  BY WireAssumption DEF WireTypes, SentOnceInv, NoEcho
<1> QED BY <1>1, WireInvariant, PTL
==============================================================================
