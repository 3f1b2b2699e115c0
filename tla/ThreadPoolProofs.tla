-------------------------- MODULE ThreadPoolProofs --------------------------
(***************************************************************************)
(* Theorems about the thread pool: its ring of runnable tasks, and its     *)
(* threads.                                                                *)
(***************************************************************************)
EXTENDS ThreadPool, SequenceTheorems, FiniteSetTheorems, WellFoundedInduction, TLAPS

(***************************************************************************)
(* Theorems about the ring of runnable tasks, for any tasks, owners and    *)
(* priorities: the segment pointers point to linked tasks of their         *)
(* segment, the tasks from a pointer on are in the order add_task relies   *)
(* on, and tasks of one priority are served in the order of their pushes.  *)
(*                                                                         *)
(* The induction over lists that remove_tasks needs is by the least        *)
(* counterexample.                                                         *)
(***************************************************************************)

\* Facts about numbers and lists.

\* A nonempty set of natural numbers has a least element.
LEMMA Least ==
  ASSUME NEW S \in SUBSET Nat, S # {}
  PROVE  \E m \in S : \A n \in S : m <= n
<1>1. PICK m \in S : \A n \in S : ~ (<<n, m>> \in OpToRel(<, Nat))
  BY NatLessThanWellFounded, WFMin
<1>2. \A n \in S : ~ (n < m)
  BY <1>1 DEF OpToRel
<1> QED BY <1>2

\* From i on there is a first member of G, or there is none before n.
LEMMA FirstExists ==
  ASSUME NEW i \in Nat, NEW n \in Nat, i <= n, NEW G
  PROVE  \E j \in i .. n : /\ j = n \/ j \in G
                           /\ \A k \in i .. j - 1 : k \notin G
<1> DEFINE S == {j \in i .. n : j = n \/ j \in G}
<1>1. S \in SUBSET Nat /\ n \in S
  OBVIOUS
<1>2. PICK m \in S : \A j \in S : m <= j
  BY <1>1, Least
<1>3. \A k \in i .. m - 1 : k \notin G
  BY <1>2
<1> QED BY <1>2, <1>3

\* A list with an element inserted.
LEMMA InsertAtProperties ==
  ASSUME NEW S, NEW s \in Seq(S), NEW i \in 1 .. Len(s) + 1, NEW e \in S
  PROVE  /\ InsertAt(s, i, e) \in Seq(S)
         /\ Len(InsertAt(s, i, e)) = Len(s) + 1
         /\ \A k \in 1 .. Len(s) + 1 :
              InsertAt(s, i, e)[k] = IF k < i THEN s[k] ELSE IF k = i THEN e ELSE s[k - 1]
<1> DEFINE front == SubSeq(s, 1, i - 1)
           back  == SubSeq(s, i, Len(s))
           ext   == front \o <<e>>
<1>1. Len(s) \in Nat /\ i \in Nat /\ i >= 1 /\ i <= Len(s) + 1
  OBVIOUS
<1>2. front \in Seq(S) /\ Len(front) = i - 1 /\ \A k \in 1 .. i - 1 : front[k] = s[k]
  <2>1. \A k \in 1 .. i - 1 : s[k] \in S
    BY <1>1, ElementOfSeq
  <2> QED BY <2>1, <1>1, SubSeqProperties
<1>3. back \in Seq(S) /\ Len(back) = Len(s) + 1 - i
      /\ \A k \in 1 .. Len(s) + 1 - i : back[k] = s[i + k - 1]
  <2>1. \A k \in i .. Len(s) : s[k] \in S
    BY <1>1, ElementOfSeq
  <2> QED BY <2>1, <1>1, SubSeqProperties
<1> HIDE DEF front, back
<1>4. ext \in Seq(S) /\ Len(ext) = i /\ \A k \in 1 .. i : ext[k] = IF k < i THEN s[k] ELSE e
  <2>1. <<e>> \in Seq(S) /\ Len(<<e>>) = 1 /\ <<e>>[1] = e
    OBVIOUS
  <2>2. /\ ext \in Seq(S) /\ Len(ext) = Len(front) + 1
        /\ \A k \in 1 .. Len(front) + 1 :
             ext[k] = IF k <= Len(front) THEN front[k] ELSE <<e>>[k - Len(front)]
    BY <1>2, <2>1, ConcatProperties
  <2> QED BY <1>1, <1>2, <2>1, <2>2
<1> HIDE DEF ext
<1>5. /\ ext \o back \in Seq(S)
      /\ Len(ext \o back) = Len(ext) + Len(back)
      /\ \A k \in 1 .. Len(ext) + Len(back) :
           (ext \o back)[k] = IF k <= Len(ext) THEN ext[k] ELSE back[k - Len(ext)]
  BY <1>3, <1>4, ConcatProperties
<1>6. InsertAt(s, i, e) = ext \o back
  BY DEF InsertAt, front, back, ext
<1>7. Len(ext) + Len(back) = Len(s) + 1
  BY <1>1, <1>3, <1>4
<1>8. ASSUME NEW k \in 1 .. Len(s) + 1
      PROVE  (ext \o back)[k] = IF k < i THEN s[k] ELSE IF k = i THEN e ELSE s[k - 1]
  <2>1. CASE k <= i
    BY <2>1, <1>1, <1>4, <1>5, <1>7
  <2>2. CASE k > i
    <3>1. k - i \in 1 .. Len(s) + 1 - i /\ i + (k - i) - 1 = k - 1
      BY <2>2, <1>1
    <3>2. (ext \o back)[k] = back[k - i]
      BY <2>2, <1>1, <1>4, <1>5, <1>7
    <3>3. back[k - i] = s[i + (k - i) - 1]
      BY <3>1, <1>3
    <3> QED BY <2>2, <3>1, <3>2, <3>3, <1>1
  <2>3. k <= i \/ k > i
    BY <1>1
  <2> QED BY <2>1, <2>2, <2>3, Zenon
<1> QED BY <1>5, <1>6, <1>7, <1>8

\* The members of a list with an element inserted, none twice.
LEMMA InsertMembers ==
  ASSUME NEW S, NEW s \in Seq(S), NEW i \in 1 .. Len(s) + 1, NEW e \in S,
         e \notin {s[k] : k \in DOMAIN s}, \A k, l \in DOMAIN s : s[k] = s[l] => k = l
  PROVE  LET ext == InsertAt(s, i, e)
         IN  /\ {ext[k] : k \in DOMAIN ext} = {s[k] : k \in DOMAIN s} \cup {e}
             /\ \A k, l \in DOMAIN ext : ext[k] = ext[l] => k = l
<1>0. /\ InsertAt(s, i, e) \in Seq(S) /\ Len(InsertAt(s, i, e)) = Len(s) + 1
      /\ \A k \in 1 .. Len(s) + 1 :
           InsertAt(s, i, e)[k] = IF k < i THEN s[k] ELSE IF k = i THEN e ELSE s[k - 1]
  <2>1. i \in 1 .. Len(s) + 1 /\ e \in S /\ s \in Seq(S)
    OBVIOUS
  <2> QED BY ONLY <2>1, InsertAtProperties, SMTT(60)
<1>1. DOMAIN s = 1 .. Len(s) /\ Len(s) \in Nat
  BY LenProperties
<1> DEFINE ext == InsertAt(s, i, e)
<1>2. /\ ext \in Seq(S) /\ Len(ext) = Len(s) + 1
      /\ \A k \in 1 .. Len(s) + 1 :
           ext[k] = IF k < i THEN s[k] ELSE IF k = i THEN e ELSE s[k - 1]
  BY <1>0, Zenon
<1> HIDE DEF ext
<1>3. DOMAIN ext = 1 .. Len(s) + 1
  BY <1>2, LenProperties
<1>4. ext[i] = e
  BY <1>1, <1>2
<1>5. ASSUME NEW k \in 1 .. Len(s) + 1, k # i
      PROVE  \E m \in 1 .. Len(s) : ext[k] = s[m] /\ (k < i => m = k) /\ (k > i => m = k - 1)
  <2>1. CASE k < i
    BY <2>1, <1>1, <1>2
  <2>2. CASE k > i
    BY <2>2, <1>1, <1>2
  <2> QED BY <2>1, <2>2, <1>1, <1>5
<1>6. ASSUME NEW m \in 1 .. Len(s) PROVE \E k \in 1 .. Len(s) + 1 : ext[k] = s[m]
  <2>1. CASE m < i
    BY <2>1, <1>1, <1>2
  <2>2. CASE ~ (m < i)
    <3>1. m + 1 \in 1 .. Len(s) + 1 /\ ~ (m + 1 < i) /\ m + 1 # i /\ (m + 1) - 1 = m
      BY <2>2, <1>1
    <3> QED BY <3>1, <1>2
  <2> QED BY <2>1, <2>2
<1>7. {ext[k] : k \in DOMAIN ext} = {s[k] : k \in DOMAIN s} \cup {e}
  <2> DEFINE A == {ext[k] : k \in DOMAIN ext}
             B == {s[k] : k \in DOMAIN s}
  <2>1. \A x \in A : x \in B \/ x = e
    BY <1>1, <1>3, <1>4, <1>5
  <2>2. (\A x \in B : x \in A) /\ e \in A
    BY <1>1, <1>3, <1>4, <1>6
  <2> HIDE DEF A, B
  <2>3. A = B \cup {e}
    BY <2>1, <2>2
  <2> QED BY <2>3 DEF A, B
<1>8. ASSUME NEW k \in 1 .. Len(s) + 1, NEW l \in 1 .. Len(s) + 1, ext[k] = ext[l]
      PROVE  k = l
  <2>1. \A m \in 1 .. Len(s) : s[m] # e
    BY <1>1
  <2>2. CASE k = i
    BY <2>1, <2>2, <1>4, <1>5, <1>8
  <2>3. CASE l = i
    BY <2>1, <2>3, <1>4, <1>5, <1>8
  <2>4. CASE k # i /\ l # i
    <3>1. PICK m \in 1 .. Len(s) : ext[k] = s[m] /\ (k < i => m = k) /\ (k > i => m = k - 1)
      BY <2>4, <1>5
    <3>2. PICK n \in 1 .. Len(s) : ext[l] = s[n] /\ (l < i => n = l) /\ (l > i => n = l - 1)
      BY <2>4, <1>5
    <3>3. m = n
      BY <3>1, <3>2, <1>1, <1>8
    <3> QED BY <2>4, <3>1, <3>2, <3>3, <1>1
  <2> QED BY <2>2, <2>3, <2>4
<1> QED BY <1>3, <1>7, <1>8 DEF ext

\* The members of a list without its first, none twice.
LEMMA TailMembers ==
  ASSUME NEW S, NEW s \in Seq(S), s # <<>>, \A k, l \in DOMAIN s : s[k] = s[l] => k = l
  PROVE  LET tail == Tail(s)
         IN  /\ {tail[k] : k \in DOMAIN tail} = {s[k] : k \in DOMAIN s} \ {Head(s)}
             /\ Head(s) \in {s[k] : k \in DOMAIN s}
             /\ \A k, l \in DOMAIN tail : tail[k] = tail[l] => k = l
<1> DEFINE tail == Tail(s)
<1>1. DOMAIN s = 1 .. Len(s) /\ Len(s) \in Nat /\ Len(s) > 0
  BY LenProperties, EmptySeq
<1>2. /\ tail \in Seq(S) /\ Len(tail) = Len(s) - 1
      /\ \A k \in 1 .. Len(s) - 1 : tail[k] = s[k + 1]
  BY HeadTailProperties
<1> HIDE DEF tail
<1>3. DOMAIN tail = 1 .. Len(s) - 1
  BY <1>2, LenProperties
<1>4. Head(s) = s[1] /\ 1 \in 1 .. Len(s)
  BY <1>1
<1>5. ASSUME NEW k \in 1 .. Len(s) - 1
      PROVE  k + 1 \in 1 .. Len(s) /\ tail[k] = s[k + 1] /\ tail[k] # Head(s)
  <2>1. k + 1 \in 1 .. Len(s) /\ k + 1 # 1 /\ tail[k] = s[k + 1]
    BY <1>1, <1>2
  <2> QED BY <2>1, <1>1, <1>4
<1>6. ASSUME NEW m \in 1 .. Len(s), s[m] # Head(s) PROVE \E k \in 1 .. Len(s) - 1 : tail[k] = s[m]
  <2>1. m - 1 \in 1 .. Len(s) - 1 /\ (m - 1) + 1 = m
    BY <1>1, <1>4, <1>6
  <2> QED BY <2>1, <1>2
<1>7. {tail[k] : k \in DOMAIN tail} = {s[k] : k \in DOMAIN s} \ {Head(s)}
  <2> DEFINE A == {tail[k] : k \in DOMAIN tail}
             B == {s[k] : k \in DOMAIN s}
  <2>1. \A x \in A : x \in B /\ x # Head(s)
    BY <1>1, <1>3, <1>5
  <2>2. \A x \in B : x # Head(s) => x \in A
    BY <1>1, <1>3, <1>6
  <2> HIDE DEF A, B
  <2>3. A = B \ {Head(s)}
    BY <2>1, <2>2
  <2> QED BY <2>3 DEF A, B
<1>8. ASSUME NEW k \in 1 .. Len(s) - 1, NEW l \in 1 .. Len(s) - 1, tail[k] = tail[l]
      PROVE  k = l
  <2>1. k + 1 = l + 1
    BY <1>1, <1>5, <1>8
  <2> QED BY <2>1, <1>1
<1> QED BY <1>1, <1>3, <1>4, <1>7, <1>8 DEF tail

\* A list without repetitions has as many members as it is long.
LEMMA DistinctCount ==
  ASSUME NEW S, NEW s \in Seq(S), \A i, j \in DOMAIN s : s[i] = s[j] => i = j
  PROVE  LET members == {s[i] : i \in DOMAIN s}
         IN  IsFiniteSet(members) /\ Cardinality(members) = Len(s)
<1> DEFINE members == {s[i] : i \in DOMAIN s}
<1>1. DOMAIN s = 1 .. Len(s) /\ Len(s) \in Nat
  BY LenProperties
<1>2. s \in Bijection(1 .. Len(s), members)
  BY <1>1 DEF Bijection, Injection, Surjection, IsInjective
<1>3. ExistsBijection(1 .. Len(s), members)
  BY <1>2 DEF ExistsBijection
<1>4. IsFiniteSet(1 .. Len(s)) /\ Cardinality(1 .. Len(s)) = Len(s)
  BY <1>1, FS_Interval
<1> QED BY <1>3, <1>4, FS_Bijection
----------------------------------------------------------------------------
(***************************************************************************)
(* Without(owner, list) is the list's subsequence of the tasks of other    *)
(* owners: place[n] is where its n-th task stood.                          *)
(***************************************************************************)
LEMMA WithoutIsSubsequence ==
  ASSUME NEW list \in Seq(Task), NEW owner
  PROVE  LET kept == Without(owner, list)
         IN  /\ kept \in Seq(Task)
             /\ Len(kept) = Cardinality({i \in 1 .. Len(list) : OwnerOf[list[i]] # owner})
             /\ \E place \in [1 .. Len(kept) -> 1 .. Len(list)] :
                  /\ \A m, n \in 1 .. Len(kept) : m < n => place[m] < place[n]
                  /\ \A n \in 1 .. Len(kept) :
                       kept[n] = list[place[n]] /\ OwnerOf[kept[n]] # owner
                  /\ \A i \in 1 .. Len(list) : OwnerOf[list[i]] # owner =>
                       \E n \in 1 .. Len(kept) : place[n] = i
<1> DEFINE K    == {i \in 1 .. Len(list) : OwnerOf[list[i]] # owner}
           L    == Len(list)
           C    == Cardinality(K)
           U(i) == {k \in K : k <= i}
           upTo == [i \in 0 .. L |-> Cardinality(U(i))]
           at(n) == CHOOSE i \in K : Cardinality(U(i)) = n
           place == [n \in 1 .. C |-> at(n)]
           kept  == [n \in 1 .. C |-> list[at(n)]]
<1>1. DOMAIN list = 1 .. L /\ L \in Nat /\ \A i \in 1 .. L : list[i] \in Task
  BY LenProperties, ElementOfSeq
<1>2. Without(owner, list) = kept
  BY <1>1 DEF Without
<1>3. IsFiniteSet(K) /\ C \in Nat /\ \A k \in K : k \in 1 .. L /\ k \in Nat /\ 1 <= k /\ k <= L
  <2>1. IsFiniteSet(1 .. L)
    BY <1>1, FS_Interval
  <2>2. IsFiniteSet(K) /\ C \in Nat
    BY <2>1, FS_Subset, FS_CardinalityType
  <2>3. \A k \in K : k \in 1 .. L /\ k \in Nat /\ 1 <= k /\ k <= L
    BY <1>1
  <2> HIDE DEF K, L
  <2> QED BY <2>2, <2>3
<1>4. \A i \in K : OwnerOf[list[i]] # owner
  OBVIOUS
<1>5. \A i \in 1 .. L : OwnerOf[list[i]] # owner => i \in K
  OBVIOUS
<1> HIDE DEF K, L
<1>6. ASSUME NEW i
      PROVE  IsFiniteSet(U(i)) /\ Cardinality(U(i)) \in Nat /\ Cardinality(U(i)) <= C
  BY <1>3, FS_Subset, FS_CardinalityType
<1>7. upTo \in [0 .. L -> Nat] /\ \A i \in 0 .. L : upTo[i] <= C
  BY <1>6
<1>8. upTo[0] = 0 /\ upTo[L] = C
  <2>1. U(L) = K /\ U(0) = {}
    BY <1>1, <1>3
  <2>2. Cardinality(U(L)) = C /\ Cardinality(U(0)) = 0
    BY <2>1, FS_EmptySet
  <2> QED BY <2>2, <1>1
<1>9. ASSUME NEW i \in 1 .. L
      PROVE  upTo[i] = IF i \in K THEN upTo[i - 1] + 1 ELSE upTo[i - 1]
  <2>1. i \in 0 .. L /\ i - 1 \in 0 .. L
    BY <1>1
  <2>2. upTo[i] = Cardinality(U(i)) /\ upTo[i - 1] = Cardinality(U(i - 1))
    BY <2>1
  <2>3. \A k \in K : k <= i <=> k <= i - 1 \/ k = i
    BY <1>1, <1>3
  <2>4. CASE i \in K
    <3>1. U(i) = U(i - 1) \cup {i} /\ i \notin U(i - 1)
      <4>1. ~ (i <= i - 1)
        BY <1>1
      <4> QED BY <2>3, <2>4, <4>1
    <3>2. Cardinality(U(i)) = Cardinality(U(i - 1)) + 1
      <4> HIDE DEF U
      <4> QED BY <3>1, <1>6, FS_AddElement
    <3> QED BY <2>2, <2>4, <3>2
  <2>5. CASE i \notin K
    <3>1. U(i) = U(i - 1)
      BY <2>3, <2>5, <1>3
    <3> QED BY <2>2, <2>5, <3>1
  <2> QED BY <2>4, <2>5
<1>10. ASSUME NEW i \in K, NEW j \in K, i < j PROVE upTo[i] < upTo[j]
  <2>1. i \in 0 .. L /\ j \in 0 .. L
    BY <1>3, <1>1
  <2>2. U(i) \in SUBSET U(j)
    <3>1. \A k \in K : k <= i => k <= j
      BY <1>10, <1>3
    <3> QED BY <3>1
  <2>3. j \in U(j) /\ j \notin U(i)
    BY <1>10, <2>1
  <2>4. Cardinality(U(i)) <= Cardinality(U(j)) /\ Cardinality(U(i)) # Cardinality(U(j))
    <3> HIDE DEF U
    <3> QED BY <2>2, <2>3, <1>6, FS_Subset
  <2>5. upTo[i] <= upTo[j] /\ upTo[i] # upTo[j]
    BY <2>1, <2>4
  <2>6. upTo[i] \in Nat /\ upTo[j] \in Nat
    BY <2>1, <1>7
  <2> HIDE DEF upTo
  <2> QED BY <2>5, <2>6
<1>11. \A n \in 1 .. C : place[n] = CHOOSE i \in K : upTo[i] = n
  <2>1. \A i \in K : upTo[i] = Cardinality(U(i))
    BY <1>3, <1>1
  <2>2. ASSUME NEW n PROVE at(n) = CHOOSE i \in K : upTo[i] = n
    BY <2>1
  <2> QED BY <2>2
<1>12. /\ kept = [n \in 1 .. C |-> list[place[n]]]
       /\ place \in [1 .. C -> {at(n) : n \in 1 .. C}]
  <2> HIDE DEF at
  <2> QED OBVIOUS
<1> HIDE DEF upTo, place, kept, C
<1>13. ASSUME NEW n \in 1 .. C PROVE \E i \in K : upTo[i] = n
  <2> DEFINE S == {i \in 0 .. L : upTo[i] >= n}
  <2>1. L \in S /\ S \in SUBSET Nat
    BY <1>1, <1>3, <1>8
  <2>2. PICK i \in S : \A j \in S : i <= j
    BY <2>1, Least
  <2>3. i # 0
    BY <1>8, <1>3, <2>2
  <2>4. i \in 1 .. L /\ i - 1 \in 0 .. L /\ i - 1 \notin S
    BY <2>2, <2>3, <1>1
  <2>5. upTo[i] >= n /\ upTo[i - 1] < n /\ upTo[i] \in Nat /\ upTo[i - 1] \in Nat
    BY <2>2, <2>4, <1>7, <1>3
  <2>6. upTo[i] = IF i \in K THEN upTo[i - 1] + 1 ELSE upTo[i - 1]
    BY <2>4, <1>9
  <2>7. i \in K /\ upTo[i] = n
    BY <2>5, <2>6, <1>3
  <2> QED BY <2>7
<1>14. \A n \in 1 .. C : place[n] \in K /\ upTo[place[n]] = n
  BY <1>11, <1>13
<1>15. place \in [1 .. C -> 1 .. L]
  <2> HIDE DEF at
  <2> QED BY <1>3, <1>12, <1>14
<1>16. kept \in Seq(Task) /\ Len(kept) = C
  <2>1. kept \in [1 .. C -> Task]
    BY <1>1, <1>12, <1>15
  <2> QED BY <2>1, <1>3
<1>17. ASSUME NEW m \in 1 .. C, NEW n \in 1 .. C, m < n
       PROVE  place[m] < place[n]
  <2>1. place[m] \in K /\ place[n] \in K /\ upTo[place[m]] = m /\ upTo[place[n]] = n
    BY <1>14
  <2>2. place[m] \in Nat /\ place[n] \in Nat /\ m \in Nat /\ n \in Nat
    BY <2>1, <1>3, <1>1
  <2>3. place[n] < place[m] => upTo[place[n]] < upTo[place[m]]
    BY <2>1, <1>10
  <2>4. ~ (place[n] < place[m])
    BY <2>1, <2>2, <2>3, <1>17
  <2>5. place[n] # place[m]
    BY <2>1, <2>2, <1>17
  <2> QED BY <2>2, <2>4, <2>5
<1>18. ASSUME NEW n \in 1 .. C PROVE kept[n] = list[place[n]] /\ OwnerOf[kept[n]] # owner
  BY <1>4, <1>12, <1>14
<1>19. ASSUME NEW i \in 1 .. L, OwnerOf[list[i]] # owner PROVE \E n \in 1 .. C : place[n] = i
  <2>1. i \in K
    BY <1>5, <1>19
  <2>2. upTo[i] \in Nat /\ upTo[i - 1] \in Nat /\ upTo[i] <= C
    BY <1>7, <1>1
  <2>3. upTo[i] \in 1 .. C
    BY <2>1, <2>2, <1>9, <1>3
  <2>4. place[upTo[i]] \in K /\ upTo[place[upTo[i]]] = upTo[i]
    BY <2>3, <1>14
  <2>5. place[upTo[i]] < i => upTo[i] < upTo[i]
    BY <2>1, <2>4, <1>10
  <2>6. i < place[upTo[i]] => upTo[i] < upTo[i]
    BY <2>1, <2>4, <1>10
  <2>7. place[upTo[i]] \in Nat /\ i \in Nat
    BY <2>4, <1>3, <1>1
  <2>8. place[upTo[i]] = i
    BY <2>2, <2>5, <2>6, <2>7
  <2> QED BY <2>3, <2>8
<1>20. Without(owner, list) = kept /\ Len(kept) = Cardinality(K)
  BY <1>2, <1>16 DEF C
<1>21. \E f \in [1 .. Len(kept) -> 1 .. L] :
         /\ \A m, n \in 1 .. Len(kept) : m < n => f[m] < f[n]
         /\ \A n \in 1 .. Len(kept) : kept[n] = list[f[n]] /\ OwnerOf[kept[n]] # owner
         /\ \A i \in 1 .. L : OwnerOf[list[i]] # owner => \E n \in 1 .. Len(kept) : f[n] = i
  BY <1>15, <1>16, <1>17, <1>18, <1>19
<1> QED BY <1>16, <1>20, <1>21 DEF K, L

\* Its members are the tasks of other owners, none twice if none was twice before.
LEMMA WithoutMembers ==
  ASSUME NEW list \in Seq(Task), NEW owner
  PROVE  LET kept == Without(owner, list)
         IN  /\ {kept[n] : n \in DOMAIN kept} =
                  {t \in {list[i] : i \in DOMAIN list} : OwnerOf[t] # owner}
             /\ (\A i, j \in DOMAIN list : list[i] = list[j] => i = j) =>
                  \A m, n \in DOMAIN kept : kept[m] = kept[n] => m = n
<1> DEFINE kept == Without(owner, list)
<1>1. PICK place \in [1 .. Len(kept) -> 1 .. Len(list)] :
        /\ \A m, n \in 1 .. Len(kept) : m < n => place[m] < place[n]
        /\ \A n \in 1 .. Len(kept) : kept[n] = list[place[n]] /\ OwnerOf[kept[n]] # owner
        /\ \A i \in 1 .. Len(list) : OwnerOf[list[i]] # owner =>
             \E n \in 1 .. Len(kept) : place[n] = i
  BY WithoutIsSubsequence
<1>2. kept \in Seq(Task)
  BY WithoutIsSubsequence
<1> HIDE DEF kept
<1>3. DOMAIN list = 1 .. Len(list) /\ DOMAIN kept = 1 .. Len(kept) /\ Len(list) \in Nat
      /\ Len(kept) \in Nat
  BY <1>2, LenProperties
<1>4. {kept[n] : n \in DOMAIN kept} = {t \in {list[i] : i \in DOMAIN list} : OwnerOf[t] # owner}
  <2>1. ASSUME NEW n \in 1 .. Len(kept)
        PROVE  kept[n] = list[place[n]] /\ place[n] \in 1 .. Len(list) /\ OwnerOf[kept[n]] # owner
    BY <1>1
  <2>2. ASSUME NEW i \in 1 .. Len(list), OwnerOf[list[i]] # owner
        PROVE  \E n \in 1 .. Len(kept) : kept[n] = list[i]
    BY <1>1, <2>2
  <2> DEFINE members  == {list[i] : i \in 1 .. Len(list)}
             keptOnes == {kept[n] : n \in 1 .. Len(kept)}
  <2>3. \A t \in keptOnes : t \in members /\ OwnerOf[t] # owner
    <3> SUFFICES ASSUME NEW t \in keptOnes PROVE t \in members /\ OwnerOf[t] # owner
      OBVIOUS
    <3>1. PICK n \in 1 .. Len(kept) : t = kept[n]
      OBVIOUS
    <3>2. t = list[place[n]] /\ place[n] \in 1 .. Len(list) /\ OwnerOf[t] # owner
      BY <2>1, <3>1
    <3> QED BY <3>2
  <2>4. \A t \in members : OwnerOf[t] # owner => t \in keptOnes
    BY <2>2
  <2>5. keptOnes = {t \in members : OwnerOf[t] # owner}
    <3> HIDE DEF members, keptOnes
    <3> QED BY <2>3, <2>4
  <2> QED BY <1>3, <2>5
<1>5. ASSUME \A i, j \in DOMAIN list : list[i] = list[j] => i = j,
             NEW m \in DOMAIN kept, NEW n \in DOMAIN kept, kept[m] = kept[n]
      PROVE  m = n
  <2>1. place[m] = place[n]
    BY <1>1, <1>3, <1>5
  <2>2. place[m] \in Nat /\ m \in Nat /\ n \in Nat
    BY <1>1, <1>3
  <2>3. ~ (m < n) /\ ~ (n < m)
    BY <1>1, <1>3, <2>1, <2>2
  <2> QED BY <2>2, <2>3
<1> QED BY <1>4, <1>5 DEF kept
----------------------------------------------------------------------------
(***************************************************************************)
(* The pointers, whatever the priorities are.                              *)
(***************************************************************************)
QueueInv == QueueTypeOK /\ IndexPointsIntoRing

\* The ring's length and the positions of its tasks.
LEMMA RingShape ==
  ASSUME QueueInv
  PROVE  /\ tasks \in Seq(Task) /\ Len(tasks) \in Nat /\ DOMAIN tasks = 1 .. Len(tasks)
         /\ \A i \in 1 .. Len(tasks) : tasks[i] \in Task /\ tasks[i] # NoTask
         /\ \A t \in Queued : /\ Position(t) \in 1 .. Len(tasks) /\ tasks[Position(t)] = t
                              /\ t \in Task
<1>1. /\ tasks \in Seq(Task) /\ Len(tasks) \in Nat /\ DOMAIN tasks = 1 .. Len(tasks)
      /\ \A i \in 1 .. Len(tasks) : tasks[i] \in Task
  BY LenProperties, ElementOfSeq DEF QueueInv, QueueTypeOK
<1>2. \A t \in Queued : Position(t) \in DOMAIN tasks /\ tasks[Position(t)] = t
  BY DEF Queued, Position
<1> QED BY <1>1, <1>2, TaskAssumption DEF TaskAssumption

\* The segment of a task.
LEMMA SegmentOfTask ==
  ASSUME NEW t \in Task
  PROVE  /\ TASK_PRIORITY_SEG(t) \in Segment /\ TASK_PRIORITY_SEG(t) \in Nat
         /\ Priority[t] \in Nat
         /\ \A u \in Task : TASK_PRIORITY_SEG(u) < TASK_PRIORITY_SEG(t)
                              => Priority[u] < Priority[t]
<1>1. \A u \in Task : Priority[u] \in 0 .. 255
  BY TaskAssumption DEF TaskAssumption
<1>2. \A n \in 0 .. 255 : n \div 64 \in 0 .. 3
  OBVIOUS
<1>3. \A m, n \in 0 .. 255 : m \div 64 < n \div 64 => m < n
  OBVIOUS
<1>4. TASK_PRIORITY_SEG(t) \in 0 .. 3
  BY <1>1, <1>2 DEF TASK_PRIORITY_SEG
<1>5. \A u \in Task : TASK_PRIORITY_SEG(u) < TASK_PRIORITY_SEG(t) => Priority[u] < Priority[t]
  BY <1>1, <1>3 DEF TASK_PRIORITY_SEG
<1>6. Segment = 0 .. 3
  BY DEF Segment, TASK_PRIORITY_SEGS
<1> QED BY <1>1, <1>4, <1>5, <1>6

\* Where InsertTask links a task.
PlaceOf(t, push) ==
  IF task_idx[TASK_PRIORITY_SEG(t)] = NoTask THEN EmptySegmentPlace(t)
  ELSE IF push THEN LowerPlace(t) ELSE SameOrLowerPlace(t)

\* A task whose segment has no pointer goes before the next lower pointer.
LEMMA EmptyPlace ==
  ASSUME QueueInv, NEW t \in Task
  PROVE  \/ /\ EmptySegmentPlace(t) = Sentinel
            /\ \A seg \in Segment : seg < TASK_PRIORITY_SEG(t) => task_idx[seg] = NoTask
         \/ \E seg \in Segment :
              /\ seg < TASK_PRIORITY_SEG(t) /\ task_idx[seg] # NoTask
              /\ \A r \in Segment :
                   r < TASK_PRIORITY_SEG(t) /\ task_idx[r] # NoTask => r <= seg
              /\ EmptySegmentPlace(t) = Position(task_idx[seg])
<1> DEFINE lower == {seg \in Segment : seg < TASK_PRIORITY_SEG(t) /\ task_idx[seg] # NoTask}
<1>1. CASE lower = {}
  BY <1>1 DEF EmptySegmentPlace
<1>2. CASE lower # {}
  <2>1. \E s \in lower : \A r \in lower : r <= s
    <3>1. lower \subseteq {0, 1, 2, 3}
      BY DEF Segment, TASK_PRIORITY_SEGS
    <3> HIDE DEF lower
    <3>2. CASE 3 \in lower
      BY <3>1, <3>2
    <3>3. CASE 3 \notin lower /\ 2 \in lower
      BY <3>1, <3>3
    <3>4. CASE 3 \notin lower /\ 2 \notin lower /\ 1 \in lower
      BY <3>1, <3>4
    <3>5. CASE 3 \notin lower /\ 2 \notin lower /\ 1 \notin lower
      <4>1. lower = {0}
        BY <3>1, <3>5, <1>2
      <4> QED BY <4>1
    <3> QED BY <3>2, <3>3, <3>4, <3>5
  <2> DEFINE seg == CHOOSE s \in lower : \A r \in lower : r <= s
  <2>2. seg \in lower /\ \A r \in lower : r <= seg
    BY <2>1
  <2>3. EmptySegmentPlace(t) = Position(task_idx[seg])
    BY <1>2 DEF EmptySegmentPlace
  <2> HIDE DEF seg
  <2> QED BY <2>2, <2>3
<1> QED BY <1>1, <1>2

\* What FirstFrom finds, for the two tests of add_task.
LEMMA SameOrLower ==
  ASSUME QueueInv, NEW t \in Task, task_idx[TASK_PRIORITY_SEG(t)] # NoTask
  PROVE  LET start == Position(task_idx[TASK_PRIORITY_SEG(t)])
             place == SameOrLowerPlace(t)
         IN  /\ start \in 1 .. Len(tasks) /\ place \in start .. Sentinel
             /\ place = Sentinel \/ Priority[tasks[place]] <= Priority[t]
             /\ \A k \in start .. place - 1 : ~ (Priority[tasks[k]] <= Priority[t])
<1> DEFINE start == Position(task_idx[TASK_PRIORITY_SEG(t)])
           G == {k \in 1 .. Len(tasks) : Priority[tasks[k]] <= Priority[t]}
<1>1. start \in 1 .. Len(tasks) /\ Len(tasks) \in Nat
  BY RingShape, SegmentOfTask DEF QueueInv, IndexPointsIntoRing
<1> HIDE DEF start
<1>2. \E j \in start .. Sentinel : /\ j = Sentinel \/ j \in G
                                   /\ \A k \in start .. j - 1 : k \notin G
  <2>1. start \in Nat /\ Sentinel \in Nat /\ start <= Sentinel
    BY <1>1 DEF Sentinel
  <2> HIDE DEF G
  <2> QED BY <2>1, FirstExists
<1>3. \E j \in start .. Sentinel :
        /\ j = Sentinel \/ Priority[tasks[j]] <= Priority[t]
        /\ \A k \in start .. j - 1 : ~ (Priority[tasks[k]] <= Priority[t])
  BY <1>1, <1>2 DEF Sentinel
<1>4. SameOrLowerPlace(t) =
        CHOOSE j \in start .. Sentinel :
          /\ j = Sentinel \/ Priority[tasks[j]] <= Priority[t]
          /\ \A k \in start .. j - 1 : ~ (Priority[tasks[k]] <= Priority[t])
  BY DEF SameOrLowerPlace, FirstFrom, start
<1>5. /\ SameOrLowerPlace(t) \in start .. Sentinel
      /\ SameOrLowerPlace(t) = Sentinel \/ Priority[tasks[SameOrLowerPlace(t)]] <= Priority[t]
      /\ \A k \in start .. SameOrLowerPlace(t) - 1 : ~ (Priority[tasks[k]] <= Priority[t])
  BY <1>3, <1>4
<1> QED BY <1>1, <1>5 DEF start

LEMMA Lower ==
  ASSUME QueueInv, NEW t \in Task, task_idx[TASK_PRIORITY_SEG(t)] # NoTask
  PROVE  LET start == SameOrLowerPlace(t)
             place == LowerPlace(t)
         IN  /\ place \in start .. Sentinel
             /\ place = Sentinel \/ Priority[tasks[place]] < Priority[t]
             /\ \A k \in start .. place - 1 : ~ (Priority[tasks[k]] < Priority[t])
<1> DEFINE start == SameOrLowerPlace(t)
           G == {k \in 1 .. Len(tasks) : Priority[tasks[k]] < Priority[t]}
<1>1. start \in 1 .. Sentinel /\ Len(tasks) \in Nat
  BY RingShape, SameOrLower DEF Sentinel
<1> HIDE DEF start
<1>2. \E j \in start .. Sentinel : /\ j = Sentinel \/ j \in G
                                   /\ \A k \in start .. j - 1 : k \notin G
  <2>1. start \in Nat /\ Sentinel \in Nat /\ start <= Sentinel
    BY <1>1 DEF Sentinel
  <2> HIDE DEF G
  <2> QED BY <2>1, FirstExists
<1>3. \E j \in start .. Sentinel :
        /\ j = Sentinel \/ Priority[tasks[j]] < Priority[t]
        /\ \A k \in start .. j - 1 : ~ (Priority[tasks[k]] < Priority[t])
  BY <1>1, <1>2 DEF Sentinel
<1>4. LowerPlace(t) =
        CHOOSE j \in start .. Sentinel :
          /\ j = Sentinel \/ Priority[tasks[j]] < Priority[t]
          /\ \A k \in start .. j - 1 : ~ (Priority[tasks[k]] < Priority[t])
  BY DEF LowerPlace, FirstFrom, start
<1>5. /\ LowerPlace(t) \in start .. Sentinel
      /\ LowerPlace(t) = Sentinel \/ Priority[tasks[LowerPlace(t)]] < Priority[t]
      /\ \A k \in start .. LowerPlace(t) - 1 : ~ (Priority[tasks[k]] < Priority[t])
  BY <1>3, <1>4
<1> QED BY <1>5 DEF start

LEMMA PlaceInRing ==
  ASSUME QueueInv, NEW t \in Task, NEW push \in BOOLEAN
  PROVE  PlaceOf(t, push) \in 1 .. Len(tasks) + 1
<1>1. Len(tasks) \in Nat /\ Sentinel = Len(tasks) + 1
  BY RingShape DEF Sentinel
<1>2. CASE task_idx[TASK_PRIORITY_SEG(t)] = NoTask
  <2>1. \A seg \in Segment : task_idx[seg] # NoTask =>
          Position(task_idx[seg]) \in 1 .. Len(tasks)
    BY RingShape DEF QueueInv, IndexPointsIntoRing
  <2>2. EmptySegmentPlace(t) \in 1 .. Len(tasks) + 1
    BY <1>1, <2>1, EmptyPlace
  <2> QED BY <1>2, <2>2 DEF PlaceOf
<1>3. CASE task_idx[TASK_PRIORITY_SEG(t)] # NoTask
  <2>1. SameOrLowerPlace(t) \in 1 .. Len(tasks) + 1
    BY <1>1, <1>3, SameOrLower
  <2>2. LowerPlace(t) \in 1 .. Len(tasks) + 1
    BY <1>1, <1>3, <2>1, Lower
  <2> QED BY <1>3, <2>1, <2>2 DEF PlaceOf
<1> QED BY <1>2, <1>3
\* Every operation keeps the pointers on linked tasks of their segments.
LEMMA InsertKeepsPointers ==
  ASSUME QueueInv, NEW t \in Task, NEW push \in BOOLEAN, InsertTask(t, push)
  PROVE  QueueInv' /\ Queued' = Queued \cup {t} /\ t \notin Queued
<1> DEFINE place == PlaceOf(t, push)
           seg   == TASK_PRIORITY_SEG(t)
<1>1. place \in 1 .. Len(tasks) + 1
  BY PlaceInRing
<1>2. /\ t \notin Queued /\ tasks' = InsertAt(tasks, place, t) /\ task_cnt' = task_cnt + 1
      /\ task_idx' = task_idx \/ task_idx' = [task_idx EXCEPT ![seg] = t]
  BY DEF InsertTask, PlaceOf
<1> HIDE DEF place
<1>3. /\ tasks \in Seq(Task) /\ \A i, j \in DOMAIN tasks : tasks[i] = tasks[j] => i = j
      /\ task_cnt = Len(tasks)
  BY DEF QueueInv, QueueTypeOK
<1>4. InsertAt(tasks, place, t) \in Seq(Task) /\ Len(InsertAt(tasks, place, t)) = Len(tasks) + 1
  BY <1>1, <1>3, InsertAtProperties
<1>5. tasks' \in Seq(Task) /\ Len(tasks') = Len(tasks) + 1
  BY <1>2, <1>4
<1>6. /\ Queued' = Queued \cup {t}
      /\ \A i, j \in DOMAIN tasks' : tasks'[i] = tasks'[j] => i = j
  <2> DEFINE ext == InsertAt(tasks, place, t)
  <2>1. t \notin {tasks[k] : k \in DOMAIN tasks}
    BY <1>2 DEF Queued
  <2>2. /\ {ext[k] : k \in DOMAIN ext} = {tasks[k] : k \in DOMAIN tasks} \cup {t}
        /\ \A i, j \in DOMAIN ext : ext[i] = ext[j] => i = j
    BY <1>1, <1>3, <2>1, InsertMembers
  <2>3. tasks' = ext
    BY <1>2
  <2> HIDE DEF ext
  <2> QED BY <2>2, <2>3 DEF Queued
<1>7. task_idx' \in [Segment -> Task \cup {NoTask}]
  BY <1>2 DEF QueueInv, QueueTypeOK
<1>8. QueueTypeOK'
  BY <1>2, <1>3, <1>5, <1>6, <1>7 DEF QueueTypeOK
<1>9. IndexPointsIntoRing'
  BY <1>2, <1>6 DEF QueueInv, QueueTypeOK, IndexPointsIntoRing, TASK_PRIORITY_SEG
<1> QED BY <1>2, <1>6, <1>8, <1>9 DEF QueueInv

\* The first task is unlinked.
LEMMA PopKeepsPointers ==
  ASSUME QueueInv, PopFirst
  PROVE  QueueInv' /\ Queued' = Queued \ {Head(tasks)} /\ Head(tasks) \in Queued
<1>1. /\ tasks \in Seq(Task) /\ DOMAIN tasks = 1 .. Len(tasks) /\ Len(tasks) \in Nat
      /\ \A i, j \in DOMAIN tasks : tasks[i] = tasks[j] => i = j
      /\ task_cnt = Len(tasks)
  BY RingShape DEF QueueInv, QueueTypeOK
<1>2. tasks # <<>> /\ tasks' = Tail(tasks) /\ task_cnt' = task_cnt - 1
  BY <1>1, EmptySeq DEF PopFirst
<1>3. /\ tasks' \in Seq(Task) /\ Len(tasks') = Len(tasks) - 1
      /\ \A i \in 1 .. Len(tasks) - 1 : tasks'[i] = tasks[i + 1]
  BY <1>1, <1>2, HeadTailProperties
<1>4. /\ Queued' = Queued \ {Head(tasks)} /\ Head(tasks) \in Queued
      /\ \A i, j \in DOMAIN tasks' : tasks'[i] = tasks'[j] => i = j
  <2> DEFINE tail == Tail(tasks)
  <2>1. /\ {tail[k] : k \in DOMAIN tail} = {tasks[k] : k \in DOMAIN tasks} \ {Head(tasks)}
        /\ Head(tasks) \in {tasks[k] : k \in DOMAIN tasks}
        /\ \A i, j \in DOMAIN tail : tail[i] = tail[j] => i = j
    BY <1>1, <1>2, TailMembers
  <2>2. tasks' = tail
    BY <1>2
  <2> HIDE DEF tail
  <2> QED BY <2>1, <2>2 DEF Queued
<1>5. Head(tasks) \in Task /\ Head(tasks) # NoTask
  BY <1>4, RingShape, TaskAssumption DEF TaskAssumption
<1>6. /\ task_idx' \in [Segment -> Task \cup {NoTask}]
      /\ \A seg \in Segment : task_idx'[seg] # NoTask =>
           task_idx'[seg] \in Queued' /\ TASK_PRIORITY_SEG(task_idx'[seg]) = seg
  <2> DEFINE h == TASK_PRIORITY_SEG(Head(tasks))
  <2>1. h \in Segment
    BY <1>5, SegmentOfTask
  <2>2. CASE task_idx[h] # Head(tasks)
    <3>1. task_idx' = task_idx
      BY <2>2 DEF PopFirst
    <3>2. \A seg \in Segment : task_idx[seg] # Head(tasks)
      BY <2>2, <1>5 DEF QueueInv, IndexPointsIntoRing
    <3> QED BY <3>1, <3>2, <1>4 DEF QueueInv, QueueTypeOK, IndexPointsIntoRing
  <2>3. CASE task_idx[h] = Head(tasks)
    <3>1. task_idx' = [task_idx EXCEPT ![h] = NextOfSegment(h, 1)]
      BY <2>3 DEF PopFirst
    <3>2. NextOfSegment(h, 1) # NoTask =>
            /\ NextOfSegment(h, 1) \in Queued' /\ TASK_PRIORITY_SEG(NextOfSegment(h, 1)) = h
      <4>1. CASE 1 < Len(tasks)
        <5>1. tasks[1 + 1] = tasks'[1] /\ 1 \in 1 .. Len(tasks) - 1
          BY <4>1, <1>1, <1>3
        <5>2. 1 \in DOMAIN tasks'
          BY <5>1, <1>3, LenProperties
        <5> QED BY <5>1, <5>2 DEF NextOfSegment, Queued
      <4>2. CASE ~ (1 < Len(tasks))
        BY <4>2 DEF NextOfSegment
      <4> QED BY <4>1, <4>2
    <3>3. NextOfSegment(h, 1) \in Task \cup {NoTask}
      <4>1. 1 < Len(tasks) => tasks[1 + 1] \in Task
        BY <1>1, ElementOfSeq
      <4> QED BY <4>1 DEF NextOfSegment
    <3>4. \A seg \in Segment : seg # h => task_idx[seg] # Head(tasks)
      BY <1>5 DEF QueueInv, IndexPointsIntoRing
    <3> QED BY <2>1, <3>1, <3>2, <3>3, <3>4, <1>4
        DEF QueueInv, QueueTypeOK, IndexPointsIntoRing
  <2> QED BY <2>2, <2>3
<1>7. QueueTypeOK'
  BY <1>1, <1>2, <1>3, <1>4, <1>6 DEF QueueTypeOK
<1>8. IndexPointsIntoRing'
  BY <1>6 DEF IndexPointsIntoRing, TASK_PRIORITY_SEG
<1> QED BY <1>4, <1>7, <1>8 DEF QueueInv

\* Where remove_tasks lets a pointer slide: to the first kept task from it on.
LEMMA PointerSlides ==
  ASSUME QueueInv, NEW owner, remove_tasks(owner), NEW seg \in Segment, task_idx[seg] # NoTask
  PROVE  \E j \in Position(task_idx[seg]) .. Sentinel :
           /\ j = Sentinel \/ OwnerOf[tasks[j]] # owner
           /\ \A k \in Position(task_idx[seg]) .. j - 1 : OwnerOf[tasks[k]] = owner
           /\ task_idx'[seg] =
                IF /\ j # Sentinel
                   /\ \A k \in Position(task_idx[seg]) .. j : TASK_PRIORITY_SEG(tasks[k]) = seg
                THEN tasks[j] ELSE NoTask
<1> DEFINE i == Position(task_idx[seg])
           Kept(u) == OwnerOf[u] # owner
           j == FirstFrom(i, Kept)
           G == {k \in 1 .. Len(tasks) : OwnerOf[tasks[k]] # owner}
<1>1. i \in 1 .. Len(tasks) /\ Len(tasks) \in Nat
  BY RingShape DEF QueueInv, IndexPointsIntoRing
<1>2. task_idx'[seg] = IF /\ j # Sentinel
                          /\ \A k \in i .. j : TASK_PRIORITY_SEG(tasks[k]) = seg
                       THEN tasks[j] ELSE NoTask
  BY DEF remove_tasks
<1>3. j = CHOOSE k \in i .. Sentinel :
            /\ k = Sentinel \/ OwnerOf[tasks[k]] # owner
            /\ \A l \in i .. k - 1 : ~ (OwnerOf[tasks[l]] # owner)
  BY DEF FirstFrom
<1> HIDE DEF i, j
<1>4. i \in Nat /\ Sentinel \in Nat /\ i <= Sentinel
  BY <1>1 DEF Sentinel
<1>5. \E k \in i .. Sentinel : /\ k = Sentinel \/ k \in G
                               /\ \A l \in i .. k - 1 : l \notin G
  <2> HIDE DEF G
  <2> QED BY <1>4, FirstExists
<1>6. \E k \in i .. Sentinel :
        /\ k = Sentinel \/ OwnerOf[tasks[k]] # owner
        /\ \A l \in i .. k - 1 : ~ (OwnerOf[tasks[l]] # owner)
  BY <1>1, <1>5 DEF Sentinel
<1>7. /\ j \in i .. Sentinel /\ (j = Sentinel \/ OwnerOf[tasks[j]] # owner)
      /\ \A l \in i .. j - 1 : ~ (OwnerOf[tasks[l]] # owner)
  BY <1>3, <1>6
<1> QED BY <1>2, <1>7 DEF i

\* A task of the owner's that the pointer stood on slides off it.
LEMMA RemoveKeepsPointers ==
  ASSUME QueueInv, NEW owner, remove_tasks(owner)
  PROVE  QueueInv' /\ Queued' = {t \in Queued : OwnerOf[t] # owner}
<1>1. /\ tasks \in Seq(Task) /\ DOMAIN tasks = 1 .. Len(tasks) /\ Len(tasks) \in Nat
      /\ \A i, j \in DOMAIN tasks : tasks[i] = tasks[j] => i = j
      /\ task_cnt = Len(tasks)
  BY RingShape DEF QueueInv, QueueTypeOK
<1>2. /\ tasks' = Without(owner, tasks)
      /\ task_cnt' = task_cnt - Cardinality({t \in Queued : ~ (OwnerOf[t] # owner)})
  BY DEF remove_tasks
<1>3. tasks' \in Seq(Task)
  BY <1>1, <1>2, WithoutIsSubsequence
<1>4. Queued' = {t \in Queued : OwnerOf[t] # owner}
  BY <1>1, <1>2, WithoutMembers DEF Queued
<1>5. \A i, j \in DOMAIN tasks' : tasks'[i] = tasks'[j] => i = j
  BY <1>1, <1>2, WithoutMembers
<1>6. task_cnt' = Len(tasks')
  <2> DEFINE mine == {t \in Queued : ~ (OwnerOf[t] # owner)}
  <2>1. IsFiniteSet(Queued) /\ Cardinality(Queued) = Len(tasks)
    BY <1>1, DistinctCount DEF Queued
  <2>2. IsFiniteSet(Queued') /\ Cardinality(Queued') = Len(tasks')
    BY <1>3, <1>5, DistinctCount DEF Queued
  <2>3. Queued' = Queued \ mine /\ Queued \cap mine = mine
    BY <1>4
  <2> HIDE DEF mine
  <2>4. Cardinality(Queued \ mine) = Cardinality(Queued) - Cardinality(Queued \cap mine)
    BY <2>1, FS_Difference
  <2>5. Cardinality(Queued') = Cardinality(Queued) - Cardinality(mine)
    BY <2>3, <2>4
  <2>6. task_cnt' = task_cnt - Cardinality(mine)
    BY <1>2 DEF mine
  <2> QED BY <1>1, <2>1, <2>2, <2>5, <2>6
<1>7. ASSUME NEW seg \in Segment
      PROVE  /\ task_idx'[seg] \in Task \cup {NoTask}
             /\ task_idx'[seg] # NoTask =>
                  task_idx'[seg] \in Queued' /\ TASK_PRIORITY_SEG(task_idx'[seg]) = seg
  <2>1. CASE task_idx[seg] = NoTask
    BY <2>1 DEF remove_tasks
  <2>2. CASE task_idx[seg] # NoTask
    <3> DEFINE i == Position(task_idx[seg])
    <3>1. PICK j \in i .. Sentinel :
            /\ j = Sentinel \/ OwnerOf[tasks[j]] # owner
            /\ task_idx'[seg] = IF /\ j # Sentinel
                                   /\ \A k \in i .. j : TASK_PRIORITY_SEG(tasks[k]) = seg
                                THEN tasks[j] ELSE NoTask
      BY <2>2, PointerSlides
    <3>2. i \in 1 .. Len(tasks)
      BY <2>2, RingShape DEF QueueInv, IndexPointsIntoRing
    <3> HIDE DEF i
    <3>3. CASE /\ j # Sentinel
               /\ \A k \in i .. j : TASK_PRIORITY_SEG(tasks[k]) = seg
      <4>1. j \in 1 .. Len(tasks) /\ j \in i .. j
        BY <3>2, <3>3, <1>1 DEF Sentinel
      <4>2. task_idx'[seg] = tasks[j] /\ TASK_PRIORITY_SEG(tasks[j]) = seg
        BY <3>1, <3>3, <4>1
      <4>3. tasks[j] \in Queued /\ tasks[j] \in Task /\ OwnerOf[tasks[j]] # owner
        BY <3>1, <3>3, <4>1, <1>1, RingShape DEF Queued
      <4> QED BY <4>2, <4>3, <1>4
    <3>4. CASE ~ (/\ j # Sentinel
                  /\ \A k \in i .. j : TASK_PRIORITY_SEG(tasks[k]) = seg)
      BY <3>1, <3>4
    <3> QED BY <3>3, <3>4
  <2> QED BY <2>1, <2>2
<1>8. task_idx' \in [Segment -> Task \cup {NoTask}]
  <2>1. /\ DOMAIN task_idx' = Segment
        /\ task_idx' = [seg \in Segment |-> task_idx'[seg]]
    BY DEF remove_tasks
  <2> QED BY <2>1, <1>7
<1>9. QueueTypeOK'
  BY <1>3, <1>5, <1>6, <1>8 DEF QueueTypeOK
<1>10. IndexPointsIntoRing'
  BY <1>7 DEF IndexPointsIntoRing, TASK_PRIORITY_SEG
<1> QED BY <1>4, <1>9, <1>10 DEF QueueInv

\* The empty ring.
LEMMA EmptyRing == QueueInit => QueueInv /\ Queued = {}
<1> SUFFICES ASSUME QueueInit PROVE QueueInv /\ Queued = {}
  OBVIOUS
<1>1. <<>> \in Seq(Task) /\ Len(<<>>) = 0 /\ DOMAIN <<>> = {}
  BY EmptySeq
<1> QED BY <1>1 DEF QueueInit, QueueInv, QueueTypeOK, IndexPointsIntoRing, Queued

\* Every step of the queue, and every step that leaves it alone.
LEMMA PointersNext == QueueInv /\ [QueueNext]_queueVars => QueueInv'
<1> SUFFICES ASSUME QueueInv, [QueueNext]_queueVars PROVE QueueInv'
  OBVIOUS
<1>1. CASE UNCHANGED queueVars
  BY <1>1 DEF queueVars, QueueInv, QueueTypeOK, IndexPointsIntoRing, Queued, TASK_PRIORITY_SEG
<1> QED BY <1>1, InsertKeepsPointers, PopKeepsPointers, RemoveKeepsPointers
        DEF QueueNext, apr_thread_pool_push, apr_thread_pool_top

(***************************************************************************)
(* add_if_empty and pop_task follow task_idx without looking: it never     *)
(* points to a task that was popped or removed, nor to one of another      *)
(* segment, whatever the tasks' priorities are.                            *)
(***************************************************************************)
THEOREM PointersTheorem == QueueSpec => []IndexPointsIntoRing
<1>1. QueueInv => IndexPointsIntoRing
  BY DEF QueueInv
<1> QED BY <1>1, EmptyRing, PointersNext, PTL DEF QueueSpec

----------------------------------------------------------------------------
(***************************************************************************)
(* The order of the ring, whatever the priorities are.  A pointer need not *)
(* be on the first task of its segment, nor the ring in order before it:   *)
(* what the operations keep in order is the part from a pointer on.        *)
(***************************************************************************)
OrderInv == QueueInv /\ OrderedFromPointers

\* A segment's pointer is in the ring, and no higher segment follows it.
LEMMA FromPointer ==
  ASSUME OrderInv, NEW seg \in Segment, task_idx[seg] # NoTask
  PROVE  /\ Position(task_idx[seg]) \in 1 .. Len(tasks)
         /\ tasks[Position(task_idx[seg])] = task_idx[seg]
         /\ TASK_PRIORITY_SEG(tasks[Position(task_idx[seg])]) = seg
         /\ \A k \in 1 .. Len(tasks) : Position(task_idx[seg]) <= k =>
              TASK_PRIORITY_SEG(tasks[k]) <= seg
<1> DEFINE p == Position(task_idx[seg])
<1>1. DOMAIN tasks = 1 .. Len(tasks) /\ Len(tasks) \in Nat /\ seg \in Nat
  BY RingShape DEF OrderInv, Segment, TASK_PRIORITY_SEGS
<1>2. p \in 1 .. Len(tasks) /\ tasks[p] = task_idx[seg] /\ TASK_PRIORITY_SEG(tasks[p]) = seg
  BY RingShape DEF OrderInv, QueueInv, IndexPointsIntoRing
<1>3. \A k \in 1 .. Len(tasks) : p < k => TASK_PRIORITY_SEG(tasks[k]) <= seg
  BY <1>1, <1>2 DEF OrderInv, OrderedFromPointers
<1>4. \A k \in 1 .. Len(tasks) : p <= k => TASK_PRIORITY_SEG(tasks[k]) <= seg
  <2> SUFFICES ASSUME NEW k \in 1 .. Len(tasks), p <= k PROVE TASK_PRIORITY_SEG(tasks[k]) <= seg
    OBVIOUS
  <2> HIDE DEF p
  <2>1. CASE p < k
    BY <2>1, <1>3
  <2>2. CASE k = p
    BY <2>2, <1>1, <1>2
  <2> QED BY <2>1, <2>2, <1>1, <1>2
<1> QED BY <1>2, <1>4

(***************************************************************************)
(* Where a task goes: no higher segment and none of its equals pushed      *)
(* before follows it, and from the pointer of its segment up to it there   *)
(* is no lower priority.                                                   *)
(***************************************************************************)
LEMMA OrderedPlace ==
  ASSUME OrderInv, NEW t \in Task, NEW push \in BOOLEAN
  PROVE  LET seg   == TASK_PRIORITY_SEG(t)
             place == PlaceOf(t, push)
         IN  /\ \A k \in 1 .. Len(tasks) : place <= k =>
                  /\ TASK_PRIORITY_SEG(tasks[k]) <= seg
                  /\ TASK_PRIORITY_SEG(tasks[k]) = seg =>
                       /\ task_idx[seg] # NoTask
                       /\ Priority[tasks[k]] <= Priority[t]
                       /\ push => Priority[tasks[k]] < Priority[t]
             /\ task_idx[seg] # NoTask =>
                  \A k \in 1 .. Len(tasks) : Position(task_idx[seg]) <= k /\ k < place =>
                    Priority[tasks[k]] >= Priority[t]
             /\ \A r \in Segment : r < seg /\ task_idx[r] # NoTask =>
                  place <= Position(task_idx[r])
<1> DEFINE seg   == TASK_PRIORITY_SEG(t)
           start == Position(task_idx[seg])
           place == PlaceOf(t, push)
           s(i)  == TASK_PRIORITY_SEG(tasks[i])
<1>1. /\ DOMAIN tasks = 1 .. Len(tasks) /\ Len(tasks) \in Nat /\ Sentinel = Len(tasks) + 1
      /\ \A i \in 1 .. Len(tasks) : tasks[i] \in Task
  BY RingShape DEF OrderInv, Sentinel
<1>2. /\ \A i \in 1 .. Len(tasks) : /\ Priority[tasks[i]] \in Nat /\ s(i) \in Nat
                                    /\ s(i) < seg => Priority[tasks[i]] < Priority[t]
      /\ seg \in Segment /\ seg \in Nat /\ Priority[t] \in Nat
      /\ \A r \in Segment : r \in Nat
  BY <1>1, SegmentOfTask DEF Segment, TASK_PRIORITY_SEGS
<1>3. CASE task_idx[seg] # NoTask
  <2>1. /\ start \in 1 .. Len(tasks) /\ s(start) = seg
        /\ \A k \in 1 .. Len(tasks) : start <= k => s(k) <= seg
    BY <1>2, <1>3, FromPointer
  <2>2. \A i, j \in 1 .. Len(tasks) : start <= i /\ i < j /\ s(j) = seg =>
          Priority[tasks[i]] >= Priority[tasks[j]]
    BY <1>1, <1>2, <1>3 DEF OrderInv, OrderedFromPointers
  <2>3. /\ place \in start .. Sentinel
        /\ place # Sentinel => /\ Priority[tasks[place]] <= Priority[t]
                               /\ push => Priority[tasks[place]] < Priority[t]
        /\ \A k \in start .. place - 1 : Priority[tasks[k]] >= Priority[t]
    <3> DEFINE first == SameOrLowerPlace(t)
    <3>1. /\ first \in start .. Sentinel
          /\ first = Sentinel \/ Priority[tasks[first]] <= Priority[t]
          /\ \A k \in start .. first - 1 : ~ (Priority[tasks[k]] <= Priority[t])
      BY <1>3, SameOrLower DEF OrderInv
    <3>2. /\ LowerPlace(t) \in first .. Sentinel
          /\ LowerPlace(t) = Sentinel \/ Priority[tasks[LowerPlace(t)]] < Priority[t]
          /\ \A k \in first .. LowerPlace(t) - 1 : ~ (Priority[tasks[k]] < Priority[t])
      BY <1>3, Lower DEF OrderInv
    <3>3. place = IF push THEN LowerPlace(t) ELSE first
      BY <1>3 DEF PlaceOf
    <3> HIDE DEF start, place, first
    <3>4. CASE push
      <4>1. place \in start .. Sentinel
        BY <3>1, <3>2, <3>3, <3>4, <2>1, <1>1
      <4>2. place # Sentinel => Priority[tasks[place]] < Priority[t] /\ place \in 1 .. Len(tasks)
        BY <3>2, <3>3, <3>4, <4>1, <2>1, <1>1
      <4>3. ASSUME NEW k \in start .. place - 1 PROVE Priority[tasks[k]] >= Priority[t]
        <5>1. k \in start .. first - 1 \/ k \in first .. place - 1
          BY <3>1, <4>1, <2>1, <1>1
        <5>2. k \in 1 .. Len(tasks)
          BY <4>1, <2>1, <1>1
        <5> QED BY <5>1, <5>2, <3>1, <3>2, <3>3, <3>4, <1>2
      <4> QED BY <4>1, <4>2, <4>3, <1>2
    <3>5. CASE ~ push
      <4>1. \A k \in start .. place - 1 : k \in 1 .. Len(tasks)
        BY <3>1, <3>3, <3>5, <2>1, <1>1
      <4> QED BY <4>1, <3>1, <3>3, <3>5, <1>2
    <3> QED BY <3>4, <3>5
  <2> HIDE DEF place, start
  <2>4. ASSUME NEW k \in 1 .. Len(tasks), place <= k
        PROVE  /\ s(k) <= seg
               /\ s(k) = seg => /\ Priority[tasks[k]] <= Priority[t]
                                /\ push => Priority[tasks[k]] < Priority[t]
    <3>1. start <= k /\ place # Sentinel /\ place \in 1 .. Len(tasks) /\ start <= place
      BY <2>1, <2>3, <2>4, <1>1
    <3>2. s(k) <= seg
      BY <3>1, <2>1
    <3>3. s(k) = seg => Priority[tasks[place]] >= Priority[tasks[k]]
      <4>1. CASE k = place
        BY <4>1, <1>2
      <4>2. CASE place < k
        BY <4>2, <3>1, <2>2
      <4> QED BY <4>1, <4>2, <2>4, <3>1
    <3> HIDE DEF s, seg
    <3> QED BY <3>1, <3>2, <3>3, <2>3, <1>2
  <2>5. ASSUME NEW r \in Segment, r < seg, task_idx[r] # NoTask
        PROVE  place <= Position(task_idx[r])
    <3> DEFINE q == Position(task_idx[r])
    <3>1. /\ q \in 1 .. Len(tasks) /\ s(q) = r
          /\ \A k \in 1 .. Len(tasks) : q <= k => s(k) <= r
      BY <2>5, FromPointer
    <3> HIDE DEF q, s, seg
    <3>2. start < q
      BY <3>1, <2>1, <2>5, <1>1, <1>2
    <3>3. Priority[tasks[q]] < Priority[t]
      BY <3>1, <2>5, <1>2
    <3>4. ~ (q < place)
      <4>1. ASSUME q < place PROVE FALSE
        <5>1. q \in start .. place - 1
          BY <4>1, <3>1, <3>2, <2>1, <2>3, <1>1
        <5> QED BY <5>1, <3>1, <3>3, <2>3, <1>2
      <4> QED BY <4>1
    <3> QED BY <3>1, <3>4, <2>1, <2>3, <1>1 DEF q
  <2> QED BY <2>1, <2>3, <2>4, <2>5, <1>3 DEF place, start
<1>4. CASE task_idx[seg] = NoTask
  <2>1. place = EmptySegmentPlace(t)
    BY <1>4 DEF PlaceOf
  <2>2. CASE /\ place = Sentinel
             /\ \A r \in Segment : r < seg => task_idx[r] = NoTask
    <3>1. \A k \in 1 .. Len(tasks) : ~ (place <= k)
      BY <2>2, <1>1
    <3> QED BY <3>1, <2>2, <1>4
  <2>3. ASSUME NEW low \in Segment, low < seg, task_idx[low] # NoTask,
               \A r \in Segment : r < seg /\ task_idx[r] # NoTask => r <= low,
               place = Position(task_idx[low])
        PROVE  /\ \A k \in 1 .. Len(tasks) : place <= k => s(k) < seg
               /\ \A r \in Segment : r < seg /\ task_idx[r] # NoTask =>
                    place <= Position(task_idx[r])
    <3> HIDE DEF place
    <3>1. /\ place \in 1 .. Len(tasks) /\ s(place) = low
          /\ \A k \in 1 .. Len(tasks) : place <= k => s(k) <= low
      BY <2>3, FromPointer
    <3>2. ASSUME NEW r \in Segment, r < seg, task_idx[r] # NoTask
          PROVE  place <= Position(task_idx[r])
      <4> DEFINE q == Position(task_idx[r])
      <4>1. /\ q \in 1 .. Len(tasks) /\ s(q) = r
            /\ \A k \in 1 .. Len(tasks) : q <= k => s(k) <= r
        BY <3>2, FromPointer
      <4>2. r <= low
        BY <3>2, <2>3
      <4> HIDE DEF q, s, seg
      <4>3. ~ (q < place)
        <5>1. ASSUME q < place PROVE FALSE
          <6>1. s(place) <= r
            BY <5>1, <4>1, <3>1, <1>1
          <6>2. r = low
            BY <6>1, <4>2, <3>1, <1>2
          <6> QED BY <6>2, <5>1, <2>3, <1>1, <3>1, <4>1 DEF q
        <5> QED BY <5>1
      <4> QED BY <4>1, <4>3, <3>1, <1>1 DEF q
    <3>3. ASSUME NEW k \in 1 .. Len(tasks), place <= k PROVE s(k) < seg
      <4> HIDE DEF s, seg
      <4> QED BY <3>1, <3>3, <2>3, <1>2
    <3> QED BY <3>2, <3>3
  <2>4. \/ /\ place = Sentinel
           /\ \A r \in Segment : r < seg => task_idx[r] = NoTask
        \/ \E low \in Segment :
             /\ low < seg /\ task_idx[low] # NoTask
             /\ \A r \in Segment : r < seg /\ task_idx[r] # NoTask => r <= low
             /\ place = Position(task_idx[low])
    BY <2>1, EmptyPlace DEF OrderInv
  <2>5. /\ \A k \in 1 .. Len(tasks) : place <= k => s(k) < seg
        /\ \A r \in Segment : r < seg /\ task_idx[r] # NoTask =>
             place <= Position(task_idx[r])
    <3>1. CASE /\ place = Sentinel
               /\ \A r \in Segment : r < seg => task_idx[r] = NoTask
      BY <3>1, <1>1
    <3> HIDE DEF place, s, seg
    <3> QED BY <3>1, <2>3, <2>4
  <2>6. \A k \in 1 .. Len(tasks) : place <= k => s(k) <= seg /\ s(k) # seg
    <3> HIDE DEF place, s, seg
    <3> QED BY <2>5, <1>2
  <2> QED BY <2>5, <2>6, <1>4
<1> QED BY <1>3, <1>4

\* Linking a task keeps the order and puts a pushed task behind its equals.
LEMMA InsertKeepsOrder ==
  ASSUME OrderInv, NEW t \in Task, NEW push \in BOOLEAN, InsertTask(t, push)
  PROVE  /\ OrderInv'
         /\ \A i, j \in DOMAIN tasks' :
              push /\ tasks'[i] = t /\ Priority[tasks'[j]] = Priority[t] => j <= i
<1> DEFINE place == PlaceOf(t, push)
           seg   == TASK_PRIORITY_SEG(t)
           old(k) == IF k < place THEN k ELSE k - 1
           s(i)  == TASK_PRIORITY_SEG(tasks[i])
<1>1. place \in 1 .. Len(tasks) + 1
  BY PlaceInRing DEF OrderInv
<1>2. /\ t \notin Queued /\ tasks' = InsertAt(tasks, place, t)
      /\ task_idx' = IF BecomesIndex(t, push, place)
                     THEN [task_idx EXCEPT ![seg] = t] ELSE task_idx
  BY DEF InsertTask, PlaceOf
<1>3. /\ tasks \in Seq(Task) /\ DOMAIN tasks = 1 .. Len(tasks) /\ Len(tasks) \in Nat
      /\ \A i \in 1 .. Len(tasks) : tasks[i] \in Task /\ tasks[i] # NoTask
  BY RingShape DEF OrderInv
<1>4. /\ \A i \in 1 .. Len(tasks) : /\ Priority[tasks[i]] \in Nat /\ s(i) \in Nat
                                    /\ s(i) < seg => Priority[tasks[i]] < Priority[t]
      /\ seg \in Segment /\ seg \in Nat /\ Priority[t] \in Nat
      /\ \A r \in Segment : r \in Nat
  BY <1>3, SegmentOfTask DEF Segment, TASK_PRIORITY_SEGS
<1>5. \A k \in 1 .. Len(tasks) : place <= k =>
        /\ s(k) <= seg
        /\ s(k) = seg => /\ task_idx[seg] # NoTask
                         /\ Priority[tasks[k]] <= Priority[t]
                         /\ push => Priority[tasks[k]] < Priority[t]
  BY OrderedPlace
<1>6. task_idx[seg] # NoTask =>
        \A k \in 1 .. Len(tasks) : Position(task_idx[seg]) <= k /\ k < place =>
          Priority[tasks[k]] >= Priority[t]
  BY OrderedPlace
<1>7. \A r \in Segment : r < seg /\ task_idx[r] # NoTask => place <= Position(task_idx[r])
  BY OrderedPlace
<1>8. BecomesIndex(t, push, place) =>
        task_idx[seg] = NoTask \/ place = Position(task_idx[seg])
  BY DEF BecomesIndex
<1> HIDE DEF place
<1>9. /\ tasks' \in Seq(Task) /\ Len(tasks') = Len(tasks) + 1
      /\ \A k \in 1 .. Len(tasks) + 1 :
           tasks'[k] = IF k < place THEN tasks[k] ELSE IF k = place THEN t ELSE tasks[k - 1]
  <2>1. /\ InsertAt(tasks, place, t) \in Seq(Task)
        /\ Len(InsertAt(tasks, place, t)) = Len(tasks) + 1
        /\ \A k \in 1 .. Len(tasks) + 1 :
             InsertAt(tasks, place, t)[k] =
               IF k < place THEN tasks[k] ELSE IF k = place THEN t ELSE tasks[k - 1]
    BY <1>1, <1>3, InsertAtProperties
  <2> QED BY <1>2, <2>1
<1>10. DOMAIN tasks' = 1 .. Len(tasks) + 1
  BY <1>9, LenProperties
<1>11. /\ tasks'[place] = t
       /\ \A k \in 1 .. Len(tasks) + 1 : k # place =>
            old(k) \in 1 .. Len(tasks) /\ tasks'[k] = tasks[old(k)]
  BY <1>1, <1>3, <1>9
<1>12. QueueInv'
  BY InsertKeepsPointers DEF OrderInv
<1>13. ASSUME push, NEW i \in DOMAIN tasks', NEW j \in DOMAIN tasks',
              tasks'[i] = t, Priority[tasks'[j]] = Priority[t]
       PROVE  j <= i
  <2>1. i = place
    BY <1>1, <1>10, <1>11, <1>12, <1>13 DEF QueueInv, QueueTypeOK
  <2>2. ASSUME place < j PROVE FALSE
    <3>1. old(j) \in 1 .. Len(tasks) /\ tasks'[j] = tasks[old(j)] /\ place <= old(j)
      BY <2>2, <1>1, <1>3, <1>10, <1>11
    <3>2. s(old(j)) = seg
      BY <3>1, <1>13 DEF TASK_PRIORITY_SEG
    <3> QED BY <3>1, <3>2, <1>4, <1>5, <1>13
  <2> QED BY <2>1, <2>2, <1>1, <1>3, <1>10
<1>14. ASSUME NEW r \in Segment, task_idx'[r] # NoTask,
              NEW i \in 1 .. Len(tasks) + 1, NEW j \in 1 .. Len(tasks) + 1,
              Position(task_idx[r])' <= i, i < j
       PROVE  /\ TASK_PRIORITY_SEG(tasks'[j]) <= r
              /\ TASK_PRIORITY_SEG(tasks'[j]) = r => Priority[tasks'[i]] >= Priority[tasks'[j]]
  <2> DEFINE new == Position(task_idx[r])'
             p   == Position(task_idx[r])
  <2>1. new \in 1 .. Len(tasks) + 1 /\ tasks'[new] = task_idx'[r]
    <3>1. /\ new \in 1 .. Len(tasks') /\ tasks'[new] = task_idx'[r]
      <4>1. task_idx'[r] \in Queued'
        BY <1>12, <1>14 DEF QueueInv, IndexPointsIntoRing
      <4>2. new \in DOMAIN tasks' /\ tasks'[new] = task_idx'[r]
        BY <4>1 DEF Queued, Position
      <4> QED BY <4>2, <1>9, <1>10
    <3> QED BY <3>1, <1>9
  <2> HIDE DEF new
  <2>2. new <= i
    BY <1>14 DEF new
  <2>3. CASE r = seg /\ BecomesIndex(t, push, place)
    <3>1. new = place
      <4>1. task_idx'[r] = t
        BY <2>3, <1>2, <1>4 DEF OrderInv, QueueInv, QueueTypeOK
      <4> QED BY <4>1, <2>1, <1>1, <1>10, <1>11, <1>12 DEF QueueInv, QueueTypeOK
    <3>2. old(j) \in 1 .. Len(tasks) /\ tasks'[j] = tasks[old(j)] /\ place <= old(j)
      BY <3>1, <2>2, <1>1, <1>3, <1>11, <1>14
    <3>3. s(old(j)) <= seg /\ (s(old(j)) = seg => Priority[tasks[old(j)]] <= Priority[t])
      BY <3>2, <1>5
    <3>4. CASE i = place
      BY <3>2, <3>3, <3>4, <2>3, <1>11
    <3>5. CASE i # place
      <4>1. /\ old(i) \in 1 .. Len(tasks) /\ tasks'[i] = tasks[old(i)]
            /\ place <= old(i) /\ old(i) < old(j)
        BY <3>1, <3>5, <2>2, <1>1, <1>3, <1>11, <1>14
      <4>2. ASSUME s(old(j)) = seg
            PROVE  Priority[tasks[old(i)]] >= Priority[tasks[old(j)]]
        <5>1. task_idx[seg] # NoTask
          BY <4>2, <3>2, <1>5
        <5>2. Position(task_idx[seg]) = place
          BY <5>1, <2>3, <1>8
        <5> HIDE DEF old
        <5> QED BY <5>1, <5>2, <4>1, <4>2, <3>2, <1>3, <1>4 DEF OrderInv, OrderedFromPointers
      <4> QED BY <3>2, <3>3, <4>1, <4>2, <2>3
    <3> QED BY <3>4, <3>5
  <2>4. CASE ~ (r = seg /\ BecomesIndex(t, push, place))
    <3>1. task_idx'[r] = task_idx[r]
      BY <2>4, <1>2, <1>4 DEF OrderInv, QueueInv, QueueTypeOK
    <3>2. task_idx[r] # NoTask
      BY <3>1, <1>14
    <3>3. /\ p \in 1 .. Len(tasks) /\ tasks[p] = task_idx[r] /\ s(p) = r
          /\ \A k \in 1 .. Len(tasks) : p <= k => s(k) <= r
      BY <3>2, FromPointer
    <3>4. \A k, l \in 1 .. Len(tasks) : p <= k /\ k < l /\ s(l) = r =>
            Priority[tasks[k]] >= Priority[tasks[l]]
      BY <3>2, <1>3 DEF OrderInv, OrderedFromPointers
    <3>5. r < seg => place <= p
      BY <3>2, <1>7
    <3>6. r = seg => \A k \in 1 .. Len(tasks) : p <= k /\ k < place =>
                       Priority[tasks[k]] >= Priority[t]
      BY <3>2, <1>6
    <3> HIDE DEF p
    <3>7. new # place /\ old(new) = p
      <4>1. new # place
        <5>1. tasks[p] \in Queued
          BY <3>3, <1>3 DEF Queued
        <5> QED BY <5>1, <3>1, <3>3, <2>1, <1>2, <1>11
      <4>2. old(new) \in 1 .. Len(tasks) /\ tasks[old(new)] = tasks[p]
        BY <4>1, <3>1, <3>3, <2>1, <1>11
      <4> HIDE DEF old
      <4> QED BY <4>1, <4>2, <3>3, <1>3 DEF OrderInv, QueueInv, QueueTypeOK
    <3>8. CASE j = place
      <4>1. i < place /\ tasks'[i] = tasks[i] /\ i \in 1 .. Len(tasks) /\ p <= i
        BY <3>7, <3>8, <2>1, <2>2, <1>1, <1>3, <1>11, <1>14
      <4>2. seg <= r
        BY <3>3, <3>5, <4>1, <1>1, <1>3, <1>4
      <4>3. r = seg => Priority[tasks[i]] >= Priority[t]
        BY <3>6, <4>1
      <4> QED BY <3>8, <4>1, <4>2, <4>3, <1>11
    <3>9. CASE i = place
      <4>1. /\ old(j) \in 1 .. Len(tasks) /\ tasks'[j] = tasks[old(j)]
            /\ place <= old(j) /\ p <= old(j)
        BY <3>3, <3>7, <3>9, <2>1, <2>2, <1>1, <1>3, <1>11, <1>14
      <4>2. s(old(j)) <= r /\ s(old(j)) <= seg
        BY <4>1, <3>3, <1>5
      <4>3. ASSUME s(old(j)) = r PROVE Priority[t] >= Priority[tasks[old(j)]]
        <5>1. r = seg => Priority[tasks[old(j)]] <= Priority[t]
          BY <4>1, <4>3, <1>5
        <5>2. r < seg => Priority[tasks[old(j)]] < Priority[t]
          BY <4>1, <4>3, <1>4
        <5> HIDE DEF s, seg, old
        <5> QED BY <5>1, <5>2, <4>1, <4>2, <4>3, <1>4
      <4> QED BY <3>9, <4>1, <4>2, <4>3, <1>11
    <3>10. CASE i # place /\ j # place
      <4>1. /\ old(i) \in 1 .. Len(tasks) /\ tasks'[i] = tasks[old(i)]
            /\ old(j) \in 1 .. Len(tasks) /\ tasks'[j] = tasks[old(j)]
        BY <3>10, <1>11, <1>14
      <4>2. i \in Nat /\ j \in Nat /\ new \in Nat /\ place \in Nat /\ Len(tasks) \in Nat
        BY <2>1, <1>1, <1>3, <1>14
      <4>3. old(i) < old(j) /\ old(new) <= old(i)
        BY <4>2, <3>7, <3>10, <2>2, <1>14
      <4>4. p <= old(i) /\ p <= old(j)
        BY <4>1, <4>3, <3>3, <3>7, <1>3
      <4> HIDE DEF old
      <4> QED BY <4>1, <4>3, <4>4, <3>3, <3>4
    <3> QED BY <3>8, <3>9, <3>10
  <2> QED BY <2>3, <2>4
<1>15. OrderedFromPointers'
  BY <1>10, <1>14 DEF OrderedFromPointers, TASK_PRIORITY_SEG
<1> QED BY <1>12, <1>13, <1>15 DEF OrderInv

\* Without its first task the ring keeps its order: the pointer moves on.
LEMMA PopKeepsOrder ==
  ASSUME OrderInv, PopFirst
  PROVE  OrderInv'
<1> DEFINE h == TASK_PRIORITY_SEG(Head(tasks))
           s(i) == TASK_PRIORITY_SEG(tasks[i])
<1>1. /\ tasks \in Seq(Task) /\ DOMAIN tasks = 1 .. Len(tasks) /\ Len(tasks) \in Nat
      /\ \A i \in 1 .. Len(tasks) : tasks[i] \in Task /\ tasks[i] # NoTask
  BY RingShape DEF OrderInv
<1>2. tasks # <<>> /\ Len(tasks) > 0 /\ tasks' = Tail(tasks)
  BY <1>1, EmptySeq DEF PopFirst, OrderInv, QueueInv, QueueTypeOK
<1>3. /\ tasks' \in Seq(Task) /\ Len(tasks') = Len(tasks) - 1
      /\ \A i \in 1 .. Len(tasks) - 1 : tasks'[i] = tasks[i + 1]
  BY <1>1, <1>2, HeadTailProperties
<1>4. DOMAIN tasks' = 1 .. Len(tasks) - 1 /\ Head(tasks) = tasks[1]
  BY <1>1, <1>2, <1>3, LenProperties
<1>5. QueueInv'
  BY PopKeepsPointers DEF OrderInv
<1>6. ASSUME NEW r \in Segment, task_idx'[r] # NoTask,
             NEW i \in 1 .. Len(tasks) - 1, NEW j \in 1 .. Len(tasks) - 1,
             Position(task_idx[r])' <= i, i < j
      PROVE  /\ TASK_PRIORITY_SEG(tasks'[j]) <= r
             /\ TASK_PRIORITY_SEG(tasks'[j]) = r => Priority[tasks'[i]] >= Priority[tasks'[j]]
  <2> DEFINE new == Position(task_idx[r])'
             p   == Position(task_idx[r])
  <2>1. new \in 1 .. Len(tasks) - 1 /\ tasks'[new] = task_idx'[r]
    <3>1. task_idx'[r] \in Queued'
      BY <1>5, <1>6 DEF QueueInv, IndexPointsIntoRing
    <3>2. new \in DOMAIN tasks' /\ tasks'[new] = task_idx'[r]
      BY <3>1 DEF Queued, Position
    <3> QED BY <3>2, <1>4
  <2>2. task_idx[r] # NoTask /\ p <= new + 1
    <3> HIDE DEF new
    <3>1. DOMAIN task_idx = Segment
      BY DEF OrderInv, QueueInv, QueueTypeOK
    <3>2. CASE task_idx[r] = Head(tasks)
      <4>1. task_idx[r] # NoTask
        BY <3>2, <1>1, <1>2, <1>4
      <4>2. p \in 1 .. Len(tasks) /\ tasks[p] = tasks[1]
        BY <3>2, <4>1, <1>4, FromPointer
      <4>3. p = 1
        BY <4>2, <1>1, <1>2 DEF OrderInv, QueueInv, QueueTypeOK
      <4> QED BY <4>1, <4>3, <2>1, <1>1
    <3>3. CASE task_idx[r] # Head(tasks)
      <4>1. task_idx'[r] = task_idx[r]
        BY <3>1, <3>3 DEF PopFirst
      <4>2. task_idx[r] # NoTask
        BY <4>1, <1>6
      <4>3. p \in 1 .. Len(tasks) /\ tasks[p] = task_idx[r]
        BY <4>2, FromPointer
      <4>4. tasks[new + 1] = tasks[p] /\ new + 1 \in 1 .. Len(tasks)
        BY <4>1, <4>3, <2>1, <1>1, <1>3
      <4>5. p = new + 1
        BY <4>3, <4>4, <1>1 DEF OrderInv, QueueInv, QueueTypeOK
      <4> QED BY <4>2, <4>5, <4>3
    <3> QED BY <3>2, <3>3
  <2>3. /\ p \in 1 .. Len(tasks)
        /\ \A k, l \in 1 .. Len(tasks) : p <= k /\ k < l =>
             s(l) <= r /\ (s(l) = r => Priority[tasks[k]] >= Priority[tasks[l]])
    <3>1. \A k, l \in 1 .. Len(tasks) : p <= k /\ k < l =>
             s(l) <= r /\ (s(l) = r => Priority[tasks[k]] >= Priority[tasks[l]])
      BY <2>2, <1>1 DEF OrderInv, OrderedFromPointers
    <3>2. p \in 1 .. Len(tasks)
      BY <2>2, FromPointer
    <3> HIDE DEF p, s
    <3> QED BY <3>1, <3>2
  <2>4. new <= i
    BY <1>6
  <2> HIDE DEF new, p
  <2>5. /\ i + 1 \in 1 .. Len(tasks) /\ j + 1 \in 1 .. Len(tasks)
        /\ tasks'[i] = tasks[i + 1] /\ tasks'[j] = tasks[j + 1]
        /\ p <= i + 1 /\ i + 1 < j + 1
    BY <2>1, <2>2, <2>3, <2>4, <1>1, <1>3, <1>6
  <2> QED BY <2>3, <2>5
<1>7. OrderedFromPointers'
  BY <1>4, <1>6 DEF OrderedFromPointers, TASK_PRIORITY_SEG
<1> QED BY <1>5, <1>7 DEF OrderInv

\* A pointer only slides down: what removals leave from it on was from it on.
LEMMA RemoveKeepsOrder ==
  ASSUME OrderInv, NEW owner, remove_tasks(owner)
  PROVE  OrderInv'
<1> DEFINE s(i) == TASK_PRIORITY_SEG(tasks[i])
<1>1. /\ tasks \in Seq(Task) /\ DOMAIN tasks = 1 .. Len(tasks) /\ Len(tasks) \in Nat
      /\ \A i \in 1 .. Len(tasks) : tasks[i] \in Task /\ tasks[i] # NoTask
  BY RingShape DEF OrderInv
<1>2. tasks' = Without(owner, tasks)
  BY DEF remove_tasks
<1>3. tasks' \in Seq(Task) /\ DOMAIN tasks' = 1 .. Len(tasks') /\ Len(tasks') \in Nat
  BY <1>1, <1>2, WithoutIsSubsequence, LenProperties
<1>4. PICK place \in [1 .. Len(tasks') -> 1 .. Len(tasks)] :
        /\ \A m, n \in 1 .. Len(tasks') : m < n => place[m] < place[n]
        /\ \A n \in 1 .. Len(tasks') : tasks'[n] = tasks[place[n]]
  <2> DEFINE kept == Without(owner, tasks)
  <2>1. PICK place \in [1 .. Len(kept) -> 1 .. Len(tasks)] :
          /\ \A m, n \in 1 .. Len(kept) : m < n => place[m] < place[n]
          /\ \A n \in 1 .. Len(kept) :
               kept[n] = tasks[place[n]] /\ OwnerOf[kept[n]] # owner
          /\ \A i \in 1 .. Len(tasks) : OwnerOf[tasks[i]] # owner =>
               \E n \in 1 .. Len(kept) : place[n] = i
    BY <1>1, WithoutIsSubsequence
  <2>2. tasks' = kept
    BY <1>2
  <2> HIDE DEF kept
  <2> QED BY <2>1, <2>2
<1>5. QueueInv'
  BY RemoveKeepsPointers DEF OrderInv
<1>6. ASSUME NEW r \in Segment, task_idx'[r] # NoTask,
             NEW m \in 1 .. Len(tasks'), NEW n \in 1 .. Len(tasks'),
             Position(task_idx[r])' <= m, m < n
      PROVE  /\ TASK_PRIORITY_SEG(tasks'[n]) <= r
             /\ TASK_PRIORITY_SEG(tasks'[n]) = r => Priority[tasks'[m]] >= Priority[tasks'[n]]
  <2> DEFINE new == Position(task_idx[r])'
             p   == Position(task_idx[r])
  <2>1. new \in 1 .. Len(tasks') /\ tasks'[new] = task_idx'[r] /\ new <= m
    <3>1. task_idx'[r] \in Queued'
      BY <1>5, <1>6 DEF QueueInv, IndexPointsIntoRing
    <3>2. new \in DOMAIN tasks' /\ tasks'[new] = task_idx'[r]
      BY <3>1 DEF Queued, Position
    <3> QED BY <3>2, <1>3, <1>6
  <2> HIDE DEF new
  <2>2. task_idx[r] # NoTask
    BY <1>6 DEF remove_tasks
  <2>3. p \in 1 .. Len(tasks)
    BY <2>2, FromPointer
  <2>4. \A k, l \in 1 .. Len(tasks) : p <= k /\ k < l =>
          s(l) <= r /\ (s(l) = r => Priority[tasks[k]] >= Priority[tasks[l]])
    BY <2>2, <1>1 DEF OrderInv, OrderedFromPointers
  <2>5. PICK j \in p .. Sentinel : j # Sentinel /\ task_idx'[r] = tasks[j]
    <3>1. QueueInv
      BY DEF OrderInv
    <3>2. \E j \in p .. Sentinel :
            task_idx'[r] = IF j # Sentinel /\ \A k \in p .. j : s(k) = r
                           THEN tasks[j] ELSE NoTask
      BY ONLY <2>2, <3>1, r \in Segment, remove_tasks(owner), PointerSlides
    <3> HIDE DEF p, s
    <3> QED BY <3>2, <1>6
  <2> HIDE DEF p
  <2>6. j \in 1 .. Len(tasks) /\ p <= j
    BY <2>3, <2>5, <1>1 DEF Sentinel
  <2>7. place[new] = j
    <3>1. place[new] \in 1 .. Len(tasks) /\ tasks[place[new]] = tasks[j]
      BY <2>1, <2>5, <1>4
    <3> QED BY <3>1, <2>6, <1>1 DEF OrderInv, QueueInv, QueueTypeOK
  <2>8. /\ place[m] \in 1 .. Len(tasks) /\ place[n] \in 1 .. Len(tasks)
        /\ tasks'[m] = tasks[place[m]] /\ tasks'[n] = tasks[place[n]]
        /\ place[m] < place[n] /\ place[new] <= place[m]
    <3>1. new < m => place[new] < place[m]
      BY <2>1, <1>4
    <3>2. place[new] <= place[m]
      BY <3>1, <2>1, <2>6, <2>7, <1>3, <1>4
    <3> QED BY <3>2, <1>4, <1>6
  <2>9. p <= place[m]
    BY <2>3, <2>6, <2>7, <2>8, <1>1
  <2> QED BY <2>4, <2>8, <2>9
<1>7. OrderedFromPointers'
  BY <1>3, <1>6 DEF OrderedFromPointers, TASK_PRIORITY_SEG
<1> QED BY <1>5, <1>7 DEF OrderInv

\* Every step of the queue keeps the order.
LEMMA OrderNext == OrderInv /\ [QueueNext]_queueVars => OrderInv'
<1> SUFFICES ASSUME OrderInv, [QueueNext]_queueVars PROVE OrderInv'
  OBVIOUS
<1>1. CASE UNCHANGED queueVars
  BY <1>1, PointersNext DEF queueVars, OrderInv, OrderedFromPointers, Position,
                            TASK_PRIORITY_SEG
<1>2. ASSUME NEW t \in Task, apr_thread_pool_push(t) \/ apr_thread_pool_top(t) PROVE OrderInv'
  BY <1>2, InsertKeepsOrder DEF apr_thread_pool_push, apr_thread_pool_top
<1> QED BY <1>1, <1>2, PopKeepsOrder, RemoveKeepsOrder DEF QueueNext

LEMMA EmptyRingInOrder == QueueInit => OrderInv
<1> SUFFICES ASSUME QueueInit PROVE OrderInv
  OBVIOUS
<1>1. DOMAIN tasks = {}
  BY EmptySeq DEF QueueInit
<1> QED BY <1>1, EmptyRing DEF OrderInv, OrderedFromPointers

(***************************************************************************)
(* Whatever the priorities are and whatever pops and removals did: from    *)
(* the pointer of a segment on, where add_if_empty looks for a place, the  *)
(* segment's tasks are in priority order and no higher segment follows.    *)
(***************************************************************************)
THEOREM OrderTheorem == QueueSpec => []OrderedFromPointers
<1>1. OrderInv => OrderedFromPointers
  BY DEF OrderInv
<1> QED BY <1>1, EmptyRingInOrder, OrderNext, PTL DEF QueueSpec

(***************************************************************************)
(* push puts a task behind all those of its priority, also when the        *)
(* segment's pointer was lost to a removal or stands behind some of them.  *)
(***************************************************************************)
THEOREM EqualsTheorem == QueueSpec => BehindItsEquals
<1>1. ASSUME OrderInv, NEW t \in Task, NEW i \in DOMAIN tasks', NEW j \in DOMAIN tasks',
             apr_thread_pool_push(t), tasks'[i] = t, Priority[tasks'[j]] = Priority[t]
      PROVE  j <= i
  BY <1>1, InsertKeepsOrder DEF apr_thread_pool_push
<1>2. OrderInv =>
        [\A t \in Task, i, j \in DOMAIN tasks' :
           apr_thread_pool_push(t) /\ tasks'[i] = t /\ Priority[tasks'[j]] = Priority[t]
             => j <= i]_queueVars
  BY <1>1
<1> QED BY <1>2, EmptyRingInOrder, OrderNext, PTL DEF QueueSpec, BehindItsEquals

------------------------------------------------------------------------------
(***************************************************************************)
(* Theorems about the thread pool, for any number of workers, callers,     *)
(* tasks and owners and for any limits.                                    *)
(*                                                                         *)
(* The counters are shown exact by induction.  The induction needs to know *)
(* where a listed thread can be: one on idle_thds has been parked and has  *)
(* not run a task since, and one that was trimmed is off the list, marked  *)
(* TH_STOP and headed for the join.                                        *)
(*                                                                         *)
(* That the pool implements TaskService is shown with two more facts: a    *)
(* task waits in one place at most, and a thread has a task exactly while  *)
(* it runs one.  Each step is then named for what it does to the tasks.    *)
(***************************************************************************)

Parked == {"parking", "waiting", "woken", "leaving", "joinable"}

\* The shape of the variables the threads and the trimmer share.
ThreadsType ==
  /\ pc \in [Worker -> {"none", "start", "run", "parking", "waiting", "woken",
                         "leaving", "detaching", "joinable"}]
  /\ state \in [Worker -> {"TH_RUN", "TH_STOP", "TH_PROBATION"}]
  /\ idle_thds \subseteq Worker /\ trimmed \subseteq Worker
  /\ idle_max \in Nat

\* Where a listed thread can be.
ThreadsPlaced ==
  /\ \A w \in idle_thds : pc[w] \in Parked /\ state[w] # "TH_STOP"
  /\ \A w \in trimmed : pc[w] \in Parked /\ state[w] = "TH_STOP"
  /\ \A w \in Worker : state[w] = "TH_STOP" => w \in trimmed
  /\ trimmed # {} => trimmer \in {"broadcast", "join"}

ThreadsInv == ThreadsType /\ ThreadsPlaced /\ CountsAreExact
----------------------------------------------------------------------------
\* Cardinality of a set of workers that gains or loses one.
LEMMA CountOne ==
  ASSUME NEW S \in SUBSET Worker, NEW w \in Worker
  PROVE  /\ Cardinality(S) \in Nat
         /\ w \notin S => Cardinality(S \cup {w}) = Cardinality(S) + 1
         /\ w \in S => Cardinality(S \ {w}) = Cardinality(S) - 1
<1>1. IsFiniteSet(S)
  BY PoolAssumption, FS_Subset DEF PoolAssumption
<1> QED BY <1>1, FS_AddElement, FS_RemoveElement, FS_CardinalityType

\* Cardinality of a set of workers that loses a part.
LEMMA CountPart ==
  ASSUME NEW S \in SUBSET Worker, NEW T \in SUBSET S
  PROVE  Cardinality(S) \in Nat /\ Cardinality(T) \in Nat
         /\ Cardinality(S \ T) = Cardinality(S) - Cardinality(T)
<1>1. IsFiniteSet(S) /\ IsFiniteSet(T)
  BY PoolAssumption, FS_Subset DEF PoolAssumption
<1>2. S \cap T = T
  OBVIOUS
<1> QED BY <1>1, <1>2, FS_Difference, FS_CardinalityType
----------------------------------------------------------------------------
\* The pool starts with exact counters.
LEMMA ThreadsInit == PoolInit => ThreadsInv
<1> SUFFICES ASSUME PoolInit PROVE ThreadsInv
  OBVIOUS
<1> USE DEF PoolInit
<1>1. Live = {w \in Worker : pc[w] = "start"}
  BY DEF Live
<1>2. Cardinality({}) = 0
  BY FS_EmptySet
<1>3. ThreadsType
  BY PoolAssumption DEF ThreadsType, PoolAssumption
<1>4. ThreadsPlaced
  BY DEF ThreadsPlaced
<1>5. CountsAreExact
  BY <1>1, <1>2 DEF CountsAreExact
<1> QED BY <1>3, <1>4, <1>5 DEF ThreadsInv
----------------------------------------------------------------------------
(***************************************************************************)
(* What a worker with the lock may do to itself: run a task, exit on its   *)
(* own, or go idle.  idle is idle_cnt without the worker.                  *)
(***************************************************************************)
Holding(w, idle) ==
  /\ pc[w] \in {"start", "woken", "run"} /\ state[w] # "TH_STOP"
  /\ idle = Cardinality(idle_thds \ {w})

\* A worker that takes a task is counted as before, and busy.
LEMMA RunKeepsThreads ==
  ASSUME ThreadsInv, NEW w \in Worker, NEW idle, NEW t, Holding(w, idle),
         Run(w, t, idle), UNCHANGED trimVars
  PROVE  ThreadsInv'
<1> USE DEF ThreadsInv
<1>1. w \notin trimmed
  BY DEF Holding, ThreadsPlaced
<1>2. ThreadsType'
  BY DEF ThreadsType, Run, trimVars
<1>3. ThreadsPlaced'
  BY <1>1 DEF ThreadsPlaced, ThreadsType, Run, trimVars
<1>4. Live' = Live
  BY DEF Live, Run, Holding, ThreadsType
<1>5. busy_thds' = {v \in Worker : pc'[v] = "run"}
  BY DEF CountsAreExact, Run, ThreadsType
<1>6. CountsAreExact'
  BY <1>4, <1>5 DEF CountsAreExact, Run, Holding
<1> QED BY <1>2, <1>3, <1>6

\* A worker that exits on its own is counted off everywhere.
LEMMA ExitKeepsThreads ==
  ASSUME ThreadsInv, NEW w \in Worker, NEW idle, Holding(w, idle),
         ExitDetached(w), idle_cnt' = idle, idle_thds' = idle_thds \ {w},
         UNCHANGED trimVars
  PROVE  ThreadsInv'
<1> USE DEF ThreadsInv
<1>1. w \notin trimmed
  BY DEF Holding, ThreadsPlaced
<1>2. ThreadsType'
  BY DEF ThreadsType, ExitDetached, trimVars
<1>3. ThreadsPlaced'
  BY <1>1 DEF ThreadsPlaced, ThreadsType, ExitDetached, trimVars
<1>4. Live' = Live \ {w} /\ w \in Live /\ Live \in SUBSET Worker
  BY DEF Live, ExitDetached, Holding, ThreadsType
<1>5. Cardinality(Live') = Cardinality(Live) - 1
  BY <1>4, CountOne
<1>6. busy_thds' = {v \in Worker : pc'[v] = "run"}
  BY DEF CountsAreExact, ExitDetached, ThreadsType
<1>7. CountsAreExact'
  BY <1>5, <1>6 DEF CountsAreExact, ExitDetached, Holding
<1> QED BY <1>2, <1>3, <1>7

\* A worker that goes idle is counted as before, and idle.
LEMMA IdleKeepsThreads ==
  ASSUME ThreadsInv, NEW w \in Worker, NEW idle, Holding(w, idle),
         BecomeIdle(w, idle), UNCHANGED trimVars
  PROVE  ThreadsInv'
<1> USE DEF ThreadsInv
<1>1. w \notin trimmed
  BY DEF Holding, ThreadsPlaced
<1>2. state' = state \/ state' = [state EXCEPT ![w] = "TH_PROBATION"]
  BY DEF BecomeIdle, ThreadsType
<1>3. ThreadsType'
  BY <1>2 DEF ThreadsType, BecomeIdle, trimVars
<1>4. ThreadsPlaced'
  BY <1>1, <1>2 DEF ThreadsPlaced, ThreadsType, BecomeIdle, Holding, Parked, trimVars
<1>5. Live' = Live
  BY DEF Live, BecomeIdle, Holding, ThreadsType
<1>6. busy_thds' = {v \in Worker : pc'[v] = "run"}
  BY DEF CountsAreExact, BecomeIdle, ThreadsType
<1>7. Cardinality(idle_thds') = Cardinality(idle_thds \ {w}) + 1
  <2>1. idle_thds' = (idle_thds \ {w}) \cup {w} /\ idle_thds \ {w} \in SUBSET Worker
    BY DEF BecomeIdle, ThreadsType
  <2> QED BY <2>1, CountOne
<1>8. CountsAreExact'
  BY <1>5, <1>6, <1>7 DEF CountsAreExact, BecomeIdle, Holding
<1> QED BY <1>3, <1>4, <1>8

\* The whole locked section of a worker: pop a task and run it, or settle.
LEMMA PopKeepsThreads ==
  ASSUME ThreadsInv, NEW w \in Worker, NEW idle, Holding(w, idle),
         PopAndGo(w, idle), UNCHANGED trimVars
  PROVE  ThreadsInv'
<1>1. ASSUME NEW t, RunOrDrop(w, t, idle) PROVE ThreadsInv'
  BY <1>1, RunKeepsThreads, ExitKeepsThreads DEF RunOrDrop
<1>2. ASSUME Settle(w, idle) PROVE ThreadsInv'
  BY <1>2, IdleKeepsThreads, ExitKeepsThreads DEF Settle
<1> QED BY <1>1, <1>2 DEF PopAndGo

\* An awakened or new thread: it leaves to be joined, or goes on.
LEMMA TakeLockKeepsThreads ==
  ASSUME ThreadsInv, NEW w \in Worker, TakeLock(w)
  PROVE  ThreadsInv'
<1>1. UNCHANGED trimVars /\ pc[w] \in {"start", "woken"}
  BY DEF TakeLock
<1>2. CASE thd_cnt' = thd_cnt - 1 /\ pc' = [pc EXCEPT ![w] = "leaving"]
           /\ UNCHANGED <<idle_cnt, busy_thds, idle_thds, state>>
  <2> USE DEF ThreadsInv
  <2>1. ThreadsType'
    BY <1>1, <1>2 DEF ThreadsType, trimVars
  <2>2. ThreadsPlaced'
    BY <1>1, <1>2 DEF ThreadsPlaced, ThreadsType, Parked, trimVars
  <2>3. Live' = Live \ {w} /\ w \in Live /\ Live \in SUBSET Worker
    BY <1>1, <1>2 DEF Live, ThreadsType
  <2>4. Cardinality(Live') = Cardinality(Live) - 1
    BY <2>3, CountOne
  <2>5. busy_thds' = {v \in Worker : pc'[v] = "run"}
    BY <1>1, <1>2 DEF CountsAreExact, ThreadsType
  <2>6. CountsAreExact'
    BY <1>2, <2>4, <2>5 DEF CountsAreExact
  <2> QED BY <2>1, <2>2, <2>6
<1>3. CASE /\ PopAndGo(w, IF w \in idle_thds THEN idle_cnt - 1 ELSE idle_cnt)
           /\ state[w] # "TH_STOP"
  <2> DEFINE idle == IF w \in idle_thds THEN idle_cnt - 1 ELSE idle_cnt
  <2>1. idle = Cardinality(idle_thds \ {w})
    <3>1. CASE w \in idle_thds
      BY <3>1, CountOne DEF ThreadsInv, ThreadsType, CountsAreExact
    <3>2. CASE w \notin idle_thds
      <4>1. idle_thds \ {w} = idle_thds
        BY <3>2
      <4> QED BY <3>2, <4>1 DEF ThreadsInv, CountsAreExact
    <3> QED BY <3>1, <3>2
  <2>2. Holding(w, idle)
    BY <1>1, <1>3, <2>1 DEF Holding
  <2> HIDE DEF idle
  <2>3. PopAndGo(w, idle)
    BY <1>3 DEF idle
  <2> QED BY <1>1, <2>2, <2>3, PopKeepsThreads
<1> QED BY <1>2, <1>3 DEF TakeLock, AskedToStop

\* A thread whose task function has returned goes on.
LEMMA FinishKeepsThreads ==
  ASSUME ThreadsInv, NEW w \in Worker, FinishTask(w)
  PROVE  ThreadsInv'
<1>1. w \notin idle_thds /\ w \notin trimmed
  BY DEF FinishTask, ThreadsInv, ThreadsPlaced, Parked
<1>2. idle_thds \ {w} = idle_thds
  BY <1>1
<1>3. Holding(w, idle_cnt)
  BY <1>1, <1>2 DEF Holding, FinishTask, ThreadsInv, ThreadsPlaced, CountsAreExact
<1> QED BY <1>3, PopKeepsThreads DEF FinishTask

(***************************************************************************)
(* A step that moves threads only between places where they stay counted   *)
(* and listed as they are.                                                 *)
(***************************************************************************)
ThreadMove ==
  /\ pc' \in [Worker -> {"none", "start", "run", "parking", "waiting", "woken",
                          "leaving", "detaching", "joinable"}]
  /\ \A w \in Worker : \/ pc'[w] = pc[w]
                       \/ pc[w] \in {"parking", "waiting"} /\ pc'[w] \in {"waiting", "woken"}
                       \/ pc[w] = "leaving" /\ pc'[w] = "joinable"
                       \/ pc[w] = "detaching" /\ pc'[w] = "none"
  /\ UNCHANGED <<thd_cnt, idle_cnt, busy_thds, idle_thds, state, idle_max, trimmed>>
  /\ trimmed # {} => trimmer' \in {"broadcast", "join"}

\* A move keeps the invariant.
LEMMA MoveKeepsThreads ==
  ASSUME ThreadsInv, ThreadMove
  PROVE  ThreadsInv'
<1> USE DEF ThreadsInv, ThreadMove
<1>1. ThreadsType'
  BY DEF ThreadsType
<1>2. ThreadsPlaced'
  BY DEF ThreadsPlaced, ThreadsType, Parked
<1>3. Live' = Live
  BY DEF Live, ThreadsType
<1>4. busy_thds' = {v \in Worker : pc'[v] = "run"}
  BY DEF CountsAreExact, ThreadsType
<1>5. CountsAreExact'
  BY <1>3, <1>4 DEF CountsAreExact
<1> QED BY <1>1, <1>2, <1>5

\* Starting a thread counts it.
LEMMA StartKeepsThreads ==
  ASSUME ThreadsInv, StartThread \/ UNCHANGED <<pc, thd_cnt>>,
         UNCHANGED <<idle_cnt, busy_thds, idle_thds, state, trimVars>>
  PROVE  ThreadsInv'
<1> USE DEF ThreadsInv
<1>1. CASE UNCHANGED <<pc, thd_cnt>>
  <2>1. UNCHANGED <<thd_cnt, idle_cnt, busy_thds, idle_thds, state, idle_max, trimmed, pc, trimmer>>
    BY <1>1 DEF trimVars
  <2>2. /\ ThreadsType' /\ ThreadsPlaced' /\ CountsAreExact'
    BY <2>1 DEF ThreadsType, ThreadsPlaced, CountsAreExact, Live
  <2> QED BY <2>2
<1>2. ASSUME NEW w \in Worker, pc[w] = "none", pc' = [pc EXCEPT ![w] = "start"],
             thd_cnt' = thd_cnt + 1
      PROVE  ThreadsInv'
  <2>1. ThreadsType'
    BY <1>2 DEF ThreadsType, trimVars
  <2>2. ThreadsPlaced'
    BY <1>2 DEF ThreadsPlaced, ThreadsType, Parked, trimVars
  <2>3. Live' = Live \cup {w} /\ w \notin Live /\ Live \in SUBSET Worker
    BY <1>2 DEF Live, ThreadsType
  <2>4. Cardinality(Live') = Cardinality(Live) + 1
    BY <2>3, CountOne
  <2>5. busy_thds' = {v \in Worker : pc'[v] = "run"}
    BY <1>2 DEF CountsAreExact, ThreadsType
  <2>6. CountsAreExact'
    BY <1>2, <2>4, <2>5 DEF CountsAreExact
  <2> QED BY <2>1, <2>2, <2>6
<1> QED BY <1>1, <1>2 DEF StartThread

\* Unlinking the idle threads above the limit.
LEMMA TrimKeepsThreads ==
  ASSUME ThreadsInv, trim_threads
  PROVE  ThreadsInv'
<1> USE DEF ThreadsInv
<1>1. PICK extra \in SUBSET idle_thds :
        /\ Cardinality(extra) = IF idle_cnt <= idle_max THEN 0 ELSE idle_cnt - idle_max
        /\ trimmed' = extra
        /\ idle_thds' = idle_thds \ extra
        /\ state' = [w \in Worker |-> IF w \in extra THEN "TH_STOP" ELSE state[w]]
  BY DEF trim_threads
<1>2. trimmed = {}
  BY DEF trim_threads, ThreadsPlaced
<1>3. UNCHANGED <<thd_cnt, busy_thds, pc, idle_max>> /\ trimmer' = "broadcast"
  BY DEF trim_threads
<1>4. ThreadsType'
  BY <1>1, <1>3 DEF ThreadsType
<1>5. ThreadsPlaced'
  BY <1>1, <1>2, <1>3 DEF ThreadsPlaced, ThreadsType
<1>6. Live' = Live
  BY <1>3 DEF Live
<1>7. idle_cnt' = Cardinality(idle_thds')
  <2>1. Cardinality(idle_thds') = Cardinality(idle_thds) - Cardinality(extra)
        /\ Cardinality(idle_thds) \in Nat
    BY <1>1, CountPart DEF ThreadsType
  <2>2. idle_cnt' = IF idle_cnt <= idle_max THEN idle_cnt ELSE idle_max
    BY DEF trim_threads
  <2>3. idle_cnt = Cardinality(idle_thds)
    BY DEF CountsAreExact
  <2> QED BY <1>1, <2>1, <2>2, <2>3 DEF ThreadsType
<1>8. CountsAreExact'
  BY <1>3, <1>6, <1>7 DEF CountsAreExact
<1> QED BY <1>4, <1>5, <1>8

\* Joining them.
LEMMA JoinKeepsThreads ==
  ASSUME ThreadsInv, JoinTrimmed
  PROVE  ThreadsInv'
<1> USE DEF ThreadsInv
<1>1. ThreadsType'
  BY DEF ThreadsType, JoinTrimmed
<1>2. \A w \in idle_thds : w \notin trimmed
  BY DEF ThreadsPlaced
<1>3. ThreadsPlaced'
  BY <1>2 DEF ThreadsPlaced, ThreadsType, JoinTrimmed
<1>4. Live' = Live
  BY DEF Live, ThreadsType, JoinTrimmed
<1>5. busy_thds' = {v \in Worker : pc'[v] = "run"}
  BY DEF CountsAreExact, ThreadsType, JoinTrimmed
<1>6. CountsAreExact'
  BY <1>4, <1>5 DEF CountsAreExact, JoinTrimmed
<1> QED BY <1>1, <1>3, <1>6

\* Every step of the pool keeps the invariant.
LEMMA ThreadsNext == ThreadsInv /\ [PoolNext]_vars => ThreadsInv'
<1> SUFFICES ASSUME ThreadsInv, [PoolNext]_vars PROVE ThreadsInv'
  OBVIOUS
<1> USE DEF Awake
<1>1. ASSUME NEW w \in Worker, WorkerStep(w) PROVE ThreadsInv'
  <2>1. CASE TakeLock(w)
    BY <2>1, TakeLockKeepsThreads
  <2>2. CASE FinishTask(w)
    BY <2>2, FinishKeepsThreads
  <2>3. CASE Unlock(w)
    <3>1. ThreadMove
      BY <2>3 DEF ThreadMove, Unlock, trimVars, ThreadsInv, ThreadsType, ThreadsPlaced
    <3> QED BY <3>1, MoveKeepsThreads
  <2>4. CASE Park(w)
    <3>1. ThreadMove
      BY <2>4 DEF ThreadMove, Park, trimVars, ThreadsInv, ThreadsType, ThreadsPlaced
    <3> QED BY <3>1, MoveKeepsThreads
  <2>5. CASE TimeOut(w)
    <3>1. ThreadMove
      BY <2>5 DEF ThreadMove, TimeOut, trimVars, ThreadsInv, ThreadsType, ThreadsPlaced
    <3> QED BY <3>1, MoveKeepsThreads
  <2> QED BY <1>1, <2>1, <2>2, <2>3, <2>4, <2>5 DEF WorkerStep
<1>2. ASSUME NEW c \in Caller, Signal(c) PROVE ThreadsInv'
  <2>1. ThreadMove
    BY <1>2 DEF ThreadMove, Signal, trimVars, ThreadsInv, ThreadsType, ThreadsPlaced
  <2> QED BY <2>1, MoveKeepsThreads
<1>3. ASSUME NEW c \in Caller, Request(c) PROVE ThreadsInv'
  <2>1. ASSUME NEW t \in Task, add_task(c, t, TRUE) PROVE ThreadsInv'
    BY <2>1, StartKeepsThreads DEF add_task, Linked
  <2>2. ASSUME NEW t \in Task, schedule_task(c, t) PROVE ThreadsInv'
    BY <2>2, StartKeepsThreads DEF schedule_task, Linked
  <2>3. ASSUME NEW o \in Owner, apr_thread_pool_tasks_cancel(c, o) PROVE ThreadsInv'
    BY <2>3, StartKeepsThreads DEF apr_thread_pool_tasks_cancel, threadVars
  <2> QED BY <1>3, <2>1, <2>2, <2>3 DEF Request
<1>4. ASSUME NEW c \in Caller, wait_on_busy_threads(c) PROVE ThreadsInv'
  BY <1>4, StartKeepsThreads DEF wait_on_busy_threads, threadVars
<1>5. CASE ComeDue \/ UNCHANGED vars
  BY <1>5, StartKeepsThreads DEF ComeDue, threadVars, vars
<1>6. CASE thread_pool_cleanup
  <2>1. ThreadMove
    BY <1>6 DEF ThreadMove, thread_pool_cleanup, threadVars, ThreadsInv, ThreadsType, ThreadsPlaced
  <2> QED BY <2>1, MoveKeepsThreads
<1>7. ASSUME NEW n \in IdleMaxes \cup {0}, apr_thread_pool_idle_max_set(n) PROVE ThreadsInv'
  <2>1. trimmed = {}
    BY <1>7 DEF apr_thread_pool_idle_max_set, ThreadsInv, ThreadsPlaced
  <2>2. n \in Nat
    BY <1>7, PoolAssumption DEF PoolAssumption
  <2>3. ThreadsType' /\ ThreadsPlaced' /\ CountsAreExact'
    BY <1>7, <2>1, <2>2
    DEF apr_thread_pool_idle_max_set, threadVars, ThreadsInv, ThreadsType, ThreadsPlaced,
        CountsAreExact, Live
  <2> QED BY <2>3 DEF ThreadsInv
<1>8. CASE trim_threads
  BY <1>8, TrimKeepsThreads
<1>9. CASE Broadcast
  <2>1. ThreadMove
    BY <1>9 DEF ThreadMove, Broadcast, ThreadsInv, ThreadsType, ThreadsPlaced
  <2> QED BY <2>1, MoveKeepsThreads
<1>10. CASE JoinTrimmed
  BY <1>10, JoinKeepsThreads
<1>11. CASE Destroyed
  <2>1. ThreadMove
    BY <1>11 DEF ThreadMove, Destroyed, threadVars, ThreadsInv, ThreadsType, ThreadsPlaced
  <2> QED BY <2>1, MoveKeepsThreads
<1> QED
  BY <1>1, <1>2, <1>3, <1>4, <1>5, <1>6, <1>7, <1>8, <1>9, <1>10, <1>11
  DEF PoolNext, CallerStep, TrimStep
----------------------------------------------------------------------------
(***************************************************************************)
(* thd_cnt, idle_cnt and busy_thds are what they count, in every reachable *)
(* state of a pool of any size.                                            *)
(***************************************************************************)
THEOREM CountsTheorem == PoolSpec => []CountsAreExact
<1>1. ThreadsInv => CountsAreExact
  BY DEF ThreadsInv
<1> QED BY <1>1, ThreadsInit, ThreadsNext, PTL DEF PoolSpec

(***************************************************************************)
(* trim_idle_threads only joins threads that are on their way out and have *)
(* not detached themselves.                                                *)
(***************************************************************************)
THEOREM TrimmedTheorem == PoolSpec => []TrimmedAreJoinable
<1>1. ThreadsInv => TrimmedAreJoinable
  BY DEF ThreadsInv, ThreadsPlaced, Parked, TrimmedAreJoinable
<1> QED BY <1>1, ThreadsInit, ThreadsNext, PTL DEF PoolSpec

(***************************************************************************)
(* However threads are started, stopped and started again, there are never *)
(* more of them than max_threads allows, but for the initial ones and the  *)
(* single one a pool without threads may always start.                     *)
(***************************************************************************)
THEOREM BoundTheorem == PoolSpec => []ThreadsBounded
<1> DEFINE Inv == ThreadsInv /\ ThreadsBounded
<1>1. PoolInit => Inv
  BY ThreadsInit, PoolAssumption DEF PoolInit, ThreadsBounded, PoolAssumption
<1>2. Inv /\ [PoolNext]_vars => Inv'
  <2> SUFFICES ASSUME Inv, [PoolNext]_vars PROVE ThreadsBounded'
    BY ThreadsNext
  <2>1. thd_cnt \in Nat /\ max_threads \in Nat /\ init_threads \in Nat
    <3>1. Live \in SUBSET Worker
      BY DEF Live
    <3>2. IsFiniteSet(Live) /\ thd_cnt = Cardinality(Live)
      BY <3>1, PoolAssumption, FS_Subset DEF PoolAssumption, ThreadsInv, CountsAreExact
    <3> QED BY <3>2, FS_CardinalityType, PoolAssumption DEF PoolAssumption
  <2>2. \/ thd_cnt' \in {thd_cnt, thd_cnt - 1}
        \/ thd_cnt' = thd_cnt + 1 /\ (thd_cnt = 0 \/ thd_cnt < max_threads)
    <3>1. ASSUME NEW w \in Worker, WorkerStep(w) PROVE thd_cnt' \in {thd_cnt, thd_cnt - 1}
      BY <3>1
      DEF WorkerStep, TakeLock, FinishTask, Unlock, Park, TimeOut, PopAndGo, RunOrDrop,
          Run, Settle, ExitDetached, BecomeIdle
    <3>2. ASSUME NEW c \in Caller, CallerStep(c) PROVE thd_cnt' = thd_cnt
      BY <3>2 DEF CallerStep, Signal, wait_on_busy_threads, threadVars
    <3>3. ASSUME NEW c \in Caller, Request(c)
          PROVE  \/ thd_cnt' = thd_cnt
                 \/ thd_cnt' = thd_cnt + 1 /\ (thd_cnt = 0 \/ thd_cnt < max_threads)
      BY <3>3 DEF Request, add_task, schedule_task, apr_thread_pool_tasks_cancel,
                  StartThread, NeedsThread, threadVars
    <3>4. CASE ComeDue \/ UNCHANGED vars \/ thread_pool_cleanup
      BY <3>4 DEF ComeDue, vars, thread_pool_cleanup, threadVars
    <3>5. ASSUME NEW n, apr_thread_pool_idle_max_set(n) PROVE thd_cnt' = thd_cnt
      BY <3>5 DEF apr_thread_pool_idle_max_set, threadVars
    <3>6. CASE trim_threads \/ Broadcast \/ JoinTrimmed \/ Destroyed
      BY <3>6 DEF trim_threads, Broadcast, JoinTrimmed, Destroyed, threadVars
    <3> QED BY <3>1, <3>2, <3>3, <3>4, <3>5, <3>6 DEF PoolNext, TrimStep
  <2> QED BY <2>1, <2>2 DEF ThreadsBounded
<1> QED BY <1>1, <1>2, PTL DEF PoolSpec
----------------------------------------------------------------------------
(***************************************************************************)
(* Inside the pool the ring is only changed by its own operations.         *)
(***************************************************************************)
LEMMA QueueSteps == [PoolNext]_vars => [QueueNext]_queueVars
<1> SUFFICES ASSUME [PoolNext]_vars, UNCHANGED queueVars => FALSE PROVE QueueNext
  OBVIOUS
<1>1. ASSUME NEW w \in Worker, WorkerStep(w) PROVE QueueNext
  <2>1. ASSUME NEW idle, PopAndGo(w, idle) PROVE QueueNext
    BY <2>1 DEF PopAndGo, QueueNext
  <2> QED BY <1>1, <2>1 DEF WorkerStep, TakeLock, FinishTask, Unlock, Park, TimeOut, queueVars
<1>2. ASSUME NEW c \in Caller, CallerStep(c) \/ Request(c) PROVE QueueNext
  BY <1>2 DEF CallerStep, Signal, wait_on_busy_threads, Request, add_task, schedule_task,
              apr_thread_pool_tasks_cancel, QueueNext, apr_thread_pool_push
<1>3. ASSUME NEW n, apr_thread_pool_idle_max_set(n) PROVE FALSE
  BY <1>3 DEF apr_thread_pool_idle_max_set
<1>4. CASE ComeDue \/ thread_pool_cleanup \/ TrimStep \/ UNCHANGED vars
  BY <1>3, <1>4 DEF ComeDue, thread_pool_cleanup, TrimStep, trim_threads, Broadcast,
                    JoinTrimmed, Destroyed, vars
<1> QED BY <1>1, <1>2, <1>3, <1>4 DEF PoolNext

(***************************************************************************)
(* So the pool is an implementation of the queue, and what holds of the    *)
(* queue on its own holds of the ring of a running pool.                   *)
(***************************************************************************)
THEOREM QueueTheorem == PoolSpec => QueueSpec
<1>1. PoolInit => QueueInit
  BY DEF PoolInit
<1> QED BY <1>1, QueueSteps, PTL DEF PoolSpec, QueueSpec
----------------------------------------------------------------------------
(***************************************************************************)
(* The tasks the pool has: where each one waits and who runs it.  A task   *)
(* is in the ring or in the list of scheduled tasks according to how it is *)
(* submitted; a thread has a task exactly while it runs one; a caller has  *)
(* an owner to cancel exactly while it waits for the owner's tasks.        *)
(***************************************************************************)
Waiting == Queued \cup ToSet(scheduled_tasks)

ScheduleInv ==
  /\ scheduled_tasks \in Seq(Task) /\ due \in 0 .. Len(scheduled_tasks)
  /\ \A i, j \in DOMAIN scheduled_tasks : scheduled_tasks[i] = scheduled_tasks[j] => i = j
  /\ ToSet(scheduled_tasks) \subseteq Scheduled

RunningInv ==
  /\ current \in [Worker -> Task \cup {NoTask}]
  /\ \A w \in Worker : current[w] = NoTask <=> pc[w] # "run"

CancelInv ==
  /\ caller \in [Caller -> {"ready", "signal", "quiesce"}]
  /\ cancelling \in [Caller -> SUBSET Owner]
  /\ \A c \in Caller : cancelling[c] = {} <=> caller[c] # "quiesce"

TasksInv ==
  /\ ThreadsInv /\ QueueInv /\ ScheduleInv /\ RunningInv /\ CancelInv
  /\ Queued \cap Scheduled = {}

\* What a step does to the tasks: nothing, or what the service promises.
SubmitEffect ==
  \E t \in Task : /\ Service!Submit(t)
                  /\ clean' = clean \ {OwnerOf[t]} /\ quiet' = quiet \ {OwnerOf[t]}
WorkEffect ==
  /\ UNCHANGED <<clean, quiet>>
  /\ \E w \in Worker : \/ Service!End(w)
                       \/ \E t \in Task : Service!Begin(w, t) \/ Service!Forget(w, t)
RevokeEffect ==
  \E c \in Caller, o \in Owner :
    Service!Revoke(c, o) /\ clean' = clean \cup {o} /\ UNCHANGED quiet
RevokedEffect ==
  \E c \in Caller :
    Service!Revoked(c) /\ UNCHANGED clean /\ quiet' = quiet \cup (cancelling[c] \cap clean)
CloseEffect == Service!Close /\ UNCHANGED <<clean, quiet>>
NoEffect == UNCHANGED <<Waiting, current, cancelling, terminated, clean, quiet>>

Effect == NoEffect \/ SubmitEffect \/ WorkEffect \/ RevokeEffect \/ RevokedEffect \/ CloseEffect
----------------------------------------------------------------------------
\* A pool that was just created has no tasks.
LEMMA TasksInit == PoolInit => TasksInv /\ Waiting = {}
<1> SUFFICES ASSUME PoolInit PROVE TasksInv /\ Waiting = {}
  OBVIOUS
<1> USE DEF PoolInit
<1>1. ThreadsInv /\ QueueInv /\ Queued = {}
  BY ThreadsInit, EmptyRing
<1>2. scheduled_tasks \in Seq(Task) /\ Len(scheduled_tasks) = 0 /\ DOMAIN scheduled_tasks = {}
  OBVIOUS
<1>3. ScheduleInv /\ ToSet(scheduled_tasks) = {}
  BY <1>2 DEF ScheduleInv, ToSet
<1>4. RunningInv /\ CancelInv
  BY DEF RunningInv, CancelInv
<1> QED BY <1>1, <1>3, <1>4 DEF TasksInv, Waiting

\* schedule_task links one more task into the list.
LEMMA ScheduleKeepsList ==
  ASSUME ScheduleInv, NEW c, NEW t \in Task, schedule_task(c, t)
  PROVE  /\ ScheduleInv' /\ t \in Scheduled \ ToSet(scheduled_tasks)
         /\ ToSet(scheduled_tasks)' = ToSet(scheduled_tasks) \cup {t}
<1>1. PICK place \in due + 1 .. Len(scheduled_tasks) + 1 :
        scheduled_tasks' = InsertAt(scheduled_tasks, place, t)
  BY DEF schedule_task, scheduled_task_cnt
<1>2. t \in Scheduled /\ t \notin ToSet(scheduled_tasks) /\ due' = due
  BY DEF schedule_task
<1>3. /\ scheduled_tasks \in Seq(Task)
      /\ \A i, j \in DOMAIN scheduled_tasks : scheduled_tasks[i] = scheduled_tasks[j] => i = j
  BY DEF ScheduleInv
<1>4. Len(scheduled_tasks) \in Nat /\ due \in 0 .. Len(scheduled_tasks)
  BY LenProperties DEF ScheduleInv
<1>5. place \in 1 .. Len(scheduled_tasks) + 1
  BY <1>1, <1>4
<1>6. /\ InsertAt(scheduled_tasks, place, t) \in Seq(Task)
      /\ Len(InsertAt(scheduled_tasks, place, t)) = Len(scheduled_tasks) + 1
  <2>1. scheduled_tasks \in Seq(Task)
    BY <1>3
  <2> QED BY <1>5, <2>1, InsertAtProperties
<1> DEFINE ext == InsertAt(scheduled_tasks, place, t)
<1>7. t \notin {scheduled_tasks[k] : k \in DOMAIN scheduled_tasks}
  BY <1>2 DEF ToSet
<1>8. /\ {ext[k] : k \in DOMAIN ext} = {scheduled_tasks[k] : k \in DOMAIN scheduled_tasks} \cup {t}
      /\ \A i, j \in DOMAIN ext : ext[i] = ext[j] => i = j
  BY <1>3, <1>5, <1>7, InsertMembers
<1>9. ext \in Seq(Task) /\ Len(ext) = Len(scheduled_tasks) + 1
  BY <1>6
<1>10. scheduled_tasks' = ext
  BY <1>1
<1> HIDE DEF ext
<1>11. ToSet(scheduled_tasks)' = ToSet(scheduled_tasks) \cup {t}
  BY <1>8, <1>10 DEF ToSet
<1>12. due' \in 0 .. Len(ext)
  BY <1>2, <1>4, <1>9
<1>13. ToSet(scheduled_tasks)' \subseteq Scheduled
  BY <1>2, <1>11 DEF ScheduleInv
<1> QED BY <1>2, <1>8, <1>9, <1>10, <1>11, <1>12, <1>13 DEF ScheduleInv

\* pop_task unlinks the first one that is due.
LEMMA PopScheduledKeepsList ==
  ASSUME ScheduleInv, due > 0, scheduled_tasks' = Tail(scheduled_tasks), due' = due - 1
  PROVE  /\ ScheduleInv' /\ Head(scheduled_tasks) \in ToSet(scheduled_tasks)
         /\ ToSet(scheduled_tasks)' = ToSet(scheduled_tasks) \ {Head(scheduled_tasks)}
<1>1. /\ scheduled_tasks \in Seq(Task)
      /\ \A i, j \in DOMAIN scheduled_tasks : scheduled_tasks[i] = scheduled_tasks[j] => i = j
  BY DEF ScheduleInv
<1>2. Len(scheduled_tasks) \in Nat /\ due \in 0 .. Len(scheduled_tasks)
  BY LenProperties DEF ScheduleInv
<1>3. scheduled_tasks # <<>>
  BY <1>1, <1>2, EmptySeq
<1> DEFINE tail == Tail(scheduled_tasks)
<1>4. /\ {tail[k] : k \in DOMAIN tail} =
           {scheduled_tasks[k] : k \in DOMAIN scheduled_tasks} \ {Head(scheduled_tasks)}
      /\ Head(scheduled_tasks) \in {scheduled_tasks[k] : k \in DOMAIN scheduled_tasks}
      /\ \A i, j \in DOMAIN tail : tail[i] = tail[j] => i = j
  BY <1>1, <1>3, TailMembers
<1>5. tail \in Seq(Task) /\ Len(tail) = Len(scheduled_tasks) - 1
  BY <1>1, <1>3, HeadTailProperties
<1>6. scheduled_tasks' = tail
  OBVIOUS
<1> HIDE DEF tail
<1>7. /\ Head(scheduled_tasks) \in ToSet(scheduled_tasks)
      /\ ToSet(scheduled_tasks)' = ToSet(scheduled_tasks) \ {Head(scheduled_tasks)}
  BY <1>4, <1>6 DEF ToSet
<1>8. due' \in 0 .. Len(tail)
  BY <1>2, <1>5
<1> QED BY <1>4, <1>5, <1>6, <1>7, <1>8 DEF ScheduleInv

\* remove_scheduled_tasks unlinks the tasks of an owner.
LEMMA RemoveKeepsList ==
  ASSUME ScheduleInv, NEW o, remove_scheduled_tasks(o)
  PROVE  /\ ScheduleInv'
         /\ ToSet(scheduled_tasks)' = {t \in ToSet(scheduled_tasks) : OwnerOf[t] # o}
<1>1. /\ scheduled_tasks \in Seq(Task)
      /\ \A i, j \in DOMAIN scheduled_tasks : scheduled_tasks[i] = scheduled_tasks[j] => i = j
  BY DEF ScheduleInv
<1>2. Len(scheduled_tasks) \in Nat /\ due \in 0 .. Len(scheduled_tasks)
  BY LenProperties DEF ScheduleInv
<1> DEFINE left == Without(o, scheduled_tasks)
           kept == {i \in 1 .. Len(scheduled_tasks) : OwnerOf[scheduled_tasks[i]] # o}
           soon == {i \in 1 .. due : OwnerOf[scheduled_tasks[i]] # o}
<1>3. /\ {left[n] : n \in DOMAIN left} =
           {t \in {scheduled_tasks[i] : i \in DOMAIN scheduled_tasks} : OwnerOf[t] # o}
      /\ \A m, n \in DOMAIN left : left[m] = left[n] => m = n
  BY <1>1, WithoutMembers
<1>4. left \in Seq(Task) /\ Len(left) = Cardinality(kept)
  BY <1>1, WithoutIsSubsequence
<1>5. scheduled_tasks' = left /\ due' = Cardinality(soon)
  BY DEF remove_scheduled_tasks
<1>6. soon \subseteq kept /\ kept \subseteq 1 .. Len(scheduled_tasks)
  BY <1>2
<1> HIDE DEF left, kept, soon
<1>7. IsFiniteSet(kept)
  <2>1. IsFiniteSet(1 .. Len(scheduled_tasks))
    BY <1>2, FS_Interval
  <2> QED BY <1>6, <2>1, FS_Subset
<1>8. Cardinality(soon) \in Nat /\ Cardinality(kept) \in Nat
      /\ Cardinality(soon) <= Cardinality(kept)
  BY <1>6, <1>7, FS_Subset, FS_CardinalityType
<1>9. due' \in 0 .. Len(left)
  BY <1>4, <1>5, <1>8
<1>10. ToSet(scheduled_tasks)' = {t \in ToSet(scheduled_tasks) : OwnerOf[t] # o}
  BY <1>3, <1>5 DEF ToSet
<1> QED BY <1>3, <1>4, <1>5, <1>9, <1>10 DEF ScheduleInv
----------------------------------------------------------------------------
\* A step that moves no task and no cancel.
QuietStep ==
  /\ UNCHANGED <<queueVars, scheduled_tasks, current, cancelling, terminated, clean, quiet>>
  /\ due' \in 0 .. Len(scheduled_tasks)
  /\ \A w \in Worker : pc'[w] = "run" <=> pc[w] = "run"
  /\ caller' \in [Caller -> {"ready", "signal", "quiesce"}]
  /\ \A c \in Caller : caller'[c] = "quiesce" <=> caller[c] = "quiesce"

\* It leaves the tasks as they are.
LEMMA QuietKeepsTasks ==
  ASSUME TasksInv, ThreadsInv', QuietStep
  PROVE  TasksInv' /\ NoEffect
<1>1. Queued' = Queued /\ QueueInv'
  BY DEF QuietStep, queueVars, Queued, TasksInv, QueueInv, QueueTypeOK, IndexPointsIntoRing,
         TASK_PRIORITY_SEG
<1>2. ToSet(scheduled_tasks)' = ToSet(scheduled_tasks) /\ ScheduleInv'
  BY DEF QuietStep, TasksInv, ScheduleInv, ToSet
<1>3. RunningInv' /\ CancelInv'
  BY DEF QuietStep, TasksInv, RunningInv, CancelInv
<1> QED BY <1>1, <1>2, <1>3 DEF TasksInv, NoEffect, Waiting, QuietStep

\* A worker has taken a task from where it waited, and runs or drops it.
LEMMA TakeKeepsTasks ==
  ASSUME TasksInv, NEW w \in Worker, NEW t \in Task, NEW idle, RunOrDrop(w, t, idle),
         UNCHANGED callerVars, UNCHANGED trimVars,
         t \in Waiting, Waiting' = Waiting \ {t}
  PROVE  RunningInv' /\ CancelInv' /\ WorkEffect
<1>1. CancelInv' /\ UNCHANGED <<cancelling, clean, quiet, terminated>>
  BY DEF TasksInv, CancelInv, callerVars, trimVars
<1>2. t # NoTask
  BY TaskAssumption DEF TaskAssumption
<1>3. CASE terminated
  <2>1. pc' = [pc EXCEPT ![w] = "detaching"] /\ current' = [current EXCEPT ![w] = NoTask]
    BY <1>3 DEF RunOrDrop, ExitDetached
  <2>2. RunningInv'
    BY <2>1 DEF TasksInv, RunningInv, ThreadsInv, ThreadsType
  <2>3. Service!Forget(w, t)
    BY <1>1, <1>3, <2>1 DEF Service!Forget, Waiting
  <2> QED BY <1>1, <2>2, <2>3 DEF WorkEffect
<1>4. CASE ~ terminated
  <2>1. pc' = [pc EXCEPT ![w] = "run"] /\ current' = [current EXCEPT ![w] = t]
    BY <1>4 DEF RunOrDrop, Run
  <2>2. RunningInv'
    BY <1>2, <2>1 DEF TasksInv, RunningInv, ThreadsInv, ThreadsType
  <2>3. Service!Begin(w, t)
    BY <1>1, <1>4, <2>1 DEF Service!Begin, Waiting
  <2> QED BY <1>1, <2>2, <2>3 DEF WorkEffect
<1> QED BY <1>3, <1>4

\* A worker finds nothing to do: at most it has ended a task.
LEMMA SettleKeepsTasks ==
  ASSUME TasksInv, NEW w \in Worker, NEW idle, Settle(w, idle), due = 0,
         UNCHANGED <<queueVars, callerVars, trimVars>>
  PROVE  /\ ScheduleInv' /\ Queued' = Queued /\ RunningInv' /\ CancelInv'
         /\ WorkEffect \/ NoEffect
<1>1. CancelInv' /\ UNCHANGED <<cancelling, clean, quiet, terminated>>
  BY DEF TasksInv, CancelInv, callerVars, trimVars
<1>2. Queued' = Queued
  BY DEF Queued, queueVars
<1>3. /\ current' = [current EXCEPT ![w] = NoTask]
      /\ pc' = [pc EXCEPT ![w] = "detaching"] \/ pc' = [pc EXCEPT ![w] = "parking"]
      /\ scheduled_tasks' = scheduled_tasks
      /\ due' = due \/ (due' = due + 1 /\ Len(scheduled_tasks) > 0)
  BY DEF Settle, ExitDetached, BecomeIdle, scheduleVars, scheduled_task_cnt
<1>4. Len(scheduled_tasks) \in Nat
  BY LenProperties DEF TasksInv, ScheduleInv
<1>5. due' \in 0 .. Len(scheduled_tasks)
  BY <1>3, <1>4
<1>6. ScheduleInv'
  BY <1>3, <1>5 DEF TasksInv, ScheduleInv, ToSet
<1>7. RunningInv'
  BY <1>3 DEF TasksInv, RunningInv, ThreadsInv, ThreadsType
<1>8. Waiting' = Waiting
  BY <1>2, <1>3 DEF Waiting
<1>9. CASE current[w] = NoTask
  <2>1. current' = current
    BY <1>3, <1>9 DEF TasksInv, RunningInv
  <2> QED BY <1>1, <1>2, <1>6, <1>7, <1>8, <2>1 DEF NoEffect
<1>10. CASE current[w] # NoTask
  <2>1. Service!End(w)
    BY <1>1, <1>3, <1>8, <1>10 DEF Service!End, Waiting
  <2> QED BY <1>1, <1>2, <1>6, <1>7, <2>1 DEF WorkEffect
<1> QED BY <1>9, <1>10

\* The whole locked section of a worker.
LEMMA PopKeepsTasks ==
  ASSUME TasksInv, ThreadsInv', NEW w \in Worker, NEW idle, PopAndGo(w, idle),
         UNCHANGED callerVars, UNCHANGED trimVars
  PROVE  TasksInv' /\ (WorkEffect \/ NoEffect)
<1>1. CASE /\ due > 0 /\ scheduled_tasks' = Tail(scheduled_tasks) /\ due' = due - 1
           /\ RunOrDrop(w, Head(scheduled_tasks), idle) /\ UNCHANGED queueVars
  <2> DEFINE t == Head(scheduled_tasks)
  <2>1. /\ ScheduleInv' /\ t \in ToSet(scheduled_tasks)
        /\ ToSet(scheduled_tasks)' = ToSet(scheduled_tasks) \ {t}
    BY <1>1, PopScheduledKeepsList DEF TasksInv
  <2>2. Queued' = Queued /\ QueueInv'
    BY <1>1 DEF queueVars, Queued, TasksInv, QueueInv, QueueTypeOK, IndexPointsIntoRing,
                TASK_PRIORITY_SEG
  <2>3. t \in Scheduled /\ t \in Task /\ t \notin Queued
    BY <2>1, PoolAssumption DEF TasksInv, ScheduleInv, PoolAssumption
  <2>4. RunOrDrop(w, t, idle)
    BY <1>1
  <2> HIDE DEF t
  <2>5. t \in Waiting /\ Waiting' = Waiting \ {t}
    BY <2>1, <2>2, <2>3 DEF Waiting
  <2>6. RunningInv' /\ CancelInv' /\ WorkEffect
    BY <2>3, <2>4, <2>5, TakeKeepsTasks
  <2> QED BY <2>1, <2>2, <2>6 DEF TasksInv
<1>2. CASE PopFirst /\ RunOrDrop(w, Head(tasks), idle) /\ UNCHANGED scheduleVars
  <2> DEFINE t == Head(tasks)
  <2>1. QueueInv' /\ Queued' = Queued \ {t} /\ t \in Queued
    BY <1>2, PopKeepsPointers DEF TasksInv
  <2>2. ToSet(scheduled_tasks)' = ToSet(scheduled_tasks) /\ ScheduleInv'
    BY <1>2 DEF scheduleVars, TasksInv, ScheduleInv, ToSet
  <2>3. t \in Task /\ t \notin ToSet(scheduled_tasks)
    BY <2>1, RingShape DEF TasksInv, ScheduleInv
  <2>4. RunOrDrop(w, t, idle)
    BY <1>2
  <2> HIDE DEF t
  <2>5. t \in Waiting /\ Waiting' = Waiting \ {t}
    BY <2>1, <2>2, <2>3 DEF Waiting
  <2>6. RunningInv' /\ CancelInv' /\ WorkEffect
    BY <2>3, <2>4, <2>5, TakeKeepsTasks
  <2> QED BY <2>1, <2>2, <2>6 DEF TasksInv
<1>3. CASE due = 0 /\ Settle(w, idle) /\ UNCHANGED queueVars
  <2>1. /\ ScheduleInv' /\ Queued' = Queued /\ RunningInv' /\ CancelInv'
        /\ WorkEffect \/ NoEffect
    BY <1>3, SettleKeepsTasks
  <2>2. QueueInv'
    BY <1>3 DEF queueVars, Queued, TasksInv, QueueInv, QueueTypeOK, IndexPointsIntoRing,
                TASK_PRIORITY_SEG
  <2> QED BY <2>1, <2>2 DEF TasksInv
<1> QED BY <1>1, <1>2, <1>3 DEF PopAndGo

\* Submitting a task, to the ring or to the list.
LEMMA SubmitKeepsTasks ==
  ASSUME TasksInv, ThreadsInv', NEW c \in Caller, NEW t \in Task,
         add_task(c, t, TRUE) \/ schedule_task(c, t)
  PROVE  TasksInv' /\ SubmitEffect
<1>1. /\ caller[c] = "ready" /\ caller' = [caller EXCEPT ![c] = "signal"]
      /\ UNCHANGED <<cancelling, terminated, current>>
      /\ clean' = clean \ {OwnerOf[t]} /\ quiet' = quiet \ {OwnerOf[t]}
  BY DEF add_task, schedule_task, MaySubmit, Linked, trimVars
<1>2. CancelInv'
  BY <1>1 DEF TasksInv, CancelInv
<1>3. RunningInv'
  <2>1. \A w \in Worker : pc'[w] = "run" <=> pc[w] = "run"
    BY DEF add_task, schedule_task, StartThread, TasksInv, ThreadsInv, ThreadsType
  <2> QED BY <1>1, <2>1 DEF TasksInv, RunningInv
<1>4. CASE add_task(c, t, TRUE)
  <2>1. t \notin Scheduled /\ InsertTask(t, TRUE) /\ UNCHANGED scheduleVars
    BY <1>4 DEF add_task
  <2>2. QueueInv' /\ Queued' = Queued \cup {t} /\ t \notin Queued
    BY <2>1, InsertKeepsPointers DEF TasksInv
  <2>3. ScheduleInv' /\ ToSet(scheduled_tasks)' = ToSet(scheduled_tasks)
    BY <2>1 DEF scheduleVars, TasksInv, ScheduleInv, ToSet
  <2>4. TasksInv'
    BY <1>2, <1>3, <2>1, <2>2, <2>3 DEF TasksInv
  <2>5. Service!Submit(t)
    BY <1>1, <2>1, <2>2, <2>3 DEF Service!Submit, TasksInv, ScheduleInv
  <2> QED BY <1>1, <2>4, <2>5 DEF SubmitEffect
<1>5. CASE schedule_task(c, t)
  <2>1. /\ ScheduleInv' /\ t \in Scheduled \ ToSet(scheduled_tasks)
        /\ ToSet(scheduled_tasks)' = ToSet(scheduled_tasks) \cup {t}
    BY <1>5, ScheduleKeepsList DEF TasksInv
  <2>2. UNCHANGED queueVars
    BY <1>5 DEF schedule_task
  <2>3. Queued' = Queued /\ QueueInv'
    BY <2>2 DEF queueVars, Queued, TasksInv, QueueInv, QueueTypeOK, IndexPointsIntoRing,
                TASK_PRIORITY_SEG
  <2>4. TasksInv'
    BY <1>2, <1>3, <2>1, <2>3 DEF TasksInv
  <2>5. Service!Submit(t)
    BY <1>1, <2>1, <2>3 DEF Service!Submit, TasksInv
  <2> QED BY <1>1, <2>4, <2>5 DEF SubmitEffect
<1> QED BY <1>4, <1>5

\* A cancel unlinks the owner's tasks everywhere in one step.
LEMMA CancelKeepsTasks ==
  ASSUME TasksInv, ThreadsInv', NEW c \in Caller, NEW o \in Owner,
         apr_thread_pool_tasks_cancel(c, o)
  PROVE  TasksInv' /\ RevokeEffect
<1>1. /\ caller[c] = "ready" /\ caller' = [caller EXCEPT ![c] = "quiesce"]
      /\ cancelling' = [cancelling EXCEPT ![c] = {o}] /\ clean' = clean \cup {o}
      /\ UNCHANGED <<quiet, terminated, current, pc>>
  BY DEF apr_thread_pool_tasks_cancel, trimVars, threadVars
<1>2. CancelInv' /\ cancelling[c] = {}
  BY <1>1 DEF TasksInv, CancelInv
<1>3. RunningInv'
  BY <1>1 DEF TasksInv, RunningInv
<1>4. QueueInv' /\ Queued' = {t \in Queued : OwnerOf[t] # o}
  BY RemoveKeepsPointers DEF apr_thread_pool_tasks_cancel, TasksInv
<1>5. ScheduleInv' /\ ToSet(scheduled_tasks)' = {t \in ToSet(scheduled_tasks) : OwnerOf[t] # o}
  BY RemoveKeepsList DEF apr_thread_pool_tasks_cancel, TasksInv
<1>6. TasksInv'
  BY <1>2, <1>3, <1>4, <1>5 DEF TasksInv
<1>7. Waiting' = {t \in Waiting : OwnerOf[t] # o}
  BY <1>4, <1>5 DEF Waiting
<1>8. Service!Revoke(c, o)
  BY <1>1, <1>2, <1>7 DEF Service!Revoke, Waiting
<1> QED BY <1>1, <1>6, <1>8 DEF RevokeEffect

\* And returns when the scan of the busy threads finds none of its tasks.
LEMMA QuiesceKeepsTasks ==
  ASSUME TasksInv, ThreadsInv', NEW c \in Caller, wait_on_busy_threads(c)
  PROVE  TasksInv' /\ RevokedEffect
<1>1. /\ caller[c] = "quiesce" /\ caller' = [caller EXCEPT ![c] = "ready"]
      /\ cancelling' = [cancelling EXCEPT ![c] = {}] /\ clean' = clean
      /\ quiet' = quiet \cup (cancelling[c] \cap clean)
      /\ \A w \in busy_thds : OwnerOf[current[w]] \notin cancelling[c]
      /\ UNCHANGED <<queueVars, scheduleVars, terminated, current, pc>>
  BY DEF wait_on_busy_threads, trimVars, threadVars
<1>2. CancelInv' /\ cancelling[c] # {}
  BY <1>1 DEF TasksInv, CancelInv
<1>3. Queued' = Queued /\ QueueInv'
  BY <1>1 DEF queueVars, Queued, TasksInv, QueueInv, QueueTypeOK, IndexPointsIntoRing,
              TASK_PRIORITY_SEG
<1>4. ToSet(scheduled_tasks)' = ToSet(scheduled_tasks) /\ ScheduleInv'
  BY <1>1 DEF scheduleVars, TasksInv, ScheduleInv, ToSet
<1>5. RunningInv'
  BY <1>1 DEF TasksInv, RunningInv
<1>6. TasksInv'
  BY <1>2, <1>3, <1>4, <1>5 DEF TasksInv
<1>7. \A w \in Worker : current[w] # NoTask => OwnerOf[current[w]] \notin cancelling[c]
  BY <1>1 DEF TasksInv, RunningInv, ThreadsInv, CountsAreExact
<1>8. Service!Revoked(c)
  BY <1>1, <1>2, <1>3, <1>4, <1>7 DEF Service!Revoked
<1> QED BY <1>1, <1>6, <1>8 DEF RevokedEffect

\* Destroying the pool closes the service.
LEMMA CloseKeepsTasks ==
  ASSUME TasksInv, ThreadsInv', thread_pool_cleanup
  PROVE  TasksInv' /\ CloseEffect
<1>1. /\ terminated' = TRUE
      /\ UNCHANGED <<queueVars, scheduleVars, current, pc, caller, cancelling, clean, quiet>>
  BY DEF thread_pool_cleanup, threadVars, callerVars
<1>2. Queued' = Queued /\ QueueInv'
  BY <1>1 DEF queueVars, Queued, TasksInv, QueueInv, QueueTypeOK, IndexPointsIntoRing,
              TASK_PRIORITY_SEG
<1>3. ToSet(scheduled_tasks)' = ToSet(scheduled_tasks) /\ ScheduleInv'
  BY <1>1 DEF scheduleVars, TasksInv, ScheduleInv, ToSet
<1>4. RunningInv' /\ CancelInv'
  BY <1>1 DEF TasksInv, RunningInv, CancelInv
<1>5. TasksInv'
  BY <1>2, <1>3, <1>4 DEF TasksInv
<1>6. Service!Close
  BY <1>1, <1>2, <1>3 DEF Service!Close
<1> QED BY <1>1, <1>5, <1>6 DEF CloseEffect

\* Every step keeps the invariant and does to the tasks what it may do.
LEMMA TasksNext == TasksInv /\ [PoolNext]_vars => TasksInv' /\ Effect
<1> SUFFICES ASSUME TasksInv, [PoolNext]_vars PROVE TasksInv' /\ Effect
  OBVIOUS
<1>1. ThreadsInv'
  BY ThreadsNext DEF TasksInv
<1>2. due \in 0 .. Len(scheduled_tasks) /\ Len(scheduled_tasks) \in Nat
  BY LenProperties DEF TasksInv, ScheduleInv
<1>3. ASSUME QuietStep PROVE TasksInv' /\ Effect
  BY <1>1, <1>3, QuietKeepsTasks DEF Effect
<1>4. ASSUME NEW w \in Worker, WorkerStep(w) PROVE TasksInv' /\ Effect
  <2>1. CASE FinishTask(w)
    BY <1>1, <2>1, PopKeepsTasks DEF FinishTask, Effect
  <2>2. CASE TakeLock(w) /\ state[w] # "TH_STOP" /\
             PopAndGo(w, IF w \in idle_thds THEN idle_cnt - 1 ELSE idle_cnt)
    BY <1>1, <2>2, PopKeepsTasks DEF TakeLock, Effect
  <2>3. CASE TakeLock(w) /\ pc' = [pc EXCEPT ![w] = "leaving"]
             /\ UNCHANGED <<queueVars, scheduleVars, current>>
    <3>1. QuietStep
      BY <1>2, <2>3 DEF QuietStep, TakeLock, callerVars, trimVars, scheduleVars, TasksInv,
                        ThreadsInv, ThreadsType, CancelInv
    <3> QED BY <1>3, <3>1
  <2>4. CASE Unlock(w) \/ Park(w) \/ TimeOut(w)
    <3>1. QuietStep
      BY <1>2, <2>4 DEF QuietStep, Unlock, Park, TimeOut, Awake, callerVars, trimVars,
                        scheduleVars, TasksInv, ThreadsInv, ThreadsType, CancelInv
    <3> QED BY <1>3, <3>1
  <2>5. TakeLock(w) =>
          \/ PopAndGo(w, IF w \in idle_thds THEN idle_cnt - 1 ELSE idle_cnt)
             /\ state[w] # "TH_STOP"
          \/ pc' = [pc EXCEPT ![w] = "leaving"] /\ UNCHANGED <<queueVars, scheduleVars, current>>
    BY DEF TakeLock, AskedToStop
  <2> QED BY <1>4, <2>1, <2>2, <2>3, <2>4, <2>5 DEF WorkerStep
<1>5. ASSUME NEW c \in Caller, Signal(c) PROVE TasksInv' /\ Effect
  <2>1. QuietStep
    BY <1>2, <1>5 DEF QuietStep, Signal, Awake, trimVars, scheduleVars, TasksInv,
                      ThreadsInv, ThreadsType, CancelInv
  <2> QED BY <1>3, <2>1
<1>6. ASSUME NEW c \in Caller, Request(c) PROVE TasksInv' /\ Effect
  BY <1>1, <1>6, SubmitKeepsTasks, CancelKeepsTasks DEF Request, Effect
<1>7. ASSUME NEW c \in Caller, wait_on_busy_threads(c) PROVE TasksInv' /\ Effect
  BY <1>1, <1>7, QuiesceKeepsTasks DEF Effect
<1>8. CASE thread_pool_cleanup
  BY <1>1, <1>8, CloseKeepsTasks DEF Effect
<1>9. CASE ComeDue \/ UNCHANGED vars
  <2>1. due' \in 0 .. Len(scheduled_tasks)
    BY <1>2, <1>9 DEF ComeDue, scheduled_task_cnt, vars, scheduleVars
  <2>2. QuietStep
    BY <1>9, <2>1 DEF QuietStep, ComeDue, vars, threadVars, callerVars, trimVars, scheduleVars,
                      TasksInv, CancelInv
  <2> QED BY <1>3, <2>2
<1>10. ASSUME NEW n, apr_thread_pool_idle_max_set(n) PROVE TasksInv' /\ Effect
  <2>1. QuietStep
    BY <1>2, <1>10 DEF QuietStep, apr_thread_pool_idle_max_set, threadVars, callerVars,
                       scheduleVars, TasksInv, CancelInv
  <2> QED BY <1>3, <2>1
<1>11. CASE trim_threads \/ Broadcast \/ Destroyed
  <2>1. QuietStep
    BY <1>2, <1>11 DEF QuietStep, trim_threads, Broadcast, Destroyed, Awake, threadVars,
                       callerVars, scheduleVars, TasksInv, ThreadsInv, ThreadsType, CancelInv
  <2> QED BY <1>3, <2>1
<1>12. CASE JoinTrimmed
  <2>1. QuietStep
    BY <1>2, <1>12 DEF QuietStep, JoinTrimmed, callerVars, scheduleVars, TasksInv,
                       ThreadsInv, ThreadsType, CancelInv
  <2> QED BY <1>3, <2>1
<1> QED
  BY <1>4, <1>5, <1>6, <1>7, <1>8, <1>9, <1>10, <1>11, <1>12
  DEF PoolNext, CallerStep, TrimStep
----------------------------------------------------------------------------
(***************************************************************************)
(* The pool implements TaskService, whatever its threads do between the    *)
(* two mutexes: a task that was submitted is run once, by one worker, a    *)
(* cancel takes effect in one step and returns when the owner is quiet,    *)
(* and only a pool that is being destroyed forgets a task.                 *)
(***************************************************************************)
THEOREM ServiceTheorem == PoolSpec => ImplementsTaskService
<1>1. PoolInit => Service!TaskServiceInit
  <2> SUFFICES ASSUME PoolInit PROVE Service!TaskServiceInit
    OBVIOUS
  <2>1. Queued \cup ToSet(scheduled_tasks) = {}
    BY TasksInit DEF Waiting
  <2> QED BY <2>1 DEF Service!TaskServiceInit, PoolInit
<1>2. Effect => [Service!TaskServiceNext]_(Service!taskServiceVars)
  <2> SUFFICES ASSUME Effect PROVE [Service!TaskServiceNext]_(Service!taskServiceVars)
    OBVIOUS
  <2>1. CASE NoEffect
    BY <2>1 DEF NoEffect, Waiting, Service!taskServiceVars
  <2>2. CASE SubmitEffect
    BY <2>2 DEF SubmitEffect, Service!TaskServiceNext
  <2>3. CASE WorkEffect
    BY <2>3 DEF WorkEffect, Service!TaskServiceNext
  <2>4. CASE RevokeEffect
    BY <2>4 DEF RevokeEffect, Service!TaskServiceNext
  <2>5. CASE RevokedEffect
    BY <2>5 DEF RevokedEffect, Service!TaskServiceNext
  <2>6. CASE CloseEffect
    BY <2>6 DEF CloseEffect, Service!TaskServiceNext
  <2> QED BY <2>1, <2>2, <2>3, <2>4, <2>5, <2>6 DEF Effect
<1>3. TasksInv /\ [PoolNext]_vars => [Service!TaskServiceNext]_(Service!taskServiceVars)
  BY <1>2, TasksNext
<1> QED
  BY <1>1, <1>3, TasksInit, TasksNext, PTL
  DEF PoolSpec, ImplementsTaskService, Service!TaskServiceSpec

(***************************************************************************)
(* Why a cancelled owner stays quiet: an owner is clean from the locked    *)
(* section that unlinks its tasks until one is submitted again, so nothing *)
(* of a clean owner waits; and it is quiet only once the scan has found    *)
(* none of its tasks running, so that none can run until one has waited.   *)
(***************************************************************************)
CleanInv ==
  /\ quiet \subseteq clean
  /\ \A t \in Waiting : OwnerOf[t] \notin clean
  /\ \A w \in Worker : current[w] # NoTask => OwnerOf[current[w]] \notin quiet

\* What a step does to the tasks keeps it.
LEMMA CleanNext ==
  ASSUME TasksInv, CleanInv, Effect
  PROVE  CleanInv'
<1> USE DEF CleanInv
<1>1. CASE NoEffect
  BY <1>1 DEF NoEffect
<1>2. ASSUME NEW t \in Task, Service!Submit(t), clean' = clean \ {OwnerOf[t]},
             quiet' = quiet \ {OwnerOf[t]}
      PROVE  CleanInv'
  <2>1. Waiting' = Waiting \cup {t} /\ current' = current
    BY <1>2 DEF Service!Submit, Waiting
  <2> QED BY <1>2, <2>1
<1>3. ASSUME UNCHANGED <<clean, quiet>>, NEW w \in Worker, NEW t,
             Waiting' \subseteq Waiting,
             \/ current' = [current EXCEPT ![w] = NoTask]
             \/ current' = [current EXCEPT ![w] = t] /\ t \in Waiting
      PROVE  CleanInv'
  BY <1>3 DEF TasksInv, RunningInv
<1>4. CASE WorkEffect
  <2>1. ASSUME NEW w \in Worker, Service!End(w) PROVE CleanInv'
    <3>1. Waiting' = Waiting /\ current' = [current EXCEPT ![w] = NoTask]
      BY <2>1 DEF Service!End, Waiting
    <3> QED BY <1>3, <1>4, <3>1 DEF WorkEffect
  <2>2. ASSUME NEW w \in Worker, NEW t, Service!Begin(w, t) \/ Service!Forget(w, t)
        PROVE  CleanInv'
    <3>1. /\ t \in Waiting /\ Waiting' = Waiting \ {t}
          /\ \/ current' = [current EXCEPT ![w] = NoTask]
             \/ current' = [current EXCEPT ![w] = t]
      BY <2>2 DEF Service!Begin, Service!Forget, Waiting
    <3> QED BY <1>3, <1>4, <3>1 DEF WorkEffect
  <2> QED BY <1>4, <2>1, <2>2 DEF WorkEffect
<1>5. ASSUME NEW c, NEW o, Service!Revoke(c, o), clean' = clean \cup {o}, UNCHANGED quiet
      PROVE  CleanInv'
  <2>1. Waiting' = {t \in Waiting : OwnerOf[t] # o} /\ current' = current
    BY <1>5 DEF Service!Revoke, Waiting
  <2> QED BY <1>5, <2>1
<1>6. ASSUME NEW c, Service!Revoked(c), UNCHANGED clean,
             quiet' = quiet \cup (cancelling[c] \cap clean)
      PROVE  CleanInv'
  <2>1. /\ Waiting' = Waiting /\ current' = current
        /\ \A w \in Worker : current[w] # NoTask => OwnerOf[current[w]] \notin cancelling[c]
    BY <1>6 DEF Service!Revoked, Waiting
  <2> QED BY <1>6, <2>1
<1>7. CASE CloseEffect
  <2>1. Waiting' = Waiting /\ current' = current
    BY <1>7 DEF CloseEffect, Service!Close, Waiting
  <2> QED BY <1>7, <2>1 DEF CloseEffect
<1> QED BY <1>1, <1>2, <1>4, <1>5, <1>6, <1>7 DEF Effect, SubmitEffect, RevokeEffect, RevokedEffect

(***************************************************************************)
(* After apr_thread_pool_tasks_cancel returns, no task of the owner runs   *)
(* or waits until one is submitted again.                                  *)
(***************************************************************************)
THEOREM QuietTheorem == PoolSpec => []CancelledStaysQuiet
<1>1. PoolInit => TasksInv /\ CleanInv
  BY TasksInit DEF CleanInv, PoolInit
<1>2. TasksInv /\ CleanInv /\ [PoolNext]_vars => (TasksInv /\ CleanInv)'
  BY TasksNext, CleanNext
<1>3. CleanInv => CancelledStaysQuiet
  <2> SUFFICES ASSUME CleanInv, NEW t \in Task, OwnerOf[t] \in quiet
               PROVE  t \notin Waiting /\ \A w \in Worker : t # current[w]
    BY DEF CancelledStaysQuiet, Waiting
  <2>1. t # NoTask
    BY TaskAssumption DEF TaskAssumption
  <2> QED BY <2>1 DEF CleanInv
<1> QED BY <1>1, <1>2, <1>3, PTL DEF PoolSpec
=============================================================================
