------------------------- MODULE NegativeCacheProofs -------------------------
(***************************************************************************)
(* Theorems about sending and the negative cache, for any senders,         *)
(* messages, peers, sizes of the ring, timeouts and results of sending:    *)
(* the cache holds a reference to the messages in its rings, a peer is     *)
(* sent no message twice, and a message leaves a ring unsent by the policy *)
(* or because the peer's entry is replaced by another.                     *)
(*                                                                         *)
(* The ring is shown to be the queue that Pending reads off it; from then  *)
(* on the proofs are about what was sent to a peer, followed by its queue. *)
(***************************************************************************)
EXTENDS NegativeCache, SequenceTheorems, TLAPS

\* The indices of an entry are inside its ring.
RingOK(e) ==
  /\ e \in Entry
  /\ e.queued => /\ Capacity \in Nat /\ Capacity > 1
                 /\ e.rq_head \in Slot /\ e.rq_tail \in Slot \cup {-1}

MaybeMessage == Message \cup {NoMessage}

----------------------------------------------------------------------------
\* The ring is a queue.

LEMMA PendingIsQueue ==
  ASSUME NEW e, RingOK(e)
  PROVE  /\ Waiting(e) \in Nat /\ Waiting(e) <= Capacity
         /\ Pending(e) \in Seq(MaybeMessage) /\ Len(Pending(e)) = Waiting(e)
         /\ \A i \in 1 .. Waiting(e) : Pending(e)[i] = e.rq[Wrap(e.rq_head + i - 1)]
<1>1. e # NoEntry /\ e \in Entry /\ Capacity \in Nat
  BY CacheAssumption DEF RingOK
<1>2. Waiting(e) \in Nat /\ Waiting(e) <= Capacity
  BY <1>1 DEF RingOK, Waiting, Slot, Entry
<1>3. \A i \in 1 .. Waiting(e) : Wrap(e.rq_head + i - 1) \in Slot
  BY <1>1, <1>2 DEF RingOK, Waiting, Slot, Wrap, Entry
<1>4. Pending(e) = [i \in 1 .. Waiting(e) |-> e.rq[Wrap(e.rq_head + i - 1)]]
  BY <1>1 DEF Pending
<1>5. \A i \in 1 .. Waiting(e) : e.rq[Wrap(e.rq_head + i - 1)] \in MaybeMessage
  BY <1>1, <1>3 DEF Entry, MaybeMessage
<1>6. Pending(e) \in [1 .. Waiting(e) -> MaybeMessage]
  BY <1>4, <1>5
<1>7. Pending(e) \in Seq(MaybeMessage)
  BY <1>2, <1>6, SeqDef
<1> QED BY <1>2, <1>4, <1>6, <1>7, LenProperties

\* The new entry of a peer has the message it was made for, if it has a ring.
LEMMA NewEntryRing ==
  ASSUME NEW m \in Message
  PROVE  /\ RingOK(NewEntry(m)) /\ NewEntry(m) # NoEntry
         /\ Pending(NewEntry(m)) = IF Capacity > 0 THEN <<m>> ELSE <<>>
<1> DEFINE e == NewEntry(m)
<1>1. e \in Entry
  BY CacheAssumption DEF NewEntry, Entry, Slot
<1>0. /\ e.rq_head = 0 /\ e.rq_tail = IF Capacity > 0 THEN 1 ELSE 0
      /\ e.queued = (Capacity > 0)
  BY DEF NewEntry
<1>2. RingOK(e)
  <2>1. e.queued => Capacity > 0
    BY <1>0
  <2> HIDE DEF e
  <2> QED BY <1>0, <1>1, <2>1, CacheAssumption DEF RingOK, Slot
<1>3. Waiting(e) = IF Capacity > 0 THEN 1 ELSE 0
  <2>1. e.queued <=> Capacity > 0
    BY <1>0
  <2> HIDE DEF e
  <2> QED BY <1>0, <2>1, CacheAssumption DEF Waiting
<1>4. Capacity > 0 => e.rq[Wrap(e.rq_head + 1 - 1)] = m
  BY CacheAssumption DEF NewEntry, Wrap, Slot
<1> HIDE DEF e
<1>5. Pending(e) = IF Capacity > 0 THEN <<m>> ELSE <<>>
  <2>1. CASE Capacity > 0
    <3>1. Len(Pending(e)) = 1 /\ Pending(e)[1] = m /\ Pending(e) \in Seq(MaybeMessage)
      <4>1. Waiting(e) = 1 /\ e.rq[Wrap(e.rq_head + 1 - 1)] = m /\ 1 \in 1 .. 1
        BY <1>3, <1>4, <2>1
      <4> QED BY <1>2, <4>1, PendingIsQueue
    <3> QED BY <3>1, <2>1
  <2>2. CASE ~ (Capacity > 0)
    <3>1. Len(Pending(e)) = 0 /\ Pending(e) \in Seq(MaybeMessage)
      BY <1>2, <1>3, <2>2, PendingIsQueue
    <3> QED BY <3>1, <2>2
  <2> QED BY <2>1, <2>2
<1> QED BY <1>1, <1>2, <1>5, CacheAssumption DEF e

(* A message joins the queue, or takes the slot of the oldest in a full ring
   and is in the queue no more than that one. *)
LEMMA EnqueueRing ==
  ASSUME NEW e, RingOK(e), NEW m \in Message
  PROVE  LET q == Pending(e)
             f == Enqueue(e, m)
         IN  /\ RingOK(f)
             /\ ~ e.queued => q = <<>> /\ f = e
             /\ e.queued /\ ~ Full(e) => Pending(f) = Append(q, m)
             /\ Full(e) => /\ q # <<>> /\ Len(q) = Capacity /\ e.rq[e.rq_head] = Head(q)
                           /\ Pending(f) = Tail(q)
<1> DEFINE q == Pending(e)
           f == Enqueue(e, m)
<1>1. e \in Entry /\ Waiting(e) \in Nat /\ q \in Seq(MaybeMessage) /\ Len(q) = Waiting(e)
      /\ \A i \in 1 .. Waiting(e) : q[i] = e.rq[Wrap(e.rq_head + i - 1)]
  BY PendingIsQueue DEF RingOK
<1>2. CASE ~ e.queued
  <2>1. f = e /\ Waiting(e) = 0
    BY <1>2 DEF Enqueue, Waiting
  <2>2. q = <<>>
    BY <1>1, <2>1, EmptySeq
  <2> HIDE DEF f, q
  <2> QED BY <1>2, <2>1, <2>2 DEF f, q, Full
<1>3. CASE e.queued /\ e.rq_head = e.rq_tail
  <2>1. f = [e EXCEPT !.rq[e.rq_head] = m, !.rq_head = NextSlot(e.rq_head)]
    BY <1>3 DEF Enqueue
  <2>2. /\ Capacity \in Nat /\ Capacity > 1 /\ e.rq_head \in Slot
        /\ e.rq_head \in 0 .. Capacity - 1 /\ Waiting(e) = Capacity
    BY <1>1, <1>3 DEF RingOK, Slot, Waiting
  <2>3. /\ f.queued = e.queued /\ f.rq_tail = e.rq_tail /\ f.rq_head = NextSlot(e.rq_head)
        /\ f.rq = [e.rq EXCEPT ![e.rq_head] = m] /\ f \in Entry
    <3>1. NextSlot(e.rq_head) \in Int
      BY <2>2 DEF NextSlot, Wrap
    <3>2. e \in Entry /\ [e.rq EXCEPT ![e.rq_head] = m] \in [Slot -> Message \cup {NoMessage}]
      BY <1>1, <2>2 DEF Entry
    <3> HIDE DEF f
    <3> QED BY <2>1, <3>1, <3>2 DEF Entry
  <2> HIDE DEF f
  <2>4. f.queued <=> TRUE
    BY <1>3, <2>3
  <2>5. RingOK(f)
    BY <1>3, <2>2, <2>3 DEF RingOK, Slot, NextSlot, Wrap
  <2>6. Waiting(f) = Capacity - 1
    <3>1. e.rq_tail = e.rq_head /\ e.rq_tail # -1
      BY <1>3, <2>2
    <3> QED BY <2>2, <2>3, <2>4, <3>1 DEF Waiting, NextSlot, Wrap
  <2>7. Pending(f) \in Seq(MaybeMessage) /\ Len(Pending(f)) = Capacity - 1
        /\ \A i \in 1 .. Capacity - 1 : Pending(f)[i] = f.rq[Wrap(f.rq_head + i - 1)]
    BY <2>5, <2>6, PendingIsQueue
  <2>8. Tail(q) \in Seq(MaybeMessage) /\ Len(Tail(q)) = Capacity - 1 /\ q # <<>>
        /\ Head(q) = q[1] /\ \A i \in 1 .. Capacity - 1 : Tail(q)[i] = q[i + 1]
    BY <1>1, <2>2, HeadTailProperties, EmptySeq
  <2>9. \A i \in 1 .. Capacity - 1 : Pending(f)[i] = Tail(q)[i]
    <3> TAKE i \in 1 .. Capacity - 1
    <3>1. Pending(f)[i] = f.rq[Wrap(NextSlot(e.rq_head) + i - 1)]
      BY <2>3, <2>7
    <3>2. Wrap(NextSlot(e.rq_head) + i - 1) = Wrap(e.rq_head + i) /\ Wrap(e.rq_head + i) # e.rq_head
          /\ Wrap(e.rq_head + i) \in Slot
      BY <2>2 DEF NextSlot, Wrap, Slot
    <3>3. i + 1 \in 1 .. Waiting(e) /\ e.rq_head + (i + 1) - 1 = e.rq_head + i
      BY <2>2
    <3>4. q[i + 1] = e.rq[Wrap(e.rq_head + i)]
      BY <1>1, <3>3
    <3>5. f.rq[Wrap(e.rq_head + i)] = e.rq[Wrap(e.rq_head + i)]
      BY <1>1, <2>2, <2>3, <3>2 DEF Entry
    <3> QED BY <2>8, <3>1, <3>2, <3>4, <3>5
  <2>10. Pending(f) = Tail(q)
    BY <2>2, <2>7, <2>8, <2>9, SeqEqual
  <2>11. e.rq[e.rq_head] = Head(q)
    <3>1. 1 \in 1 .. Waiting(e) /\ Wrap(e.rq_head + 1 - 1) = e.rq_head
      BY <2>2 DEF Wrap
    <3> QED BY <1>1, <2>8, <3>1
  <2>12. Len(q) = Capacity
    BY <1>1, <2>2
  <2> HIDE DEF q
  <2> QED BY <1>3, <2>5, <2>8, <2>10, <2>11, <2>12 DEF f, q, Full
<1>4. CASE e.queued /\ e.rq_head # e.rq_tail
  <2> DEFINE tail == IF e.rq_tail = -1 THEN e.rq_head ELSE e.rq_tail
  <2>1. f = [e EXCEPT !.rq[tail] = m, !.rq_tail = NextSlot(tail)]
    BY <1>4 DEF Enqueue
  <2>2. /\ Capacity \in Nat /\ Capacity > 1 /\ e.rq_head \in 0 .. Capacity - 1
        /\ tail \in 0 .. Capacity - 1
        /\ tail = Wrap(e.rq_head + Waiting(e)) /\ Waiting(e) < Capacity
    BY <1>1, <1>4 DEF RingOK, Slot, Waiting, Wrap
  <2> HIDE DEF tail
  <2>3. /\ f.queued = e.queued /\ f.rq_tail = NextSlot(tail) /\ f.rq_head = e.rq_head
        /\ f.rq = [e.rq EXCEPT ![tail] = m] /\ f \in Entry
    <3>1. NextSlot(tail) \in Int /\ tail \in Slot
      BY <2>2 DEF NextSlot, Wrap, Slot
    <3>2. e \in Entry /\ [e.rq EXCEPT ![tail] = m] \in [Slot -> Message \cup {NoMessage}]
      BY <1>1, <3>1 DEF Entry
    <3> HIDE DEF f
    <3> QED BY <2>1, <3>1, <3>2 DEF Entry
  <2> HIDE DEF f
  <2>7. f.queued <=> TRUE
    BY <1>4, <2>3
  <2>4. RingOK(f)
    BY <1>4, <2>2, <2>3 DEF RingOK, Slot, NextSlot, Wrap
  <2>5. Waiting(f) = Waiting(e) + 1
    <3>1. Waiting(f) = IF NextSlot(tail) > e.rq_head THEN NextSlot(tail) - e.rq_head
                       ELSE NextSlot(tail) - e.rq_head + Capacity
      BY <2>2, <2>3, <2>7 DEF Waiting, NextSlot, Wrap
    <3> QED BY <1>1, <2>2, <3>1 DEF NextSlot, Wrap
  <2>6. Pending(f) \in Seq(MaybeMessage) /\ Len(Pending(f)) = Waiting(e) + 1
        /\ \A i \in 1 .. Waiting(e) + 1 : Pending(f)[i] = f.rq[Wrap(f.rq_head + i - 1)]
    BY <2>4, <2>5, PendingIsQueue
  <2>8. Append(q, m) \in Seq(MaybeMessage) /\ Len(Append(q, m)) = Waiting(e) + 1
        /\ \A i \in 1 .. Waiting(e) + 1 : Append(q, m)[i] = IF i = Waiting(e) + 1 THEN m ELSE q[i]
    BY <1>1, AppendProperties DEF MaybeMessage
  <2>9. \A i \in 1 .. Waiting(e) + 1 : Pending(f)[i] = Append(q, m)[i]
    <3> TAKE i \in 1 .. Waiting(e) + 1
    <3>1. Pending(f)[i] = f.rq[Wrap(e.rq_head + i - 1)]
      BY <2>3, <2>6
    <3>2. CASE i = Waiting(e) + 1
      <4>1. Wrap(e.rq_head + i - 1) = tail
        BY <1>1, <2>2, <3>2 DEF Wrap
      <4>2. f.rq[tail] = m
        BY <1>1, <2>2, <2>3 DEF Entry, Slot
      <4> QED BY <2>8, <3>1, <3>2, <4>1, <4>2
    <3>3. CASE i # Waiting(e) + 1
      <4>1. /\ Wrap(e.rq_head + i - 1) # tail /\ Wrap(e.rq_head + i - 1) \in Slot
            /\ i \in 1 .. Waiting(e)
        BY <1>1, <2>2, <3>3 DEF Wrap, Slot
      <4>2. f.rq[Wrap(e.rq_head + i - 1)] = e.rq[Wrap(e.rq_head + i - 1)]
        BY <1>1, <2>2, <2>3, <4>1 DEF Entry
      <4>3. q[i] = e.rq[Wrap(e.rq_head + i - 1)]
        BY <1>1, <4>1
      <4> QED BY <2>8, <3>1, <3>3, <4>2, <4>3
    <3> QED BY <3>2, <3>3
  <2>10. Pending(f) = Append(q, m)
    BY <1>1, <2>6, <2>8, <2>9, SeqEqual
  <2> HIDE DEF q
  <2> QED BY <1>4, <2>4, <2>10 DEF f, q, Full
<1> QED BY <1>2, <1>3, <1>4

\* Time leaves the queue alone, and so does a timeout that is doubled.
LEMMA SameRing ==
  ASSUME NEW e, RingOK(e), NEW f \in Entry, f.queued <=> e.queued,
         f.rq = e.rq, f.rq_head = e.rq_head, f.rq_tail = e.rq_tail
  PROVE  RingOK(f) /\ Pending(f) = Pending(e)
<1>1. f # NoEntry /\ e # NoEntry
  BY CacheAssumption DEF RingOK
<1>2. RingOK(f) /\ Waiting(f) = Waiting(e)
  BY DEF RingOK, Waiting
<1> QED BY <1>1, <1>2 DEF Pending

LEMMA ExpiredRing ==
  ASSUME NEW e, RingOK(e)
  PROVE  LET f == [e EXCEPT !.expired = TRUE]
         IN  /\ RingOK(f) /\ Pending(f) = Pending(e) /\ (f.queued <=> e.queued)
             /\ f.timeout = e.timeout
<1> DEFINE f == [e EXCEPT !.expired = TRUE]
<1>1. /\ f \in Entry /\ f.rq = e.rq /\ f.rq_head = e.rq_head /\ f.rq_tail = e.rq_tail
      /\ f.timeout = e.timeout
  BY DEF RingOK, Entry
<1>2. f.queued <=> e.queued
  BY DEF RingOK, Entry
<1> HIDE DEF f
<1>3. RingOK(f) /\ Pending(f) = Pending(e)
  BY <1>1, <1>2, SameRing
<1> QED BY <1>1, <1>2, <1>3 DEF f

\* Dropping the ring.
LEMMA NoRing ==
  ASSUME NEW e, RingOK(e), NEW timeout \in Nat,
         NEW f, f = [e EXCEPT !.queued = FALSE, !.timeout = timeout, !.expired = FALSE]
  PROVE  RingOK(f) /\ ~ f.queued /\ Pending(f) = <<>>
<1>1. f \in Entry /\ ~ f.queued
  BY DEF RingOK, Entry
<1>2. RingOK(f) /\ Waiting(f) = 0
  BY <1>1 DEF RingOK, Waiting
<1>3. Pending(f) \in Seq(MaybeMessage) /\ Len(Pending(f)) = 0
  BY <1>2, PendingIsQueue
<1> QED BY <1>1, <1>2, <1>3, EmptySeq

\* An unreachable peer's ring stays or is dropped at the longest timeout.
LEMMA GiveUpRing ==
  ASSUME NEW e, RingOK(e)
  PROVE  LET f == GiveUpOrDouble(e)
         IN  /\ RingOK(f)
             /\ \/ Pending(f) = Pending(e) /\ (f.queued <=> e.queued)
                \/ Pending(f) = <<>> /\ ~ f.queued /\ e.timeout >= TimeoutMax
<1> DEFINE f == GiveUpOrDouble(e)
<1>1. e.timeout \in Nat /\ TimeoutMax \in Nat
  BY CacheAssumption DEF RingOK, Entry
<1>2. CASE e.timeout >= TimeoutMax
  <2>1. f = [e EXCEPT !.queued = FALSE, !.timeout = TimeoutMax, !.expired = FALSE]
    BY <1>2 DEF GiveUpOrDouble
  <2> HIDE DEF f
  <2>2. RingOK(f) /\ ~ f.queued /\ Pending(f) = <<>>
    BY <1>1, <2>1, NoRing
  <2> QED BY <1>2, <2>2 DEF f
<1>3. CASE ~ (e.timeout >= TimeoutMax)
  <2> DEFINE timeout == IF 2 * e.timeout > TimeoutMax THEN TimeoutMax ELSE 2 * e.timeout
  <2>1. timeout \in Nat
    BY <1>1
  <2>2. f = [e EXCEPT !.timeout = timeout, !.expired = FALSE]
    BY <1>3 DEF GiveUpOrDouble
  <2> HIDE DEF f, timeout
  <2>3. f \in Entry /\ f.rq = e.rq /\ f.rq_head = e.rq_head /\ f.rq_tail = e.rq_tail
    BY <2>1, <2>2 DEF RingOK, Entry
  <2>4. f.queued <=> e.queued
    BY <2>2 DEF RingOK, Entry
  <2>5. RingOK(f) /\ Pending(f) = Pending(e)
    BY <2>3, <2>4, SameRing
  <2> QED BY <2>4, <2>5 DEF f
<1> QED BY <1>2, <1>3

\* The ring is emptied.
LEMMA EmptiedRing ==
  ASSUME NEW e, RingOK(e), Pending(e) # <<>>
  PROVE  LET f == [e EXCEPT !.rq_head = e.rq_tail, !.rq_tail = -1]
         IN  RingOK(f) /\ (f.queued <=> e.queued) /\ Pending(f) = <<>>
<1> DEFINE f == [e EXCEPT !.rq_head = e.rq_tail, !.rq_tail = -1]
<1>1. /\ f \in Entry /\ f.queued = e.queued /\ f.rq_head = e.rq_tail /\ f.rq_tail = -1
  <2>1. e \in Entry /\ e.rq_tail \in Int /\ -1 \in Int
    BY DEF RingOK, Entry
  <2> QED BY <2>1 DEF Entry
<1> HIDE DEF f
<1>2. e.queued /\ e.rq_tail # -1
  <2>1. Waiting(e) # 0
    BY PendingIsQueue, EmptySeq
  <2> QED BY <2>1 DEF Waiting
<1>3. RingOK(f) /\ Waiting(f) = 0
  BY <1>1, <1>2 DEF RingOK, Waiting, Slot
<1>4. Pending(f) \in Seq(MaybeMessage) /\ Len(Pending(f)) = 0
  BY <1>3, PendingIsQueue
<1>5. Pending(f) = <<>>
  BY <1>4, EmptySeq
<1> QED BY <1>1, <1>3, <1>5 DEF f

\* The head moves past the messages that were sent.
LEMMA ShiftedRing ==
  ASSUME NEW e, RingOK(e), NEW k \in 0 .. Len(Pending(e)) - 1
  PROVE  LET f == [e EXCEPT !.rq_head = Wrap(e.rq_head + k)]
             q == Pending(e)
         IN  /\ RingOK(f) /\ (f.queued <=> e.queued)
             /\ q = SubSeq(q, 1, k) \o Pending(f)
<1> DEFINE f == [e EXCEPT !.rq_head = Wrap(e.rq_head + k)]
           q == Pending(e)
<1>1. /\ Waiting(e) \in Nat /\ Waiting(e) <= Capacity
      /\ q \in Seq(MaybeMessage) /\ Len(q) = Waiting(e)
      /\ \A i \in 1 .. Waiting(e) : q[i] = e.rq[Wrap(e.rq_head + i - 1)]
  BY PendingIsQueue
<1>2. /\ e.queued /\ e.rq_tail # -1 /\ k \in Nat /\ k < Waiting(e)
      /\ Capacity \in Nat /\ Capacity > 1
      /\ e.rq_head \in 0 .. Capacity - 1 /\ e.rq_tail \in 0 .. Capacity - 1
  BY <1>1 DEF Waiting, RingOK, Slot
<1>3. Wrap(e.rq_head + k) \in 0 .. Capacity - 1
  BY <1>1, <1>2 DEF Wrap
<1>4. /\ f \in Entry /\ f.queued = e.queued /\ f.rq_tail = e.rq_tail /\ f.rq = e.rq
      /\ f.rq_head = Wrap(e.rq_head + k)
  BY <1>3 DEF RingOK, Entry
<1> HIDE DEF f, q
<1>5. f.queued <=> TRUE
  BY <1>2, <1>4
<1>6. RingOK(f)
  BY <1>2, <1>3, <1>4 DEF RingOK, Slot
<1>7. Waiting(f) = Waiting(e) - k
  <2> DEFINE h == e.rq_head
             w == Waiting(e)
             g == Wrap(h + k)
  <2>1. w = IF e.rq_tail > h THEN e.rq_tail - h ELSE e.rq_tail - h + Capacity
    BY <1>2 DEF Waiting
  <2>2. Waiting(f) = IF e.rq_tail > g THEN e.rq_tail - g ELSE e.rq_tail - g + Capacity
    BY <1>2, <1>4, <1>5 DEF Waiting
  <2>3. h \in 0 .. Capacity - 1 /\ e.rq_tail \in 0 .. Capacity - 1 /\ k < w
    BY <1>2
  <2>4. CASE h + k >= Capacity
    <3>1. g = h + k - Capacity
      BY <1>2, <2>4 DEF Wrap
    <3> HIDE DEF h, w, g
    <3> QED BY <1>2, <2>1, <2>2, <2>3, <2>4, <3>1 DEF w
  <2>5. CASE ~ (h + k >= Capacity)
    <3>1. g = h + k
      BY <1>2, <2>5 DEF Wrap
    <3> HIDE DEF h, w, g
    <3> QED BY <1>2, <2>1, <2>2, <2>3, <2>5, <3>1 DEF w
  <2> QED BY <2>4, <2>5
<1>8. /\ Pending(f) \in Seq(MaybeMessage) /\ Len(Pending(f)) = Waiting(e) - k
      /\ \A i \in 1 .. Waiting(e) - k : Pending(f)[i] = e.rq[Wrap(f.rq_head + i - 1)]
  BY <1>4, <1>6, <1>7, PendingIsQueue
<1>9. /\ SubSeq(q, 1, k) \in Seq(MaybeMessage) /\ Len(SubSeq(q, 1, k)) = k
      /\ \A i \in 1 .. k : SubSeq(q, 1, k)[i] = q[i]
  <2>1. 1 <= k + 1 /\ k <= Len(q)
    BY <1>1, <1>2
  <2> QED BY <1>1, <1>2, <2>1
<1>10. /\ SubSeq(q, 1, k) \o Pending(f) \in Seq(MaybeMessage)
       /\ Len(SubSeq(q, 1, k) \o Pending(f)) = Waiting(e)
       /\ \A i \in 1 .. Waiting(e) : (SubSeq(q, 1, k) \o Pending(f))[i] =
             IF i <= k THEN SubSeq(q, 1, k)[i] ELSE Pending(f)[i - k]
  <2> DEFINE s == SubSeq(q, 1, k)
             r == Pending(f)
  <2>1. s \in Seq(MaybeMessage) /\ r \in Seq(MaybeMessage) /\ Len(s) = k /\ Len(r) = Waiting(e) - k
    BY <1>8, <1>9
  <2> HIDE DEF s, r
  <2>2. /\ s \o r \in Seq(MaybeMessage) /\ Len(s \o r) = Len(s) + Len(r)
        /\ \A i \in 1 .. Len(s) + Len(r) : (s \o r)[i] = IF i <= Len(s) THEN s[i] ELSE r[i - Len(s)]
    BY <2>1, ConcatProperties
  <2>3. Len(s) + Len(r) = Waiting(e)
    BY <1>1, <1>2, <2>1
  <2> QED BY <2>1, <2>2, <2>3 DEF s, r
<1>11. ASSUME NEW i \in 1 .. Waiting(e)
       PROVE  q[i] = (SubSeq(q, 1, k) \o Pending(f))[i]
  <2>0. i \in Nat
    BY <1>1
  <2>1. CASE i <= k
    <3>1. i \in 1 .. k
      BY <1>2, <2>1
    <3> QED BY <1>9, <1>10, <2>1, <3>1
  <2>2. CASE i > k
    <3>1. i - k \in 1 .. Waiting(e) - k
      BY <1>1, <1>2, <2>2
    <3>2. Wrap(f.rq_head + (i - k) - 1) = Wrap(e.rq_head + i - 1)
      BY <1>1, <1>2, <1>4, <2>2 DEF Wrap
    <3>3. (SubSeq(q, 1, k) \o Pending(f))[i] = Pending(f)[i - k]
      BY <1>1, <1>2, <1>10, <2>2
    <3>4. /\ Pending(f)[i - k] = e.rq[Wrap(f.rq_head + (i - k) - 1)]
          /\ q[i] = e.rq[Wrap(e.rq_head + i - 1)]
      BY <1>1, <1>8, <3>1
    <3> QED BY <3>2, <3>3, <3>4
  <2>3. i <= k \/ i > k
    BY <1>2, <2>0
  <2> QED BY <2>1, <2>2, <2>3
<1>12. q = SubSeq(q, 1, k) \o Pending(f)
  BY <1>1, <1>10, <1>11, SeqEqual
<1> QED BY <1>4, <1>6, <1>12 DEF f, q

\* The end of a sequence of messages is one.
LEMMA EndInSeq ==
  ASSUME NEW S, NEW T, NEW a \in Seq(S), NEW b \in Seq(T), S \subseteq T, a \o b \in Seq(S)
  PROVE  b \in Seq(S)
<1>1. a \in Seq(T) /\ Len(a) \in Nat /\ Len(b) \in Nat
  OBVIOUS
<1>2. /\ Len(a \o b) = Len(a) + Len(b)
      /\ \A i \in 1 .. Len(a) + Len(b) : (a \o b)[i] = IF i <= Len(a) THEN a[i] ELSE b[i - Len(a)]
  BY <1>1, ConcatProperties
<1>3. ASSUME NEW i \in 1 .. Len(b) PROVE b[i] \in S
  <2>1. i + Len(a) \in 1 .. Len(a) + Len(b) /\ ~ (i + Len(a) <= Len(a)) /\ i + Len(a) - Len(a) = i
    BY <1>1
  <2>2. (a \o b)[i + Len(a)] = b[i]
    BY <1>2, <2>1
  <2>3. (a \o b)[i + Len(a)] \in S
    BY <1>2, <2>1
  <2> QED BY <2>2, <2>3
<1>4. b = [i \in 1 .. Len(b) |-> b[i]]
  BY LenProperties
<1>5. b \in [1 .. Len(b) -> S]
  BY <1>3, <1>4
<1> QED BY <1>1, <1>5, SeqDef

(* Whatever comes of processing a ring: its messages are those sent followed
   by those that remain, or it is dropped at the longest timeout; and what is
   released is what left it. *)
LEMMA ProcessedRing ==
  ASSUME NEW e, RingOK(e), Pending(e) \in Seq(Message),
         NEW out \in nc_peer_process_queue(e)
  PROVE  /\ RingOK(out.entry) /\ Pending(out.entry) \in Seq(Message) /\ out.sent \in Seq(Message)
         /\ out.res = "SUCCESS" => Pending(out.entry) = <<>>
         /\ \/ /\ Pending(e) = out.sent \o Pending(out.entry)
               /\ Released(e, out) = ToSet(out.sent)
            \/ /\ out.sent = <<>> /\ Pending(out.entry) = <<>> /\ ~ out.entry.queued
               /\ e.timeout >= TimeoutMax
               /\ Released(e, out) = ToSet(Pending(e))
<1> DEFINE q == Pending(e)
<1>1. /\ <<>> \in Seq(Message) /\ ToSet(<<>>) = {}
      /\ q \o <<>> = q /\ <<>> \o q = q
  BY ConcatEmptySeq DEF ToSet
<1>2. CASE ~ e.expired
  <2>1. out.entry = e /\ out.sent = <<>> /\ out.res = "UNREACHABLE"
    BY <1>2 DEF nc_peer_process_queue
  <2>2. Released(e, out) = {}
    BY <1>1, <2>1 DEF Released
  <2> QED BY <1>1, <2>1, <2>2
<1>3. CASE e.expired /\ q = <<>>
  <2>1. out.entry = e /\ out.sent = <<>>
    BY <1>3 DEF nc_peer_process_queue
  <2>2. Released(e, out) = {}
    BY <1>1, <2>1 DEF Released
  <2> QED BY <1>1, <1>3, <2>1, <2>2
<1>4. CASE e.expired /\ q # <<>>
  <2>1. /\ q \in Seq(Message) /\ Len(q) \in Nat
        /\ \/ /\ out.entry = AfterSending(e, Len(q), "SUCCESS") /\ out.sent = q
           \/ \E k \in 0 .. Len(q) - 1, r \in SendResults :
                out.entry = AfterSending(e, k, r) /\ out.res = r /\ out.sent = SubSeq(q, 1, k)
    BY <1>4 DEF nc_peer_process_queue
  <2>2. CASE out.entry = AfterSending(e, Len(q), "SUCCESS") /\ out.sent = q
    <3>1. out.entry = [e EXCEPT !.rq_head = e.rq_tail, !.rq_tail = -1]
      BY <2>2 DEF AfterSending
    <3>2. RingOK(out.entry) /\ (out.entry.queued <=> e.queued) /\ Pending(out.entry) = <<>>
      BY <1>4, <3>1, EmptiedRing
    <3>3. Released(e, out) = ToSet(q)
      BY <2>2, <3>2 DEF Released
    <3> QED BY <1>1, <2>1, <2>2, <3>2, <3>3
  <2>3. ASSUME NEW k \in 0 .. Len(q) - 1, NEW r \in SendResults,
               out.entry = AfterSending(e, k, r), out.res = r, out.sent = SubSeq(q, 1, k)
        PROVE  /\ RingOK(out.entry) /\ Pending(out.entry) \in Seq(Message)
               /\ out.sent \in Seq(Message) /\ out.res # "SUCCESS"
               /\ \/ /\ Pending(e) = out.sent \o Pending(out.entry)
                     /\ Released(e, out) = ToSet(out.sent)
                  \/ /\ out.sent = <<>> /\ Pending(out.entry) = <<>> /\ ~ out.entry.queued
                     /\ e.timeout >= TimeoutMax
                     /\ Released(e, out) = ToSet(Pending(e))
    <3>1. r # "SUCCESS"
      BY CacheAssumption
    <3>2. k \in Nat /\ k <= Len(q) /\ SubSeq(q, 1, k) \in Seq(Message)
      <4>1. k \in Nat /\ 1 <= k + 1 /\ k <= Len(q)
        BY <2>1
      <4> QED BY <2>1, <4>1
    <3>3. CASE k = 0 /\ r = "UNREACHABLE"
      <4>1. out.entry = GiveUpOrDouble(e)
        BY <2>3, <3>1, <3>3 DEF AfterSending
      <4>2. out.sent = <<>>
        BY <2>1, <2>3, <3>3
      <4>3. /\ RingOK(out.entry)
            /\ \/ Pending(out.entry) = Pending(e) /\ (out.entry.queued <=> e.queued)
               \/ Pending(out.entry) = <<>> /\ ~ out.entry.queued /\ e.timeout >= TimeoutMax
        BY <4>1, GiveUpRing
      <4>4. e.queued
        <5>1. Waiting(e) # 0
          BY <1>4, PendingIsQueue, EmptySeq
        <5> QED BY <5>1 DEF Waiting
      <4>5. Released(e, out) = IF out.entry.queued THEN {} ELSE ToSet(q)
        BY <1>1, <4>2, <4>4 DEF Released
      <4> QED BY <1>1, <2>1, <2>3, <3>1, <4>2, <4>3, <4>4, <4>5
    <3>4. CASE ~ (k = 0 /\ r = "UNREACHABLE")
      <4>1. out.entry = [e EXCEPT !.rq_head = Wrap(e.rq_head + k)]
        BY <2>3, <3>1, <3>4 DEF AfterSending
      <4>2. /\ RingOK(out.entry) /\ (out.entry.queued <=> e.queued)
            /\ q = out.sent \o Pending(out.entry)
        <5> DEFINE f == [e EXCEPT !.rq_head = Wrap(e.rq_head + k)]
        <5>1. /\ RingOK(f) /\ (f.queued <=> e.queued) /\ q = SubSeq(q, 1, k) \o Pending(f)
          BY ShiftedRing
        <5> HIDE DEF f, q
        <5>2. out.entry = f
          BY <4>1 DEF f
        <5> QED BY <2>3, <5>1, <5>2
      <4>3. Released(e, out) = ToSet(out.sent)
        BY <4>2 DEF Released
      <4>4. Pending(out.entry) \in Seq(Message)
        <5>1. Pending(out.entry) \in Seq(MaybeMessage) /\ out.sent \in Seq(Message)
          BY <2>3, <3>2, <4>2, PendingIsQueue
        <5> QED BY <2>1, <4>2, <5>1, EndInSeq
      <4> QED BY <2>3, <3>1, <3>2, <4>2, <4>3, <4>4
    <3> QED BY <3>3, <3>4
  <2> QED BY <2>1, <2>2, <2>3
<1> QED BY <1>2, <1>3, <1>4
----------------------------------------------------------------------------
\* Sequences whose elements come one before the other.

Chain(R, s) == \A i, j \in 1 .. Len(s) : i < j => <<s[i], s[j]>> \in R

LEMMA Elements ==
  ASSUME NEW S, NEW s \in Seq(S)
  PROVE  /\ ToSet(s) \subseteq S
         /\ \A x : x \in ToSet(s) <=> \E i \in 1 .. Len(s) : x = s[i]
BY DEF ToSet

LEMMA ElementsConcat ==
  ASSUME NEW S, NEW a \in Seq(S), NEW b \in Seq(S)
  PROVE  /\ a \o b \in Seq(S) /\ ToSet(a \o b) = ToSet(a) \cup ToSet(b)
<1>1. /\ a \o b \in Seq(S) /\ Len(a \o b) = Len(a) + Len(b) /\ Len(a) \in Nat /\ Len(b) \in Nat
      /\ \A i \in 1 .. Len(a) + Len(b) : (a \o b)[i] = IF i <= Len(a) THEN a[i] ELSE b[i - Len(a)]
  BY ConcatProperties
<1>2. /\ \A x : x \in ToSet(a) <=> \E i \in 1 .. Len(a) : x = a[i]
      /\ \A x : x \in ToSet(b) <=> \E i \in 1 .. Len(b) : x = b[i]
      /\ \A x : x \in ToSet(a \o b) <=> \E i \in 1 .. Len(a \o b) : x = (a \o b)[i]
  BY <1>1, Elements
<1>3. ASSUME NEW x \in ToSet(a) PROVE x \in ToSet(a \o b)
  <2>1. PICK i \in 1 .. Len(a) : x = a[i]
    BY <1>2
  <2>2. i \in 1 .. Len(a) + Len(b) /\ i <= Len(a)
    BY <1>1
  <2> QED BY <1>1, <1>2, <2>1, <2>2
<1>4. ASSUME NEW x \in ToSet(b) PROVE x \in ToSet(a \o b)
  <2>1. PICK i \in 1 .. Len(b) : x = b[i]
    BY <1>2
  <2>2. i + Len(a) \in 1 .. Len(a) + Len(b) /\ ~ (i + Len(a) <= Len(a)) /\ i + Len(a) - Len(a) = i
    BY <1>1
  <2> QED BY <1>1, <1>2, <2>1, <2>2
<1>5. ASSUME NEW x \in ToSet(a \o b) PROVE x \in ToSet(a) \cup ToSet(b)
  <2>1. PICK i \in 1 .. Len(a) + Len(b) : x = IF i <= Len(a) THEN a[i] ELSE b[i - Len(a)]
    BY <1>1, <1>2
  <2>2. i <= Len(a) => i \in 1 .. Len(a)
    BY <1>1
  <2>3. ~ (i <= Len(a)) => i - Len(a) \in 1 .. Len(b)
    BY <1>1
  <2> QED BY <1>2, <2>1, <2>2, <2>3
<1> QED BY <1>1, <1>3, <1>4, <1>5

LEMMA ElementsAppend ==
  ASSUME NEW S, NEW a \in Seq(S), NEW x \in S
  PROVE  Append(a, x) \in Seq(S) /\ ToSet(Append(a, x)) = ToSet(a) \cup {x}
<1> DEFINE b == <<x>>
<1>1. Append(a, x) = a \o b
  BY AppendIsConcat
<1>2. ToSet(b) = {x} /\ b \in Seq(S)
  BY DEF ToSet
<1> HIDE DEF b
<1>3. a \o b \in Seq(S) /\ ToSet(a \o b) = ToSet(a) \cup ToSet(b)
  BY <1>2, ElementsConcat
<1> QED BY <1>1, <1>2, <1>3

LEMMA ElementsTail ==
  ASSUME NEW S, NEW a \in Seq(S), a # <<>>
  PROVE  Tail(a) \in Seq(S) /\ ToSet(a) = ToSet(Tail(a)) \cup {Head(a)}
<1>1. /\ Tail(a) \in Seq(S) /\ Len(Tail(a)) = Len(a) - 1 /\ Head(a) = a[1]
      /\ Len(a) \in Nat /\ Len(a) > 0 /\ \A i \in 1 .. Len(Tail(a)) : Tail(a)[i] = a[i + 1]
  BY HeadTailProperties, EmptySeq
<1>2. /\ \A x : x \in ToSet(a) <=> \E i \in 1 .. Len(a) : x = a[i]
      /\ \A x : x \in ToSet(Tail(a)) <=> \E i \in 1 .. Len(Tail(a)) : x = Tail(a)[i]
  BY <1>1, Elements
<1>3. ASSUME NEW x \in ToSet(a) PROVE x \in ToSet(Tail(a)) \cup {Head(a)}
  <2>1. PICK i \in 1 .. Len(a) : x = a[i]
    BY <1>2
  <2>2. CASE i = 1
    BY <1>1, <2>1, <2>2
  <2>3. CASE i # 1
    <3>1. i - 1 \in 1 .. Len(Tail(a)) /\ i - 1 + 1 = i
      BY <1>1, <2>3
    <3> QED BY <1>1, <1>2, <2>1, <3>1
  <2> QED BY <2>2, <2>3
<1>4. ASSUME NEW x \in ToSet(Tail(a)) PROVE x \in ToSet(a)
  <2>1. PICK i \in 1 .. Len(Tail(a)) : x = a[i + 1]
    BY <1>1, <1>2
  <2>2. i + 1 \in 1 .. Len(a)
    BY <1>1
  <2> QED BY <1>2, <2>1, <2>2
<1>5. Head(a) \in ToSet(a)
  <2>1. 1 \in 1 .. Len(a)
    BY <1>1
  <2> QED BY <1>1, <1>2, <2>1
<1> QED BY <1>1, <1>3, <1>4, <1>5

\* Parts of a chain are chains, and the elements of one come before those of the other.
LEMMA ChainParts ==
  ASSUME NEW R, NEW S, NEW a \in Seq(S), NEW b \in Seq(S), Chain(R, a \o b)
  PROVE  /\ Chain(R, a) /\ Chain(R, b)
         /\ \A x \in ToSet(a), y \in ToSet(b) : <<x, y>> \in R
<1>1. /\ Len(a \o b) = Len(a) + Len(b) /\ Len(a) \in Nat /\ Len(b) \in Nat
      /\ \A i \in 1 .. Len(a) + Len(b) : (a \o b)[i] = IF i <= Len(a) THEN a[i] ELSE b[i - Len(a)]
  BY ConcatProperties
<1>2. \A i, j \in 1 .. Len(a) + Len(b) : i < j => <<(a \o b)[i], (a \o b)[j]>> \in R
  BY <1>1 DEF Chain
<1>3. ASSUME NEW i \in 1 .. Len(a)
      PROVE  i \in 1 .. Len(a) + Len(b) /\ (a \o b)[i] = a[i]
  <2>1. i \in 1 .. Len(a) + Len(b) /\ i <= Len(a)
    BY <1>1
  <2> QED BY <1>1, <2>1
<1>4. ASSUME NEW i \in 1 .. Len(b)
      PROVE  i + Len(a) \in 1 .. Len(a) + Len(b) /\ (a \o b)[i + Len(a)] = b[i]
  <2>1. i + Len(a) \in 1 .. Len(a) + Len(b) /\ ~ (i + Len(a) <= Len(a)) /\ i + Len(a) - Len(a) = i
    BY <1>1
  <2> QED BY <1>1, <2>1
<1>5. Chain(R, a)
  BY <1>2, <1>3 DEF Chain
<1>6. Chain(R, b)
  <2> SUFFICES ASSUME NEW i \in 1 .. Len(b), NEW j \in 1 .. Len(b), i < j
               PROVE  <<b[i], b[j]>> \in R
    BY DEF Chain
  <2>1. i + Len(a) < j + Len(a)
    BY <1>1
  <2> QED BY <1>2, <1>4, <2>1
<1>7. ASSUME NEW x \in ToSet(a), NEW y \in ToSet(b) PROVE <<x, y>> \in R
  <2>1. PICK i \in 1 .. Len(a) : x = a[i]
    BY Elements
  <2>2. PICK j \in 1 .. Len(b) : y = b[j]
    BY Elements
  <2>3. i < j + Len(a)
    BY <1>1
  <2> QED BY <1>2, <1>3, <1>4, <2>1, <2>2, <2>3
<1> QED BY <1>5, <1>6, <1>7

LEMMA ChainConcat ==
  ASSUME NEW R, NEW S, NEW a \in Seq(S), NEW b \in Seq(S), Chain(R, a), Chain(R, b),
         \A x \in ToSet(a), y \in ToSet(b) : <<x, y>> \in R
  PROVE  Chain(R, a \o b)
<1>1. /\ Len(a \o b) = Len(a) + Len(b) /\ Len(a) \in Nat /\ Len(b) \in Nat
      /\ \A i \in 1 .. Len(a) + Len(b) : (a \o b)[i] = IF i <= Len(a) THEN a[i] ELSE b[i - Len(a)]
  BY ConcatProperties
<1> SUFFICES ASSUME NEW i \in 1 .. Len(a) + Len(b), NEW j \in 1 .. Len(a) + Len(b), i < j
             PROVE  <<(a \o b)[i], (a \o b)[j]>> \in R
  BY <1>1 DEF Chain
<1>2. CASE j <= Len(a)
  <2>1. i \in 1 .. Len(a) /\ j \in 1 .. Len(a) /\ i <= Len(a)
    BY <1>1, <1>2
  <2>2. <<a[i], a[j]>> \in R
    BY <2>1 DEF Chain
  <2> QED BY <1>1, <1>2, <2>1, <2>2
<1>3. CASE i <= Len(a) /\ ~ (j <= Len(a))
  <2>1. i \in 1 .. Len(a) /\ j - Len(a) \in 1 .. Len(b)
    BY <1>1, <1>3
  <2>2. a[i] \in ToSet(a) /\ b[j - Len(a)] \in ToSet(b)
    BY <2>1, Elements
  <2> QED BY <1>1, <1>3, <2>2
<1>4. CASE ~ (i <= Len(a))
  <2>1. /\ i - Len(a) \in 1 .. Len(b) /\ j - Len(a) \in 1 .. Len(b)
        /\ i - Len(a) < j - Len(a) /\ ~ (j <= Len(a))
    BY <1>1, <1>4
  <2>2. <<b[i - Len(a)], b[j - Len(a)]>> \in R
    BY <2>1 DEF Chain
  <2> QED BY <1>1, <1>4, <2>1, <2>2
<1>5. i \in Nat /\ j \in Nat
  BY <1>1
<1> QED BY <1>1, <1>2, <1>3, <1>4, <1>5

LEMMA ChainTail ==
  ASSUME NEW R, NEW S, NEW a \in Seq(S), a # <<>>, Chain(R, a)
  PROVE  Chain(R, Tail(a)) /\ \A x \in ToSet(Tail(a)) : <<Head(a), x>> \in R
<1>1. /\ Tail(a) \in Seq(S) /\ Len(Tail(a)) = Len(a) - 1 /\ Head(a) = a[1]
      /\ Len(a) \in Nat /\ Len(a) > 0 /\ \A i \in 1 .. Len(Tail(a)) : Tail(a)[i] = a[i + 1]
  BY HeadTailProperties, EmptySeq
<1>2. ASSUME NEW i \in 1 .. Len(Tail(a))
      PROVE  i + 1 \in 1 .. Len(a) /\ 1 \in 1 .. Len(a) /\ 1 < i + 1 /\ Tail(a)[i] = a[i + 1]
  <2>1. i + 1 \in 1 .. Len(a) /\ 1 \in 1 .. Len(a) /\ 1 < i + 1
    BY <1>1
  <2> QED BY <1>1, <2>1
<1>3. Chain(R, Tail(a))
  <2> SUFFICES ASSUME NEW i \in 1 .. Len(Tail(a)), NEW j \in 1 .. Len(Tail(a)), i < j
               PROVE  <<Tail(a)[i], Tail(a)[j]>> \in R
    BY DEF Chain
  <2>1. i + 1 < j + 1
    BY <1>1
  <2> QED BY <1>2, <2>1 DEF Chain
<1>4. ASSUME NEW x \in ToSet(Tail(a)) PROVE <<Head(a), x>> \in R
  <2>1. \A y : y \in ToSet(Tail(a)) <=> \E i \in 1 .. Len(Tail(a)) : y = Tail(a)[i]
    BY <1>1, Elements
  <2>2. PICK i \in 1 .. Len(Tail(a)) : x = Tail(a)[i]
    BY <2>1
  <2> QED BY <1>1, <1>2, <2>2 DEF Chain
<1> QED BY <1>3, <1>4
----------------------------------------------------------------------------
(***************************************************************************)
(* The invariant.  What a peer was sent and then its ring is one sequence  *)
(* of messages without repetition, and a sender's message is not in it nor *)
(* with another sender.  One that came to a full ring is in no sequence.   *)
(***************************************************************************)
Apart == {ab \in Message \X Message : ab[1] # ab[2]}

Fit(p) == {m \in ToSet(order) \ stray : Dest[m] = p}

Sound(G, sent, q) ==
  /\ sent \in Seq(Message) /\ q \in Seq(Message)
  /\ Chain(Apart, sent \o q)
  /\ ToSet(sent) \cup ToSet(q) \subseteq G

Rings == \A p \in Peer : nc[p] # NoEntry => RingOK(nc[p])

Types ==
  /\ nc \in [Peer -> Entry \cup {NoEntry}] /\ log \in [Peer -> Seq(Message)]
  /\ pc \in [Sender -> {"idle", "look", "send", "add", "review"}]
  /\ msg \in [Sender -> Message \cup {NoMessage}]
  /\ waiting \subseteq Async /\ waiting \cap ToSet(order) = {}
  /\ order \in Seq(Message) /\ stray \subseteq ToSet(order)

Flows == \A p \in Peer : Sound(Fit(p), log[p], Pending(nc[p]))

Sending(s) == pc[s] \in {"look", "send", "add"}

\* The message of a sender is where no other is, and for its peer alone.
Own(s) ==
  LET m == msg[s]
      p == Dest[m]
  IN  /\ m \in Fit(p)
      /\ m \notin ToSet(log[p]) \cup ToSet(Pending(nc[p]))

Senders ==
  \A s \in Sender : Sending(s) =>
    Own(s) /\ \A t \in Sender \ {s} : Sending(t) => msg[t] # msg[s]

CacheInv == Types /\ Rings /\ Flows /\ Senders /\ HeldWhileNeeded

\* What the policy allows of a ring, what was sent then, and the ring then.
ByPolicy(e, sent, rest) ==
  LET q    == Pending(e)
      lost == ToSet(q) \ (ToSet(rest) \cup ToSet(sent))
  IN  \/ lost = {}
      \/ lost = {Head(q)} /\ Len(q) = Capacity
      \/ lost = ToSet(q) /\ e.timeout >= TimeoutMax

\* A message that is not in a sequence is apart from all of it.
LEMMA ApartFrom ==
  ASSUME NEW m \in Message, NEW S \in SUBSET Message, m \notin S
  PROVE  \A x \in S : <<x, m>> \in Apart
BY DEF Apart

LEMMA ApartStrict == \A x : <<x, x>> \notin Apart
BY DEF Apart

\* The end of a ring is not sent twice, and its head is not in the rest of it.
LEMMA SoundParts ==
  ASSUME NEW G, NEW sent, NEW q, Sound(G, sent, q)
  PROVE  /\ ToSet(sent) \cap ToSet(q) = {}
         /\ q # <<>> => /\ ToSet(Tail(q)) = ToSet(q) \ {Head(q)} /\ Head(q) \in ToSet(q)
                        /\ Sound(G, sent, Tail(q))
         /\ Sound(G, sent, <<>>)
<1>1. /\ Chain(Apart, sent) /\ Chain(Apart, q)
      /\ \A x \in ToSet(sent), y \in ToSet(q) : <<x, y>> \in Apart
  BY ChainParts DEF Sound
<1>2. ToSet(sent) \cap ToSet(q) = {}
  BY <1>1, ApartStrict
<1>3. ASSUME q # <<>>
      PROVE  /\ ToSet(Tail(q)) = ToSet(q) \ {Head(q)} /\ Head(q) \in ToSet(q)
             /\ Sound(G, sent, Tail(q))
  <2>1. Tail(q) \in Seq(Message) /\ ToSet(q) = ToSet(Tail(q)) \cup {Head(q)}
    BY <1>3, ElementsTail DEF Sound
  <2>2. Chain(Apart, Tail(q)) /\ \A x \in ToSet(Tail(q)) : <<Head(q), x>> \in Apart
    BY <1>1, <1>3, ChainTail DEF Sound
  <2>3. Head(q) \notin ToSet(Tail(q))
    BY <2>2, ApartStrict
  <2>4. Chain(Apart, sent \o Tail(q))
    BY <1>1, <2>1, <2>2, ChainConcat DEF Sound
  <2> QED BY <2>1, <2>3, <2>4 DEF Sound
<1>4. Sound(G, sent, <<>>)
  <2>1. sent \o <<>> = sent /\ ToSet(<<>>) = {}
    BY ConcatEmptySeq DEF Sound, ToSet
  <2> QED BY <1>1, <2>1 DEF Sound
<1> QED BY <1>2, <1>3, <1>4

\* Processing the ring of a peer.
LEMMA ProcessAt ==
  ASSUME NEW e, RingOK(e), NEW G, NEW sent, Sound(G, sent, Pending(e)),
         NEW out \in nc_peer_process_queue(e)
  PROVE  LET q    == Pending(e)
             rest == Pending(out.entry)
             now  == sent \o out.sent
         IN  /\ RingOK(out.entry) /\ out.sent \in Seq(Message)
             /\ Sound(G, now, rest)
             /\ ToSet(now) \cup ToSet(rest) \subseteq ToSet(sent) \cup ToSet(q)
             /\ ToSet(rest) = ToSet(q) \ Released(e, out) /\ Released(e, out) \subseteq ToSet(q)
             /\ out.res = "SUCCESS" => rest = <<>>
             /\ \/ /\ ToSet(q) \subseteq ToSet(now) \cup ToSet(rest)
                   /\ Len(rest) = Capacity => q = rest
                \/ /\ rest = <<>> /\ ~ out.entry.queued /\ e.timeout >= TimeoutMax
                   /\ ToSet(q) \cap ToSet(now) = {}
<1> DEFINE q == Pending(e)
           rest == Pending(out.entry)
           now == sent \o out.sent
           Rel == Released(e, out)
<1>1. sent \in Seq(Message) /\ q \in Seq(Message) /\ Chain(Apart, sent \o q)
      /\ ToSet(sent) \cup ToSet(q) \subseteq G
  BY DEF Sound
<1>2. /\ RingOK(out.entry) /\ rest \in Seq(Message) /\ out.sent \in Seq(Message)
      /\ out.res = "SUCCESS" => rest = <<>>
      /\ \/ q = out.sent \o rest /\ Rel = ToSet(out.sent)
         \/ /\ out.sent = <<>> /\ rest = <<>> /\ ~ out.entry.queued
            /\ e.timeout >= TimeoutMax /\ Rel = ToSet(q)
  BY <1>1, ProcessedRing
<1>3. now \in Seq(Message) /\ ToSet(now) = ToSet(sent) \cup ToSet(out.sent)
  BY <1>1, <1>2, ElementsConcat
<1>4. Len(q) \in Nat /\ Len(q) <= Capacity
  BY PendingIsQueue
<1>5. ToSet(<<>>) = {}
  BY DEF ToSet
<1>6. ToSet(sent) \cap ToSet(q) = {} /\ Chain(Apart, q) /\ Chain(Apart, sent)
  BY <1>1, SoundParts, ChainParts
<1> HIDE DEF q, rest, Rel
<1>7. CASE q = out.sent \o rest /\ Rel = ToSet(out.sent)
  <2>1. ToSet(q) = ToSet(out.sent) \cup ToSet(rest)
    BY <1>2, <1>7, ElementsConcat
  <2>2. now \o rest = sent \o q
    <3>1. (sent \o out.sent) \o rest = sent \o (out.sent \o rest)
      <4> DEFINE s == out.sent
      <4>1. sent \in Seq(Message) /\ s \in Seq(Message) /\ rest \in Seq(Message)
        BY <1>1, <1>2
      <4> HIDE DEF s
      <4>2. (sent \o s) \o rest = sent \o (s \o rest)
        BY <4>1, ConcatAssociative
      <4> QED BY <4>2 DEF s
    <3> QED BY <1>7, <3>1
  <2>3. \A x \in ToSet(out.sent), y \in ToSet(rest) : <<x, y>> \in Apart
    BY <1>2, <1>6, <1>7, ChainParts
  <2>4. ToSet(rest) = ToSet(q) \ Rel
    BY <1>7, <2>1, <2>3, ApartStrict
  <2>5. Len(rest) = Capacity => q = rest
    <3>1. Len(q) = Len(out.sent) + Len(rest) /\ Len(out.sent) \in Nat /\ Len(rest) \in Nat
      BY <1>2, <1>7, ConcatProperties
    <3>2. Len(rest) = Capacity => out.sent = <<>>
      BY <1>2, <1>4, <3>1, EmptySeq
    <3>3. out.sent = <<>> => q = rest
      BY <1>2, <1>7, ConcatEmptySeq
    <3> QED BY <3>2, <3>3
  <2>6. Sound(G, now, rest)
    <3>1. Chain(Apart, now \o rest)
      BY <1>1, <2>2
    <3>2. ToSet(now) \cup ToSet(rest) \subseteq G
      BY <1>1, <1>3, <2>1
    <3> HIDE DEF now
    <3> QED BY <1>2, <1>3, <3>1, <3>2 DEF Sound
  <2>7. ToSet(now) \cup ToSet(rest) \subseteq ToSet(sent) \cup ToSet(q)
    BY <1>3, <2>1
  <2>8. Rel \subseteq ToSet(q) /\ ToSet(q) \subseteq ToSet(now) \cup ToSet(rest)
    BY <1>3, <1>7, <2>1
  <2> HIDE DEF now
  <2> QED BY <1>2, <2>4, <2>5, <2>6, <2>7, <2>8 DEF q, rest, now, Rel
<1>8. CASE /\ out.sent = <<>> /\ rest = <<>> /\ ~ out.entry.queued
           /\ e.timeout >= TimeoutMax /\ Rel = ToSet(q)
  <2>1. now = sent /\ sent \o <<>> = sent
    BY <1>1, <1>8, ConcatEmptySeq
  <2>2. Sound(G, now, rest)
    <3>1. Chain(Apart, now \o rest)
      BY <1>6, <1>8, <2>1
    <3> HIDE DEF now
    <3> QED BY <1>1, <1>2, <1>5, <1>8, <2>1, <3>1 DEF Sound
  <2>3. /\ ToSet(now) \cup ToSet(rest) \subseteq ToSet(sent) \cup ToSet(q)
        /\ ToSet(rest) = ToSet(q) \ Rel /\ Rel \subseteq ToSet(q)
        /\ ToSet(q) \cap ToSet(now) = {}
    BY <1>5, <1>6, <1>8, <2>1
  <2> HIDE DEF now
  <2> QED BY <1>2, <1>8, <2>2, <2>3 DEF q, rest, now, Rel
<1> QED BY <1>2, <1>7, <1>8

\* A last message more.
LEMMA AppendAfter ==
  ASSUME NEW a \in Seq(Message), NEW b \in Seq(Message), NEW m \in Message
  PROVE  a \o Append(b, m) = Append(a \o b, m)
<1> DEFINE c == <<m>>
<1>1. c \in Seq(Message) /\ a \o b \in Seq(Message)
  BY ConcatProperties
<1>2. Append(b, m) = b \o c /\ Append(a \o b, m) = (a \o b) \o c
  BY <1>1, AppendIsConcat
<1> HIDE DEF c
<1>3. (a \o b) \o c = a \o (b \o c)
  BY <1>1, ConcatAssociative
<1> QED BY <1>2, <1>3

\* A message that was in neither is given to a messenger, or joins the ring.
LEMMA OwnAdded ==
  ASSUME NEW G, NEW sent, NEW q, Sound(G, sent, q), NEW m \in Message, m \in G,
         m \notin ToSet(sent) \cup ToSet(q)
  PROVE  /\ Sound(G, sent, Append(q, m)) /\ ToSet(Append(q, m)) = ToSet(q) \cup {m}
         /\ Sound(G, Append(sent, m), q)
<1>1. sent \in Seq(Message) /\ q \in Seq(Message) /\ Chain(Apart, sent \o q)
      /\ ToSet(sent) \cup ToSet(q) \subseteq G
  BY DEF Sound
<1>2. Append(q, m) \in Seq(Message) /\ ToSet(Append(q, m)) = ToSet(q) \cup {m}
  BY <1>1, ElementsAppend
<1>3. Append(sent, m) \in Seq(Message) /\ ToSet(Append(sent, m)) = ToSet(sent) \cup {m}
  BY <1>1, ElementsAppend
<1> DEFINE b == <<m>>
<1>4. b \in Seq(Message) /\ ToSet(b) = {m} /\ Chain(Apart, b)
  BY DEF ToSet, Chain
<1>5. Append(q, m) = q \o b /\ Append(sent, m) = sent \o b
  BY <1>1, AppendIsConcat
<1> HIDE DEF b
<1>6. Chain(Apart, (sent \o q) \o b) /\ sent \o (q \o b) = (sent \o q) \o b
  <2>1. sent \o q \in Seq(Message) /\ ToSet(sent \o q) = ToSet(sent) \cup ToSet(q)
    BY <1>1, ElementsConcat
  <2>2. \A x \in ToSet(sent \o q), y \in ToSet(b) : <<x, y>> \in Apart
    BY <1>1, <1>4, <2>1, Elements, ApartFrom
  <2>3. Chain(Apart, (sent \o q) \o b)
    BY <1>1, <1>4, <2>1, <2>2, ChainConcat
  <2> QED BY <1>1, <1>4, <2>3, ConcatAssociative
<1>7. Sound(G, sent, Append(q, m))
  BY <1>1, <1>2, <1>5, <1>6 DEF Sound
<1>8. Sound(G, Append(sent, m), q)
  <2>1. /\ Chain(Apart, sent) /\ Chain(Apart, q)
        /\ \A x \in ToSet(sent), y \in ToSet(q) : <<x, y>> \in Apart
    BY <1>1, ChainParts
  <2>2. /\ \A x \in ToSet(sent), y \in ToSet(b) : <<x, y>> \in Apart
        /\ \A y \in ToSet(q) : <<m, y>> \in Apart
    BY <1>1, <1>4, Elements DEF Apart
  <2>3. Chain(Apart, Append(sent, m))
    BY <1>1, <1>4, <1>5, <2>1, <2>2, ChainConcat
  <2>4. \A x \in ToSet(Append(sent, m)), y \in ToSet(q) : <<x, y>> \in Apart
    BY <1>3, <2>1, <2>2
  <2>5. Chain(Apart, Append(sent, m) \o q)
    BY <1>1, <1>3, <2>1, <2>3, <2>4, ChainConcat
  <2> QED BY <1>1, <1>3, <2>5 DEF Sound
<1> QED BY <1>2, <1>7, <1>8

\* Queueing a message for a peer.
LEMMA QueueAt ==
  ASSUME NEW e, RingOK(e), NEW G, NEW sent, Sound(G, sent, Pending(e)),
         NEW m \in Message, m \in G, m \notin ToSet(sent) \cup ToSet(Pending(e))
  PROVE  LET q == Pending(e)
             r == Pending(Enqueue(e, m))
         IN  /\ RingOK(Enqueue(e, m)) /\ Sound(G, sent, r)
             /\ ~ e.queued => q = <<>> /\ r = q
             /\ e.queued /\ ~ Full(e) => ToSet(r) = ToSet(q) \cup {m}
             /\ Full(e) => /\ q # <<>> /\ Len(q) = Capacity
                           /\ Head(q) \in ToSet(q) /\ Head(q) \notin ToSet(sent)
                           /\ e.rq[e.rq_head] = Head(q) /\ ToSet(r) = ToSet(q) \ {Head(q)}
<1> DEFINE q == Pending(e)
           r == Pending(Enqueue(e, m))
<1>1. /\ RingOK(Enqueue(e, m))
      /\ ~ e.queued => q = <<>> /\ Enqueue(e, m) = e
      /\ e.queued /\ ~ Full(e) => r = Append(q, m)
      /\ Full(e) => q # <<>> /\ Len(q) = Capacity /\ e.rq[e.rq_head] = Head(q) /\ r = Tail(q)
  BY EnqueueRing
<1>3. Sound(G, sent, Append(q, m)) /\ ToSet(Append(q, m)) = ToSet(q) \cup {m}
  BY OwnAdded
<1>4. /\ q # <<>> => /\ ToSet(Tail(q)) = ToSet(q) \ {Head(q)} /\ Head(q) \in ToSet(q)
                     /\ Sound(G, sent, Tail(q))
      /\ ToSet(sent) \cap ToSet(q) = {}
  BY SoundParts
<1>5. CASE ~ e.queued
  <2>1. r = q /\ ~ Full(e)
    BY <1>1, <1>5 DEF Full
  <2> QED BY <1>1, <1>5, <2>1
<1>6. CASE e.queued /\ ~ Full(e)
  BY <1>1, <1>3, <1>6
<1>7. CASE Full(e)
  <2>1. e.queued
    BY <1>7 DEF Full
  <2> QED BY <1>1, <1>4, <1>7, <2>1
<1> QED BY <1>5, <1>6, <1>7

----------------------------------------------------------------------------
\* A step at one peer.

(* The cache holds what it held, without what was released and with what was
   added, and no more than that is in the peer's ring or went astray. *)
LEMMA HeldAt ==
  ASSUME CacheInv, NEW p \in Peer, NEW Z, NEW Out, NEW In,
         Out \subseteq ToSet(Pending(nc[p])),
         stray' = stray \cup Z,
         \A r \in Peer \ {p} : nc'[r] = nc[r],
         ToSet(Pending(nc'[p])) \cup Z \subseteq (ToSet(Pending(nc[p])) \ Out) \cup In,
         held' = (held \ Out) \cup In
  PROVE  HeldWhileNeeded'
<1>1. \A r \in Peer \ {p} : ToSet(Pending(nc[r])) \cap Out = {}
  BY DEF CacheInv, Flows, Sound, Fit
<1>2. stray \cap Out = {}
  BY DEF CacheInv, Flows, Sound, Fit
<1>3. /\ stray \subseteq held /\ \A r \in Peer : ToSet(Pending(nc[r])) \subseteq held
  BY DEF CacheInv, HeldWhileNeeded
<1>4. stray' \subseteq held'
  BY <1>2, <1>3
<1>5. ASSUME NEW r \in Peer PROVE ToSet(Pending(nc'[r])) \subseteq held'
  <2>1. CASE r = p
    BY <1>3, <2>1
  <2>2. CASE r # p
    <3>1. ToSet(Pending(nc'[r])) = ToSet(Pending(nc[r]))
      BY <2>2
    <3> QED BY <1>1, <1>3, <2>2, <3>1
  <2> QED BY <2>1, <2>2
<1> QED BY <1>4, <1>5 DEF HeldWhileNeeded

\* The peer's entry and what it was sent change, and perhaps a message goes astray.
LEMMA PeerChanged ==
  ASSUME CacheInv, NEW p \in Peer, NEW f, NEW sent, NEW Z,
         UNCHANGED order, stray' = stray \cup Z, Z \subseteq Fit(p),
         nc' = [nc EXCEPT ![p] = f], log' = [log EXCEPT ![p] = sent],
         f = NoEntry \/ RingOK(f), Sound(Fit(p) \ Z, sent, Pending(f))
  PROVE  /\ order' \in Seq(Message) /\ Rings' /\ Flows'
         /\ nc' \in [Peer -> Entry \cup {NoEntry}] /\ log' \in [Peer -> Seq(Message)]
         /\ stray' \subseteq ToSet(order')
         /\ nc'[p] = f /\ log'[p] = sent
         /\ \A r \in Peer \ {p} : nc'[r] = nc[r] /\ log'[r] = log[r]
<1>1. nc \in [Peer -> Entry \cup {NoEntry}] /\ log \in [Peer -> Seq(Message)]
  BY DEF CacheInv, Types
<1>2. /\ nc'[p] = f /\ log'[p] = sent
      /\ \A r \in Peer \ {p} : nc'[r] = nc[r] /\ log'[r] = log[r]
  BY <1>1
<1>3. f \in Entry \cup {NoEntry} /\ sent \in Seq(Message)
  BY DEF RingOK, Sound
<1>4. nc' \in [Peer -> Entry \cup {NoEntry}] /\ log' \in [Peer -> Seq(Message)]
  BY <1>1, <1>3
<1>5. Rings'
  BY <1>2 DEF CacheInv, Rings
<1>7. ASSUME NEW r \in Peer PROVE Sound(Fit(r), log[r], Pending(nc[r]))'
  <2>1. CASE r = p
    <3>1. Fit(p)' = Fit(p) \ Z
      BY DEF Fit
    <3> QED BY <1>2, <2>1, <3>1 DEF Sound
  <2>2. CASE r # p
    <3>1. Fit(r)' = Fit(r)
      BY <2>2 DEF Fit
    <3>2. Sound(Fit(r), log[r], Pending(nc[r]))
      BY DEF CacheInv, Flows
    <3>3. nc'[r] = nc[r] /\ log'[r] = log[r]
      BY <1>2, <2>2
    <3> QED BY <3>1, <3>2, <3>3 DEF Sound
  <2> QED BY <2>1, <2>2
<1>8. Flows'
  BY <1>7 DEF Flows
<1>9. stray' \subseteq ToSet(order')
  BY DEF CacheInv, Types, Fit
<1>10. order' \in Seq(Message)
  BY DEF CacheInv, Types
<1> QED BY <1>2, <1>4, <1>5, <1>8, <1>9, <1>10

(* The senders keep their messages to themselves, while those that stop sending
   may leave theirs, New, with a messenger, in a ring or astray. *)
LEMMA SendersKept ==
  ASSUME CacheInv, NEW New, UNCHANGED <<msg, order>>, stray' \subseteq stray \cup New,
         \A s \in Sender : Sending(s)' => Sending(s) /\ msg[s] \notin New,
         \A p \in Peer : ToSet(log'[p]) \cup ToSet(Pending(nc'[p]))
                           \subseteq ToSet(log[p]) \cup ToSet(Pending(nc[p])) \cup New
  PROVE  Senders'
<1> SUFFICES ASSUME NEW s \in Sender, Sending(s)'
             PROVE  (Own(s) /\ \A t \in Sender \ {s} : Sending(t) => msg[t] # msg[s])'
  BY DEF Senders
<1>1. /\ Own(s) /\ msg'[s] = msg[s] /\ msg[s] \notin New
      /\ \A t \in Sender \ {s} : Sending(t)' => msg'[t] # msg'[s]
  BY DEF CacheInv, Senders
<1>2. Dest[msg[s]] \in Peer /\ msg[s] \in Fit(Dest[msg[s]])
  <2>1. msg[s] \in Message
    BY <1>1, Elements DEF Own, Fit, CacheInv, Types
  <2> QED BY <1>1, <2>1, CacheAssumption DEF Own
<1>3. msg[s] \in Fit(Dest[msg[s]])'
  BY <1>1, <1>2 DEF Fit
<1>4. Own(s)'
  BY <1>1, <1>2, <1>3 DEF Own
<1> QED BY <1>1, <1>4

\* What a sender has, and that no other is left with it when it is done.
LEMMA SenderDone ==
  ASSUME CacheInv, NEW s \in Sender, Sending(s)
  PROVE  /\ Own(s) /\ msg[s] \in Message /\ Dest[msg[s]] \in Peer
         /\ \A w \in {"idle", "review"} : pc' = [pc EXCEPT ![s] = w] =>
              /\ pc' \in [Sender -> {"idle", "look", "send", "add", "review"}]
              /\ \A t \in Sender : Sending(t)' => Sending(t) /\ msg[t] \notin {msg[s]}
<1>1. Own(s) /\ \A t \in Sender \ {s} : Sending(t) => msg[t] # msg[s]
  BY DEF CacheInv, Senders
<1>2. msg[s] \in Message
  BY <1>1, Elements DEF Own, Fit, CacheInv, Types
<1>3. pc \in [Sender -> {"idle", "look", "send", "add", "review"}]
  BY DEF CacheInv, Types
<1> QED BY <1>1, <1>2, <1>3, CacheAssumption DEF Sending

LEMMA QueueMsgStep ==
  ASSUME CacheInv, NEW s \in Sender, nc_peer_queue_msg(s)
  PROVE  CacheInv' /\ \A p \in Peer : ByPolicy(nc[p], log'[p], Pending(nc'[p]))
<1> DEFINE m == msg[s]
           p == Dest[m]
<1>1. Sending(s)
  BY DEF nc_peer_queue_msg, Sending
<1>2. m \in Fit(p) /\ m \notin ToSet(log[p]) \cup ToSet(Pending(nc[p]))
  BY <1>1, SenderDone DEF Own
<1>3. m \in Message /\ p \in Peer
  BY <1>1, SenderDone
<1>4. /\ pc' \in [Sender -> {"idle", "look", "send", "add", "review"}]
      /\ UNCHANGED <<msg, waiting, order>>
      /\ \A t \in Sender : Sending(t)' => Sending(t) /\ msg[t] \notin {m}
  <2>1. pc' = [pc EXCEPT ![s] = "review"] /\ UNCHANGED <<msg, waiting, order>>
    BY DEF nc_peer_queue_msg, Goto
  <2> QED BY <1>1, <2>1, SenderDone
<1>6. nc[p] # NoEntry /\ RingOK(nc[p]) /\ Sound(Fit(p), log[p], Pending(nc[p]))
  BY <1>3 DEF nc_peer_queue_msg, CacheInv, Rings, Flows
<1>7. PICK out \in nc_peer_process_queue(nc[p]) :
        \/ /\ out.res = "SUCCESS"
           /\ \E r \in {"SUCCESS"} \cup (SendResults \ {"UNREACHABLE"}) :
                Give(p, IF r = "SUCCESS" THEN Append(out.sent, m) ELSE out.sent)
           /\ SetEntry(p, out, NoEntry)
        \/ /\ Give(p, out.sent)
           /\ Queue(p, out, m)
  BY DEF nc_peer_queue_msg
<1> DEFINE q == Pending(nc[p])
           e == out.entry
           rest == Pending(e)
           now == log[p] \o out.sent
           Rel == Released(nc[p], out)
<1>8. /\ RingOK(e) /\ out.sent \in Seq(Message)
      /\ Sound(Fit(p), now, rest)
      /\ ToSet(now) \cup ToSet(rest) \subseteq ToSet(log[p]) \cup ToSet(q)
      /\ ToSet(rest) = ToSet(q) \ Rel /\ Rel \subseteq ToSet(q)
      /\ out.res = "SUCCESS" => rest = <<>>
      /\ \/ /\ ToSet(q) \subseteq ToSet(now) \cup ToSet(rest)
            /\ Len(rest) = Capacity => q = rest
         \/ /\ rest = <<>> /\ ~ e.queued /\ nc[p].timeout >= TimeoutMax
            /\ ToSet(q) \cap ToSet(now) = {}
  BY <1>1, <1>6, ProcessAt
<1>9. m \notin ToSet(now) \cup ToSet(rest)
  BY <1>2, <1>8
<1>10. log[p] \in Seq(Message) /\ ToSet(<<>>) = {} /\ Pending(NoEntry) = <<>>
  BY <1>3 DEF CacheInv, Types, ToSet, Pending
<1>11. \A r \in Peer : nc'[r] = nc[r] => ByPolicy(nc[r], log'[r], Pending(nc'[r]))
  BY DEF ByPolicy
<1>12. m \notin ToSet(q)
  BY <1>2
<1>13. CacheInv
  OBVIOUS
<1> HIDE DEF q, rest, now, Rel, m, p
<1>14. CASE /\ out.res = "SUCCESS"
            /\ \E r \in {"SUCCESS"} \cup (SendResults \ {"UNREACHABLE"}) :
                 Give(p, IF r = "SUCCESS" THEN Append(out.sent, m) ELSE out.sent)
            /\ SetEntry(p, out, NoEntry)
  <2>1. rest = <<>>
    BY <1>8, <1>14
  <2>2. PICK sent : /\ sent \in {now, Append(now, m)}
                    /\ log' = [log EXCEPT ![p] = sent]
    <3>1. log[p] \o Append(out.sent, m) = Append(now, m)
      BY <1>3, <1>8, <1>10, AppendAfter DEF now
    <3> QED BY <1>14, <3>1 DEF Give, now
  <2>3. /\ Sound(Fit(p), sent, <<>>)
        /\ ToSet(now) \subseteq ToSet(sent) /\ ToSet(sent) \subseteq ToSet(now) \cup {m}
    <3>1. Sound(Fit(p), Append(now, m), <<>>) /\ ToSet(Append(now, m)) = ToSet(now) \cup {m}
      <4>1. now \in Seq(Message)
        BY <1>8 DEF Sound
      <4> QED BY <1>2, <1>3, <1>8, <1>9, <2>1, <4>1, OwnAdded, ElementsAppend
    <3> QED BY <1>8, <2>1, <2>2, <3>1
  <2>4. nc' = [nc EXCEPT ![p] = NoEntry] /\ held' = held \ Rel /\ stray' = stray \cup {}
    BY <1>14 DEF SetEntry, Rel
  <2>5. /\ order' \in Seq(Message) /\ Rings' /\ Flows'
        /\ nc' \in [Peer -> Entry \cup {NoEntry}] /\ log' \in [Peer -> Seq(Message)]
        /\ stray' \subseteq ToSet(order')
        /\ nc'[p] = NoEntry /\ log'[p] = sent
        /\ \A r \in Peer \ {p} : nc'[r] = nc[r] /\ log'[r] = log[r]
    <3>1. Fit(p) \ {} = Fit(p) /\ {} \subseteq Fit(p)
      OBVIOUS
    <3> QED BY <1>3, <1>4, <1>10, <1>13, <2>2, <2>3, <2>4, <3>1, PeerChanged
  <2>6. HeldWhileNeeded'
    <3> DEFINE Z == {}
    <3>1. /\ ToSet(Pending(nc'[p])) \cup Z = (ToSet(Pending(nc[p])) \ Rel) \cup Z
          /\ held' = (held \ Rel) \cup Z /\ stray' = stray \cup Z
          /\ Rel \subseteq ToSet(Pending(nc[p])) /\ \A r \in Peer \ {p} : nc'[r] = nc[r]
      BY <1>8, <1>10, <2>1, <2>4, <2>5 DEF q
    <3> HIDE DEF Z
    <3> QED BY <1>3, <1>13, <3>1, HeldAt
  <2>7. ByPolicy(nc[p], log'[p], Pending(nc'[p]))
    <3>1. Pending(nc'[p]) = <<>> /\ log'[p] = sent
      BY <1>10, <2>5
    <3> QED BY <1>8, <1>10, <1>12, <2>1, <2>3, <3>1 DEF ByPolicy, q
  <2>8. Senders'
    <3>1. ASSUME NEW r \in Peer
          PROVE  ToSet(log'[r]) \cup ToSet(Pending(nc'[r]))
                   \subseteq ToSet(log[r]) \cup ToSet(Pending(nc[r])) \cup {m}
      BY <1>8, <1>10, <2>3, <2>5 DEF q
    <3>2. stray' \subseteq stray \cup {m}
      BY <2>4
    <3> QED BY <1>4, <1>13, <3>1, <3>2, SendersKept
  <2> QED BY <1>4, <1>11, <1>13, <2>5, <2>6, <2>7, <2>8 DEF CacheInv, Types
<1>15. CASE Give(p, out.sent) /\ Queue(p, out, m)
  <2> DEFINE f == Enqueue(e, m)
             Z == IF Full(e) THEN {m} ELSE {}
             Over == IF Full(e) THEN {e.rq[e.rq_head]} ELSE {}
             In == IF e.queued THEN {m} ELSE {}
             Out == Rel \cup Over
  <2>1. /\ log' = [log EXCEPT ![p] = now] /\ nc' = [nc EXCEPT ![p] = f]
        /\ held' = ((held \ Rel) \ Over) \cup In /\ stray' = stray \cup Z
    BY <1>15 DEF Give, Queue, now, Rel
  <2>2. /\ RingOK(f) /\ Sound(Fit(p), now, Pending(f))
        /\ ~ e.queued => rest = <<>> /\ Pending(f) = rest
        /\ e.queued /\ ~ Full(e) => ToSet(Pending(f)) = ToSet(rest) \cup {m}
        /\ Full(e) => /\ rest # <<>> /\ Len(rest) = Capacity
                      /\ Head(rest) \in ToSet(rest) /\ Head(rest) \notin ToSet(now)
                      /\ e.rq[e.rq_head] = Head(rest)
                      /\ ToSet(Pending(f)) = ToSet(rest) \ {Head(rest)}
    <3>1. /\ Sound(Fit(p), now, Pending(e))
          /\ m \notin ToSet(now) \cup ToSet(Pending(e))
      BY <1>8, <1>9 DEF rest
    <3> HIDE DEF e
    <3> QED BY <1>1, <1>2, <1>3, <1>8, <3>1, QueueAt DEF rest
  <2>3. Full(e) => e.queued
    BY DEF Full
  <2> HIDE DEF e, f
  <2>4. /\ order' \in Seq(Message) /\ Rings' /\ Flows'
        /\ nc' \in [Peer -> Entry \cup {NoEntry}] /\ log' \in [Peer -> Seq(Message)]
        /\ stray' \subseteq ToSet(order')
        /\ nc'[p] = f /\ log'[p] = now
        /\ \A r \in Peer \ {p} : nc'[r] = nc[r] /\ log'[r] = log[r]
    <3>1. Sound(Fit(p) \ Z, now, Pending(f))
      <4>1. m \notin ToSet(now) \cup ToSet(Pending(f)) \/ Z = {}
        BY <1>9, <2>2, <2>3
      <4> QED BY <2>2, <4>1 DEF Sound
    <3>2. Z \subseteq Fit(p)
      BY <1>2
    <3> HIDE DEF Z
    <3> QED BY <1>3, <1>4, <1>13, <2>1, <2>2, <3>1, <3>2, PeerChanged
  <2>5. HeldWhileNeeded'
    <3>1. ToSet(Pending(f)) \cup Z = (ToSet(q) \ Out) \cup In
      BY <1>8, <2>2, <2>3
    <3>2. Out \subseteq ToSet(q)
      BY <1>8, <2>2
    <3>3. held' = (held \ Out) \cup In
      BY <2>1
    <3> HIDE DEF Z, Out, In
    <3>4. /\ ToSet(Pending(nc'[p])) \cup Z = (ToSet(Pending(nc[p])) \ Out) \cup In
          /\ Out \subseteq ToSet(Pending(nc[p])) /\ stray' = stray \cup Z
          /\ \A r \in Peer \ {p} : nc'[r] = nc[r]
      BY <2>1, <2>4, <3>1, <3>2 DEF q
    <3> QED BY <1>3, <1>13, <3>3, <3>4, HeldAt
  <2>6. ByPolicy(nc[p], now, Pending(f))
    <3>1. CASE ~ Full(e)
      <4>1. ToSet(rest) \subseteq ToSet(Pending(f))
        BY <2>2, <3>1
      <4>2. rest = <<>> /\ ~ e.queued => Pending(f) = <<>>
        BY <2>2
      <4> QED BY <1>8, <1>10, <4>1, <4>2 DEF ByPolicy, q, e
    <3>2. CASE Full(e)
      <4>1. q = rest
        BY <1>8, <2>2, <3>2
      <4>2. ToSet(q) \ (ToSet(Pending(f)) \cup ToSet(now)) = {Head(q)} /\ Len(q) = Capacity
        BY <2>2, <3>2, <4>1
      <4> QED BY <4>2 DEF ByPolicy, q
    <3> QED BY <3>1, <3>2
  <2>7. Senders'
    <3>1. ToSet(Pending(f)) \subseteq ToSet(rest) \cup {m}
      BY <2>2, <2>3
    <3>2. ASSUME NEW r \in Peer
          PROVE  ToSet(log'[r]) \cup ToSet(Pending(nc'[r]))
                   \subseteq ToSet(log[r]) \cup ToSet(Pending(nc[r])) \cup {m}
      BY <1>8, <2>4, <3>1 DEF q
    <3>3. stray' \subseteq stray \cup {m}
      BY <2>1
    <3> QED BY <1>4, <1>13, <3>2, <3>3, SendersKept
  <2> QED BY <1>4, <1>11, <1>13, <2>4, <2>5, <2>6, <2>7 DEF CacheInv, Types
<1> QED BY <1>7, <1>14, <1>15

Allowed ==
  \A p \in Peer : \/ ByPolicy(nc[p], log'[p], Pending(nc'[p]))
                 \/ \E s \in Sender : nc_add_peer(s) /\ Dest[msg[s]] = p

\* Steps that leave the messages where they are.
LEMMA QuietStep ==
  ASSUME CacheInv, UNCHANGED <<nc, held, stray, order, log>>
  PROVE  /\ order' \in Seq(Message) /\ Rings' /\ Flows' /\ HeldWhileNeeded' /\ Allowed
         /\ \A p : Fit(p)' = Fit(p)
<1>1. \A p : Fit(p)' = Fit(p)
  BY DEF Fit
<1>2. order' \in Seq(Message) /\ Rings' /\ HeldWhileNeeded'
  BY DEF CacheInv, Types, Rings, HeldWhileNeeded
<1>3. Flows'
  BY <1>1 DEF CacheInv, Flows, Sound
<1>4. Allowed
  BY DEF Allowed, ByPolicy
<1> QED BY <1>1, <1>2, <1>3, <1>4

LEMMA SendExStep ==
  ASSUME CacheInv, NEW m \in Message, jxta_endpoint_service_send_ex(m) \/ CountTask(m)
  PROVE  CacheInv' /\ Allowed
<1>1. UNCHANGED <<nc, held, stray, order, log>> /\ UNCHANGED <<pc, msg>>
  BY DEF jxta_endpoint_service_send_ex, CountTask
<1>2. waiting' \subseteq Async /\ waiting' \cap ToSet(order') = {}
  BY <1>1 DEF jxta_endpoint_service_send_ex, CountTask, CacheInv, Types
<1>3. Types'
  BY <1>1, <1>2 DEF CacheInv, Types
<1>4. Rings' /\ Flows' /\ HeldWhileNeeded' /\ Allowed /\ \A p : Fit(p)' = Fit(p)
  BY <1>1, QuietStep
<1>5. Senders'
  BY <1>1, <1>4 DEF CacheInv, Senders, Own, Sending
<1> QED BY <1>3, <1>4, <1>5 DEF CacheInv

LEMMA PassingStep ==
  ASSUME CacheInv, NEW s \in Sender, Discard(s) \/ LookUp(s) \/ NoReview(s)
  PROVE  CacheInv' /\ Allowed
<1>1. UNCHANGED <<nc, held, stray, order, log>> /\ UNCHANGED <<msg, waiting>>
  BY DEF Discard, LookUp, NoReview
<1>2. Types'
  BY <1>1 DEF Discard, LookUp, NoReview, Goto, CacheInv, Types
<1>3. Rings' /\ Flows' /\ HeldWhileNeeded' /\ Allowed /\ \A p : Fit(p)' = Fit(p)
  BY <1>1, QuietStep
<1>4. \A t \in Sender : Sending(t)' => Sending(t)
  BY DEF Discard, LookUp, NoReview, Goto, CacheInv, Types, Sending
<1>5. Senders'
  BY <1>1, <1>3, <1>4 DEF CacheInv, Senders, Own
<1> QED BY <1>2, <1>3, <1>5 DEF CacheInv

LEMMA BeginStep ==
  ASSUME CacheInv, NEW s \in Sender, NEW m \in Message, BeginMessage(s, m)
  PROVE  CacheInv' /\ Allowed
<1>1. /\ UNCHANGED <<nc, held, stray, log>> /\ order' = Append(order, m)
      /\ msg' = [msg EXCEPT ![s] = m] /\ pc' = [pc EXCEPT ![s] = "look"]
      /\ m \notin ToSet(order) /\ waiting' \subseteq waiting \ {m}
  BY DEF BeginMessage, CacheInv, Types
<1>2. order' \in Seq(Message) /\ ToSet(order') = ToSet(order) \cup {m}
  BY <1>1, ElementsAppend DEF CacheInv, Types
<1>3. Types'
  BY <1>1, <1>2 DEF CacheInv, Types
<1>4. Rings' /\ HeldWhileNeeded' /\ Allowed
  BY <1>1 DEF CacheInv, Rings, HeldWhileNeeded, Allowed, ByPolicy
<1>5. ASSUME NEW p \in Peer
      PROVE  /\ Sound(Fit(p), log[p], Pending(nc[p]))' /\ Fit(p) \subseteq Fit(p)'
             /\ ToSet(log[p]) \cup ToSet(Pending(nc[p])) \subseteq ToSet(order)
  <2>1. Sound(Fit(p), log[p], Pending(nc[p]))
    BY DEF CacheInv, Flows
  <2>2. Fit(p) \subseteq Fit(p)' /\ Fit(p) \subseteq ToSet(order)
    BY <1>1, <1>2 DEF Fit
  <2> QED BY <1>1, <2>1, <2>2 DEF Sound
<1>6. Senders'
  <2>1. /\ msg'[s] = m /\ Sending(s)'
        /\ \A t \in Sender \ {s} : msg'[t] = msg[t] /\ (Sending(t)' <=> Sending(t))
    BY <1>1 DEF CacheInv, Types, Sending
  <2>2. ASSUME NEW t \in Sender \ {s}, Sending(t)
        PROVE  Own(t)' /\ msg[t] # m
    <3>1. Own(t) /\ Dest[msg[t]] \in Peer
      BY <2>2, SenderDone
    <3>2. Fit(Dest[msg[t]]) \subseteq Fit(Dest[msg[t]])' /\ msg[t] \in ToSet(order)
      BY <1>1, <1>2, <2>1, <3>1 DEF Own, Fit
    <3> QED BY <1>1, <2>1, <3>1, <3>2 DEF Own
  <2>3. Own(s)'
    <3>1. Dest[m] \in Peer
      BY CacheAssumption
    <3>2. m \in Fit(Dest[m])'
      BY <1>1, <1>2 DEF Fit, CacheInv, Types
    <3> QED BY <1>1, <1>5, <2>1, <3>1, <3>2 DEF Own
  <2> SUFFICES ASSUME NEW t \in Sender, Sending(t)'
               PROVE  (Own(t) /\ \A u \in Sender \ {t} : Sending(u) => msg[u] # msg[t])'
    BY DEF Senders
  <2>4. CASE t = s
    BY <2>1, <2>2, <2>3, <2>4
  <2>5. CASE t # s
    <3>1. \A u \in Sender \ {t, s} : Sending(u)' => msg'[u] # msg'[t]
      BY <2>1, <2>5 DEF CacheInv, Senders
    <3> QED BY <2>1, <2>2, <2>5, <3>1
  <2> QED BY <2>4, <2>5
<1>7. Flows'
  BY <1>5 DEF Flows
<1> QED BY <1>3, <1>4, <1>6, <1>7 DEF CacheInv

LEMMA SendStep ==
  ASSUME CacheInv, NEW s \in Sender, send_message(s)
  PROVE  CacheInv' /\ Allowed
<1> DEFINE m == msg[s]
           p == Dest[m]
<1>1. /\ pc[s] = "send" /\ UNCHANGED <<nc, held, stray, msg, waiting, order>>
      /\ \/ log' = [log EXCEPT ![p] = log[p] \o <<m>>] /\ Goto(s, "review")
         \/ UNCHANGED log /\ Goto(s, "review")
         \/ UNCHANGED log /\ Goto(s, "add")
  BY DEF send_message, Give
<1>2. Sending(s)
  BY <1>1 DEF Sending
<1>3. m \in Fit(p) /\ m \notin ToSet(log[p]) \cup ToSet(Pending(nc[p]))
  BY <1>2, SenderDone DEF Own
<1>4. m \in Message /\ p \in Peer
  BY <1>2, SenderDone
<1>5. pc' \in [Sender -> {"idle", "look", "send", "add", "review"}]
  BY <1>1 DEF Goto, CacheInv, Types
<1>6. CASE log' = [log EXCEPT ![p] = log[p] \o <<m>>] /\ Goto(s, "review")
  <2>1. \A t \in Sender : Sending(t)' => Sending(t) /\ msg[t] \notin {m}
    BY <1>2, <1>6, SenderDone DEF Goto
  <2> DEFINE q == Pending(nc[p])
             sent == Append(log[p], m)
  <2>2. /\ sent \in Seq(Message) /\ log[p] \o <<m>> = sent
        /\ ToSet(sent) = ToSet(log[p]) \cup {m}
    <3>1. log[p] \in Seq(Message)
      BY <1>4 DEF CacheInv, Types
    <3> QED BY <1>4, <3>1, AppendIsConcat, ElementsAppend
  <2>3. Sound(Fit(p), sent, q)
    <3>1. Sound(Fit(p), log[p], q)
      BY <1>4 DEF CacheInv, Flows
    <3> HIDE DEF q, m, p
    <3> QED BY <1>3, <1>4, <3>1, OwnAdded DEF q
  <2> HIDE DEF m, p, sent
  <2>4. log' = [log EXCEPT ![p] = sent]
    BY <1>6, <2>2
  <2>5. /\ log'[p] = sent /\ \A r \in Peer \ {p} : log'[r] = log[r]
        /\ log' \in [Peer -> Seq(Message)]
    BY <1>4, <2>2, <2>4 DEF CacheInv, Types
  <2>6. Flows'
    <3> SUFFICES ASSUME NEW r \in Peer PROVE Sound(Fit(r), log[r], Pending(nc[r]))'
      BY DEF Flows
    <3>1. Fit(r)' = Fit(r) /\ nc' = nc
      BY <1>1 DEF Fit
    <3>2. r # p => Sound(Fit(r), log[r], Pending(nc[r]))
      BY DEF CacheInv, Flows
    <3> QED BY <2>3, <2>5, <3>1, <3>2 DEF Sound
  <2>7. Senders'
    <3>1. ASSUME NEW r \in Peer
          PROVE  ToSet(log'[r]) \cup ToSet(Pending(nc'[r]))
                   \subseteq ToSet(log[r]) \cup ToSet(Pending(nc[r])) \cup {m}
      BY <1>1, <2>2, <2>5
    <3> QED BY <1>1, <2>1, <3>1, SendersKept
  <2>8. Rings' /\ HeldWhileNeeded' /\ Allowed
    <3>1. \A r \in Peer : ByPolicy(nc[r], log'[r], Pending(nc'[r]))
      BY <1>1 DEF ByPolicy
    <3> QED BY <1>1, <3>1 DEF CacheInv, Rings, HeldWhileNeeded, Allowed
  <2> QED BY <1>1, <1>5, <2>5, <2>6, <2>7, <2>8 DEF CacheInv, Types
<1>7. CASE UNCHANGED log /\ (Goto(s, "review") \/ Goto(s, "add"))
  <2>1. Rings' /\ Flows' /\ HeldWhileNeeded' /\ Allowed /\ \A r : Fit(r)' = Fit(r)
    BY <1>1, <1>7, QuietStep
  <2>2. \A t \in Sender : Sending(t)' => Sending(t)
    BY <1>1, <1>7 DEF Goto, CacheInv, Types, Sending
  <2>3. Senders'
    BY <1>1, <1>7, <2>1, <2>2 DEF CacheInv, Senders, Own
  <2> QED BY <1>1, <1>5, <1>7, <2>1, <2>3 DEF CacheInv, Types
<1> QED BY <1>1, <1>6, <1>7

LEMMA AddStep ==
  ASSUME CacheInv, NEW s \in Sender, nc_add_peer(s)
  PROVE  CacheInv' /\ Allowed
<1> DEFINE m == msg[s]
           p == Dest[m]
           f == NewEntry(m)
           In == IF Capacity > 0 THEN {m} ELSE {}
           Z == {}
<1>1. /\ pc[s] = "add" /\ UNCHANGED <<stray, msg, waiting, order, log>>
      /\ nc' = [nc EXCEPT ![p] = f] /\ Goto(s, "review")
      /\ held' = (held \ Z) \cup In
  BY DEF nc_add_peer
<1>2. Sending(s)
  BY <1>1 DEF Sending
<1>3. m \in Fit(p) /\ m \notin ToSet(log[p]) \cup ToSet(Pending(nc[p]))
  BY <1>2, SenderDone DEF Own
<1>4. m \in Message /\ p \in Peer
  BY <1>2, SenderDone
<1>5. /\ pc' \in [Sender -> {"idle", "look", "send", "add", "review"}]
      /\ \A t \in Sender : Sending(t)' => Sending(t) /\ msg[t] \notin {m}
  BY <1>1, <1>2, SenderDone DEF Goto
<1>6. Allowed
  <2> SUFFICES ASSUME NEW r \in Peer
               PROVE  \/ ByPolicy(nc[r], log'[r], Pending(nc'[r]))
                      \/ \E t \in Sender : nc_add_peer(t) /\ Dest[msg[t]] = r
    BY DEF Allowed
  <2>1. CASE r = p
    BY <2>1
  <2>2. CASE r # p
    <3>1. nc'[r] = nc[r] /\ log' = log
      BY <1>1, <2>2 DEF CacheInv, Types
    <3> QED BY <3>1 DEF ByPolicy
  <2> QED BY <2>1, <2>2
<1>7. ToSet(<<>>) = {} /\ Append(<<>>, m) = <<m>>
  BY DEF ToSet
<1>8. Sound(Fit(p), log[p], <<>>)
  <2>1. Sound(Fit(p), log[p], Pending(nc[p]))
    BY <1>4 DEF CacheInv, Flows
  <2> HIDE DEF m, p
  <2> QED BY <2>1, SoundParts
<1>9. RingOK(f) /\ Pending(f) = IF Capacity > 0 THEN <<m>> ELSE <<>>
  BY <1>4, NewEntryRing
<1>10. Sound(Fit(p), log[p], <<m>>) /\ ToSet(<<m>>) = {m}
  <2> DEFINE q == <<>>
  <2>2. Sound(Fit(p), log[p], q) /\ m \notin ToSet(log[p]) \cup ToSet(q)
    BY <1>3, <1>7, <1>8
  <2> HIDE DEF q
  <2>1. Sound(Fit(p), log[p], Append(q, m)) /\ ToSet(Append(q, m)) = ToSet(q) \cup {m}
    BY <1>3, <1>4, <2>2, OwnAdded
  <2> USE DEF q
  <2> QED BY <1>7, <2>1
<1>11. Sound(Fit(p), log[p], Pending(f)) /\ ToSet(Pending(f)) = In
  BY <1>7, <1>8, <1>9, <1>10
<1>12. log' = [log EXCEPT ![p] = log[p]]
  BY <1>1 DEF CacheInv, Types
<1>13. In \subseteq {m}
  OBVIOUS
<1> HIDE DEF m, p, f, In
<1>14. Z \subseteq Fit(p) /\ Fit(p) \ Z = Fit(p) /\ stray' = stray \cup Z
       /\ Z \subseteq ToSet(Pending(nc[p])) /\ In \cup Z = In
  BY <1>1
<1> HIDE DEF Z
<1>15. /\ Rings' /\ Flows'
       /\ nc' \in [Peer -> Entry \cup {NoEntry}] /\ log' \in [Peer -> Seq(Message)]
       /\ nc'[p] = f /\ log'[p] = log[p] /\ \A r \in Peer \ {p} : nc'[r] = nc[r]
  BY <1>1, <1>4, <1>9, <1>11, <1>12, <1>14, PeerChanged
<1>16. HeldWhileNeeded'
  <2> DEFINE Out == {}
  <2>1. ToSet(Pending(nc'[p])) \cup Z \subseteq (ToSet(Pending(nc[p])) \ Out) \cup In
    BY <1>11, <1>15 DEF Z
  <2>2. Out \subseteq ToSet(Pending(nc[p])) /\ held' = (held \ Out) \cup In
    BY <1>1 DEF Z
  <2> HIDE DEF Out
  <2> QED BY <1>4, <1>14, <1>15, <2>1, <2>2, HeldAt
<1>17. Senders'
  <2>1. ASSUME NEW r \in Peer
        PROVE  ToSet(log'[r]) \cup ToSet(Pending(nc'[r]))
                 \subseteq ToSet(log[r]) \cup ToSet(Pending(nc[r])) \cup {m}
    BY <1>1, <1>11, <1>13, <1>15
  <2>2. stray' \subseteq stray \cup {m}
    BY <1>1
  <2> QED BY <1>1, <1>5, <2>1, <2>2, SendersKept
<1> QED BY <1>1, <1>5, <1>6, <1>15, <1>16, <1>17 DEF CacheInv, Types

LEMMA CheckStep ==
  ASSUME CacheInv, NEW p \in Peer, check_nc_entry(p)
  PROVE  CacheInv' /\ Allowed
<1> DEFINE e == [nc[p] EXCEPT !.expired = TRUE]
           q == Pending(nc[p])
<1>1. nc[p] # NoEntry /\ RingOK(nc[p]) /\ Sound(Fit(p), log[p], q)
  BY DEF check_nc_entry, CacheInv, Rings, Flows
<1>2. /\ RingOK(e) /\ Pending(e) = q /\ (e.queued <=> nc[p].queued)
      /\ e.timeout = nc[p].timeout
  BY <1>1, ExpiredRing
<1>3. PICK out \in nc_peer_process_queue(e) :
        /\ SetEntry(p, out, IF out.res = "SUCCESS" THEN NoEntry ELSE out.entry)
        /\ Give(p, out.sent)
  BY DEF check_nc_entry
<1> HIDE DEF e
<1> DEFINE rest == Pending(out.entry)
           now == log[p] \o out.sent
           Rel == Released(nc[p], out)
           f == IF out.res = "SUCCESS" THEN NoEntry ELSE out.entry
           Z == {}
<1>4. Released(e, out) = Rel
  BY <1>2 DEF Released
<1>5. /\ RingOK(out.entry) /\ Sound(Fit(p), now, rest)
      /\ ToSet(now) \cup ToSet(rest) \subseteq ToSet(log[p]) \cup ToSet(q)
      /\ ToSet(rest) = ToSet(q) \ Rel /\ Rel \subseteq ToSet(q)
      /\ out.res = "SUCCESS" => rest = <<>>
      /\ \/ ToSet(q) \subseteq ToSet(now) \cup ToSet(rest)
         \/ /\ rest = <<>> /\ nc[p].timeout >= TimeoutMax
            /\ ToSet(q) \cap ToSet(now) = {}
  <2> HIDE DEF q
  <2>1. Sound(Fit(p), log[p], Pending(e))
    BY <1>1, <1>2
  <2> QED BY <1>1, <1>2, <1>4, <2>1, ProcessAt
<1>6. Pending(f) = rest /\ (f = NoEntry \/ RingOK(f))
  BY <1>5 DEF Pending
<1>7. /\ nc' = [nc EXCEPT ![p] = f] /\ log' = [log EXCEPT ![p] = now]
      /\ held' = (held \ Rel) \cup Z /\ stray' = stray \cup Z /\ Z \subseteq Fit(p)
      /\ Sound(Fit(p) \ Z, now, Pending(f))
      /\ UNCHANGED <<pc, msg, waiting, order, stray>>
  <2>1. UNCHANGED <<pc, msg, waiting, order>>
    BY DEF check_nc_entry
  <2>2. Fit(p) \ Z = Fit(p)
    OBVIOUS
  <2> QED BY <1>3, <1>5, <1>6, <2>1, <2>2 DEF SetEntry, Give
<1> HIDE DEF q, rest, now, Rel, f, Z
<1>8. /\ order' \in Seq(Message) /\ Rings' /\ Flows'
      /\ nc' \in [Peer -> Entry \cup {NoEntry}] /\ log' \in [Peer -> Seq(Message)]
      /\ stray' \subseteq ToSet(order')
      /\ nc'[p] = f /\ log'[p] = now
      /\ \A r \in Peer \ {p} : nc'[r] = nc[r] /\ log'[r] = log[r]
  BY <1>6, <1>7, PeerChanged
<1>9. HeldWhileNeeded'
  <2>1. /\ ToSet(Pending(nc'[p])) \cup Z = (ToSet(Pending(nc[p])) \ Rel) \cup Z
        /\ Rel \subseteq ToSet(Pending(nc[p]))
    BY <1>5, <1>6, <1>8 DEF q
  <2> QED BY <1>7, <1>8, <2>1, HeldAt
<1>10. Senders'
  <2> DEFINE New == {}
  <2>1. ASSUME NEW r \in Peer
        PROVE  ToSet(log'[r]) \cup ToSet(Pending(nc'[r]))
                 \subseteq ToSet(log[r]) \cup ToSet(Pending(nc[r])) \cup New
    BY <1>5, <1>6, <1>8 DEF q
  <2>2. \A s \in Sender : Sending(s)' => Sending(s) /\ msg[s] \notin New
    BY <1>7 DEF Sending
  <2>3. stray' \subseteq stray \cup New
    BY <1>7
  <2> HIDE DEF New
  <2> QED BY <1>7, <2>1, <2>2, <2>3, SendersKept
<1>11. Allowed
  <2> SUFFICES ASSUME NEW r \in Peer PROVE ByPolicy(nc[r], log'[r], Pending(nc'[r]))
    BY DEF Allowed
  <2>1. CASE r = p
    <3>1. ToSet(<<>>) = {}
      BY DEF ToSet
    <3> QED BY <1>5, <1>6, <1>8, <2>1, <3>1 DEF ByPolicy, q
  <2>2. CASE r # p
    BY <1>8, <2>2 DEF ByPolicy
  <2> QED BY <2>1, <2>2
<1> QED BY <1>7, <1>8, <1>9, <1>10, <1>11 DEF CacheInv, Types

LEMMA TimeOutStep ==
  ASSUME CacheInv, NEW p \in Peer, TimeOut(p)
  PROVE  CacheInv' /\ Allowed
<1> DEFINE e == [nc[p] EXCEPT !.expired = TRUE]
           Z == {}
<1>1. nc[p] # NoEntry /\ RingOK(nc[p]) /\ Sound(Fit(p), log[p], Pending(nc[p]))
  BY DEF TimeOut, CacheInv, Rings, Flows
<1>2. RingOK(e) /\ Pending(e) = Pending(nc[p])
  BY <1>1, ExpiredRing
<1>3. /\ nc' = [nc EXCEPT ![p] = e]
      /\ UNCHANGED <<held, stray, pc, msg, waiting, order, log>>
  BY DEF TimeOut
<1> HIDE DEF e
<1>4. /\ Z \subseteq Fit(p) /\ Fit(p) \ Z = Fit(p) /\ stray' = stray \cup Z
      /\ log' = [log EXCEPT ![p] = log[p]]
  BY <1>3 DEF CacheInv, Types
<1> HIDE DEF Z
<1>5. Sound(Fit(p) \ Z, log[p], Pending(e))
  BY <1>1, <1>2, <1>4
<1>6. /\ order' \in Seq(Message) /\ Rings' /\ Flows'
      /\ nc' \in [Peer -> Entry \cup {NoEntry}] /\ log' \in [Peer -> Seq(Message)]
      /\ stray' \subseteq ToSet(order')
      /\ nc'[p] = e /\ \A r \in Peer \ {p} : nc'[r] = nc[r]
  BY <1>2, <1>3, <1>4, <1>5, PeerChanged
<1>7. \A r \in Peer : Pending(nc'[r]) = Pending(nc[r])
  BY <1>1, <1>2, <1>6
<1>8. HeldWhileNeeded'
  BY <1>3, <1>7 DEF CacheInv, HeldWhileNeeded
<1>9. Senders'
  <2> DEFINE New == {}
  <2>1. /\ \A r \in Peer : ToSet(log'[r]) \cup ToSet(Pending(nc'[r]))
                           \subseteq ToSet(log[r]) \cup ToSet(Pending(nc[r])) \cup New
        /\ \A s \in Sender : Sending(s)' => Sending(s) /\ msg[s] \notin New
        /\ stray' \subseteq stray \cup New
    BY <1>3, <1>7 DEF Sending
  <2> HIDE DEF New
  <2> QED BY <1>3, <2>1, SendersKept
<1>10. Allowed
  BY <1>7 DEF Allowed, ByPolicy
<1> QED BY <1>3, <1>6, <1>8, <1>9, <1>10 DEF CacheInv, Types

LEMMA ReviewStep ==
  ASSUME CacheInv, NEW s \in Sender, nc_review_all(s)
  PROVE  CacheInv' /\ Allowed
<1> DEFINE known == {p \in Peer : nc[p] # NoEntry}
<1>1. PICK out \in [known -> UNION {nc_peer_process_queue(nc[p]) : p \in known}] :
        /\ \A p \in known : out[p] \in nc_peer_process_queue(nc[p])
        /\ nc' = [p \in Peer |-> IF p \in known THEN Reviewed(nc[p], out[p]) ELSE NoEntry]
        /\ held' = held \ UNION {Released(nc[p], out[p]) : p \in known}
        /\ log' = [p \in Peer |-> IF p \in known THEN log[p] \o out[p].sent ELSE log[p]]
  BY DEF nc_review_all
<1>2. /\ UNCHANGED <<stray, msg, waiting, order>>
      /\ pc' \in [Sender -> {"idle", "look", "send", "add", "review"}]
      /\ \A t \in Sender : Sending(t)' => Sending(t)
  BY DEF nc_review_all, Goto, CacheInv, Types, Sending
<1>3. \A p : Fit(p)' = Fit(p)
  BY <1>2 DEF Fit
<1> DEFINE Rel(p) == IF p \in known THEN Released(nc[p], out[p]) ELSE {}
<1>4. ASSUME NEW p \in Peer
      PROVE  /\ nc'[p] = NoEntry \/ RingOK(nc'[p])
             /\ Sound(Fit(p), log'[p], Pending(nc'[p]))
             /\ ToSet(Pending(nc'[p])) = ToSet(Pending(nc[p])) \ Rel(p)
             /\ Rel(p) \subseteq ToSet(Pending(nc[p]))
             /\ ToSet(log'[p]) \subseteq ToSet(log[p]) \cup ToSet(Pending(nc[p]))
             /\ ByPolicy(nc[p], log'[p], Pending(nc'[p]))
  <2>1. CASE p \notin known
    <3>1. nc[p] = NoEntry /\ nc'[p] = nc[p] /\ log'[p] = log[p]
      BY <1>1, <2>1
    <3> QED BY <2>1, <3>1 DEF CacheInv, Flows, ByPolicy
  <2>2. CASE p \in known
    <3> DEFINE o == out[p]
               q == Pending(nc[p])
               rest == Pending(o.entry)
               now == log[p] \o o.sent
    <3>1. /\ nc'[p] = Reviewed(nc[p], o) /\ log'[p] = now /\ o \in nc_peer_process_queue(nc[p])
          /\ Rel(p) = Released(nc[p], o)
      BY <1>1, <2>2
    <3>2. RingOK(nc[p]) /\ Sound(Fit(p), log[p], Pending(nc[p]))
      BY <2>2 DEF CacheInv, Rings, Flows
    <3> HIDE DEF o
    <3>3. /\ RingOK(o.entry) /\ Sound(Fit(p), now, rest)
          /\ ToSet(rest) = ToSet(q) \ Released(nc[p], o) /\ Released(nc[p], o) \subseteq ToSet(q)
          /\ ToSet(now) \cup ToSet(rest) \subseteq ToSet(log[p]) \cup ToSet(q)
          /\ o.res = "SUCCESS" => rest = <<>>
          /\ \/ ToSet(q) \subseteq ToSet(now) \cup ToSet(rest)
             \/ /\ rest = <<>> /\ nc[p].timeout >= TimeoutMax
                /\ ToSet(q) \cap ToSet(now) = {}
      BY <1>3, <3>1, <3>2, ProcessAt
    <3> HIDE DEF rest, now, q, Rel, known
    <3>4. (nc'[p] = NoEntry \/ RingOK(nc'[p])) /\ Pending(nc'[p]) = rest
      BY <3>1, <3>3 DEF Reviewed, Pending, rest
    <3>5. ToSet(<<>>) = {}
      BY DEF ToSet
    <3>6. ByPolicy(nc[p], log'[p], Pending(nc'[p]))
      BY <3>1, <3>3, <3>4, <3>5 DEF ByPolicy, q
    <3> QED BY <3>1, <3>3, <3>4, <3>6 DEF q
  <2> QED BY <2>1, <2>2
<1>5. Rings' /\ Flows' /\ Allowed
  BY <1>3, <1>4 DEF Rings, Flows, Sound, Allowed
<1>6. Types'
  <2>1. \A p \in Peer : nc'[p] \in Entry \cup {NoEntry} /\ log'[p] \in Seq(Message)
    BY <1>4 DEF RingOK, Sound
  <2>2. nc' = [p \in Peer |-> nc'[p]] /\ log' = [p \in Peer |-> log'[p]]
    BY <1>1
  <2>3. nc' \in [Peer -> Entry \cup {NoEntry}] /\ log' \in [Peer -> Seq(Message)]
    BY <2>1, <2>2
  <2> QED BY <1>2, <2>3 DEF CacheInv, Types
<1>7. Senders'
  <2> DEFINE New == {}
  <2>1. ASSUME NEW p \in Peer
        PROVE  ToSet(log'[p]) \cup ToSet(Pending(nc'[p]))
                 \subseteq ToSet(log[p]) \cup ToSet(Pending(nc[p])) \cup New
    <3> HIDE DEF Rel, New
    <3> QED BY <1>4
  <2>2. /\ \A t \in Sender : Sending(t)' => Sending(t) /\ msg[t] \notin New
        /\ stray' \subseteq stray \cup New
    BY <1>2
  <2> HIDE DEF New
  <2> QED BY <1>2, <2>1, <2>2, SendersKept
<1>8. HeldWhileNeeded'
  <2>1. held' = held \ UNION {Rel(p) : p \in Peer}
    BY <1>1
  <2> HIDE DEF Rel, known
  <2>2. \A r \in Peer : \A x \in ToSet(Pending(nc[r])) : x \in held /\ Dest[x] = r /\ x \notin stray
    BY DEF CacheInv, HeldWhileNeeded, Flows, Sound, Fit
  <2>3. stray \subseteq held
    BY DEF CacheInv, HeldWhileNeeded
  <2>4. stray' \subseteq held'
    BY <1>2, <1>4, <2>1, <2>2, <2>3
  <2>5. ASSUME NEW r \in Peer, NEW x \in ToSet(Pending(nc'[r])) PROVE x \in held'
    <3>1. x \in ToSet(Pending(nc[r])) /\ x \notin Rel(r)
      BY <1>4, <2>5
    <3>2. \A p \in Peer : x \notin Rel(p)
      BY <1>4, <2>2, <3>1
    <3> QED BY <2>1, <2>2, <3>1, <3>2
  <2> QED BY <2>4, <2>5 DEF HeldWhileNeeded
<1> QED BY <1>5, <1>6, <1>7, <1>8 DEF CacheInv

----------------------------------------------------------------------------
LEMMA CacheInvInit == CacheInit => CacheInv
<1> SUFFICES ASSUME CacheInit PROVE CacheInv
  OBVIOUS
<1>1. /\ nc = [p \in Peer |-> NoEntry] /\ log = [p \in Peer |-> <<>>] /\ order = <<>>
      /\ held = {} /\ stray = {} /\ waiting = {}
      /\ pc = [s \in Sender |-> "idle"] /\ msg = [s \in Sender |-> NoMessage]
  BY DEF CacheInit
<1>2. /\ <<>> \in Seq(Message) /\ Len(<<>>) = 0 /\ <<>> \o <<>> = <<>> /\ ToSet(<<>>) = {}
      /\ Chain(Apart, <<>>)
  <2>1. <<>> \in Seq(Message) /\ Len(<<>>) = 0 /\ <<>> \o <<>> = <<>>
    BY ConcatEmptySeq
  <2> QED BY <2>1 DEF ToSet, Chain
<1>3. \A p \in Peer : nc[p] = NoEntry /\ Pending(nc[p]) = <<>> /\ log[p] = <<>>
  BY <1>1 DEF Pending
<1>4. Flows
  BY <1>2, <1>3 DEF Flows, Sound
<1>5. HeldWhileNeeded
  BY <1>1, <1>2, <1>3 DEF HeldWhileNeeded
<1> QED BY <1>1, <1>2, <1>3, <1>4, <1>5 DEF CacheInv, Types, Rings, Senders, Sending

LEMMA CacheStep ==
  ASSUME CacheInv, [CacheNext]_ncVars
  PROVE  CacheInv' /\ Allowed
<1>1. CASE UNCHANGED ncVars
  <2>1. UNCHANGED <<nc, held, stray, pc, msg, waiting, order, log>>
    BY <1>1 DEF ncVars
  <2>2. /\ order' \in Seq(Message) /\ Rings' /\ Flows' /\ HeldWhileNeeded' /\ Allowed
        /\ \A p : Fit(p)' = Fit(p)
    BY <2>1, QuietStep
  <2> QED BY <2>1, <2>2 DEF CacheInv, Types, Senders, Own, Sending
<1>2. ASSUME NEW m \in Message, jxta_endpoint_service_send_ex(m) \/ CountTask(m)
      PROVE  CacheInv' /\ Allowed
  BY <1>2, SendExStep
<1>3. ASSUME NEW s \in Sender, SenderStep(s)
      PROVE  CacheInv' /\ Allowed
  <2>1. CASE Discard(s) \/ LookUp(s) \/ NoReview(s)
    BY <2>1, PassingStep
  <2>2. CASE nc_peer_queue_msg(s)
    BY <2>2, QueueMsgStep DEF Allowed
  <2>3. CASE send_message(s)
    BY <2>3, SendStep
  <2>4. CASE nc_add_peer(s)
    BY <2>4, AddStep
  <2>5. CASE nc_review_all(s)
    BY <2>5, ReviewStep
  <2> QED BY <1>3, <2>1, <2>2, <2>3, <2>4, <2>5 DEF SenderStep
<1>4. ASSUME NEW s \in Sender, NEW m \in Message, BeginMessage(s, m)
      PROVE  CacheInv' /\ Allowed
  BY <1>4, BeginStep
<1>5. ASSUME NEW p \in Peer, check_nc_entry(p) PROVE CacheInv' /\ Allowed
  BY <1>5, CheckStep
<1>6. ASSUME NEW p \in Peer, TimeOut(p) PROVE CacheInv' /\ Allowed
  BY <1>6, TimeOutStep
<1> QED BY <1>1, <1>2, <1>3, <1>4, <1>5, <1>6 DEF CacheNext

LEMMA CacheInvariant == CacheSpec => []CacheInv
<1>1. CacheInv /\ [CacheNext]_ncVars => CacheInv'
  BY CacheStep
<1> QED BY <1>1, CacheInvInit, PTL DEF CacheSpec

(* The messages in the rings, and those that came to a full one, are held:
   nothing is released while a ring has it, whatever the senders, the reviews
   and the peers that connect do to one another's entries. *)
THEOREM HeldTheorem == CacheSpec => []HeldWhileNeeded
<1>1. CacheInv => HeldWhileNeeded
  BY DEF CacheInv
<1> QED BY <1>1, CacheInvariant, PTL

(* A peer is sent a message at most once, whichever of the threads sends it, by
   itself or from the ring, and however often it was tried. *)
THEOREM SentTheorem == CacheSpec => []NeverSentAgain
<1>1. ASSUME CacheInv PROVE NeverSentAgain
  <2> SUFFICES ASSUME NEW p \in Peer
               PROVE  /\ \A i, j \in DOMAIN log[p] : log[p][i] = log[p][j] => i = j
                      /\ ToSet(log[p]) \cap ToSet(Pending(nc[p])) = {}
    BY DEF NeverSentAgain
  <2>1. Sound(Fit(p), log[p], Pending(nc[p]))
    BY <1>1 DEF CacheInv, Flows
  <2>2. Chain(Apart, log[p]) /\ log[p] \in Seq(Message)
    BY <2>1, ChainParts DEF Sound
  <2>3. ASSUME NEW i \in DOMAIN log[p], NEW j \in DOMAIN log[p], log[p][i] = log[p][j]
        PROVE  i = j
    <3>1. DOMAIN log[p] = 1 .. Len(log[p]) /\ i \in Nat /\ j \in Nat
      BY <2>2
    <3>2. ~ (i < j) /\ ~ (j < i)
      BY <2>2, <2>3, <3>1, ApartStrict DEF Chain
    <3> QED BY <3>1, <3>2
  <2>4. ToSet(log[p]) \cap ToSet(Pending(nc[p])) = {}
    BY <2>1, SoundParts
  <2> QED BY <2>3, <2>4
<1> QED BY <1>1, CacheInvariant, PTL

(* A message leaves a ring unsent when the ring is dropped at the longest timeout
   or as the oldest one of a full ring, and besides only when the peer's entry is
   replaced by a thread that found none: whatever else runs at the same time. *)
THEOREM PolicyTheorem == CacheSpec => LeavesByPolicyOrReplaced
<1> DEFINE Body == \A p \in Peer :
       LET q    == Pending(nc[p])
           lost == ToSet(q) \ (ToSet(Pending(nc'[p])) \cup ToSet(log'[p]))
       IN  \/ lost = {}
           \/ lost = {Head(q)} /\ Len(q) = Capacity
           \/ lost = ToSet(q) /\ nc[p].timeout >= TimeoutMax
           \/ \E s \in Sender : nc_add_peer(s) /\ Dest[msg[s]] = p
<1>1. Allowed => Body
  BY DEF Allowed, ByPolicy
<1>2. CacheInv /\ [CacheNext]_ncVars => Body
  BY <1>1, CacheStep
<1>3. LeavesByPolicyOrReplaced <=> [][Body]_ncVars
  BY DEF LeavesByPolicyOrReplaced
<1> HIDE DEF Body
<1> QED BY <1>2, <1>3, CacheInvariant, PTL DEF CacheSpec
=============================================================================
