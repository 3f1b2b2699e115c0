---------------------------- MODULE NegativeCache ----------------------------
(***************************************************************************)
(* How the endpoint service sends messages and keeps those it cannot send, *)
(* src/src/jxta_endpoint_service.c.  A destination that could not be       *)
(* reached has an entry in me->nc with a ring of messages to transmit      *)
(* again; outgoing_message_process runs on several threads of the pool,    *)
(* and an inbound connection of the peer empties the ring.                 *)
(*                                                                         *)
(* A section of code that holds nc_wlock is one step; sending a message    *)
(* to a peer without an entry holds no lock.  Time is abstract: an entry's *)
(* timeout runs out at any moment.  Whether a send succeeds is up to the   *)
(* network, each time.                                                     *)
(***************************************************************************)
EXTENDS Integers, Sequences, FiniteSets, SequencesExt

CONSTANTS Message, Peer,
          Dest,         \* the peer each message is for
          Sender,       \* threads in outgoing_message_process
          Capacity,     \* jxta_epcfg_get_ncrq_size
          TimeoutInit,  \* jxta_epcfg_get_nc_timeout_init, in units of its choice
          TimeoutMax,   \* jxta_epcfg_get_nc_timeout_max
          RetryCount,   \* jxta_epcfg_get_ncrq_retry
          CountModulus, \* msg_task_cnt is counted modulo this: 2^32 in the code
          Async,        \* the messages sent with send_ex and sync = FALSE
          SendResults,  \* what messengers return besides JXTA_SUCCESS
          NoMessage, NoEntry

Slot == 0 .. Capacity - 1

\* Nc_entry: queued is FALSE when rq is NULL, expired when its expiration is past.
Entry == [timeout : Nat, expired : BOOLEAN, queued : BOOLEAN,
          rq : [Slot -> Message \cup {NoMessage}], rq_head : Int, rq_tail : Int]

(***************************************************************************)
(* A ring of one message is left out: nc_add_peer starts rq_tail at 1,     *)
(* which is past the end of such a ring.                                   *)
(***************************************************************************)
ASSUME CacheAssumption ==
  /\ Dest \in [Message -> Peer]
  /\ Capacity \in Nat \ {1}
  /\ TimeoutInit \in Nat \ {0} /\ TimeoutMax \in Nat \ {0}
  /\ RetryCount \in Nat /\ CountModulus \in Nat \ {0}
  /\ Async \subseteq Message
  /\ SendResults \subseteq {"UNREACHABLE", "FAILED"}
  /\ NoMessage \notin Message /\ NoEntry \notin Entry

VARIABLES nc,           \* the entry of each peer, or NoEntry
          held,         \* the messages the cache holds a reference to
          stray,        \* history: those that came to a full ring
          pc, msg,      \* where each sender is, and with which message
          waiting,      \* the tasks pushed by send_ex that no thread has begun
          uncounted,    \* those whose send_ex has not counted them yet
          msg_task_cnt,
          cnt,          \* the calls since the last review
          order,        \* history: the messages in the order their sending began
          log           \* history: for each peer, the messages its messengers took

ncVars == <<nc, held, stray, pc, msg, waiting, uncounted, msg_task_cnt, cnt, order, log>>

CacheInit ==
  /\ nc = [p \in Peer |-> NoEntry] /\ held = {} /\ stray = {}
  /\ pc = [s \in Sender |-> "idle"] /\ msg = [s \in Sender |-> NoMessage]
  /\ waiting = {} /\ uncounted = {}
  /\ msg_task_cnt = 0 /\ cnt = 0
  /\ order = <<>> /\ log = [p \in Peer |-> <<>>]
----------------------------------------------------------------------------
(***************************************************************************)
(* The ring.  head = tail stands for a full ring, tail = -1 for an empty   *)
(* one.                                                                    *)
(***************************************************************************)
Wrap(i) == IF i >= Capacity THEN i - Capacity ELSE i
NextSlot(i) == Wrap(i + 1)

Waiting(e) ==
  IF ~ e.queued \/ e.rq_tail = -1 THEN 0
  ELSE IF e.rq_tail > e.rq_head THEN e.rq_tail - e.rq_head
  ELSE e.rq_tail - e.rq_head + Capacity
Pending(e) ==
  IF e = NoEntry THEN <<>> ELSE [i \in 1 .. Waiting(e) |-> e.rq[Wrap(e.rq_head + i - 1)]]

\* nc_add_peer, the new entry.
NewEntry(m) ==
  [timeout |-> TimeoutInit, expired |-> FALSE, queued |-> Capacity > 0,
   rq |-> [i \in Slot |-> IF i = 0 THEN m ELSE NoMessage],
   rq_head |-> 0, rq_tail |-> IF Capacity > 0 THEN 1 ELSE 0]

\* Mutant: the tail is not wrapped.
EnqueueUnwrapped(e, m) ==
  IF ~ e.queued THEN e
  ELSE IF e.rq_head = e.rq_tail
  THEN [e EXCEPT !.rq[e.rq_head] = m, !.rq_head = NextSlot(e.rq_head)]
  ELSE LET tail == IF e.rq_tail = -1 THEN e.rq_head ELSE e.rq_tail
       IN  [e EXCEPT !.rq[tail] = m, !.rq_tail = tail + 1]

\* Mutant: a message that overwrites the oldest one leaves the head behind.
EnqueueKeepsHead(e, m) ==
  IF ~ e.queued THEN e
  ELSE IF e.rq_head = e.rq_tail
  THEN [e EXCEPT !.rq[e.rq_head] = m]
  ELSE LET tail == IF e.rq_tail = -1 THEN e.rq_head ELSE e.rq_tail
       IN  [e EXCEPT !.rq[tail] = m, !.rq_tail = NextSlot(tail)]

(***************************************************************************)
(* nc_peer_queue_msg, its last part.  Without a ring the message is        *)
(* dropped.  In a full ring it takes the slot of the oldest one, which is  *)
(* then before the head and behind the tail: the ring has become shorter,  *)
(* and the message is in it no more than the one it replaced.              *)
(***************************************************************************)
Enqueue(e, m) ==
  IF ~ e.queued THEN e
  ELSE IF e.rq_head = e.rq_tail
  THEN [e EXCEPT !.rq[e.rq_head] = m, !.rq_head = NextSlot(e.rq_head)]
  ELSE LET tail == IF e.rq_tail = -1 THEN e.rq_head ELSE e.rq_tail
       IN  [e EXCEPT !.rq[tail] = m, !.rq_tail = NextSlot(tail)]

\* Mutant: an unreachable peer's ring is dropped one doubling too early.
GiveUpOrDoubleEarly(e) ==
  IF 2 * e.timeout >= TimeoutMax
  THEN [e EXCEPT !.queued = FALSE, !.timeout = TimeoutMax, !.expired = FALSE]
  ELSE [e EXCEPT !.timeout = 2 * @, !.expired = FALSE]

\* nc_peer_process_queue, the peer is still unreachable.
GiveUpOrDouble(e) ==
  IF e.timeout >= TimeoutMax
  THEN [e EXCEPT !.queued = FALSE, !.timeout = TimeoutMax, !.expired = FALSE]
  ELSE [e EXCEPT !.timeout = IF 2 * @ > TimeoutMax THEN TimeoutMax ELSE 2 * @,
                 !.expired = FALSE]

\* Mutant: the head stays when only a part of the ring could be sent.
AfterSendingForgotten(e, k, res) ==
  IF res = "SUCCESS" THEN [e EXCEPT !.rq_head = e.rq_tail, !.rq_tail = -1]
  ELSE IF k = 0 /\ res = "UNREACHABLE" THEN GiveUpOrDouble(e) ELSE e

\* The entry once its first k messages were sent and the next failed with res.
AfterSending(e, k, res) ==
  IF res = "SUCCESS" THEN [e EXCEPT !.rq_head = e.rq_tail, !.rq_tail = -1]
  ELSE IF k = 0 /\ res = "UNREACHABLE" THEN GiveUpOrDouble(e)
  ELSE [e EXCEPT !.rq_head = Wrap(@ + k)]

(***************************************************************************)
(* nc_peer_process_queue: everything that can come of it, the entry, the   *)
(* result and the messages sent.                                           *)
(***************************************************************************)
nc_peer_process_queue(e) ==
  LET q == Pending(e)
  IN  IF ~ e.expired THEN {[entry |-> e, res |-> "UNREACHABLE", sent |-> <<>>]}
      ELSE IF q = <<>> THEN {[entry |-> e, res |-> "SUCCESS", sent |-> <<>>]}
      ELSE {[entry |-> AfterSending(e, Len(q), "SUCCESS"), res |-> "SUCCESS", sent |-> q]}
           \cup {[entry |-> AfterSending(e, k, r), res |-> r, sent |-> SubSeq(q, 1, k)] :
                   k \in 0 .. Len(q) - 1, r \in SendResults}

(***************************************************************************)
(* The reference counts.  Processing releases what was sent, and all that  *)
(* is in a ring that it drops; queueing shares the message and releases    *)
(* the one whose slot it takes.                                            *)
(***************************************************************************)
\* Mutant: nc_peer_drop_retransmit_queue frees the ring only.
ReleasedSent(e, out) == ToSet(out.sent)
Released(e, out) ==
  ToSet(out.sent) \cup (IF e.queued /\ ~ out.entry.queued THEN ToSet(Pending(e)) ELSE {})

Full(e) == e.queued /\ e.rq_head = e.rq_tail
Queue(p, out, m) ==
  LET e == out.entry
  IN  /\ nc' = [nc EXCEPT ![p] = Enqueue(e, m)]
      /\ held' = ((held \ Released(nc[p], out)) \ (IF Full(e) THEN {e.rq[e.rq_head]} ELSE {}))
                 \cup (IF e.queued THEN {m} ELSE {})
      /\ stray' = IF Full(e) THEN stray \cup {m} ELSE stray

\* nc_remove_peer, or the entry as it was left.
SetEntry(p, out, f) ==
  /\ nc' = [nc EXCEPT ![p] = f]
  /\ held' = held \ Released(nc[p], out)
  /\ UNCHANGED stray

\* The peer's messengers take these messages.
Give(p, sent) == log' = [log EXCEPT ![p] = @ \o sent]
----------------------------------------------------------------------------
(***************************************************************************)
(* jxta_endpoint_service_send_ex without sync: the task is pushed, and     *)
(* counted afterwards.                                                     *)
(***************************************************************************)
jxta_endpoint_service_send_ex(m) ==
  /\ m \in Async /\ m \notin waiting \cup uncounted \cup ToSet(order)
  /\ waiting' = waiting \cup {m} /\ uncounted' = uncounted \cup {m}
  /\ UNCHANGED <<nc, held, stray, pc, msg, msg_task_cnt, cnt, order, log>>

CountTask(m) ==
  /\ m \in uncounted
  /\ uncounted' = uncounted \ {m}
  /\ msg_task_cnt' = (msg_task_cnt + 1) % CountModulus
  /\ UNCHANGED <<nc, held, stray, pc, msg, waiting, cnt, order, log>>

\* outgoing_message_thread, or send_ex with sync, begins to send m.
BeginMessage(s, m) ==
  /\ pc[s] = "idle"
  /\ \/ /\ m \in waiting
        /\ waiting' = waiting \ {m}
        /\ msg_task_cnt' = (msg_task_cnt - 1) % CountModulus
     \/ /\ m \in Message \ (Async \cup ToSet(order))
        /\ UNCHANGED <<waiting, msg_task_cnt>>
  /\ msg' = [msg EXCEPT ![s] = m]
  /\ order' = Append(order, m)
  /\ pc' = [pc EXCEPT ![s] = "look"]
  /\ UNCHANGED <<nc, held, stray, uncounted, cnt, log>>

Goto(s, where) == pc' = [pc EXCEPT ![s] = where]

\* A message whose TTL or lifespan is over is discarded.
Discard(s) ==
  /\ pc[s] = "look"
  /\ Goto(s, "idle")
  /\ UNCHANGED <<nc, held, stray, msg, waiting, uncounted, msg_task_cnt, cnt, order, log>>

\* The destination has no entry: its message will be sent without a lock.
LookUp(s) ==
  /\ pc[s] = "look" /\ nc[Dest[msg[s]]] = NoEntry
  /\ Goto(s, "send")
  /\ UNCHANGED <<nc, held, stray, msg, waiting, uncounted, msg_task_cnt, cnt, order, log>>

(***************************************************************************)
(* nc_peer_queue_msg: the ring is processed, and if that worked the        *)
(* message itself is tried.  The entry goes unless the peer is known to be *)
(* unreachable, whatever else became of the message.                       *)
(***************************************************************************)
nc_peer_queue_msg(s) ==
  LET m == msg[s]
      p == Dest[m]
  IN  /\ pc[s] = "look" /\ nc[p] # NoEntry
      /\ \E out \in nc_peer_process_queue(nc[p]) :
           \/ /\ out.res = "SUCCESS"
              /\ \E r \in {"SUCCESS"} \cup (SendResults \ {"UNREACHABLE"}) :
                   Give(p, IF r = "SUCCESS" THEN Append(out.sent, m) ELSE out.sent)
              /\ SetEntry(p, out, NoEntry)
           \/ /\ out.res = "SUCCESS" => "UNREACHABLE" \in SendResults
              /\ Give(p, out.sent)
              /\ Queue(p, out, m)
      /\ Goto(s, "review")
      /\ UNCHANGED <<msg, waiting, uncounted, msg_task_cnt, cnt, order>>

\* send_message through an existing messenger or the router.
send_message(s) ==
  /\ pc[s] = "send"
  /\ \/ Give(Dest[msg[s]], <<msg[s]>>) /\ Goto(s, "review")
     \/ "FAILED" \in SendResults /\ UNCHANGED log /\ Goto(s, "review")
     \/ "UNREACHABLE" \in SendResults /\ UNCHANGED log /\ Goto(s, "add")
  /\ UNCHANGED <<nc, held, stray, msg, waiting, uncounted, msg_task_cnt, cnt, order>>

\* The entry replaces one the peer may have got meanwhile.
nc_add_peer(s) ==
  /\ pc[s] = "add"
  /\ nc' = [nc EXCEPT ![Dest[msg[s]]] = NewEntry(msg[s])]
  /\ held' = IF Capacity > 0 THEN held \cup {msg[s]} ELSE held
  /\ Goto(s, "review")
  /\ UNCHANGED <<stray, msg, waiting, uncounted, msg_task_cnt, cnt, order, log>>

\* nc_review_all, one peer: what remains of its entry.
Reviewed(e, out) ==
  IF out.res = "SUCCESS" /\ out.entry.queued THEN NoEntry ELSE out.entry

(***************************************************************************)
(* The end of outgoing_message_process.  nc_review_all walks the hash      *)
(* table and processes one entry after the other, in an order that makes   *)
(* no difference to what any peer is sent.                                 *)
(***************************************************************************)
ReviewDue == cnt >= RetryCount \/ msg_task_cnt = 0

nc_review_all(s) ==
  LET known == {p \in Peer : nc[p] # NoEntry}
  IN  /\ pc[s] = "review" /\ ReviewDue
      /\ \E out \in [known -> UNION {nc_peer_process_queue(nc[p]) : p \in known}] :
           /\ \A p \in known : out[p] \in nc_peer_process_queue(nc[p])
           /\ nc' = [p \in Peer |-> IF p \in known THEN Reviewed(nc[p], out[p]) ELSE NoEntry]
           /\ held' = held \ UNION {Released(nc[p], out[p]) : p \in known}
           /\ log' = [p \in Peer |-> IF p \in known THEN log[p] \o out[p].sent ELSE log[p]]
      /\ cnt' = 0
      /\ Goto(s, "idle")
      /\ UNCHANGED <<stray, msg, waiting, uncounted, msg_task_cnt, order>>

NoReview(s) ==
  /\ pc[s] = "review" /\ ~ ReviewDue
  /\ cnt' = cnt + 1
  /\ Goto(s, "idle")
  /\ UNCHANGED <<nc, held, stray, msg, waiting, uncounted, msg_task_cnt, order, log>>

(***************************************************************************)
(* check_nc_entry: the peer has connected to us.                           *)
(***************************************************************************)
check_nc_entry(p) ==
  /\ nc[p] # NoEntry
  /\ \E out \in nc_peer_process_queue([nc[p] EXCEPT !.expired = TRUE]) :
       /\ SetEntry(p, out, IF out.res = "SUCCESS" THEN NoEntry ELSE out.entry)
       /\ Give(p, out.sent)
  /\ UNCHANGED <<pc, msg, waiting, uncounted, msg_task_cnt, cnt, order>>

\* Time passes.
TimeOut(p) ==
  /\ nc[p] # NoEntry /\ ~ nc[p].expired
  /\ nc' = [nc EXCEPT ![p].expired = TRUE]
  /\ UNCHANGED <<held, stray, pc, msg, waiting, uncounted, msg_task_cnt, cnt, order, log>>
----------------------------------------------------------------------------
SenderStep(s) ==
  \/ Discard(s) \/ LookUp(s) \/ nc_peer_queue_msg(s) \/ send_message(s) \/ nc_add_peer(s)
  \/ nc_review_all(s) \/ NoReview(s)

CacheNext ==
  \/ \E m \in Message : jxta_endpoint_service_send_ex(m) \/ CountTask(m)
  \/ \E s \in Sender : SenderStep(s) \/ \E m \in Message : BeginMessage(s, m)
  \/ \E p \in Peer : check_nc_entry(p) \/ TimeOut(p)

CacheSpec == CacheInit /\ [][CacheNext]_ncVars

\* Threads run and time passes; nothing makes a peer connect to us.
FairCacheSpec ==
  /\ CacheSpec
  /\ \A s \in Sender : WF_ncVars(SenderStep(s) \/ \E m \in waiting : BeginMessage(s, m))
  /\ \A m \in Message : WF_ncVars(CountTask(m))
  /\ \A p \in Peer : WF_ncVars(TimeOut(p))
----------------------------------------------------------------------------
\* The ring's indices stay inside the ring, and the counters have their range.
CacheTypeOK ==
  /\ nc \in [Peer -> Entry \cup {NoEntry}]
  /\ \A p \in Peer : nc[p] # NoEntry /\ nc[p].queued =>
       nc[p].rq_head \in Slot /\ nc[p].rq_tail \in Slot \cup {-1}
  /\ held \subseteq Message /\ stray \subseteq Message
  /\ waiting \subseteq Message /\ uncounted \subseteq Message
  /\ pc \in [Sender -> {"idle", "look", "send", "add", "review"}]
  /\ msg \in [Sender -> Message \cup {NoMessage}]
  /\ msg_task_cnt \in 0 .. CountModulus - 1 /\ cnt \in 0 .. RetryCount

(***************************************************************************)
(* The cache holds a reference to the messages in its rings, and besides   *)
(* only to those that came to a full one: a message is not used after its  *)
(* release, and leaked in one way only.                                    *)
(***************************************************************************)
HeldExactly == held = stray \cup UNION {ToSet(Pending(nc[p])) : p \in Peer}

(***************************************************************************)
(* However many threads send: what is in a ring, and the message that came *)
(* to a full one, is still held.  (A second entry that replaces a peer's   *)
(* first one leaks what the first had in its ring: held has more.)         *)
(***************************************************************************)
HeldWhileNeeded == stray \cup UNION {ToSet(Pending(nc[p])) : p \in Peer} \subseteq held

(***************************************************************************)
(* nc_peer_queue_msg: "has filled up retransmit queue, drop oldest         *)
(* message".  The new one takes its place.                                 *)
(***************************************************************************)
OldestIsDropped == stray = {}

(***************************************************************************)
(* A message is given to a messenger at most once, and messages for one    *)
(* peer in the order in which their sending began: one that waits in the   *)
(* ring is not overtaken, however often it is tried again.                 *)
(***************************************************************************)
SentInOrder ==
  \A p \in Peer : \A i, j \in DOMAIN log[p] :
    /\ log[p][i] = log[p][j] => i = j
    /\ \A k, l \in DOMAIN order : i < j /\ log[p][i] = order[k] /\ log[p][j] = order[l] => k < l

(***************************************************************************)
(* However many threads send: nothing is given to a messenger twice, and   *)
(* what waits in a ring was not given to one.                              *)
(***************************************************************************)
NeverSentAgain ==
  \A p \in Peer :
    /\ \A i, j \in DOMAIN log[p] : log[p][i] = log[p][j] => i = j
    /\ ToSet(log[p]) \cap ToSet(Pending(nc[p])) = {}

(***************************************************************************)
(* nc_peer_process_queue: "Try to send messages in the retransmit queue    *)
(* after timeout.  In case failed, double the timeout period.  If the      *)
(* timeout period is already maximum, drop the queue completely."  Besides *)
(* that only the oldest message of a full ring leaves it unsent.  (Of the  *)
(* one that comes to a full ring it says nothing: it is never in it.)      *)
(***************************************************************************)
LeavesOnlyByPolicy ==
  [][\A p \in Peer :
       LET q    == Pending(nc[p])
           lost == ToSet(q) \ (ToSet(Pending(nc'[p])) \cup ToSet(log'[p]))
       IN  \/ lost = {}
           \/ lost = {Head(q)} /\ Len(q) = Capacity
           \/ lost = ToSet(q) /\ nc[p].timeout >= TimeoutMax]_ncVars

(***************************************************************************)
(* However many threads send: the only other way a message can leave a     *)
(* ring unsent is nc_add_peer, of a thread that found no entry before      *)
(* another one made it.                                                    *)
(***************************************************************************)
LeavesByPolicyOrReplaced ==
  [][\A p \in Peer :
       LET q    == Pending(nc[p])
           lost == ToSet(q) \ (ToSet(Pending(nc'[p])) \cup ToSet(log'[p]))
       IN  \/ lost = {}
           \/ lost = {Head(q)} /\ Len(q) = Capacity
           \/ lost = ToSet(q) /\ nc[p].timeout >= TimeoutMax
           \/ \E s \in Sender : nc_add_peer(s) /\ Dest[msg[s]] = p]_ncVars

(***************************************************************************)
(* "Try to send messages in the retransmit queue after timeout."           *)
(***************************************************************************)
RetriedAfterTimeout ==
  \A p \in Peer :
    nc[p] # NoEntry /\ nc[p].expired /\ nc[p].queued ~> (nc[p] = NoEntry \/ ~ nc[p].expired)
============================================================================
