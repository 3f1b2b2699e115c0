--------------------------- MODULE RelayTransport ---------------------------
(***************************************************************************)
(* The relay: jxta_relay.c in src/src.  A peer that cannot be connected to *)
(* gets a lease from a relay server.  What the server's router cannot      *)
(* deliver itself (router_client_cb of jxta_router_client.c) it stores in  *)
(* the archive of the destination's lease, and a thread sends the archives *)
(* out, when a message has been stored or after a nap.  The same thread    *)
(* removes what has expired.                                               *)
(*                                                                         *)
(* There is one server.  A lease is granted by a handler that has to send  *)
(* the answer between looking at the number of leases and entering the new *)
(* one.  The vector of leases has no lock that would make the removal of   *)
(* expired leases atomic; every lease has a lock for its archive.          *)
(*                                                                         *)
(* Time is counted in units that are long compared with naps, cycles and   *)
(* the way of a message: it advances when all of them are done with.       *)
(***************************************************************************)
EXTENDS Integers, Sequences, SequencesExt, FiniteSetsExt

CONSTANTS Client, Msg,
          Duration,   \* DEFAULT_LEASE_DURATION
          Granted,    \* the lease that send_relay_lease writes into its answer
          Renewal,    \* RELAY_RENEWAL_DELAY
          Storage,    \* DEFAULT_MESSAGE_STORAGE_INTERVAL
          Naps,       \* how many naps of SEND_MESSAGES_THREAD_SLEEP_TIME end in a unit of time at least
          MaxLeases,  \* max_leases_allowed
          MaxStored,  \* MAX_NUMBER_MESSAGES_PER_CLIENT
          Handlers,   \* how many lease requests are handled at a time
          MaxFaults   \* bound on lost messages, unreachable clients and restarts of the server

ASSUME RelayAssumption ==
  /\ {Duration, Granted, Renewal, Storage, Naps, MaxLeases, MaxStored, Handlers, MaxFaults} \subseteq Nat
  /\ Renewal <= Granted /\ Handlers > 0 /\ MaxLeases > 0 /\ Naps > 0

VARIABLES
  leases,     \* the server's vector of leases, each with its archive
  old,        \* the vector that leases_remove_expired has still to look through
  arrivals,   \* messages_new_arrivals
  announcing, \* how many messages were stored and not announced yet
  handling,   \* how many requests of each client are being answered
  thread,     \* send_messages_thread: where it is, at which lease, is it to send all?
  naps,       \* how many naps the thread had since time advanced
  sweepDue,   \* is it time to check for expired leases?
  client,     \* each client's entry for the relay
  requests, replies, \* the numbers of lease messages under way
  fate,       \* what became of each message: "new", "refused" or "stored"
  got,        \* how often each message was sent to its client
  faults

serverVars == <<leases, old, arrivals, announcing, handling, thread, naps, sweepDue>>
relayVars  == <<serverVars, client, requests, replies, fate, got, faults>>

Min2(a, b) == IF a < b THEN a ELSE b
Fault == faults < MaxFaults /\ faults' = faults + 1

NewLease(c) == [who |-> c, age |-> 0, stored |-> <<>>, new |-> FALSE]
\* lease_is_valid and message_has_expired.
Valid(l) == l.age < Duration
Expired(m) == m.age > Storage
\* find_relay_lease: the position of the client's first lease, 0 if there is none.
Find(c) == SelectInSeq(leases, LAMBDA l : l.who = c)

(***************************************************************************)
(* Leases at the server: check_for_lease_request.                          *)
(***************************************************************************)
\* Mutant: the last place is never given away.
TakeRequestKeepsOne(c) ==
  /\ requests[c] > 0 /\ FoldFunction(+, 0, handling) < Handlers
  /\ requests' = [requests EXCEPT ![c] = @ - 1]
  /\ handling' = IF Len(leases) + 1 >= MaxLeases THEN handling ELSE [handling EXCEPT ![c] = @ + 1]
  /\ UNCHANGED <<leases, old, arrivals, announcing, thread, naps, sweepDue, client, replies, fate, got, faults>>
\* As far as the number of leases, a renewal's too.
TakeRequest(c) ==
  /\ requests[c] > 0 /\ FoldFunction(+, 0, handling) < Handlers
  /\ requests' = [requests EXCEPT ![c] = @ - 1]
  /\ handling' = IF Len(leases) >= MaxLeases THEN handling ELSE [handling EXCEPT ![c] = @ + 1]
  /\ UNCHANGED <<leases, old, arrivals, announcing, thread, naps, sweepDue, client, replies, fate, got, faults>>

\* send_relay_lease, and the lease if the answer could be sent.
Grant(c) ==
  /\ handling[c] > 0
  /\ handling' = [handling EXCEPT ![c] = @ - 1]
  /\ \/ /\ replies' = [replies EXCEPT ![c] = @ + 1]
        /\ leases' = IF Find(c) = 0 THEN Append(leases, NewLease(c)) ELSE [leases EXCEPT ![Find(c)].age = 0]
        /\ UNCHANGED faults
     \/ Fault /\ UNCHANGED <<replies, leases>>
  /\ UNCHANGED <<old, arrivals, announcing, thread, naps, sweepDue, client, requests, fate, got>>

(***************************************************************************)
(* Messages for the clients.                                               *)
(***************************************************************************)
\* archive_put_message_1: one more than the limit finds room.
Fits(l) == Len(l.stored) <= MaxStored
Stored(l, id) == [l EXCEPT !.stored = Append(@, [id |-> id, age |-> 0]), !.new = TRUE]

\* router_client_cb: get_messenger of the relay, which deletes a lease that is over, and
\* relay_messenger_send as far as archive_put_message.
Forward(c, id) ==
  LET i == Find(c)
      over == i # 0 /\ ~Valid(leases[i])
      store == i # 0 /\ ~over /\ Fits(leases[i])
  IN /\ fate[id] = "new"
     /\ fate' = [fate EXCEPT ![id] = IF store THEN "stored" ELSE "refused"]
     /\ leases' = CASE over -> RemoveAt(leases, i)
                    [] store -> [leases EXCEPT ![i] = Stored(@, id)]
                    [] OTHER -> leases
     /\ announcing' = IF store THEN announcing + 1 ELSE announcing
     /\ UNCHANGED <<old, arrivals, handling, thread, naps, sweepDue, client, requests, replies, got, faults>>

\* The rest of relay_messenger_send: messages_new_arrivals, and the signal, which only a
\* waiting thread notices.
Announce ==
  /\ announcing > 0
  /\ announcing' = announcing - 1
  /\ arrivals' = TRUE
  /\ thread' = IF thread.pc = "wait" THEN [thread EXCEPT !.pc = "expiry"] ELSE thread
  /\ UNCHANGED <<leases, old, handling, naps, sweepDue, client, requests, replies, fate, got, faults>>

(***************************************************************************)
(* send_messages_thread.                                                   *)
(***************************************************************************)
Wake ==
  /\ thread.pc = "wake"
  /\ \E all \in {~arrivals, TRUE} : thread' = [pc |-> "send", at |-> 1, all |-> all]
  /\ arrivals' = FALSE
  /\ UNCHANGED <<leases, old, announcing, handling, naps, sweepDue, client, requests, replies, fate, got, faults>>

\* Mutant: the pass ends before the last message.
VisitedNotLast(s) == IF Len(s) = 1 THEN {1} ELSE 2..(Len(s) - 1)
\* The messages that a pass over an archive looks at: it begins with the one to the right of
\* the head and ends before the head.
Visited(s) == IF Len(s) = 1 THEN {1} ELSE 2..Len(s)
\* It ends early at the first message it gets no messenger for.
Tried(s, result) ==
  {i \in Visited(s) : \A j \in Visited(s) : j < i => Expired(s[j]) \/ result[j] # "no messenger"}
SentOf(s, result) == {i \in Tried(s, result) : ~Expired(s[i]) /\ result[i] = "sent"}
\* Mutant: what was sent is removed only when it has expired as well.
GoneExpired(s, result) == {i \in Tried(s, result) : Expired(s[i])}
\* delete_message is set with the first message that was sent or has expired, and stays so.
GoneOf(s, result) == {i \in Tried(s, result) : \E j \in Tried(s, result) : j <= i /\ (Expired(s[j]) \/ j \in SentOf(s, result))}

\* What stands in s at other places than those of S, in the same order: the n-th is the one with
\* n places kept up to it.
Without(s, S) ==
  LET kept    == DOMAIN s \ S
      upTo(i) == Cardinality({k \in kept : k <= i})
  IN  [n \in 1..Cardinality(kept) |-> s[CHOOSE i \in kept : upTo(i) = n]]

\* relay_send_all_messages_1, for one lease.
SendLease ==
  /\ thread.pc = "send" /\ thread.at <= Len(leases)
  /\ thread' = [thread EXCEPT !.at = @ + 1]
  /\ LET l == leases[thread.at] s == l.stored IN
     IF s = <<>> \/ ~(thread.all \/ l.new) THEN UNCHANGED <<leases, got, faults>>
     ELSE \E result \in [Visited(s) -> {"sent", "failed", "no messenger"}] :
            /\ IF \A i \in Visited(s) : result[i] = "sent" THEN UNCHANGED faults ELSE Fault
            /\ leases' = [leases EXCEPT ![thread.at] = [l EXCEPT !.stored = Without(s, GoneOf(s, result)), !.new = FALSE]]
            /\ got' = [id \in Msg |-> got[id] + Cardinality({i \in SentOf(s, result) : s[i].id = id})]
  /\ UNCHANGED <<old, arrivals, announcing, handling, naps, sweepDue, client, requests, replies, fate>>

SendDone ==
  /\ thread.pc = "send" /\ thread.at > Len(leases)
  /\ thread' = [thread EXCEPT !.pc = "check"]
  /\ UNCHANGED <<leases, old, arrivals, announcing, handling, naps, sweepDue, client, requests, replies, fate, got, faults>>

\* Are there new arrivals?  If not, the thread takes a nap, and the lock again for it.
NeedToSleep ==
  /\ thread.pc = "check"
  /\ thread' = [thread EXCEPT !.pc = IF arrivals THEN "expiry" ELSE "nap"]
  /\ UNCHANGED <<leases, old, arrivals, announcing, handling, naps, sweepDue, client, requests, replies, fate, got, faults>>

TimedWait ==
  /\ thread.pc = "nap"
  /\ thread' = [thread EXCEPT !.pc = "wait"]
  /\ UNCHANGED <<leases, old, arrivals, announcing, handling, naps, sweepDue, client, requests, replies, fate, got, faults>>

Timeout ==
  /\ thread.pc = "wait"
  /\ thread' = [thread EXCEPT !.pc = "expiry"]
  /\ naps' = Min2(naps + 1, Naps)
  /\ UNCHANGED <<leases, old, arrivals, announcing, handling, sweepDue, client, requests, replies, fate, got, faults>>

\* archive_check_timeout, for one lease: it visits what a pass visits.
Purged(l) == [l EXCEPT !.stored = Without(@, {i \in Visited(@) : Expired(@[i])})]

\* Now and then the archives are purged.  leases_remove_expired begins with an empty vector.
ExpiryChecks ==
  /\ thread.pc = "expiry"
  /\ \E purge \in BOOLEAN :
       LET kept == IF purge THEN [i \in DOMAIN leases |-> IF leases[i].stored = <<>> THEN leases[i] ELSE Purged(leases[i])]
                   ELSE leases
       IN IF sweepDue THEN leases' = <<>> /\ old' = kept ELSE leases' = kept /\ UNCHANGED old
  /\ sweepDue' = FALSE
  /\ thread' = [thread EXCEPT !.pc = IF sweepDue THEN "sweep" ELSE "wake"]
  /\ UNCHANGED <<arrivals, announcing, handling, naps, client, requests, replies, fate, got, faults>>

\* One lease of the old vector is kept, or not.
Sweep ==
  /\ thread.pc = "sweep"
  /\ IF old = <<>> THEN thread' = [thread EXCEPT !.pc = "wake"] /\ UNCHANGED <<leases, old>>
     ELSE /\ leases' = IF Valid(Head(old)) THEN Append(leases, Head(old)) ELSE leases
          /\ old' = Tail(old)
          /\ UNCHANGED thread
  /\ UNCHANGED <<arrivals, announcing, handling, naps, sweepDue, client, requests, replies, fate, got, faults>>

(***************************************************************************)
(* A client: connect_relay_thread and relay_transport_incoming_cb.         *)
(***************************************************************************)
\* check_relay_lease: the lease is over.
Expire(c) ==
  /\ client[c].connected /\ client[c].age > Granted
  /\ client' = [client EXCEPT ![c] = [connected |-> FALSE, age |-> 0, asked |-> FALSE]]
  /\ UNCHANGED <<serverVars, requests, replies, fate, got, faults>>

\* The next attempt has to wait.
SendRequest(c) ==
  /\ client' = [client EXCEPT ![c].asked = TRUE]
  /\ requests' = [requests EXCEPT ![c] = @ + 1]

\* check_relay_lease: it is time to renew.  reconnect_to_relay.
ToRenew(c) == ~client[c].asked /\ client[c].connected /\ client[c].age \in (Granted - Renewal)..Granted
Renew(c) ==
  /\ ToRenew(c) /\ SendRequest(c)
  /\ UNCHANGED <<serverVars, replies, fate, got, faults>>

\* check_relay_connect: connect_to_relay, or reconnect_to_relay if it was tried before.
ToConnect(c) == ~client[c].asked /\ ~client[c].connected
Connect(c) ==
  /\ ToConnect(c) /\ SendRequest(c)
  /\ UNCHANGED <<serverVars, replies, fate, got, faults>>

\* update_relay_peer_connection.
Connected == [connected |-> TRUE, age |-> 0, asked |-> FALSE]
\* A connected client drops the answer.
TakeReply(c) ==
  /\ replies[c] > 0
  /\ replies' = [replies EXCEPT ![c] = @ - 1]
  /\ client' = IF client[c].connected THEN client
               ELSE [client EXCEPT ![c] = Connected]
  /\ UNCHANGED <<serverVars, requests, fate, got, faults>>

(***************************************************************************)
(* Time and faults.                                                        *)
(***************************************************************************)
\* A message and a lease a unit of time later.
Older(m) == [m EXCEPT !.age = Min2(@ + 1, Storage + 1)]
Aged(l) == [l EXCEPT !.age = Min2(@ + 1, Duration), !.stored = [j \in DOMAIN @ |-> Older(@[j])]]

\* Time advances when the naps, cycles and messages of the last unit are over.
Tick ==
  /\ naps = Naps /\ thread.pc = "wait" /\ announcing = 0
  /\ \A c \in Client : /\ requests[c] = 0 /\ replies[c] = 0 /\ handling[c] = 0
                       /\ ~ToRenew(c) /\ ~ToConnect(c) /\ (client[c].connected => client[c].age <= Granted)
  /\ leases' = [i \in DOMAIN leases |-> Aged(leases[i])]
  /\ client' = [c \in Client |-> [client[c] EXCEPT !.age = IF client[c].connected THEN @ + 1 ELSE 0, !.asked = FALSE]]
  /\ naps' = 0 /\ sweepDue' = TRUE
  /\ UNCHANGED <<old, arrivals, announcing, handling, thread, requests, replies, fate, got, faults>>

Lose(c) ==
  /\ Fault
  /\ \/ requests[c] > 0 /\ requests' = [requests EXCEPT ![c] = @ - 1] /\ UNCHANGED replies
     \/ replies[c] > 0 /\ replies' = [replies EXCEPT ![c] = @ - 1] /\ UNCHANGED requests
  /\ UNCHANGED <<serverVars, client, fate, got>>

Restart ==
  /\ Fault
  /\ leases' = <<>> /\ old' = <<>> /\ arrivals' = FALSE /\ announcing' = 0
  /\ handling' = [c \in Client |-> 0]
  /\ thread' = [pc |-> "wake", at |-> 1, all |-> TRUE] /\ sweepDue' = FALSE
  /\ UNCHANGED <<naps, client, requests, replies, fate, got>>

Init ==
  /\ leases = <<>> /\ old = <<>> /\ arrivals = FALSE /\ announcing = 0
  /\ handling = [c \in Client |-> 0]
  /\ thread = [pc |-> "wake", at |-> 1, all |-> TRUE] /\ naps = 0 /\ sweepDue = FALSE
  /\ client = [c \in Client |-> [connected |-> FALSE, age |-> 0, asked |-> FALSE]]
  /\ requests = [c \in Client |-> 0] /\ replies = [c \in Client |-> 0]
  /\ fate = [id \in Msg |-> "new"] /\ got = [id \in Msg |-> 0]
  /\ faults = 0

ThreadStep == Wake \/ SendLease \/ SendDone \/ NeedToSleep \/ TimedWait \/ Timeout \/ ExpiryChecks \/ Sweep

Next ==
  \/ \E c \in Client : \/ TakeRequest(c) \/ Grant(c) \/ Expire(c) \/ Renew(c) \/ Connect(c) \/ TakeReply(c) \/ Lose(c)
                       \/ \E id \in Msg : Forward(c, id)
  \/ Announce
  \/ Wake \/ SendLease \/ SendDone \/ NeedToSleep \/ TimedWait \/ Timeout \/ ExpiryChecks \/ Sweep
  \/ Tick \/ Restart

RelaySpec == Init /\ [][Next]_relayVars

\* The threads run, the waits have timeouts, messages arrive, and time advances.
FairRelaySpec ==
  /\ RelaySpec
  /\ WF_relayVars(ThreadStep) /\ WF_relayVars(Announce) /\ SF_relayVars(Tick)
  /\ \A c \in Client : /\ WF_relayVars(TakeRequest(c)) /\ WF_relayVars(Grant(c))
                       /\ WF_relayVars(Expire(c)) /\ WF_relayVars(Renew(c)) /\ WF_relayVars(Connect(c)) /\ WF_relayVars(TakeReply(c))

(***************************************************************************)
(* Properties.                                                             *)
(***************************************************************************)
Lease == [who: Client, age: 0..Duration, stored: Seq([id: Msg, age: 0..(Storage + 1)]), new: BOOLEAN]
RelayTypeOK ==
  /\ leases \in Seq(Lease) /\ old \in Seq(Lease)
  /\ arrivals \in BOOLEAN /\ announcing \in 0..Cardinality(Msg)
  /\ handling \in [Client -> 0..Handlers]
  /\ thread \in [pc: {"wake", "send", "check", "nap", "wait", "expiry", "sweep"}, at: Nat, all: BOOLEAN]
  /\ naps \in 0..Naps /\ sweepDue \in BOOLEAN
  /\ client \in [Client -> [connected: BOOLEAN, age: 0..(Granted + 1), asked: BOOLEAN]]
  /\ requests \in [Client -> Nat] /\ replies \in [Client -> Nat]
  /\ fate \in [Msg -> {"new", "refused", "stored"}] /\ got \in [Msg -> Nat]
  /\ faults \in 0..MaxFaults

Held(id) == \E i \in DOMAIN leases : \E j \in DOMAIN leases[i].stored : leases[i].stored[j].id = id
HeldSomewhere(id) == Held(id) \/ \E i \in DOMAIN old : \E j \in DOMAIN old[i].stored : old[i].stored[j].id = id
Served(c) == \E i \in DOMAIN leases : leases[i].who = c /\ Valid(leases[i])

(* A client is sent a message once at most, and nothing that was sent is kept: not by the
   passes that end early, nor by the leases that change vectors or are entered twice
   (relay_send_all_messages_1, leases_remove_expired). *)
SentOnce == \A id \in Msg : got[id] <= (IF HeldSomewhere(id) THEN 0 ELSE 1)

(* As long as the client can be reached, only the head of an archive can wait until its
   storage interval is over: every other message is sent by the next pass, although a pass
   skips the leases without news, changes places with the sweep, and may miss the signal
   (send_messages_thread, relay_send_all_messages_1). *)
OnlyHeadExpires ==
  faults = 0 => \A i \in DOMAIN leases : \A j \in DOMAIN leases[i].stored :
                  Expired(leases[i].stored[j]) => j = 1

(* As long as the client can be reached, no message waits until its storage interval is
   over. *)
SentInTime ==
  faults = 0 => \A i \in DOMAIN leases : \A j \in DOMAIN leases[i].stored : ~Expired(leases[i].stored[j])

(* A client is again and again connected with a lease that the server has as well, although
   the server counts a shorter lease, refuses renewals when it is full, and the client drops
   the answers to them. *)
ServedAgain == \A c \in Client : []<>(client[c].connected /\ Served(c))

(* A client that counts itself connected has a lease at the server: "Renewal of the leases
   must be done before the lease expires". *)
ConnectedIsServed ==
  \A c \in Client : client[c].connected /\ old = <<>> /\ faults = 0 => Served(c)

(* A message that is stored is kept until it was sent or has expired, or the lease is over. *)
KeptUntilSent ==
  [][\A id \in Msg : thread.pc = "send" /\ HeldSomewhere(id) /\ ~HeldSomewhere(id)' /\ leases' # <<>> =>
       \/ got'[id] > got[id]
       \/ \E i \in DOMAIN leases : \E j \in DOMAIN leases[i].stored :
            leases[i].stored[j].id = id /\ Expired(leases[i].stored[j])]_relayVars

(* A pass in which every sending succeeds leaves nothing in the archive. *)
PassEmpties ==
  [][thread.pc = "send" /\ thread'.at = thread.at + 1 /\ (thread.all \/ leases[thread.at].new) /\ faults' = faults =>
       leases'[thread.at].stored = <<>>]_relayVars

(* A client has one lease, so that its messages are in one archive. *)
OneLeaseEach == \A i, j \in DOMAIN leases : leases[i].who = leases[j].who => i = j

(* A thread that waits has nothing to look at. *)
NothingWaits == thread.pc = "wait" /\ announcing = 0 => ~arrivals
=============================================================================
