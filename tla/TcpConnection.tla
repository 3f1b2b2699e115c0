---------------------------- MODULE TcpConnection ----------------------------
(***************************************************************************)
(* One TCP connection, src/src/jxta_transport_tcp_connection.c.  Pollers   *)
(* (do_poll of the endpoint service) drain the socket into the brigade and *)
(* push process_data; a thread of the pool parses the brigade and hands    *)
(* the messages to the endpoint; any thread may close the connection.      *)
(*                                                                         *)
(* reading_lock is held over several steps and has an owner here.  A       *)
(* section that holds me->mutex is one step.  The remote sends a welcome   *)
(* message, then messages of a header block and a body each, and may then  *)
(* close; the pieces arrive one by one.                                    *)
(***************************************************************************)
EXTENDS Naturals, Sequences, FiniteSets, SequencesExt

CONSTANTS Poller, Worker, Closer,  \* threads: in read_cb, process_data and close
          Messages,     \* the sequence of messages the remote sends
          RemoteCloses, \* whether it closes the connection afterwards
          Malformed,    \* the messages that jxta_message_read may fail to read
          Nobody

Thread == Poller \cup Worker \cup Closer

ASSUME ConnectionAssumption ==
  /\ Poller \cap Worker = {} /\ (Poller \cup Worker) \cap Closer = {}
  /\ Nobody \notin Thread
  /\ Messages \in Seq(ToSet(Messages)) /\ Malformed \subseteq ToSet(Messages)
  /\ RemoteCloses \in BOOLEAN

Welcome == <<"welcome">>

\* What the remote sends, piece by piece: a welcome, then the messages.
Stream ==
  [i \in 1 .. 1 + 2 * Len(Messages) |->
     IF i = 1 THEN Welcome
     ELSE <<IF i % 2 = 0 THEN "headers" ELSE "body", Messages[i \div 2]>>]

\* What can be read: the end of the file counts for a piece.
End == Len(Stream) + (IF RemoteCloses THEN 1 ELSE 0)

Lesser(a, b) == IF a < b THEN a ELSE b

VARIABLES connection_state,
          its_welcome,    \* TRUE once the remote's welcome was read
          ctx_msg,        \* the message read last: "none", its "headers", or a "spoiled" body
          dispatched,
          pushed,         \* process_data tasks in the pool
          brigade,        \* the pieces drained and not yet parsed
          unread,         \* how many pieces of Stream were read from the socket
          poll,           \* the socket is in the endpoint's pollset
          reading_lock,   \* its owner, or Nobody
          pc, back,       \* where each thread is, and where close returns to
          was_connected,  \* local to close
          registered,     \* the endpoint's table has a messenger of this connection
          delivered       \* history: what jxta_endpoint_service_demux was called with

readVars  == <<its_welcome, ctx_msg, dispatched, pushed, brigade, unread>>
stateVars == <<connection_state, poll, registered>>
tcpVars   == <<readVars, stateVars, reading_lock, pc, back, was_connected, delivered>>

TcpInit ==
  /\ connection_state = "INIT" /\ poll = FALSE /\ registered = FALSE
  /\ its_welcome = FALSE /\ ctx_msg = "none" /\ dispatched = FALSE /\ pushed = 0
  /\ brigade = <<>> /\ unread = 0
  /\ reading_lock = Nobody
  /\ pc = [t \in Thread |-> "idle"]
  /\ back = [t \in Thread |-> "idle"]
  /\ was_connected = [t \in Thread |-> FALSE]
  /\ delivered = <<>>

Goto(t, where) == pc' = [pc EXCEPT ![t] = where]

MayRead(t) == reading_lock \in {Nobody, t}

\* The socket's bucket reads up to piece n into the brigade.
ReadUpTo(n) ==
  /\ unread' = n
  /\ brigade' = brigade \o SubSeq(Stream, unread + 1, Lesser(n, Len(Stream)))

\* Call close and go on at where when it returns.
Close(t, where) == Goto(t, "close") /\ back' = [back EXCEPT ![t] = where]

\* My welcome message is sent and the socket registered.
tcp_connection_start_socket ==
  /\ connection_state = "INIT"
  /\ connection_state' = "CONNECTING" /\ poll' = TRUE
  /\ UNCHANGED <<readVars, registered, reading_lock, pc, back, was_connected, delivered>>
----------------------------------------------------------------------------
(***************************************************************************)
(* read_cb, on a poller.  Polling found the socket readable before another *)
(* thread may close it or drain it; a socket at its end is always readable.*)
(***************************************************************************)
Readable(t) ==
  /\ t \in Poller /\ pc[t] = "idle"
  /\ poll /\ (unread < Len(Stream) \/ RemoteCloses)
  /\ Goto(t, "read_cb")
  /\ UNCHANGED <<readVars, stateVars, reading_lock, back, was_connected, delivered>>

(***************************************************************************)
(* drain_socket takes what has arrived.  The brigade ends with the socket  *)
(* until close empties it: then there is nothing to drain from.  An end of *)
(* file closes the connection at once, with reading_lock held.             *)
(***************************************************************************)
drain_socket(t) ==
  /\ t \in Poller /\ pc[t] = "read_cb" /\ reading_lock = Nobody
  /\ connection_state # "DISCONNECTED"
  /\ \E n \in unread .. End :
       /\ ReadUpTo(n)
       /\ IF n > Len(Stream) THEN Close(t, "drained_eof")
          ELSE Goto(t, "drained") /\ UNCHANGED back
  /\ reading_lock' = t
  /\ UNCHANGED <<its_welcome, ctx_msg, dispatched, pushed, stateVars, was_connected, delivered>>

\* drain_socket's assertion on the last bucket of the brigade fails.
DrainNothing(t) ==
  /\ t \in Poller /\ pc[t] = "read_cb" /\ reading_lock = Nobody
  /\ connection_state = "DISCONNECTED"
  /\ Goto(t, "assert")
  /\ UNCHANGED <<readVars, stateVars, reading_lock, back, was_connected, delivered>>

\* Mutant: the flag is read and set after reading_lock was released.
TestUnlocked(t) ==
  /\ t \in Poller
  /\ \/ /\ pc[t] \in {"drained", "drained_eof"}
        /\ reading_lock' = Nobody
        /\ Goto(t, IF pc[t] = "drained_eof" THEN "idle" ELSE IF dispatched THEN "seen" ELSE "unseen")
        /\ UNCHANGED dispatched
     \/ /\ pc[t] \in {"seen", "unseen"}
        /\ Goto(t, IF pc[t] = "seen" THEN "idle" ELSE "push")
        /\ dispatched' = TRUE
        /\ UNCHANGED reading_lock
  /\ UNCHANGED <<its_welcome, ctx_msg, pushed, brigade, unread, stateVars, back,
                 was_connected, delivered>>

\* The flag is set once, and whoever sets it pushes the task.
TestDispatched(t) ==
  /\ t \in Poller /\ pc[t] \in {"drained", "drained_eof"}
  /\ dispatched' = TRUE
  /\ Goto(t, IF dispatched \/ pc[t] = "drained_eof" THEN "idle" ELSE "push")
  /\ reading_lock' = Nobody
  /\ UNCHANGED <<its_welcome, ctx_msg, pushed, brigade, unread, stateVars, back,
                 was_connected, delivered>>

PushProcessData(t) ==
  /\ t \in Poller /\ pc[t] = "push"
  /\ pushed' = pushed + 1
  /\ Goto(t, "idle")
  /\ UNCHANGED <<its_welcome, ctx_msg, dispatched, brigade, unread, stateVars, reading_lock,
                 back, was_connected, delivered>>
----------------------------------------------------------------------------
(***************************************************************************)
(* process_data, on a thread of the pool.  It holds reading_lock but while *)
(* it emits an event or delivers a message.                                *)
(***************************************************************************)
TakeTask(t) ==
  /\ t \in Worker /\ pc[t] = "idle" /\ pushed > 0
  /\ pushed' = pushed - 1
  /\ Goto(t, "enter")
  /\ UNCHANGED <<its_welcome, ctx_msg, dispatched, brigade, unread, stateVars, reading_lock,
                 back, was_connected, delivered>>

\* Mutant: the lock is not taken again.
EnterUnlocked(t) ==
  /\ t \in Worker /\ pc[t] = "enter"
  /\ Goto(t, "parse")
  /\ UNCHANGED <<readVars, stateVars, reading_lock, back, was_connected, delivered>>

\* The lock is taken, at the start and after each unlocked part.
Enter(t) ==
  /\ t \in Worker /\ pc[t] = "enter" /\ reading_lock = Nobody
  /\ reading_lock' = t
  /\ Goto(t, "parse")
  /\ UNCHANGED <<readVars, stateVars, back, was_connected, delivered>>

(***************************************************************************)
(* process_welcome: the connection is established, whatever state it is    *)
(* in; a stream that does not begin with a welcome message is closed.      *)
(***************************************************************************)
process_welcome(t) ==
  /\ t \in Worker /\ pc[t] = "parse" /\ ~ its_welcome /\ brigade # <<>>
  /\ IF Head(brigade) = Welcome
     THEN /\ its_welcome' = TRUE /\ brigade' = Tail(brigade)
          /\ connection_state' = "CONNECTED"
          /\ reading_lock' = Nobody
          /\ Goto(t, "emit") /\ UNCHANGED back
     ELSE /\ Close(t, "finish")
          /\ UNCHANGED <<its_welcome, brigade, connection_state, reading_lock>>
  /\ UNCHANGED <<ctx_msg, dispatched, pushed, unread, poll, registered, was_connected, delivered>>

(***************************************************************************)
(* emit_event of INBOUND_ or OUTBOUND_CONNECTED: the messenger is had if   *)
(* the connection is still connected; if not the assertions of emit_event  *)
(* and of jxta_endpoint_service_transport_event fail.                      *)
(***************************************************************************)
emit_event(t) ==
  /\ t \in Worker /\ pc[t] = "emit"
  /\ Goto(t, IF connection_state = "CONNECTED" THEN "register" ELSE "assert")
  /\ UNCHANGED <<readVars, stateVars, reading_lock, back, was_connected, delivered>>

\* jxta_endpoint_service_transport_event adds the messenger.
Register(t) ==
  /\ t \in Worker /\ pc[t] = "register"
  /\ registered' = TRUE
  /\ Goto(t, "enter")
  /\ UNCHANGED <<readVars, connection_state, poll, reading_lock, back, was_connected, delivered>>

\* split_headers and read_headers.
ReadHeaders(t) ==
  /\ t \in Worker /\ pc[t] = "parse" /\ its_welcome /\ ctx_msg = "none" /\ brigade # <<>>
  /\ ctx_msg' = "headers" /\ brigade' = Tail(brigade)
  /\ UNCHANGED <<its_welcome, dispatched, pushed, unread, stateVars, reading_lock, pc, back,
                 was_connected, delivered>>

\* Mutant: the message context is not reset.
ReadBodyKeepsContext(t) ==
  /\ t \in Worker /\ pc[t] = "parse" /\ its_welcome /\ ctx_msg # "none" /\ brigade # <<>>
  /\ brigade' = Tail(brigade)
  /\ reading_lock' = Nobody
  /\ delivered' = Append(delivered, Head(brigade)[2])
  /\ Goto(t, "enter")
  /\ UNCHANGED <<its_welcome, ctx_msg, dispatched, pushed, unread, stateVars, back, was_connected>>

(***************************************************************************)
(* split_message has the body; jxta_message_read and                       *)
(* jxta_endpoint_service_demux run without the lock.  A message that       *)
(* cannot be read ends the connection.  Its context is not reset: nothing  *)
(* is missing of its body then, and whoever comes to read it again, before *)
(* the connection is disconnected, fails as well.                          *)
(***************************************************************************)
ReadBody(t) ==
  /\ t \in Worker /\ pc[t] = "parse" /\ its_welcome /\ ctx_msg # "none" /\ brigade # <<>>
  /\ reading_lock' = Nobody
  /\ brigade' = IF ctx_msg = "headers" THEN Tail(brigade) ELSE brigade
  /\ \/ /\ ctx_msg = "headers"
        /\ delivered' = Append(delivered, Head(brigade)[2])
        /\ ctx_msg' = "none"
        /\ Goto(t, "enter") /\ UNCHANGED back
     \/ /\ ctx_msg = "spoiled" \/ Head(brigade)[2] \in Malformed
        /\ ctx_msg' = "spoiled"
        /\ Close(t, "failed") /\ UNCHANGED delivered
  /\ UNCHANGED <<its_welcome, dispatched, pushed, unread, stateVars, was_connected>>

\* With nothing left to parse, split_brigade reads what the socket has, ...
split_brigade(t) ==
  /\ t \in Worker /\ pc[t] = "parse" /\ brigade = <<>> /\ connection_state # "DISCONNECTED"
  /\ \E n \in unread + 1 .. Len(Stream) : ReadUpTo(n)
  /\ UNCHANGED <<its_welcome, ctx_msg, dispatched, pushed, stateVars, reading_lock, pc, back,
                 was_connected, delivered>>

\* ... and an end of file closes the connection.
ParseEof(t) ==
  /\ t \in Worker /\ pc[t] = "parse" /\ brigade = <<>> /\ connection_state # "DISCONNECTED"
  /\ RemoteCloses /\ unread >= Len(Stream)
  /\ unread' = End
  /\ Close(t, "finish")
  /\ UNCHANGED <<its_welcome, ctx_msg, dispatched, pushed, brigade, stateVars, reading_lock,
                 was_connected, delivered>>

\* Nothing is left to parse, and no end of file has been read.
Exhausted(t) ==
  /\ pc[t] = "parse" /\ brigade = <<>>
  /\ connection_state = "DISCONNECTED" \/ unread <= Len(Stream)

\* Mutant: the lock is released before the flag is reset.
NoMoreDataUnlocked(t) ==
  /\ t \in Worker
  /\ \/ /\ Exhausted(t) \/ pc[t] = "finish"
        /\ Goto(t, "failed")
        /\ reading_lock' = Nobody
        /\ UNCHANGED dispatched
     \/ /\ pc[t] = "failed"
        /\ dispatched' = FALSE
        /\ Goto(t, "idle")
        /\ UNCHANGED reading_lock
  /\ UNCHANGED <<its_welcome, ctx_msg, pushed, brigade, unread, stateVars, back,
                 was_connected, delivered>>

\* Mutant: the flag is not reset.
NoMoreDataDispatched(t) ==
  /\ t \in Worker
  /\ Exhausted(t) \/ pc[t] = "finish"
  /\ Goto(t, "idle")
  /\ reading_lock' = Nobody
  /\ UNCHANGED <<readVars, stateVars, back, was_connected, delivered>>

\* The end of process_data: "while loop until no more data to read".
NoMoreData(t) ==
  /\ t \in Worker
  /\ Exhausted(t) \/ pc[t] = "finish"
  /\ dispatched' = FALSE
  /\ Goto(t, "idle")
  /\ reading_lock' = Nobody
  /\ UNCHANGED <<its_welcome, ctx_msg, pushed, brigade, unread, stateVars, back,
                 was_connected, delivered>>

\* The return after a message that could not be read.
ReadFailed(t) ==
  /\ t \in Worker /\ pc[t] = "failed"
  /\ dispatched' = FALSE
  /\ Goto(t, "idle")
  /\ UNCHANGED <<its_welcome, ctx_msg, pushed, brigade, unread, stateVars, reading_lock, back,
                 was_connected, delivered>>
----------------------------------------------------------------------------
(***************************************************************************)
(* jxta_transport_tcp_connection_close, called by any of the threads: by   *)
(* check_unused_connections and tcp_messenger_free on a closer.            *)
(***************************************************************************)
BeginClose(t) ==
  /\ t \in Closer /\ pc[t] = "idle" /\ connection_state # "INIT"
  /\ Close(t, "done")
  /\ UNCHANGED <<readVars, stateVars, reading_lock, was_connected, delivered>>

Disconnecting(t) ==
  /\ pc[t] = "close"
  /\ IF connection_state \in {"CONNECTED", "CONNECTING"}
     THEN /\ was_connected' = [was_connected EXCEPT ![t] = connection_state = "CONNECTED"]
          /\ connection_state' = "DISCONNECTING"
          /\ Goto(t, "remove_poll")
     ELSE Goto(t, back[t]) /\ UNCHANGED <<was_connected, connection_state>>
  /\ UNCHANGED <<readVars, poll, registered, reading_lock, back, delivered>>

RemovePoll(t) ==
  /\ pc[t] = "remove_poll" /\ MayRead(t)
  /\ poll' = FALSE
  /\ Goto(t, "cleanup")
  /\ UNCHANGED <<readVars, connection_state, registered, reading_lock, back, was_connected,
                 delivered>>

\* The socket is closed, the brigade emptied and the endpoint told.
Disconnected(t) ==
  /\ pc[t] = "cleanup"
  /\ brigade' = <<>>
  /\ connection_state' = "DISCONNECTED"
  /\ registered' = (registered /\ ~ was_connected[t])
  /\ Goto(t, back[t])
  /\ UNCHANGED <<its_welcome, ctx_msg, dispatched, pushed, unread, poll, reading_lock, back,
                 was_connected, delivered>>
----------------------------------------------------------------------------
CloseStep(t) == Disconnecting(t) \/ RemovePoll(t) \/ Disconnected(t)

ReadStep(t) ==
  \/ drain_socket(t) \/ DrainNothing(t) \/ TestDispatched(t) \/ PushProcessData(t)

ProcessStep(t) ==
  \/ TakeTask(t) \/ Enter(t) \/ process_welcome(t) \/ emit_event(t) \/ Register(t)
  \/ ReadHeaders(t) \/ ReadBody(t) \/ split_brigade(t) \/ ParseEof(t) \/ NoMoreData(t)
  \/ ReadFailed(t)

TcpNext ==
  \/ tcp_connection_start_socket
  \/ \E t \in Thread :
       \/ Readable(t) \/ ReadStep(t) \/ ProcessStep(t) \/ BeginClose(t) \/ CloseStep(t)

TcpSpec == TcpInit /\ [][TcpNext]_tcpVars

(***************************************************************************)
(* Threads run once they have begun, polling goes on (PollingGoesOn of     *)
(* EndpointPoll) and reads the messages that have arrived, and             *)
(* reading_lock is given to a thread that waits for it again and again.    *)
(* Nothing makes the remote or a thread of this peer close.                *)
(***************************************************************************)
FairTcpSpec ==
  /\ TcpSpec
  /\ WF_tcpVars(tcp_connection_start_socket)
  /\ \A t \in Thread : SF_tcpVars(ReadStep(t) \/ ProcessStep(t) \/ CloseStep(t))
  /\ SF_tcpVars(\E t \in Poller : drain_socket(t) /\ unread' >= Len(Stream))
  /\ WF_tcpVars(\E t \in Poller : Readable(t))
----------------------------------------------------------------------------
\* The connection's variables and its threads are in states the code knows.
TcpTypeOK ==
  /\ connection_state \in {"INIT", "CONNECTING", "CONNECTED", "DISCONNECTING", "DISCONNECTED"}
  /\ {its_welcome, dispatched, poll, registered} \subseteq BOOLEAN
  /\ ctx_msg \in {"none", "headers", "spoiled"} /\ pushed \in Nat /\ unread \in 0 .. End
  /\ reading_lock \in Thread \cup {Nobody}
  /\ \A t \in Thread : pc[t] \in {"parse", "drained", "drained_eof", "finish"} => reading_lock = t

\* The threads that are between taking the process_data task and its end.
Processing == {t \in Worker : pc[t] # "idle"}

(***************************************************************************)
(* process_data: assert(me->dispatched).  There is never a second          *)
(* process_data for the connection, in the pool or on another thread: they *)
(* share the parser's state without a lock while a message is delivered.   *)
(***************************************************************************)
OneProcessor ==
  /\ pushed + Cardinality({t \in Processing : pc[t] # "failed"}) <= 1
  /\ \A t \in Worker : pc[t] = "parse" => dispatched

(***************************************************************************)
(* Data that was drained is not forgotten: as long as the connection is    *)
(* open and something is in the brigade, somebody is going to parse it.    *)
(***************************************************************************)
NothingStranded ==
  connection_state \in {"CONNECTING", "CONNECTED"} /\ brigade # <<>> =>
    \/ pushed > 0 \/ Processing # {}
    \/ \E t \in Poller : pc[t] \in {"drained", "drained_eof", "push", "close"}

(***************************************************************************)
(* The endpoint gets the messages in the order of the stream, none twice   *)
(* and none but the last ones left out, whenever the connection is closed. *)
(***************************************************************************)
DeliveredInOrder == IsPrefix(delivered, Messages)

\* As long as nobody closes the connection every message is on its way to be delivered.
EverythingDelivered ==
  <>(delivered = Messages \/ connection_state \in {"DISCONNECTING", "DISCONNECTED"})

(***************************************************************************)
(* drain_socket: assert(APR_BUCKET_IS_SOCKET(e) ||                         *)
(* APR_BUCKET_IS_IMMORTAL(e)) of the last bucket.                          *)
(***************************************************************************)
SocketToDrain == \A t \in Poller : pc[t] # "assert"

(***************************************************************************)
(* jxta_endpoint_service_transport_event: assert(e->msgr).                 *)
(***************************************************************************)
EventHasMessenger == \A t \in Worker : pc[t] # "assert"

(***************************************************************************)
(* close takes reading_lock "to ensure the connection had done reading":   *)
(* what the remote sent before it closed was read and is delivered.        *)
(***************************************************************************)
ReadBeforeClose ==
  [][\A t \in Thread : Disconnected(t) /\ back[t] = "drained_eof" => brigade = <<>>]_tcpVars

(***************************************************************************)
(* ... and nobody parses the brigade while close empties it.               *)
(***************************************************************************)
NobodyReadsWhenClosed ==
  [][\A t \in Thread : Disconnected(t) => MayRead(t)]_tcpVars
==============================================================================
