-------------------------- MODULE TransportProofs ---------------------------
(***************************************************************************)
(* Theorems about the transports: one TCP connection, and the relay        *)
(* server that keeps messages for its clients.                             *)
(***************************************************************************)
EXTENDS TcpConnection, RelayTransport, SequenceTheorems, FiniteSetTheorems, WellFoundedInduction,
        TLAPS

(***************************************************************************)
(* Theorems about one TCP connection, for any pollers, workers and threads *)
(* that close it, any messages, malformed ones among them, and a remote    *)
(* that closes or does not.                                                *)
(*                                                                         *)
(* The flag dispatched stands for one task: in the pool, on its way there, *)
(* or run by a worker.  What a worker may find in the brigade follows from *)
(* that and from who has reading_lock, also while the connection is being  *)
(* closed: the connection never comes back from DISCONNECTED, and a worker *)
(* that is past the welcome does not take it back from DISCONNECTING.      *)
(***************************************************************************)

\* Where a thread may be: in close, or in its own handler.
Closing == {"close", "remove_poll", "cleanup"}
Polling == {"idle", "read_cb", "drained", "drained_eof", "push", "assert"}
Working == {"idle", "enter", "parse", "emit", "register", "finish", "failed", "assert"}
Spot    == Closing \cup Polling \cup Working \cup {"done"}

\* Where a thread is; one that closes the connection, where close returns to.
Place(t) == IF pc[t] \in Closing THEN back[t] ELSE pc[t]

Closed == {"DISCONNECTING", "DISCONNECTED"}

\* The states of the variables and the places of each kind of thread.
PlacesOK ==
  /\ pc \in [Thread -> Spot] /\ back \in [Thread -> Spot]
  /\ connection_state \in {"INIT", "CONNECTING", "CONNECTED", "DISCONNECTING", "DISCONNECTED"}
  /\ its_welcome \in BOOLEAN /\ dispatched \in BOOLEAN /\ poll \in BOOLEAN
  /\ ctx_msg \in {"none", "headers", "spoiled"}
  /\ pushed \in Nat
  /\ \A t \in Poller : /\ pc[t] \in Closing \cup Polling
                       /\ pc[t] \in Closing => back[t] = "drained_eof"
  /\ \A t \in Worker : /\ pc[t] \in Closing \cup Working
                       /\ pc[t] \in Closing => back[t] \in {"finish", "failed"}
  /\ \A t \in Closer : /\ pc[t] \in Closing \cup {"idle", "done"}
                       /\ pc[t] \in Closing => back[t] = "done"

\* reading_lock is had by the thread that drains or parses, also while it closes.
LockHeld ==
  \A t \in Thread : Place(t) \in {"drained", "drained_eof", "parse", "finish"} => reading_lock = t

\* The threads that have the task of the flag.
HasTask(t) == (t \in Poller /\ pc[t] = "push") \/ (t \in Worker /\ pc[t] # "idle")

\* There is one task, and none unless the flag is set.
OneTask ==
  /\ pushed <= 1
  /\ pushed = 1 => dispatched /\ \A t \in Thread : ~ HasTask(t)
  /\ \A t \in Thread : HasTask(t) => dispatched
  /\ \A t, u \in Thread : HasTask(t) /\ HasTask(u) => t = u

(***************************************************************************)
(* Nothing happens before the socket is registered; a thread that has      *)
(* closed the connection finds it closed; the flag without a task means    *)
(* that the connection is closed and has no task any more.                 *)
(***************************************************************************)
StaysClosed ==
  /\ connection_state = "INIT" =>
       brigade = <<>> /\ ~ dispatched /\ ~ poll /\ \A t \in Thread : pc[t] = "idle"
  /\ \A t \in Thread :
       /\ Place(t) = "failed" => its_welcome
       /\ Place(t) \in {"drained_eof", "finish", "failed"} /\ pc[t] # "close" =>
            connection_state \in Closed
  /\ dispatched /\ pushed = 0 /\ (\A t \in Thread : ~ HasTask(t)) => connection_state \in Closed

\* Pieces in the brigade of an open connection without a task were just drained
\* by a poller that has not yet looked at the flag.
DrainedIsSeen ==
  connection_state \in {"CONNECTING", "CONNECTED"} /\ brigade # <<>> /\ ~ dispatched =>
    \E t \in Poller : Place(t) \in {"drained", "drained_eof"}

\* How many pieces of the stream were parsed.
Parsed ==
  (IF its_welcome THEN 1 ELSE 0) + 2 * Len(delivered)
    + (IF ctx_msg = "none" THEN 0 ELSE IF ctx_msg = "headers" THEN 1 ELSE 2)

(***************************************************************************)
(* What was parsed, what is in the brigade and what was not read make up   *)
(* the stream, until close empties the brigade for good.                   *)
(***************************************************************************)
StreamInv ==
  /\ delivered \in Seq(ToSet(Messages)) /\ IsPrefix(delivered, Messages)
  /\ ~ its_welcome => ctx_msg = "none" /\ delivered = <<>>
  /\ unread \in 0 .. End
  /\ IF connection_state = "DISCONNECTED" THEN brigade = <<>>
     ELSE /\ Parsed <= Lesser(unread, Len(Stream))
          /\ brigade = SubSeq(Stream, Parsed + 1, Lesser(unread, Len(Stream)))

ReadingInv == PlacesOK /\ LockHeld /\ OneTask /\ StaysClosed /\ DrainedIsSeen /\ StreamInv
----------------------------------------------------------------------------
\* Steps keep threads where they belong and the variables in their states.
LEMMA PlacesNext ==
  ASSUME PlacesOK, TcpNext
  PROVE  PlacesOK'
<1> USE ConnectionAssumption DEF PlacesOK, Closing, Polling, Working, Spot, Thread,
       ConnectionAssumption
<1>1. CASE tcp_connection_start_socket
  BY <1>1 DEF tcp_connection_start_socket, readVars
<1>2. ASSUME NEW t \in Thread, Readable(t) PROVE PlacesOK'
  BY <1>2 DEF Readable, readVars, stateVars, Goto
<1>3. ASSUME NEW t \in Thread, drain_socket(t) PROVE PlacesOK'
  BY <1>3 DEF drain_socket, stateVars, Goto, Close
<1>4. ASSUME NEW t \in Thread, DrainNothing(t) PROVE PlacesOK'
  BY <1>4 DEF DrainNothing, readVars, stateVars, Goto
<1>5. ASSUME NEW t \in Thread, TestDispatched(t) PROVE PlacesOK'
  BY <1>5 DEF TestDispatched, stateVars, Goto
<1>6. ASSUME NEW t \in Thread, PushProcessData(t) PROVE PlacesOK'
  BY <1>6 DEF PushProcessData, stateVars, Goto
<1>7. ASSUME NEW t \in Thread, TakeTask(t) PROVE PlacesOK'
  BY <1>7 DEF TakeTask, stateVars, Goto
<1>8. ASSUME NEW t \in Thread, Enter(t) PROVE PlacesOK'
  BY <1>8 DEF Enter, readVars, stateVars, Goto
<1>9. ASSUME NEW t \in Thread, process_welcome(t) PROVE PlacesOK'
  <2>1. CASE Head(brigade) = Welcome
    BY <1>9, <2>1 DEF process_welcome, readVars, stateVars, Goto
  <2>2. CASE Head(brigade) # Welcome
    BY <1>9, <2>2 DEF process_welcome, readVars, stateVars, Goto, Close
  <2> QED BY <2>1, <2>2
<1>10. ASSUME NEW t \in Thread, emit_event(t) PROVE PlacesOK'
  BY <1>10 DEF emit_event, readVars, stateVars, Goto
<1>11. ASSUME NEW t \in Thread, Register(t) PROVE PlacesOK'
  BY <1>11 DEF Register, readVars, Goto
<1>12. ASSUME NEW t \in Thread, ReadHeaders(t) PROVE PlacesOK'
  BY <1>12 DEF ReadHeaders, stateVars
<1>13. ASSUME NEW t \in Thread, ReadBody(t) PROVE PlacesOK'
  BY <1>13 DEF ReadBody, stateVars, Goto, Close
<1>14. ASSUME NEW t \in Thread, split_brigade(t) PROVE PlacesOK'
  BY <1>14 DEF split_brigade, stateVars
<1>15. ASSUME NEW t \in Thread, ParseEof(t) PROVE PlacesOK'
  BY <1>15 DEF ParseEof, stateVars, Close, Goto
<1>16. ASSUME NEW t \in Thread, NoMoreData(t) PROVE PlacesOK'
  BY <1>16 DEF NoMoreData, Exhausted, stateVars, Goto
<1>17. ASSUME NEW t \in Thread, ReadFailed(t) PROVE PlacesOK'
  BY <1>17 DEF ReadFailed, stateVars, Goto
<1>18. ASSUME NEW t \in Thread, BeginClose(t) PROVE PlacesOK'
  BY <1>18 DEF BeginClose, readVars, stateVars, Close, Goto
<1>19. ASSUME NEW t \in Thread, Disconnecting(t) PROVE PlacesOK'
  BY <1>19 DEF Disconnecting, readVars, Goto
<1>20. ASSUME NEW t \in Thread, RemovePoll(t) PROVE PlacesOK'
  BY <1>20 DEF RemovePoll, readVars, Goto
<1>21. ASSUME NEW t \in Thread, Disconnected(t) PROVE PlacesOK'
  BY <1>21 DEF Disconnected, Goto
<1> QED
  BY <1>1, <1>2, <1>3, <1>4, <1>5, <1>6, <1>7, <1>8, <1>9, <1>10, <1>11, <1>12, <1>13, <1>14,
     <1>15, <1>16, <1>17, <1>18, <1>19, <1>20, <1>21
  DEF TcpNext, ReadStep, ProcessStep, CloseStep

\* reading_lock is released by its owner.
LEMMA LockNext ==
  ASSUME PlacesOK, LockHeld, TcpNext
  PROVE  LockHeld'
<1> USE ConnectionAssumption DEF PlacesOK, LockHeld, Place, Closing, Polling, Working, Spot,
       Thread, ConnectionAssumption
<1>1. CASE tcp_connection_start_socket
  BY <1>1 DEF tcp_connection_start_socket, readVars
<1>2. ASSUME NEW t \in Thread, Readable(t) PROVE LockHeld'
  BY <1>2 DEF Readable, readVars, stateVars, Goto
<1>3. ASSUME NEW t \in Thread, drain_socket(t) PROVE LockHeld'
  BY <1>3 DEF drain_socket, stateVars, Goto, Close
<1>4. ASSUME NEW t \in Thread, DrainNothing(t) PROVE LockHeld'
  BY <1>4 DEF DrainNothing, readVars, stateVars, Goto
<1>5. ASSUME NEW t \in Thread, TestDispatched(t) PROVE LockHeld'
  BY <1>5 DEF TestDispatched, stateVars, Goto
<1>6. ASSUME NEW t \in Thread, PushProcessData(t) PROVE LockHeld'
  BY <1>6 DEF PushProcessData, stateVars, Goto
<1>7. ASSUME NEW t \in Thread, TakeTask(t) PROVE LockHeld'
  BY <1>7 DEF TakeTask, stateVars, Goto
<1>8. ASSUME NEW t \in Thread, Enter(t) PROVE LockHeld'
  BY <1>8 DEF Enter, readVars, stateVars, Goto
<1>9. ASSUME NEW t \in Thread, process_welcome(t) PROVE LockHeld'
  BY <1>9 DEF process_welcome, Goto, Close
<1>10. ASSUME NEW t \in Thread, emit_event(t) PROVE LockHeld'
  BY <1>10 DEF emit_event, readVars, stateVars, Goto
<1>11. ASSUME NEW t \in Thread, Register(t) PROVE LockHeld'
  BY <1>11 DEF Register, readVars, Goto
<1>12. ASSUME NEW t \in Thread, ReadHeaders(t) PROVE LockHeld'
  BY <1>12 DEF ReadHeaders, stateVars
<1>13. ASSUME NEW t \in Thread, ReadBody(t) PROVE LockHeld'
  BY <1>13 DEF ReadBody, stateVars, Goto, Close
<1>14. ASSUME NEW t \in Thread, split_brigade(t) PROVE LockHeld'
  BY <1>14 DEF split_brigade, stateVars
<1>15. ASSUME NEW t \in Thread, ParseEof(t) PROVE LockHeld'
  BY <1>15 DEF ParseEof, stateVars, Close, Goto
<1>16. ASSUME NEW t \in Thread, NoMoreData(t) PROVE LockHeld'
  BY <1>16 DEF NoMoreData, Exhausted, stateVars, Goto
<1>17. ASSUME NEW t \in Thread, ReadFailed(t) PROVE LockHeld'
  BY <1>17 DEF ReadFailed, stateVars, Goto
<1>18. ASSUME NEW t \in Thread, BeginClose(t) PROVE LockHeld'
  BY <1>18 DEF BeginClose, readVars, stateVars, Close, Goto
<1>19. ASSUME NEW t \in Thread, Disconnecting(t) PROVE LockHeld'
  BY <1>19 DEF Disconnecting, readVars, Goto
<1>20. ASSUME NEW t \in Thread, RemovePoll(t) PROVE LockHeld'
  BY <1>20 DEF RemovePoll, readVars, Goto
<1>21. ASSUME NEW t \in Thread, Disconnected(t) PROVE LockHeld'
  BY <1>21 DEF Disconnected, Goto
<1> QED
  BY <1>1, <1>2, <1>3, <1>4, <1>5, <1>6, <1>7, <1>8, <1>9, <1>10, <1>11, <1>12, <1>13, <1>14,
     <1>15, <1>16, <1>17, <1>18, <1>19, <1>20, <1>21
  DEF TcpNext, ReadStep, ProcessStep, CloseStep

\* The flag is set once for each task.
LEMMA OneTaskNext ==
  ASSUME PlacesOK, OneTask, TcpNext
  PROVE  OneTask'
<1> USE ConnectionAssumption DEF PlacesOK, OneTask, HasTask, Closing, Polling, Working, Spot,
       Thread, ConnectionAssumption
<1>1. CASE tcp_connection_start_socket
  BY <1>1 DEF tcp_connection_start_socket, readVars
<1>2. ASSUME NEW t \in Thread, Readable(t) PROVE OneTask'
  BY <1>2 DEF Readable, readVars, stateVars, Goto
<1>3. ASSUME NEW t \in Thread, drain_socket(t) PROVE OneTask'
  BY <1>3 DEF drain_socket, stateVars, Goto, Close
<1>4. ASSUME NEW t \in Thread, DrainNothing(t) PROVE OneTask'
  BY <1>4 DEF DrainNothing, readVars, stateVars, Goto
<1>5. ASSUME NEW t \in Thread, TestDispatched(t) PROVE OneTask'
  BY <1>5 DEF TestDispatched, stateVars, Goto
<1>6. ASSUME NEW t \in Thread, PushProcessData(t) PROVE OneTask'
  BY <1>6 DEF PushProcessData, stateVars, Goto
<1>7. ASSUME NEW t \in Thread, TakeTask(t) PROVE OneTask'
  BY <1>7 DEF TakeTask, stateVars, Goto
<1>8. ASSUME NEW t \in Thread, Enter(t) PROVE OneTask'
  BY <1>8 DEF Enter, readVars, stateVars, Goto
<1>9. ASSUME NEW t \in Thread, process_welcome(t) PROVE OneTask'
  BY <1>9 DEF process_welcome, Goto, Close
<1>10. ASSUME NEW t \in Thread, emit_event(t) PROVE OneTask'
  BY <1>10 DEF emit_event, readVars, stateVars, Goto
<1>11. ASSUME NEW t \in Thread, Register(t) PROVE OneTask'
  BY <1>11 DEF Register, readVars, Goto
<1>12. ASSUME NEW t \in Thread, ReadHeaders(t) PROVE OneTask'
  BY <1>12 DEF ReadHeaders, stateVars
<1>13. ASSUME NEW t \in Thread, ReadBody(t) PROVE OneTask'
  BY <1>13 DEF ReadBody, stateVars, Goto, Close
<1>14. ASSUME NEW t \in Thread, split_brigade(t) PROVE OneTask'
  BY <1>14 DEF split_brigade, stateVars
<1>15. ASSUME NEW t \in Thread, ParseEof(t) PROVE OneTask'
  BY <1>15 DEF ParseEof, stateVars, Close, Goto
<1>16. ASSUME NEW t \in Thread, NoMoreData(t) PROVE OneTask'
  BY <1>16 DEF NoMoreData, Exhausted, stateVars, Goto
<1>17. ASSUME NEW t \in Thread, ReadFailed(t) PROVE OneTask'
  BY <1>17 DEF ReadFailed, stateVars, Goto
<1>18. ASSUME NEW t \in Thread, BeginClose(t) PROVE OneTask'
  BY <1>18 DEF BeginClose, readVars, stateVars, Close, Goto
<1>19. ASSUME NEW t \in Thread, Disconnecting(t) PROVE OneTask'
  BY <1>19 DEF Disconnecting, readVars, Goto
<1>20. ASSUME NEW t \in Thread, RemovePoll(t) PROVE OneTask'
  BY <1>20 DEF RemovePoll, readVars, Goto
<1>21. ASSUME NEW t \in Thread, Disconnected(t) PROVE OneTask'
  BY <1>21 DEF Disconnected, Goto
<1> QED
  BY <1>1, <1>2, <1>3, <1>4, <1>5, <1>6, <1>7, <1>8, <1>9, <1>10, <1>11, <1>12, <1>13, <1>14,
     <1>15, <1>16, <1>17, <1>18, <1>19, <1>20, <1>21
  DEF TcpNext, ReadStep, ProcessStep, CloseStep

\* Nobody brings the connection back.
LEMMA StaysClosedNext ==
  ASSUME PlacesOK, LockHeld, OneTask, StaysClosed, TcpNext
  PROVE  StaysClosed'
<1> USE ConnectionAssumption DEF PlacesOK, LockHeld, OneTask, StaysClosed, Place, HasTask,
       Closing, Polling, Working, Spot, Closed, Thread, ConnectionAssumption
<1>1. CASE tcp_connection_start_socket
  BY <1>1 DEF tcp_connection_start_socket, readVars
<1>2. ASSUME NEW t \in Thread, Readable(t) PROVE StaysClosed'
  BY <1>2 DEF Readable, readVars, stateVars, Goto
<1>3. ASSUME NEW t \in Thread, drain_socket(t) PROVE StaysClosed'
  BY <1>3 DEF drain_socket, stateVars, Goto, Close
<1>4. ASSUME NEW t \in Thread, DrainNothing(t) PROVE StaysClosed'
  BY <1>4 DEF DrainNothing, readVars, stateVars, Goto
<1>5. ASSUME NEW t \in Thread, TestDispatched(t) PROVE StaysClosed'
  BY <1>5 DEF TestDispatched, stateVars, Goto
<1>6. ASSUME NEW t \in Thread, PushProcessData(t) PROVE StaysClosed'
  BY <1>6 DEF PushProcessData, stateVars, Goto
<1>7. ASSUME NEW t \in Thread, TakeTask(t) PROVE StaysClosed'
  BY <1>7 DEF TakeTask, stateVars, Goto
<1>8. ASSUME NEW t \in Thread, Enter(t) PROVE StaysClosed'
  BY <1>8 DEF Enter, readVars, stateVars, Goto
<1>9. ASSUME NEW t \in Thread, process_welcome(t) PROVE StaysClosed'
  BY <1>9 DEF process_welcome, Goto, Close
<1>10. ASSUME NEW t \in Thread, emit_event(t) PROVE StaysClosed'
  BY <1>10 DEF emit_event, readVars, stateVars, Goto
<1>11. ASSUME NEW t \in Thread, Register(t) PROVE StaysClosed'
  BY <1>11 DEF Register, readVars, Goto
<1>12. ASSUME NEW t \in Thread, ReadHeaders(t) PROVE StaysClosed'
  BY <1>12 DEF ReadHeaders, stateVars
<1>13. ASSUME NEW t \in Thread, ReadBody(t) PROVE StaysClosed'
  BY <1>13 DEF ReadBody, stateVars, Goto, Close
<1>14. ASSUME NEW t \in Thread, split_brigade(t) PROVE StaysClosed'
  BY <1>14 DEF split_brigade, stateVars
<1>15. ASSUME NEW t \in Thread, ParseEof(t) PROVE StaysClosed'
  BY <1>15 DEF ParseEof, stateVars, Close, Goto
<1>16. ASSUME NEW t \in Thread, NoMoreData(t) PROVE StaysClosed'
  BY <1>16 DEF NoMoreData, Exhausted, stateVars, Goto
<1>17. ASSUME NEW t \in Thread, ReadFailed(t) PROVE StaysClosed'
  BY <1>17 DEF ReadFailed, stateVars, Goto
<1>18. ASSUME NEW t \in Thread, BeginClose(t) PROVE StaysClosed'
  BY <1>18 DEF BeginClose, readVars, stateVars, Close, Goto
<1>19. ASSUME NEW t \in Thread, Disconnecting(t) PROVE StaysClosed'
  BY <1>19 DEF Disconnecting, readVars, Goto
<1>20. ASSUME NEW t \in Thread, RemovePoll(t) PROVE StaysClosed'
  BY <1>20 DEF RemovePoll, readVars, Goto
<1>21. ASSUME NEW t \in Thread, Disconnected(t) PROVE StaysClosed'
  BY <1>21 DEF Disconnected, Goto
<1> QED
  BY <1>1, <1>2, <1>3, <1>4, <1>5, <1>6, <1>7, <1>8, <1>9, <1>10, <1>11, <1>12, <1>13, <1>14,
     <1>15, <1>16, <1>17, <1>18, <1>19, <1>20, <1>21
  DEF TcpNext, ReadStep, ProcessStep, CloseStep

\* Who drains the socket looks at the flag before anybody else may reset it.
LEMMA DrainedNext ==
  ASSUME PlacesOK, LockHeld, OneTask, StaysClosed, DrainedIsSeen, TcpNext
  PROVE  DrainedIsSeen'
<1> USE ConnectionAssumption DEF PlacesOK, LockHeld, OneTask, StaysClosed, DrainedIsSeen,
       Place, HasTask, Closing, Polling, Working, Spot, Closed, Thread,
            ConnectionAssumption
<1>1. CASE tcp_connection_start_socket
  BY <1>1 DEF tcp_connection_start_socket, readVars
<1>2. ASSUME NEW t \in Thread, Readable(t) PROVE DrainedIsSeen'
  BY <1>2 DEF Readable, readVars, stateVars, Goto
<1>3. ASSUME NEW t \in Thread, drain_socket(t) PROVE DrainedIsSeen'
  BY <1>3 DEF drain_socket, stateVars, Goto, Close
<1>4. ASSUME NEW t \in Thread, DrainNothing(t) PROVE DrainedIsSeen'
  BY <1>4 DEF DrainNothing, readVars, stateVars, Goto
<1>5. ASSUME NEW t \in Thread, TestDispatched(t) PROVE DrainedIsSeen'
  BY <1>5 DEF TestDispatched, stateVars, Goto
<1>6. ASSUME NEW t \in Thread, PushProcessData(t) PROVE DrainedIsSeen'
  BY <1>6 DEF PushProcessData, stateVars, Goto
<1>7. ASSUME NEW t \in Thread, TakeTask(t) PROVE DrainedIsSeen'
  BY <1>7 DEF TakeTask, stateVars, Goto
<1>8. ASSUME NEW t \in Thread, Enter(t) PROVE DrainedIsSeen'
  BY <1>8 DEF Enter, readVars, stateVars, Goto
<1>9. ASSUME NEW t \in Thread, process_welcome(t) PROVE DrainedIsSeen'
  BY <1>9 DEF process_welcome, Goto, Close
<1>10. ASSUME NEW t \in Thread, emit_event(t) PROVE DrainedIsSeen'
  BY <1>10 DEF emit_event, readVars, stateVars, Goto
<1>11. ASSUME NEW t \in Thread, Register(t) PROVE DrainedIsSeen'
  BY <1>11 DEF Register, readVars, Goto
<1>12. ASSUME NEW t \in Thread, ReadHeaders(t) PROVE DrainedIsSeen'
  BY <1>12 DEF ReadHeaders, stateVars
<1>13. ASSUME NEW t \in Thread, ReadBody(t) PROVE DrainedIsSeen'
  BY <1>13 DEF ReadBody, stateVars, Goto, Close
<1>14. ASSUME NEW t \in Thread, split_brigade(t) PROVE DrainedIsSeen'
  BY <1>14 DEF split_brigade, stateVars
<1>15. ASSUME NEW t \in Thread, ParseEof(t) PROVE DrainedIsSeen'
  BY <1>15 DEF ParseEof, stateVars, Close, Goto
<1>16. ASSUME NEW t \in Thread, NoMoreData(t) PROVE DrainedIsSeen'
  BY <1>16 DEF NoMoreData, Exhausted, stateVars, Goto
<1>17. ASSUME NEW t \in Thread, ReadFailed(t) PROVE DrainedIsSeen'
  BY <1>17 DEF ReadFailed, stateVars, Goto
<1>18. ASSUME NEW t \in Thread, BeginClose(t) PROVE DrainedIsSeen'
  BY <1>18 DEF BeginClose, readVars, stateVars, Close, Goto
<1>19. ASSUME NEW t \in Thread, Disconnecting(t) PROVE DrainedIsSeen'
  BY <1>19 DEF Disconnecting, readVars, Goto
<1>20. ASSUME NEW t \in Thread, RemovePoll(t) PROVE DrainedIsSeen'
  BY <1>20 DEF RemovePoll, readVars, Goto
<1>21. ASSUME NEW t \in Thread, Disconnected(t) PROVE DrainedIsSeen'
  BY <1>21 DEF Disconnected, Goto
<1> QED
  BY <1>1, <1>2, <1>3, <1>4, <1>5, <1>6, <1>7, <1>8, <1>9, <1>10, <1>11, <1>12, <1>13, <1>14,
     <1>15, <1>16, <1>17, <1>18, <1>19, <1>20, <1>21
  DEF TcpNext, ReadStep, ProcessStep, CloseStep

----------------------------------------------------------------------------
\* The stream is a sequence of pieces, and its pieces are what split_headers and
\* split_message look for.
LEMMA StreamPieces ==
  /\ Len(Messages) \in Nat /\ \A i \in 1 .. Len(Messages) : Messages[i] \in ToSet(Messages)
  /\ Stream \in Seq(ToSet(Stream)) /\ Len(Stream) = 1 + 2 * Len(Messages)
  /\ Stream[1] = Welcome
  /\ \A k \in 1 .. Len(Messages) : Stream[2 * k + 1] = <<"body", Messages[k]>>
  /\ End \in {Len(Stream), Len(Stream) + 1}
<1>1. Messages \in Seq(ToSet(Messages)) /\ RemoteCloses \in BOOLEAN
  BY ConnectionAssumption DEF ConnectionAssumption
<1>2. Len(Messages) \in Nat /\ DOMAIN Messages = 1 .. Len(Messages)
  BY <1>1
<1>3. \A i \in 1 .. Len(Messages) : Messages[i] \in ToSet(Messages)
  BY <1>2 DEF ToSet
<1>4. DOMAIN Stream = 1 .. 1 + 2 * Len(Messages)
  BY DEF Stream
<1>5. Stream \in Seq(ToSet(Stream)) /\ Len(Stream) = 1 + 2 * Len(Messages)
  <2>1. Stream \in [1 .. 1 + 2 * Len(Messages) -> ToSet(Stream)]
    BY <1>4 DEF Stream, ToSet
  <2>2. 1 + 2 * Len(Messages) \in Nat
    BY <1>2
  <2> QED BY <2>1, <2>2
<1>6. Stream[1] = Welcome
  BY <1>2 DEF Stream
<1>7. ASSUME NEW k \in 1 .. Len(Messages) PROVE Stream[2 * k + 1] = <<"body", Messages[k]>>
  <2>1. /\ 2 * k + 1 \in 1 .. 1 + 2 * Len(Messages) /\ 2 * k + 1 # 1
        /\ (2 * k + 1) % 2 # 0 /\ (2 * k + 1) \div 2 = k
    BY <1>2
  <2> QED BY <2>1 DEF Stream
<1>8. End \in {Len(Stream), Len(Stream) + 1}
  BY <1>1, <1>5 DEF End
<1> QED BY <1>2, <1>3, <1>5, <1>6, <1>7, <1>8

LEMMA ParsedNat == PlacesOK /\ StreamInv => Parsed \in Nat /\ Len(delivered) \in Nat
BY DEF PlacesOK, StreamInv, Parsed

\* Reading more from the socket continues the brigade.
LEMMA Continues ==
  ASSUME PlacesOK, StreamInv, connection_state # "DISCONNECTED",
         NEW n \in unread .. End, ReadUpTo(n)
  PROVE  /\ n \in 0 .. End /\ Parsed <= Lesser(n, Len(Stream))
         /\ brigade' = SubSeq(Stream, Parsed + 1, Lesser(n, Len(Stream)))
<1>1. /\ Parsed \in Nat /\ Len(Stream) \in Nat /\ End \in {Len(Stream), Len(Stream) + 1}
      /\ unread \in 0 .. End /\ n \in unread .. End /\ n \in 0 .. End
  BY ParsedNat, StreamPieces DEF StreamInv
<1>2. /\ Parsed <= Lesser(unread, Len(Stream))
      /\ brigade = SubSeq(Stream, Parsed + 1, Lesser(unread, Len(Stream)))
      /\ brigade' = brigade \o SubSeq(Stream, unread + 1, Lesser(n, Len(Stream)))
  BY DEF StreamInv, ReadUpTo
<1>3. CASE unread <= Len(Stream)
  <2>1. /\ Lesser(unread, Len(Stream)) = unread /\ Lesser(n, Len(Stream)) \in unread .. Len(Stream)
        /\ Parsed + 1 \in 1 .. Len(Stream) + 1 /\ unread \in Parsed + 1 - 1 .. Len(Stream)
        /\ Parsed <= Lesser(n, Len(Stream))
    BY <1>1, <1>2, <1>3 DEF Lesser
  <2>2. SubSeq(Stream, Parsed + 1, unread) \o SubSeq(Stream, unread + 1, Lesser(n, Len(Stream)))
          = SubSeq(Stream, Parsed + 1, Lesser(n, Len(Stream)))
    <3> DEFINE next == Parsed + 1
               top  == Lesser(n, Len(Stream))
    <3>1. Stream \in Seq(ToSet(Stream))
      BY StreamPieces
    <3>3. /\ next \in 1 .. Len(Stream) + 1 /\ unread \in next - 1 .. Len(Stream)
          /\ top \in unread .. Len(Stream)
      BY <1>1, <2>1
    <3> HIDE DEF next, top
    <3>2. SubSeq(Stream, next, unread) \o SubSeq(Stream, unread + 1, top) = SubSeq(Stream, next, top)
      BY <3>1, <3>3, ConcatAdjacentSubSeq
    <3> QED BY <3>2 DEF next, top
  <2> QED BY <1>1, <1>2, <2>1, <2>2
<1>4. CASE ~ (unread <= Len(Stream))
  <2>1. /\ Lesser(unread, Len(Stream)) = Len(Stream) /\ Lesser(n, Len(Stream)) = Len(Stream)
        /\ unread + 1 \in Int /\ Len(Stream) \in Int /\ Len(Stream) < unread + 1
    BY <1>1, <1>4 DEF Lesser
  <2>2. SubSeq(Stream, unread + 1, Lesser(n, Len(Stream))) = <<>>
    BY <2>1, SubSeqEmpty
  <2>3. brigade \in Seq(ToSet(Stream))
    <3>1. \A i \in Parsed + 1 .. Len(Stream) : Stream[i] \in ToSet(Stream)
      BY <1>1, StreamPieces
    <3> QED BY <1>1, <1>2, <2>1, <3>1, SubSeqProperties
  <2> QED BY <1>1, <1>2, <2>1, <2>2, <2>3, ConcatEmptySeq
<1> QED BY <1>3, <1>4

\* The first piece of the brigade is the next of the stream.
LEMMA NextPiece ==
  ASSUME PlacesOK, StreamInv, brigade # <<>>
  PROVE  /\ connection_state # "DISCONNECTED"
         /\ Parsed + 1 <= Lesser(unread, Len(Stream)) /\ Parsed + 1 \in 1 .. Len(Stream)
         /\ Head(brigade) = Stream[Parsed + 1]
         /\ Tail(brigade) = SubSeq(Stream, Parsed + 1 + 1, Lesser(unread, Len(Stream)))
<1>1. /\ Parsed \in Nat /\ Len(Stream) \in Nat /\ unread \in 0 .. End
      /\ End \in {Len(Stream), Len(Stream) + 1}
  BY ParsedNat, StreamPieces DEF StreamInv
<1>2. /\ connection_state # "DISCONNECTED"
      /\ brigade = SubSeq(Stream, Parsed + 1, Lesser(unread, Len(Stream)))
  BY DEF StreamInv
<1>3. Lesser(unread, Len(Stream)) \in 0 .. Len(Stream)
  BY <1>1 DEF Lesser
<1>4. ~ (Lesser(unread, Len(Stream)) < Parsed + 1)
  <2>1. Parsed + 1 \in Int /\ Lesser(unread, Len(Stream)) \in Int
    BY <1>1, <1>3
  <2> QED BY <1>2, <2>1, SubSeqEmpty
<1>5. /\ Parsed + 1 \in 1 .. Len(Stream)
      /\ Lesser(unread, Len(Stream)) \in Parsed + 1 .. Len(Stream)
  BY <1>1, <1>3, <1>4
<1>6. /\ Head(SubSeq(Stream, Parsed + 1, Lesser(unread, Len(Stream)))) = Stream[Parsed + 1]
      /\ Tail(SubSeq(Stream, Parsed + 1, Lesser(unread, Len(Stream))))
           = SubSeq(Stream, Parsed + 1 + 1, Lesser(unread, Len(Stream)))
  <2> HIDE DEF Parsed
  <2>1. Stream \in Seq(ToSet(Stream))
    BY StreamPieces
  <2> QED BY <1>5, <2>1, HeadTailOfSubSeq
<1>7. Parsed + 1 <= Lesser(unread, Len(Stream))
  BY <1>5
<1> QED BY <1>2, <1>5, <1>6, <1>7

\* What was parsed and what is in the brigade go on making up the stream.
LEMMA StreamNext ==
  ASSUME PlacesOK, StreamInv, TcpNext
  PROVE  StreamInv'
<1> USE DEF StreamInv
<1>1. ASSUME UNCHANGED <<its_welcome, ctx_msg, brigade, unread, delivered>>,
             connection_state' = "DISCONNECTED" <=> connection_state = "DISCONNECTED"
      PROVE  StreamInv'
  BY <1>1 DEF Parsed
<1>2. CASE tcp_connection_start_socket
  BY <1>1, <1>2 DEF tcp_connection_start_socket, readVars
<1>3. ASSUME NEW t \in Thread, drain_socket(t) \/ split_brigade(t) PROVE StreamInv'
  <2>1. /\ connection_state # "DISCONNECTED" /\ UNCHANGED <<connection_state, its_welcome, ctx_msg, delivered>>
        /\ \E n \in unread .. End : ReadUpTo(n)
    <3>1. unread \in Nat /\ Len(Stream) \in Nat /\ End \in {Len(Stream), Len(Stream) + 1}
      BY StreamPieces
    <3>2. \A n \in unread + 1 .. Len(Stream) : n \in unread .. End
      BY <3>1
    <3> QED BY <1>3, <3>2 DEF drain_socket, split_brigade, stateVars
  <2>2. PICK n \in unread .. End : ReadUpTo(n)
    BY <2>1
  <2>3. unread' = n /\ Parsed' = Parsed
    BY <2>1, <2>2 DEF ReadUpTo, Parsed
  <2>4. /\ n \in 0 .. End /\ Parsed <= Lesser(n, Len(Stream))
        /\ brigade' = SubSeq(Stream, Parsed + 1, Lesser(n, Len(Stream)))
    BY <2>1, <2>2, Continues
  <2> HIDE DEF Parsed
  <2> QED BY <2>1, <2>3, <2>4
<1>4. ASSUME NEW t \in Thread, process_welcome(t) PROVE StreamInv'
  <2>1. CASE Head(brigade) = Welcome
    <3>1. /\ its_welcome' = TRUE /\ brigade' = Tail(brigade) /\ connection_state' = "CONNECTED"
          /\ ~ its_welcome /\ brigade # <<>> /\ UNCHANGED <<ctx_msg, unread, delivered>>
      BY <1>4, <2>1 DEF process_welcome
    <3>2. Parsed' = Parsed + 1
      BY <3>1 DEF Parsed
    <3> QED BY <3>1, <3>2, NextPiece
  <2>2. CASE Head(brigade) # Welcome
    BY <1>4, <1>1, <2>2 DEF process_welcome
  <2> QED BY <2>1, <2>2
<1>5. ASSUME NEW t \in Thread, ReadHeaders(t) PROVE StreamInv'
  <2>1. /\ its_welcome /\ ctx_msg = "none" /\ brigade # <<>> /\ ctx_msg' = "headers"
        /\ brigade' = Tail(brigade) /\ UNCHANGED <<its_welcome, unread, connection_state, delivered>>
    BY <1>5 DEF ReadHeaders, stateVars
  <2>2. Parsed' = Parsed + 1
    BY <2>1, ParsedNat DEF Parsed
  <2> QED BY <2>1, <2>2, NextPiece
<1>6. ASSUME NEW t \in Thread, ReadBody(t) PROVE StreamInv'
  <2>1. /\ its_welcome /\ ctx_msg \in {"headers", "spoiled"} /\ brigade # <<>>
        /\ UNCHANGED <<its_welcome, unread, connection_state>>
    BY <1>6 DEF ReadBody, stateVars, PlacesOK
  <2>2. CASE ctx_msg = "spoiled"
    <3>1. UNCHANGED <<brigade, ctx_msg, delivered>>
      BY <1>6, <2>2 DEF ReadBody
    <3> QED BY <1>1, <2>1, <3>1
  <2>3. CASE ctx_msg = "headers" /\ ctx_msg' = "spoiled"
    <3>1. brigade' = Tail(brigade) /\ UNCHANGED delivered
      BY <1>6, <2>3 DEF ReadBody
    <3>2. Parsed' = Parsed + 1
      BY <2>1, <2>3, <3>1, ParsedNat DEF Parsed
    <3> QED BY <2>1, <3>1, <3>2, NextPiece
  <2>4. CASE ctx_msg = "headers" /\ ctx_msg' = "none"
    <3> DEFINE k == Len(delivered) + 1
    <3>1. /\ brigade' = Tail(brigade)
          /\ delivered' = Append(delivered, Head(brigade)[2])
      BY <1>6, <2>4 DEF ReadBody
    <3>2. Parsed + 1 = 2 * k + 1 /\ k \in Nat
      BY <2>1, <2>4, ParsedNat DEF Parsed
    <3>3. k \in 1 .. Len(Messages)
      BY <2>1, <3>2, NextPiece, StreamPieces, ParsedNat
    <3>4. Head(brigade)[2] = Messages[k] /\ Messages[k] \in ToSet(Messages)
      BY <2>1, <3>2, <3>3, NextPiece, StreamPieces
    <3>5. delivered' \in Seq(ToSet(Messages)) /\ Len(delivered') = k /\ IsPrefix(delivered', Messages)
      BY <3>1, <3>3, <3>4 DEF IsPrefix
    <3>6. Parsed' = Parsed + 1
      BY <2>1, <2>4, <3>1, <3>2, <3>5 DEF Parsed
    <3> QED BY <2>1, <3>1, <3>5, <3>6, NextPiece
  <2>5. ctx_msg' \in {"none", "spoiled"}
    BY <1>6 DEF ReadBody
  <2> QED BY <2>1, <2>2, <2>3, <2>4, <2>5
<1>7. ASSUME NEW t \in Thread, ParseEof(t) PROVE StreamInv'
  <2>1. /\ unread' = End /\ unread >= Len(Stream)
        /\ UNCHANGED <<connection_state, its_welcome, ctx_msg, brigade, delivered>>
    BY <1>7 DEF ParseEof, stateVars
  <2>2. Len(Stream) \in Nat /\ End \in {Len(Stream), Len(Stream) + 1} /\ unread \in 0 .. End
    BY StreamPieces
  <2>3. Lesser(unread', Len(Stream)) = Lesser(unread, Len(Stream)) /\ unread' \in 0 .. End
    BY <2>1, <2>2 DEF Lesser
  <2>4. Parsed' = Parsed
    BY <2>1 DEF Parsed
  <2> QED BY <2>1, <2>3, <2>4
<1>8. ASSUME NEW t \in Thread, Disconnected(t) PROVE StreamInv'
  BY <1>8 DEF Disconnected
<1>9. ASSUME NEW t \in Thread,
             \/ Readable(t) \/ DrainNothing(t) \/ TestDispatched(t) \/ PushProcessData(t)
             \/ TakeTask(t) \/ Enter(t) \/ emit_event(t) \/ Register(t) \/ NoMoreData(t)
             \/ ReadFailed(t) \/ BeginClose(t) \/ Disconnecting(t) \/ RemovePoll(t)
      PROVE  StreamInv'
  BY <1>1, <1>9 DEF Readable, DrainNothing, TestDispatched, PushProcessData, TakeTask, Enter,
     emit_event, Register, NoMoreData, ReadFailed, BeginClose, Disconnecting, RemovePoll,
     readVars, stateVars
<1> QED
  BY <1>2, <1>3, <1>4, <1>5, <1>6, <1>7, <1>8, <1>9 DEF TcpNext, ReadStep, ProcessStep,
     CloseStep
----------------------------------------------------------------------------
LEMMA ReadingInvInit == TcpInit => ReadingInv
<1> SUFFICES ASSUME TcpInit PROVE ReadingInv
  OBVIOUS
<1>1. PlacesOK
  BY DEF TcpInit, PlacesOK, Thread, Spot, Closing, Polling, Working
<1>2. LockHeld /\ OneTask /\ StaysClosed /\ DrainedIsSeen
  BY DEF TcpInit, LockHeld, OneTask, StaysClosed, DrainedIsSeen, Place, HasTask, Thread, Closing
<1>3. StreamInv
  <2>1. Parsed = 0 /\ unread = 0 /\ brigade = <<>> /\ delivered = <<>>
    BY DEF TcpInit, Parsed
  <2>2. /\ Len(Stream) \in Nat /\ End \in {Len(Stream), Len(Stream) + 1} /\ Len(Messages) \in Nat
    BY StreamPieces
  <2>3. Lesser(unread, Len(Stream)) = 0
    BY <2>1, <2>2 DEF Lesser
  <2>4. SubSeq(Stream, 1, 0) = <<>>
    BY SubSeqEmpty
  <2>5. delivered \in Seq(ToSet(Messages)) /\ IsPrefix(delivered, Messages)
    BY <2>1, <2>2 DEF IsPrefix
  <2> QED BY <2>1, <2>2, <2>3, <2>4, <2>5 DEF StreamInv, TcpInit
<1> QED BY <1>1, <1>2, <1>3 DEF ReadingInv

LEMMA ReadingInvNext == ReadingInv /\ [TcpNext]_tcpVars => ReadingInv'
<1>1. ReadingInv /\ TcpNext => ReadingInv'
  BY PlacesNext, LockNext, OneTaskNext, StaysClosedNext, DrainedNext, StreamNext DEF ReadingInv
<1>2. ReadingInv /\ UNCHANGED tcpVars => ReadingInv'
  BY DEF tcpVars, readVars, stateVars, ReadingInv, PlacesOK, LockHeld, OneTask, StaysClosed,
         DrainedIsSeen, StreamInv, Place, HasTask, Parsed
<1> QED BY <1>1, <1>2

LEMMA ReadingInvAlways == TcpSpec => []ReadingInv
BY ReadingInvInit, ReadingInvNext, PTL DEF TcpSpec
----------------------------------------------------------------------------
(***************************************************************************)
(* process_data: assert(me->dispatched).  read_cb of two pollers never     *)
(* starts a second process_data, although the flag is reset by a worker    *)
(* that does not have reading_lock when a message could not be read.       *)
(***************************************************************************)
THEOREM OneProcessorTheorem == TcpSpec => []OneProcessor
<1>1. ReadingInv => OneProcessor
  <2> SUFFICES ASSUME ReadingInv PROVE OneProcessor
    OBVIOUS
  <2> DEFINE P == {t \in Processing : pc[t] # "failed"}
  <2>1. \A t, u \in P : t = u /\ HasTask(t) /\ t \in Thread
    BY DEF ReadingInv, OneTask, HasTask, Processing, Thread
  <2>2. CASE P = {}
    <3>1. Cardinality(P) = 0
      BY <2>2, FS_EmptySet
    <3> QED BY <3>1, <2>1 DEF OneProcessor, ReadingInv, PlacesOK, OneTask, HasTask, Thread
  <2>3. CASE P # {}
    <3>1. PICK t \in P : P = {t}
      BY <2>1, <2>3
    <3>2. Cardinality(P) = 1
      BY <3>1, FS_Singleton
    <3>3. pushed = 0
      BY <2>1, <3>1 DEF ReadingInv, PlacesOK, OneTask
    <3> QED BY <3>2, <3>3 DEF OneProcessor, ReadingInv, OneTask, HasTask, Thread
  <2> QED BY <2>2, <2>3
<1> QED BY <1>1, ReadingInvAlways, PTL

(***************************************************************************)
(* read_cb that finds the flag set leaves its data to the process_data     *)
(* that set it, and process_data resets the flag with nothing left to      *)
(* parse: while the connection is open nothing that was drained is lost.   *)
(***************************************************************************)
THEOREM NothingStrandedTheorem == TcpSpec => []NothingStranded
<1>1. ReadingInv => NothingStranded
  <2> SUFFICES ASSUME ReadingInv, connection_state \in {"CONNECTING", "CONNECTED"}, brigade # <<>>
               PROVE  \/ pushed > 0 \/ Processing # {}
                      \/ \E t \in Poller : pc[t] \in {"drained", "drained_eof", "push", "close"}
    BY DEF NothingStranded
  <2> USE DEF ReadingInv, StaysClosed, Closed
  <2>1. CASE dispatched
    <3>1. pushed # 0 \/ \E t \in Thread : HasTask(t)
      BY <2>1
    <3> QED BY <3>1 DEF HasTask, Processing, PlacesOK
  <2>2. CASE ~ dispatched
    <3>1. PICK t \in Poller : Place(t) \in {"drained", "drained_eof"}
      BY <2>2 DEF DrainedIsSeen
    <3>2. pc[t] \in {"drained", "drained_eof", "close"}
      BY <3>1 DEF Place, Closing, PlacesOK, Thread
    <3> QED BY <3>2
  <2> QED BY <2>1, <2>2 DEF PlacesOK
<1> QED BY <1>1, ReadingInvAlways, PTL

(***************************************************************************)
(* The endpoint gets the messages in the order of the stream, none twice   *)
(* and none but the last ones left out, whoever drains the socket, whoever *)
(* closes the connection, and whichever message cannot be read.            *)
(***************************************************************************)
THEOREM DeliveredTheorem == TcpSpec => []DeliveredInOrder
<1>1. ReadingInv => DeliveredInOrder
  BY DEF ReadingInv, StreamInv, DeliveredInOrder
<1> QED BY <1>1, ReadingInvAlways, PTL

------------------------------------------------------------------------------
(***************************************************************************)
(* A message is sent to its client once at most, for any clients, leases,  *)
(* limits and faults.                                                      *)
(*                                                                         *)
(* A client may have two leases, so that the passes of the sending thread  *)
(* and the sweep do not see to it.  The invariant says that a message is   *)
(* in one archive, once, and there only while it was not sent; and a new   *)
(* message is in none.                                                     *)
(***************************************************************************)

\* The messages of one archive, and those of all archives of a vector.
Ids(s) == {s[j].id : j \in DOMAIN s}
All(v) == UNION {Ids(v[i].stored) : i \in DOMAIN v}

\* No message is twice in an archive, or in two archives.
Once(s) == \A j, n \in DOMAIN s : s[j].id = s[n].id => j = n
OncePlaced(v) ==
  /\ \A i \in DOMAIN v : Once(v[i].stored)
  /\ \A i, k \in DOMAIN v : i # k => Ids(v[i].stored) \cap Ids(v[k].stored) = {}

\* The states of the sending thread.
Threads ==
  [pc : {"wake", "send", "check", "nap", "wait", "expiry", "sweep"}, at : Nat \ {0}, all : BOOLEAN]

StoreType ==
  /\ leases \in Seq(Lease) /\ old \in Seq(Lease)
  /\ thread \in Threads
  /\ fate \in [Msg -> {"new", "refused", "stored"}] /\ got \in [Msg -> Nat]

\* Where messages are, and how often those were sent.
PlacedInv ==
  /\ OncePlaced(leases) /\ OncePlaced(old) /\ All(leases) \cap All(old) = {}
  /\ \A id \in Msg : /\ got[id] <= 1
                     /\ id \in All(leases) \cup All(old) => got[id] = 0
                     /\ fate[id] = "new" => got[id] = 0 /\ id \notin All(leases) \cup All(old)

SentInv == StoreType /\ PlacedInv
-----------------------------------------------------------------------------
\* Facts about lists.

\* A nonempty set of natural numbers has a least element.
LEMMA LeastOf ==
  ASSUME NEW S \in SUBSET Nat, S # {}
  PROVE  \E m \in S : \A n \in S : m <= n
<1>1. PICK m \in S : \A n \in S : ~ (<<n, m>> \in OpToRel(<, Nat))
  BY NatLessThanWellFounded, WFMin
<1>2. \A n \in S : ~ (n < m)
  BY <1>1 DEF OpToRel
<1> QED BY <1>2

\* A list without one of its elements.
LEMMA RemoveAtProperties ==
  ASSUME NEW S, NEW s \in Seq(S), NEW i \in 1 .. Len(s)
  PROVE  /\ RemoveAt(s, i) \in Seq(S)
         /\ Len(RemoveAt(s, i)) = Len(s) - 1
         /\ \A k \in 1 .. Len(s) - 1 : RemoveAt(s, i)[k] = IF k < i THEN s[k] ELSE s[k + 1]
<1> DEFINE front == SubSeq(s, 1, i - 1)
           rear  == SubSeq(s, i + 1, Len(s))
<1>1. Len(s) \in Nat /\ i \in Nat /\ i >= 1 /\ i <= Len(s)
  BY LenProperties
<1>2. front \in Seq(S) /\ Len(front) = i - 1 /\ \A k \in 1 .. i - 1 : front[k] = s[k]
  <2>1. \A k \in 1 .. i - 1 : s[k] \in S
    BY <1>1, ElementOfSeq
  <2> QED BY <2>1, <1>1, SubSeqProperties
<1>3. rear \in Seq(S) /\ Len(rear) = Len(s) - i
      /\ \A k \in 1 .. Len(s) - i : rear[k] = s[i + k]
  <2>1. \A k \in i + 1 .. Len(s) : s[k] \in S
    BY <1>1, ElementOfSeq
  <2>2. /\ rear \in Seq(S)
        /\ Len(rear) = IF i + 1 <= Len(s) THEN Len(s) - (i + 1) + 1 ELSE 0
        /\ \A k \in 1 .. Len(s) - (i + 1) + 1 : rear[k] = s[i + 1 + k - 1]
    BY <2>1, <1>1, SubSeqProperties
  <2> HIDE DEF rear
  <2> QED BY <2>2, <1>1
<1> HIDE DEF front, rear
<1>4. /\ front \o rear \in Seq(S)
      /\ Len(front \o rear) = Len(front) + Len(rear)
      /\ \A k \in 1 .. Len(front) + Len(rear) :
           (front \o rear)[k] = IF k <= Len(front) THEN front[k] ELSE rear[k - Len(front)]
  BY <1>2, <1>3, ConcatProperties
<1>5. RemoveAt(s, i) = front \o rear
  BY DEF RemoveAt, front, rear
<1>6. Len(front) + Len(rear) = Len(s) - 1
  BY <1>1, <1>2, <1>3
<1>7. ASSUME NEW k \in 1 .. Len(s) - 1
      PROVE  (front \o rear)[k] = IF k < i THEN s[k] ELSE s[k + 1]
  <2>1. (front \o rear)[k] = IF k <= i - 1 THEN front[k] ELSE rear[k - (i - 1)]
    BY <1>2, <1>4, <1>6
  <2>2. CASE k < i
    BY <2>1, <2>2, <1>1, <1>2
  <2>3. CASE ~ (k < i)
    <3>1. k - (i - 1) \in 1 .. Len(s) - i /\ i + (k - (i - 1)) = k + 1 /\ ~ (k <= i - 1)
      BY <2>3, <1>1
    <3> QED BY <2>1, <2>3, <3>1, <1>3
  <2> QED BY <2>2, <2>3
<1> QED BY <1>4, <1>5, <1>6, <1>7

(***************************************************************************)
(* Without(s, S) takes its elements from different places of s that are    *)
(* not in S.                                                               *)
(***************************************************************************)
LEMMA WithoutTakes ==
  ASSUME NEW T, NEW s \in Seq(T), NEW S
  PROVE  /\ Without(s, S) \in Seq(T)
         /\ \E place \in [DOMAIN Without(s, S) -> DOMAIN s \ S] :
              /\ \A m, n \in DOMAIN Without(s, S) : place[m] = place[n] => m = n
              /\ \A n \in DOMAIN Without(s, S) : Without(s, S)[n] = s[place[n]]
<1> DEFINE L    == Len(s)
           K    == DOMAIN s \ S
           C    == Cardinality(K)
           U(i) == {k \in K : k <= i}
           upTo == [i \in 0 .. L |-> Cardinality(U(i))]
           at(n) == CHOOSE i \in K : Cardinality(U(i)) = n
           place == [n \in 1 .. C |-> at(n)]
           kept  == [n \in 1 .. C |-> s[at(n)]]
<1>1. DOMAIN s = 1 .. L /\ L \in Nat /\ \A i \in 1 .. L : s[i] \in T
  BY LenProperties, ElementOfSeq
<1>2. Without(s, S) = kept
  BY DEF Without
<1>3. IsFiniteSet(K) /\ C \in Nat /\ \A k \in K : k \in 1 .. L /\ k \in Nat /\ 1 <= k /\ k <= L
  <2>1. IsFiniteSet(1 .. L)
    BY <1>1, FS_Interval
  <2>2. IsFiniteSet(K) /\ C \in Nat
    BY <2>1, <1>1, FS_Subset, FS_CardinalityType
  <2>3. \A k \in K : k \in 1 .. L /\ k \in Nat /\ 1 <= k /\ k <= L
    BY <1>1
  <2> HIDE DEF K, L
  <2> QED BY <2>2, <2>3
<1>4. K = DOMAIN s \ S
  OBVIOUS
<1> HIDE DEF K, L
<1>5. ASSUME NEW i
      PROVE  IsFiniteSet(U(i)) /\ Cardinality(U(i)) \in Nat /\ Cardinality(U(i)) <= C
  BY <1>3, FS_Subset, FS_CardinalityType
<1>6. upTo \in [0 .. L -> Nat] /\ \A i \in 0 .. L : upTo[i] <= C
  BY <1>5
<1>7. upTo[0] = 0 /\ upTo[L] = C
  <2>1. U(L) = K /\ U(0) = {}
    BY <1>1, <1>3
  <2>2. Cardinality(U(L)) = C /\ Cardinality(U(0)) = 0
    BY <2>1, FS_EmptySet
  <2> QED BY <2>2, <1>1
<1>8. ASSUME NEW i \in 1 .. L
      PROVE  upTo[i] = IF i \in K THEN upTo[i - 1] + 1 ELSE upTo[i - 1]
  <2>1. i \in 0 .. L /\ i - 1 \in 0 .. L
    BY <1>1
  <2>2. upTo[i] = Cardinality(U(i)) /\ upTo[i - 1] = Cardinality(U(i - 1))
    BY <2>1
  <2>3. \A k \in K : k <= i <=> k <= i - 1 \/ k = i
    BY <1>1, <1>3
  <2>4. CASE i \in K
    <3>1. U(i) = U(i - 1) \cup {i} /\ i \notin U(i - 1)
      <4>1. ~ (i <= i - 1)
        BY <1>1
      <4> QED BY <2>3, <2>4, <4>1
    <3>2. Cardinality(U(i)) = Cardinality(U(i - 1)) + 1
      <4> HIDE DEF U
      <4> QED BY <3>1, <1>5, FS_AddElement
    <3> QED BY <2>2, <2>4, <3>2
  <2>5. CASE i \notin K
    <3>1. U(i) = U(i - 1)
      BY <2>3, <2>5, <1>3
    <3> QED BY <2>2, <2>5, <3>1
  <2> QED BY <2>4, <2>5
<1>9. \A n \in 1 .. C : place[n] = CHOOSE i \in K : upTo[i] = n
  <2>1. \A i \in K : upTo[i] = Cardinality(U(i))
    BY <1>3, <1>1
  <2>2. ASSUME NEW n PROVE at(n) = CHOOSE i \in K : upTo[i] = n
    BY <2>1
  <2> QED BY <2>2
<1>10. /\ kept = [n \in 1 .. C |-> s[place[n]]]
       /\ place \in [1 .. C -> {at(n) : n \in 1 .. C}]
  <2> HIDE DEF at
  <2> QED OBVIOUS
<1> HIDE DEF upTo, place, kept, C
<1>11. ASSUME NEW n \in 1 .. C PROVE \E i \in K : upTo[i] = n
  <2> DEFINE R == {i \in 0 .. L : upTo[i] >= n}
  <2>1. L \in R /\ R \in SUBSET Nat
    BY <1>1, <1>3, <1>7
  <2>2. PICK i \in R : \A j \in R : i <= j
    BY <2>1, LeastOf
  <2>3. i # 0
    BY <1>7, <1>3, <2>2
  <2>4. i \in 1 .. L /\ i - 1 \in 0 .. L /\ i - 1 \notin R
    BY <2>2, <2>3, <1>1
  <2>5. upTo[i] >= n /\ upTo[i - 1] < n /\ upTo[i] \in Nat /\ upTo[i - 1] \in Nat
    BY <2>2, <2>4, <1>6, <1>3
  <2>6. upTo[i] = IF i \in K THEN upTo[i - 1] + 1 ELSE upTo[i - 1]
    BY <2>4, <1>8
  <2>7. i \in K /\ upTo[i] = n
    BY <2>5, <2>6, <1>3
  <2> QED BY <2>7
<1>12. \A n \in 1 .. C : place[n] \in K /\ upTo[place[n]] = n
  BY <1>9, <1>11
<1>13. place \in [1 .. C -> K]
  <2> HIDE DEF at
  <2> QED BY <1>10, <1>12
<1>14. \A m, n \in 1 .. C : place[m] = place[n] => m = n
  BY <1>12
<1>15. kept \in Seq(T) /\ DOMAIN kept = 1 .. C
  <2>1. kept \in [1 .. C -> T]
    BY <1>1, <1>3, <1>10, <1>13
  <2> QED BY <2>1, <1>3
<1>16. \A n \in 1 .. C : kept[n] = s[place[n]]
  BY <1>10
<1>17. \E f \in [DOMAIN kept -> DOMAIN s \ S] :
         /\ \A m, n \in DOMAIN kept : f[m] = f[n] => m = n
         /\ \A n \in DOMAIN kept : kept[n] = s[f[n]]
  <2>1. place \in [DOMAIN kept -> DOMAIN s \ S]
    BY <1>4, <1>13, <1>15
  <2>2. /\ \A m, n \in DOMAIN kept : place[m] = place[n] => m = n
        /\ \A n \in DOMAIN kept : kept[n] = s[place[n]]
    BY <1>14, <1>15, <1>16
  <2> QED BY <2>1, <2>2
<1> QED BY <1>2, <1>15, <1>17
-----------------------------------------------------------------------------
\* Facts about archives and vectors of leases.

\* What is taken out of an archive is not in it any more.
LEMMA WithoutIds ==
  ASSUME NEW T, NEW s \in Seq(T), NEW S, Once(s)
  PROVE  /\ Once(Without(s, S)) /\ Ids(Without(s, S)) \subseteq Ids(s)
         /\ \A i \in DOMAIN s \cap S : s[i].id \notin Ids(Without(s, S))
<1> DEFINE kept == Without(s, S)
<1>1. PICK place \in [DOMAIN kept -> DOMAIN s \ S] :
        /\ \A m, n \in DOMAIN kept : place[m] = place[n] => m = n
        /\ \A n \in DOMAIN kept : kept[n] = s[place[n]]
  BY WithoutTakes
<1> HIDE DEF kept
<1>2. \A n \in DOMAIN kept : place[n] \in DOMAIN s /\ place[n] \notin S
  BY <1>1
<1>3. Once(kept)
  BY <1>1, <1>2 DEF Once
<1>4. Ids(kept) \subseteq Ids(s)
  BY <1>1, <1>2 DEF Ids
<1>5. \A i \in DOMAIN s \cap S : s[i].id \notin Ids(kept)
  BY <1>1, <1>2 DEF Once, Ids
<1> QED BY <1>3, <1>4, <1>5 DEF kept

\* A vector whose archives come from different ones of another, with no more in them.
LEMMA Thinned ==
  ASSUME NEW u, NEW v, NEW f \in [DOMAIN v -> DOMAIN u], OncePlaced(u),
         \A i, k \in DOMAIN v : f[i] = f[k] => i = k,
         \A i \in DOMAIN v : Once(v[i].stored) /\ Ids(v[i].stored) \subseteq Ids(u[f[i]].stored)
  PROVE  OncePlaced(v) /\ All(v) \subseteq All(u)
<1>1. ASSUME NEW i \in DOMAIN v, NEW k \in DOMAIN v, i # k
      PROVE  Ids(v[i].stored) \cap Ids(v[k].stored) = {}
  <2>1. f[i] \in DOMAIN u /\ f[k] \in DOMAIN u /\ f[i] # f[k]
    BY <1>1
  <2>2. Ids(u[f[i]].stored) \cap Ids(u[f[k]].stored) = {}
    BY <2>1 DEF OncePlaced
  <2> QED BY <2>2
<1>2. OncePlaced(v)
  BY <1>1 DEF OncePlaced
<1>3. All(v) \subseteq All(u)
  BY DEF All
<1> QED BY <1>2, <1>3

\* A lease at the end, with messages of its own.
LEMMA Appended ==
  ASSUME NEW v \in Seq(Lease), NEW l \in Lease, OncePlaced(v),
         Once(l.stored), Ids(l.stored) \cap All(v) = {}
  PROVE  /\ Append(v, l) \in Seq(Lease)
         /\ OncePlaced(Append(v, l)) /\ All(Append(v, l)) = All(v) \cup Ids(l.stored)
<1> DEFINE w == Append(v, l)
           n == Len(v) + 1
<1>1. /\ w \in Seq(Lease) /\ DOMAIN v = 1 .. Len(v) /\ Len(v) \in Nat
      /\ DOMAIN w = DOMAIN v \cup {n} /\ n \notin DOMAIN v
      /\ w[n] = l /\ \A i \in DOMAIN v : w[i] = v[i]
  BY LenProperties
<1> HIDE DEF w, n
<1>2. \A i \in DOMAIN v : Ids(l.stored) \cap Ids(v[i].stored) = {}
  BY DEF All
<1>3. \A i \in DOMAIN w : Once(w[i].stored)
  BY <1>1 DEF OncePlaced
<1>4. ASSUME NEW i \in DOMAIN w, NEW k \in DOMAIN w, i # k
      PROVE  Ids(w[i].stored) \cap Ids(w[k].stored) = {}
  <2>1. CASE i \in DOMAIN v /\ k \in DOMAIN v
    BY <2>1, <1>1, <1>4 DEF OncePlaced
  <2>2. CASE i = n /\ k \in DOMAIN v
    BY <2>2, <1>1, <1>2
  <2>3. CASE i \in DOMAIN v /\ k = n
    BY <2>3, <1>1, <1>2
  <2> QED BY <2>1, <2>2, <2>3, <1>1, <1>4
<1>5. OncePlaced(w)
  BY <1>3, <1>4 DEF OncePlaced
<1>6. All(w) = All(v) \cup Ids(l.stored)
  BY <1>1 DEF All
<1> QED BY <1>1, <1>5, <1>6 DEF w

\* A lease with another archive, whose messages are in no other.
LEMMA Replaced ==
  ASSUME NEW v \in Seq(Lease), NEW i \in DOMAIN v, NEW l \in Lease, OncePlaced(v), Once(l.stored),
         \A k \in DOMAIN v : k # i => Ids(l.stored) \cap Ids(v[k].stored) = {}
  PROVE  LET w == [v EXCEPT ![i] = l]
         IN  /\ w \in Seq(Lease) /\ OncePlaced(w)
             /\ All(w) \subseteq All(v) \cup Ids(l.stored)
             /\ All(w) \cap (Ids(v[i].stored) \ Ids(l.stored)) = {}
<1> DEFINE w == [v EXCEPT ![i] = l]
<1>1. DOMAIN v = 1 .. Len(v)
  BY LenProperties
<1>2. w \in Seq(Lease)
  BY <1>1, ExceptSeq
<1>3. DOMAIN w = DOMAIN v /\ w[i] = l /\ \A k \in DOMAIN v : k # i => w[k] = v[k]
  OBVIOUS
<1> HIDE DEF w
<1>4. \A k \in DOMAIN w : Once(w[k].stored)
  BY <1>3 DEF OncePlaced
<1>5. ASSUME NEW j \in DOMAIN w, NEW k \in DOMAIN w, j # k
      PROVE  Ids(w[j].stored) \cap Ids(w[k].stored) = {}
  BY <1>3, <1>5 DEF OncePlaced
<1>6. OncePlaced(w)
  BY <1>4, <1>5 DEF OncePlaced
<1>7. All(w) \subseteq All(v) \cup Ids(l.stored)
  BY <1>3 DEF All
<1>8. ASSUME NEW id \in All(w), id \in Ids(v[i].stored) PROVE id \in Ids(l.stored)
  <2>1. PICK k \in DOMAIN w : id \in Ids(w[k].stored)
    BY DEF All
  <2>2. CASE k = i
    BY <2>1, <2>2, <1>3
  <2>3. CASE k # i
    <3>1. id \in Ids(v[k].stored) /\ k \in DOMAIN v
      BY <2>1, <2>3, <1>3
    <3> QED BY <3>1, <2>3, <1>8 DEF OncePlaced
  <2> QED BY <2>2, <2>3
<1> QED BY <1>2, <1>6, <1>7, <1>8 DEF w
-----------------------------------------------------------------------------
(***************************************************************************)
(* The steps.                                                              *)
(***************************************************************************)
\* A step that sends nothing and stores nothing keeps the invariant.
LEMMA LessPlaced ==
  ASSUME SentInv, UNCHANGED <<fate, got>>, thread' \in Threads,
         leases' \in Seq(Lease), old' \in Seq(Lease), OncePlaced(leases'), OncePlaced(old'),
         All(leases') \cap All(old') = {},
         All(leases') \cup All(old') \subseteq All(leases) \cup All(old)
  PROVE  SentInv'
<1>1. StoreType'
  BY DEF SentInv, StoreType
<1>2. \A id \in Msg : id \in All(leases') \cup All(old') => id \in All(leases) \cup All(old)
  OBVIOUS
<1>3. (All(leases) \cup All(old))' = All(leases') \cup All(old')
  BY DEF All
<1>4. OncePlaced(leases)' = OncePlaced(leases') /\ OncePlaced(old)' = OncePlaced(old')
  BY DEF OncePlaced
<1>5. PlacedInv'
  BY <1>2, <1>3, <1>4 DEF SentInv, PlacedInv
<1> QED BY <1>1, <1>5 DEF SentInv

\* An empty archive.
LEMMA EmptyArchive == Once(<<>>) /\ Ids(<<>>) = {} /\ OncePlaced(<<>>) /\ All(<<>>) = {}
<1>1. DOMAIN <<>> = {}
  OBVIOUS
<1> QED BY <1>1 DEF Once, Ids, OncePlaced, All

\* The position of a lease, if there is one.
LEMMA FindInRange ==
  ASSUME leases \in Seq(Lease), NEW c
  PROVE  Find(c) = 0 \/ Find(c) \in DOMAIN leases
<1> DEFINE I == {i \in 1 .. Len(leases) : leases[i].who = c}
<1>1. Find(c) = IF I # {} THEN Min(I) ELSE 0
  BY DEF Find, SelectInSeq
<1>2. CASE I # {}
  <2>1. I \in SUBSET Nat
    OBVIOUS
  <2>2. \E m \in I : \A n \in I : m <= n
    BY <1>2, <2>1, LeastOf
  <2>3. Min(I) \in I
    BY <2>2 DEF Min
  <2> QED BY <1>1, <1>2, <2>3, LenProperties
<1> QED BY <1>1, <1>2

\* A new lease is empty.
LEMMA NewLeaseType ==
  ASSUME NEW c \in Client
  PROVE  NewLease(c) \in Lease /\ NewLease(c).stored = <<>>
<1>1. 0 \in 0 .. Duration /\ <<>> \in Seq([id : Msg, age : 0 .. (Storage + 1)])
  BY RelayAssumption, EmptySeq DEF RelayAssumption
<1> QED BY <1>1 DEF NewLease, Lease

\* A lease of another age.
LEMMA LeaseOfAge ==
  ASSUME NEW l \in Lease
  PROVE  /\ [l EXCEPT !.age = 0] \in Lease /\ [l EXCEPT !.age = 0].stored = l.stored
<1>1. 0 \in 0 .. Duration
  BY RelayAssumption DEF RelayAssumption
<1> DEFINE A == Seq([id : Msg, age : 0 .. (Storage + 1)])
           D == 0 .. Duration
<1>2. Lease = [who : Client, age : D, stored : A, new : BOOLEAN] /\ 0 \in D
  BY <1>1 DEF Lease
<1> HIDE DEF A, D
<1> QED BY <1>2

LEMMA GrantPlaces ==
  ASSUME SentInv, NEW c \in Client, Grant(c)
  PROVE  SentInv'
<1>1. leases \in Seq(Lease) /\ old \in Seq(Lease) /\ OncePlaced(leases) /\ OncePlaced(old)
      /\ All(leases) \cap All(old) = {} /\ thread \in Threads
  BY DEF SentInv, StoreType, PlacedInv
<1>2. UNCHANGED <<old, thread, fate, got>>
  BY DEF Grant
<1>3. CASE UNCHANGED leases
  BY <1>1, <1>2, <1>3, LessPlaced
<1>4. CASE leases' = Append(leases, NewLease(c))
  <2>1. /\ leases' \in Seq(Lease) /\ OncePlaced(leases')
        /\ All(leases') = All(leases) \cup Ids(NewLease(c).stored)
    <3>1. Once(NewLease(c).stored) /\ Ids(NewLease(c).stored) \cap All(leases) = {}
      BY NewLeaseType, EmptyArchive
    <3> QED BY <1>1, <1>4, <3>1, NewLeaseType, Appended
  <2>2. All(leases') = All(leases)
    BY <2>1, NewLeaseType, EmptyArchive
  <2> QED BY <1>1, <1>2, <2>1, <2>2, LessPlaced
<1>5. CASE Find(c) # 0 /\ leases' = [leases EXCEPT ![Find(c)].age = 0]
  <2> DEFINE l == [leases[Find(c)] EXCEPT !.age = 0]
  <2>1. Find(c) \in DOMAIN leases /\ leases[Find(c)] \in Lease
    BY <1>1, <1>5, FindInRange, LenProperties
  <2>2. l \in Lease /\ l.stored = leases[Find(c)].stored
    BY <2>1, LeaseOfAge
  <2>3. leases' = [leases EXCEPT ![Find(c)] = l]
    BY <1>5
  <2> HIDE DEF l
  <2>4. /\ Once(l.stored)
        /\ \A k \in DOMAIN leases : k # Find(c) => Ids(l.stored) \cap Ids(leases[k].stored) = {}
    BY <1>1, <2>1, <2>2 DEF OncePlaced
  <2>5. /\ leases' \in Seq(Lease) /\ OncePlaced(leases')
        /\ All(leases') \subseteq All(leases) \cup Ids(l.stored)
    BY <1>1, <2>1, <2>2, <2>3, <2>4, Replaced
  <2>6. Ids(l.stored) \subseteq All(leases)
    BY <2>1, <2>2 DEF All
  <2>7. All(leases') \cup All(old') \subseteq All(leases) \cup All(old)
        /\ All(leases') \cap All(old') = {}
    BY <1>1, <1>2, <2>5, <2>6
  <2> QED BY <1>1, <1>2, <2>5, <2>7, LessPlaced
<1> QED BY <1>3, <1>4, <1>5 DEF Grant

\* A message that is put into an archive that has it not.
LEMMA StoredIn ==
  ASSUME NEW l \in Lease, NEW id \in Msg, Once(l.stored), id \notin Ids(l.stored)
  PROVE  /\ Stored(l, id) \in Lease /\ Once(Stored(l, id).stored)
         /\ Ids(Stored(l, id).stored) = Ids(l.stored) \cup {id}
<1> DEFINE M == [id : Msg, age : 0 .. (Storage + 1)]
           m == [id |-> id, age |-> 0]
           s == l.stored
           t == Append(s, m)
           n == Len(s) + 1
<1>1. m \in M
  <2>1. 0 \in 0 .. (Storage + 1)
    BY RelayAssumption DEF RelayAssumption
  <2> QED BY <2>1
<1>2. m.id = id
  OBVIOUS
<1>3. s \in Seq(M) /\ Lease = [who : Client, age : 0 .. Duration, stored : Seq(M), new : BOOLEAN]
  BY DEF Lease
<1> HIDE DEF M, m
<1>4. /\ t \in Seq(M) /\ DOMAIN t = DOMAIN s \cup {n} /\ n \notin DOMAIN s
      /\ t[n] = m /\ \A j \in DOMAIN s : t[j] = s[j]
  BY <1>1, <1>3, LenProperties
<1>5. Stored(l, id) = [l EXCEPT !.stored = t, !.new = TRUE]
  BY DEF Stored, m
<1> HIDE DEF t, n
<1>6. Stored(l, id) \in Lease /\ Stored(l, id).stored = t
  <2> DEFINE A == Seq(M)
             D == 0 .. Duration
  <2>1. Lease = [who : Client, age : D, stored : A, new : BOOLEAN] /\ t \in A
    BY <1>3, <1>4
  <2> HIDE DEF A, D
  <2> QED BY <1>5, <2>1
<1>7. \A j \in DOMAIN s : s[j].id # id
  BY DEF Ids
<1>8. Once(t)
  BY <1>2, <1>4, <1>7 DEF Once
<1>9. Ids(t) = Ids(s) \cup {id}
  BY <1>2, <1>4 DEF Ids
<1> QED BY <1>6, <1>8, <1>9

\* The vector without one of its leases.
LEMMA RemovedPlaces ==
  ASSUME NEW v \in Seq(Lease), OncePlaced(v), NEW i \in DOMAIN v
  PROVE  LET w == RemoveAt(v, i)
         IN  w \in Seq(Lease) /\ OncePlaced(w) /\ All(w) \subseteq All(v)
<1> DEFINE w == RemoveAt(v, i)
           f == [k \in DOMAIN w |-> IF k < i THEN k ELSE k + 1]
<1>1. DOMAIN v = 1 .. Len(v) /\ Len(v) \in Nat
  BY LenProperties
<1>2. /\ w \in Seq(Lease) /\ Len(w) = Len(v) - 1
      /\ \A k \in 1 .. Len(v) - 1 : w[k] = IF k < i THEN v[k] ELSE v[k + 1]
  BY <1>1, RemoveAtProperties
<1> HIDE DEF w
<1>3. DOMAIN w = 1 .. Len(v) - 1
  BY <1>2, LenProperties
<1>4. f \in [DOMAIN w -> DOMAIN v]
  BY <1>1, <1>3
<1>5. \A j, k \in DOMAIN w : f[j] = f[k] => j = k
  BY <1>1, <1>3
<1>6. \A k \in DOMAIN w : w[k] = v[f[k]]
  BY <1>1, <1>2, <1>3
<1> HIDE DEF f
<1>7. \A k \in DOMAIN w : Once(w[k].stored) /\ Ids(w[k].stored) \subseteq Ids(v[f[k]].stored)
  BY <1>4, <1>6 DEF OncePlaced
<1>8. OncePlaced(w) /\ All(w) \subseteq All(v)
  BY <1>4, <1>5, <1>7, Thinned
<1> QED BY <1>2, <1>8 DEF w

LEMMA ForwardPlaces ==
  ASSUME SentInv, NEW c \in Client, NEW id \in Msg, Forward(c, id)
  PROVE  SentInv'
<1> DEFINE i     == Find(c)
           over  == i # 0 /\ ~ Valid(leases[i])
           store == i # 0 /\ ~ over /\ Fits(leases[i])
<1>1. leases \in Seq(Lease) /\ old \in Seq(Lease) /\ OncePlaced(leases) /\ OncePlaced(old)
      /\ All(leases) \cap All(old) = {}
      /\ id \notin All(leases) \cup All(old) /\ got[id] = 0
  BY DEF SentInv, StoreType, PlacedInv, Forward
<1>2. UNCHANGED <<old, thread, got>>
  BY DEF Forward
<1>3. i = 0 \/ i \in DOMAIN leases
  BY <1>1, FindInRange
<1>4. fate' \in [Msg -> {"new", "refused", "stored"}] /\ fate'[id] # "new"
      /\ \A d \in Msg : d # id => fate'[d] = fate[d]
  BY DEF SentInv, StoreType, Forward
<1>5. leases' = CASE over -> RemoveAt(leases, i)
                  [] store -> [leases EXCEPT ![i] = Stored(leases[i], id)]
                  [] OTHER -> leases
  BY DEF Forward
<1> HIDE DEF i
<1>6. leases' \in Seq(Lease) /\ OncePlaced(leases') /\ All(leases') \subseteq All(leases) \cup {id}
  <2>1. CASE over
    <3>1. leases' = RemoveAt(leases, i)
      BY <1>5, <2>1
    <3> QED BY <1>1, <1>3, <2>1, <3>1, RemovedPlaces
  <2>2. CASE store
    <3>1. leases' = [leases EXCEPT ![i] = Stored(leases[i], id)]
      BY <1>5, <2>2
    <3>2. i \in DOMAIN leases /\ leases[i] \in Lease
      BY <1>1, <1>3, <2>2, LenProperties
    <3>3. \A k \in DOMAIN leases : id \notin Ids(leases[k].stored)
      BY <1>1 DEF All
    <3> DEFINE l == Stored(leases[i], id)
    <3>4. l \in Lease /\ Once(l.stored) /\ Ids(l.stored) = Ids(leases[i].stored) \cup {id}
      BY <1>1, <3>2, <3>3, StoredIn DEF OncePlaced
    <3>5. leases' = [leases EXCEPT ![i] = l]
      BY <3>1
    <3> HIDE DEF l
    <3>6. \A k \in DOMAIN leases : k # i => Ids(l.stored) \cap Ids(leases[k].stored) = {}
      BY <1>1, <3>2, <3>3, <3>4 DEF OncePlaced
    <3>7. /\ leases' \in Seq(Lease) /\ OncePlaced(leases')
          /\ All(leases') \subseteq All(leases) \cup Ids(l.stored)
      BY <1>1, <3>2, <3>4, <3>5, <3>6, Replaced
    <3>8. Ids(leases[i].stored) \subseteq All(leases)
      BY <3>2 DEF All
    <3> QED BY <3>4, <3>7, <3>8
  <2>3. CASE ~ over /\ ~ store
    <3>1. leases' = leases
      BY <1>5, <2>3
    <3> QED BY <1>1, <3>1
  <2> QED BY <2>1, <2>2, <2>3
<1>7. StoreType'
  BY <1>2, <1>4, <1>6 DEF SentInv, StoreType
<1>8. (OncePlaced(leases) /\ OncePlaced(old) /\ All(leases) \cap All(old) = {})'
  <2>1. OncePlaced(leases)' /\ OncePlaced(old)'
    BY <1>1, <1>2, <1>6 DEF OncePlaced
  <2>2. All(leases)' = All(leases') /\ All(old)' = All(old)
    BY <1>2 DEF All
  <2> QED BY <1>1, <1>6, <2>1, <2>2
<1>9. ASSUME NEW d \in Msg
      PROVE  (/\ got[d] <= 1
              /\ d \in All(leases) \cup All(old) => got[d] = 0
              /\ fate[d] = "new" => got[d] = 0 /\ d \notin All(leases) \cup All(old))'
  <2>1. All(leases)' = All(leases') /\ All(old)' = All(old)
    BY <1>2 DEF All
  <2>2. got[d] <= 1 /\ (d \in All(leases) \cup All(old) => got[d] = 0)
        /\ (fate[d] = "new" => got[d] = 0 /\ d \notin All(leases) \cup All(old))
    BY DEF SentInv, PlacedInv
  <2>3. CASE d = id
    BY <2>1, <2>2, <2>3, <1>1, <1>2, <1>4
  <2>4. CASE d # id
    BY <2>1, <2>2, <2>4, <1>2, <1>4, <1>6
  <2> QED BY <2>3, <2>4
<1> QED BY <1>7, <1>8, <1>9 DEF SentInv, PlacedInv

\* What a pass sends is among what it takes out, and that is in the archive.
LEMMA SentIsGone ==
  ASSUME NEW T, NEW s \in Seq(T), NEW result
  PROVE  SentOf(s, result) \subseteq GoneOf(s, result) /\ SentOf(s, result) \subseteq DOMAIN s
<1>1. DOMAIN s = 1 .. Len(s) /\ Len(s) \in Nat
  BY LenProperties
<1>2. Visited(s) = IF Len(s) = 1 THEN {1} ELSE 2 .. Len(s)
  BY DEF Visited
<1>3. Visited(s) \subseteq DOMAIN s /\ \A i \in DOMAIN s : i <= i
  BY <1>1, <1>2
<1>4. Tried(s, result) \subseteq DOMAIN s
  BY <1>3 DEF Tried
<1>5. SentOf(s, result) \subseteq Tried(s, result)
  BY DEF SentOf
<1> QED BY <1>3, <1>4, <1>5 DEF GoneOf

(***************************************************************************)
(* A pass over one archive: what is sent leaves it, and the results count  *)
(* each message once.                                                      *)
(***************************************************************************)
LEMMA PassPlaces ==
  ASSUME SentInv, UNCHANGED <<old, fate>>, thread' \in Threads,
         NEW at \in DOMAIN leases, NEW s, s = leases[at].stored,
         NEW G, NEW S, S \subseteq G, S \subseteq DOMAIN s,
         leases' = [leases EXCEPT ![at] = [leases[at] EXCEPT !.stored = Without(s, G), !.new = FALSE]],
         got' = [id \in Msg |-> got[id] + Cardinality({i \in S : s[i].id = id})]
  PROVE  SentInv'
<1> DEFINE r == [leases[at] EXCEPT !.stored = Without(s, G), !.new = FALSE]
           M == [id : Msg, age : 0 .. (Storage + 1)]
<1>1. leases \in Seq(Lease) /\ old \in Seq(Lease) /\ OncePlaced(leases) /\ OncePlaced(old)
      /\ All(leases) \cap All(old) = {} /\ got \in [Msg -> Nat]
  BY DEF SentInv, StoreType, PlacedInv
<1>2. leases[at] \in Lease
  BY <1>1, LenProperties, ElementOfSeq
<1>3. s \in Seq(M) /\ Lease = [who : Client, age : 0 .. Duration, stored : Seq(M), new : BOOLEAN]
  BY <1>2 DEF Lease
<1> HIDE DEF M
<1>4. Once(s)
  BY <1>1 DEF OncePlaced
<1>5. r \in Lease /\ r.stored = Without(s, G)
  <2> DEFINE A == Seq(M)
             D == 0 .. Duration
  <2>1. Lease = [who : Client, age : D, stored : A, new : BOOLEAN] /\ Without(s, G) \in A
    BY <1>3, WithoutTakes
  <2> HIDE DEF A, D
  <2> QED BY <1>2, <2>1
<1>6. /\ Once(r.stored) /\ Ids(r.stored) \subseteq Ids(s)
      /\ \A i \in DOMAIN s \cap G : s[i].id \notin Ids(r.stored)
  BY <1>3, <1>4, <1>5, WithoutIds
<1>7. leases' = [leases EXCEPT ![at] = r]
  OBVIOUS
<1> HIDE DEF r
<1>8. \A k \in DOMAIN leases : k # at => Ids(r.stored) \cap Ids(leases[k].stored) = {}
  <2>1. \A k \in DOMAIN leases : k # at => Ids(s) \cap Ids(leases[k].stored) = {}
    BY <1>1 DEF OncePlaced
  <2> QED BY <1>6, <2>1
<1>9. /\ leases' \in Seq(Lease) /\ OncePlaced(leases')
      /\ All(leases') \subseteq All(leases) \cup Ids(r.stored)
      /\ All(leases') \cap (Ids(s) \ Ids(r.stored)) = {}
  <2> DEFINE w == [leases EXCEPT ![at] = r]
  <2>1. /\ w \in Seq(Lease) /\ OncePlaced(w)
        /\ All(w) \subseteq All(leases) \cup Ids(r.stored)
        /\ All(w) \cap (Ids(leases[at].stored) \ Ids(r.stored)) = {}
    BY <1>1, <1>5, <1>6, <1>8, Replaced
  <2>2. w = leases'
    BY <1>7
  <2> HIDE DEF w
  <2> QED BY <2>1, <2>2
<1>10. Ids(s) \subseteq All(leases)
  BY DEF All
<1>11. All(leases') \subseteq All(leases)
  BY <1>6, <1>9, <1>10
<1>12. All(leases)' = All(leases') /\ All(old)' = All(old)
       /\ OncePlaced(leases)' = OncePlaced(leases') /\ OncePlaced(old)' = OncePlaced(old)
  BY DEF All, OncePlaced
<1> DEFINE N(id) == {i \in S : s[i].id = id}
<1>13. ASSUME NEW id \in Msg
       PROVE  \/ got'[id] = got[id]
              \/ got'[id] = got[id] + 1 /\ id \in All(leases) /\ id \notin All(leases')
  <2>1. got'[id] = got[id] + Cardinality(N(id)) /\ got[id] \in Nat
    BY <1>1
  <2>2. CASE N(id) = {}
    <3>1. Cardinality(N(id)) = 0
      BY <2>2, FS_EmptySet
    <3> HIDE DEF N
    <3> QED BY <2>1, <3>1
  <2>3. CASE N(id) # {}
    <3>1. PICK i \in N(id) : TRUE
      BY <2>3
    <3>2. i \in DOMAIN s /\ i \in G /\ s[i].id = id
      BY <3>1
    <3>3. N(id) = {i}
      BY <3>1, <3>2, <1>4 DEF Once
    <3>4. Cardinality(N(id)) = 1
      BY <3>3, FS_Singleton
    <3>5. id \in Ids(s) \ Ids(r.stored)
      BY <3>2, <1>6 DEF Ids
    <3> HIDE DEF N
    <3> QED BY <2>1, <3>4, <3>5, <1>9, <1>10
  <2> QED BY <2>2, <2>3
<1>14. StoreType'
  <2>1. ASSUME NEW id \in Msg PROVE got'[id] \in Nat
    <3>1. got[id] \in Nat
      BY <1>1
    <3>2. got'[id] = got[id] \/ got'[id] = got[id] + 1
      BY <1>13
    <3> QED BY <3>1, <3>2
  <2>2. got' \in [Msg -> Nat]
    BY <2>1
  <2> QED BY <1>9, <2>2 DEF SentInv, StoreType
<1>15. ASSUME NEW d \in Msg
       PROVE  /\ got'[d] <= 1
              /\ d \in All(leases') \cup All(old) => got'[d] = 0
              /\ fate[d] = "new" => got'[d] = 0 /\ d \notin All(leases') \cup All(old)
  <2>1. got[d] <= 1 /\ (d \in All(leases) \cup All(old) => got[d] = 0)
        /\ (fate[d] = "new" => got[d] = 0 /\ d \notin All(leases) \cup All(old))
    BY DEF SentInv, PlacedInv
  <2>2. got[d] \in Nat /\ d \notin All(leases) \cap All(old)
    BY <1>1
  <2>3. CASE got'[d] = got[d]
    BY <2>1, <2>3, <1>11
  <2>4. CASE got'[d] = got[d] + 1 /\ d \in All(leases) /\ d \notin All(leases')
    <3>1. got[d] = 0 /\ d \notin All(old) /\ fate[d] # "new"
      BY <2>1, <2>2, <2>4
    <3>2. got'[d] = 1
      BY <2>4, <3>1
    <3> QED BY <2>4, <3>1, <3>2
  <2> QED BY <1>13, <2>3, <2>4
<1>16. PlacedInv'
  <2>1. All(leases') \cap All(old) = {}
    BY <1>1, <1>11
  <2> QED BY <1>1, <1>9, <1>12, <1>15, <2>1 DEF PlacedInv
<1> QED BY <1>14, <1>16 DEF SentInv

LEMMA SendPlaces ==
  ASSUME SentInv, SendLease
  PROVE  SentInv'
<1> DEFINE l == leases[thread.at]
           s == l.stored
<1>1. leases \in Seq(Lease) /\ old \in Seq(Lease) /\ OncePlaced(leases) /\ OncePlaced(old)
      /\ All(leases) \cap All(old) = {} /\ thread \in Threads
  BY DEF SentInv, StoreType, PlacedInv
<1>2. UNCHANGED <<old, fate>> /\ thread' \in Threads
  <2>1. UNCHANGED <<old, fate>> /\ thread' = [thread EXCEPT !.at = @ + 1]
    BY DEF SendLease
  <2>2. thread.at + 1 \in Nat \ {0}
    BY <1>1 DEF Threads
  <2> QED BY <1>1, <2>1, <2>2 DEF Threads
<1>3. thread.at \in DOMAIN leases /\ l \in Lease
  <2>1. thread.at <= Len(leases)
    BY DEF SendLease
  <2>2. thread.at \in Nat \ {0}
    BY <1>1 DEF Threads
  <2>3. DOMAIN leases = 1 .. Len(leases) /\ Len(leases) \in Nat
    BY <1>1, LenProperties
  <2>4. thread.at \in DOMAIN leases
    BY <2>1, <2>2, <2>3
  <2> QED BY <1>1, <2>3, <2>4, ElementOfSeq
<1>4. CASE UNCHANGED <<leases, got>>
  <2>1. leases' = leases /\ old' = old /\ got' = got
    BY <1>2, <1>4
  <2> QED BY <1>1, <1>2, <2>1, LessPlaced
<1>5. ASSUME NEW result,
             leases' = [leases EXCEPT ![thread.at] =
                          [l EXCEPT !.stored = Without(s, GoneOf(s, result)), !.new = FALSE]],
             got' = [id \in Msg |->
                       got[id] + Cardinality({i \in SentOf(s, result) : s[i].id = id})]
      PROVE  SentInv'
  <2>1. s \in Seq([id : Msg, age : 0 .. (Storage + 1)])
    BY <1>3 DEF Lease
  <2>2. SentOf(s, result) \subseteq GoneOf(s, result) /\ SentOf(s, result) \subseteq DOMAIN s
    BY <2>1, SentIsGone
  <2> QED BY <1>2, <1>3, <1>5, <2>2, PassPlaces
<1>6. \/ UNCHANGED <<leases, got>>
      \/ \E result :
             /\ leases' = [leases EXCEPT ![thread.at] =
                             [l EXCEPT !.stored = Without(s, GoneOf(s, result)), !.new = FALSE]]
             /\ got' = [id \in Msg |->
                          got[id] + Cardinality({i \in SentOf(s, result) : s[i].id = id})]
  BY DEF SendLease
<1> QED BY <1>4, <1>5, <1>6

\* A purged lease, or one that time has passed for, has no message more.
LEMMA PurgedType ==
  ASSUME NEW l \in Lease, Once(l.stored)
  PROVE  /\ Purged(l) \in Lease /\ Once(Purged(l).stored)
         /\ Ids(Purged(l).stored) \subseteq Ids(l.stored)
<1> DEFINE A == Seq([id : Msg, age : 0 .. (Storage + 1)])
           D == 0 .. Duration
           s == l.stored
           G == {i \in Visited(s) : Expired(s[i])}
<1>1. Lease = [who : Client, age : D, stored : A, new : BOOLEAN]
  BY DEF Lease
<1>2. s \in A
  BY <1>1
<1>3. Purged(l) = [l EXCEPT !.stored = Without(s, G)]
  BY DEF Purged
<1>4. Without(s, G) \in A
  BY <1>2, WithoutTakes
<1>5. Once(Without(s, G)) /\ Ids(Without(s, G)) \subseteq Ids(s)
  BY <1>2, WithoutIds
<1> HIDE DEF A, D, G
<1>6. Purged(l) \in Lease /\ Purged(l).stored = Without(s, G)
  BY <1>1, <1>3, <1>4
<1> QED BY <1>5, <1>6

LEMMA AgedType ==
  ASSUME NEW l \in Lease, Once(l.stored)
  PROVE  /\ Aged(l) \in Lease /\ Once(Aged(l).stored)
         /\ Ids(Aged(l).stored) \subseteq Ids(l.stored)
<1> DEFINE M == [id : Msg, age : 0 .. (Storage + 1)]
           A == Seq(M)
           D == 0 .. Duration
           s == l.stored
           t == [j \in DOMAIN s |-> Older(s[j])]
           a == Min2(l.age + 1, Duration)
<1>9. Aged(l) = [l EXCEPT !.age = a, !.stored = t]
  BY DEF Aged
<1>1. Lease = [who : Client, age : D, stored : A, new : BOOLEAN]
  BY DEF Lease
<1>2. s \in A /\ l.age \in D
  BY <1>1
<1>3. a \in D
  <2>1. Duration \in Nat /\ l.age \in 0 .. Duration
    BY <1>2, RelayAssumption DEF RelayAssumption
  <2> QED BY <2>1 DEF Min2
<1>4. \A j \in DOMAIN s : s[j] \in M
  <2>1. s \in Seq(M)
    BY <1>2
  <2> HIDE DEF M, s
  <2> QED BY <2>1, LenProperties
<1>5. ASSUME NEW m \in M
      PROVE  Older(m) \in M /\ Older(m).id = m.id
  <2>1. Storage \in Nat /\ m.age \in 0 .. (Storage + 1)
    BY RelayAssumption DEF RelayAssumption
  <2>2. Min2(m.age + 1, Storage + 1) \in 0 .. (Storage + 1)
    BY <2>1 DEF Min2
  <2> DEFINE B == 0 .. (Storage + 1)
             b == Min2(m.age + 1, Storage + 1)
  <2>3. M = [id : Msg, age : B] /\ b \in B
    BY <2>2
  <2> HIDE DEF B, b, M
  <2>4. [m EXCEPT !.age = b] \in M /\ [m EXCEPT !.age = b].id = m.id
    BY <2>3
  <2> QED BY <2>4 DEF b, Older
<1>6. \A j \in DOMAIN s : Older(s[j]) \in M /\ Older(s[j]).id = s[j].id
  BY <1>4, <1>5
<1>7. t = [j \in DOMAIN s |-> Older(s[j])] /\ DOMAIN s = 1 .. Len(s) /\ Len(s) \in Nat
  BY <1>2, LenProperties
<1> HIDE DEF M, t
<1>8. t \in A /\ DOMAIN t = DOMAIN s /\ \A j \in DOMAIN s : t[j].id = s[j].id
  BY <1>6, <1>7
<1> HIDE DEF A, D, a
<1>10. Aged(l) \in Lease /\ Aged(l).stored = t
  BY <1>1, <1>3, <1>8, <1>9
<1>11. Once(t) /\ Ids(t) \subseteq Ids(s)
  BY <1>8 DEF Once, Ids
<1> QED BY <1>10, <1>11

\* A vector in which every lease is as it was, or has lost messages.
LEMMA EachThinned ==
  ASSUME NEW u \in Seq(Lease), NEW v \in [DOMAIN u -> Lease], OncePlaced(u),
         \A i \in DOMAIN u : Once(v[i].stored) /\ Ids(v[i].stored) \subseteq Ids(u[i].stored)
  PROVE  v \in Seq(Lease) /\ OncePlaced(v) /\ All(v) \subseteq All(u)
<1> DEFINE f == [i \in DOMAIN v |-> i]
<1>1. DOMAIN u = 1 .. Len(u) /\ Len(u) \in Nat
  BY LenProperties
<1>2. v \in Seq(Lease)
  <2>1. v \in [1 .. Len(u) -> Lease]
    BY <1>1
  <2> QED BY <1>1, <2>1
<1>3. /\ f \in [DOMAIN v -> DOMAIN u]
      /\ \A i, k \in DOMAIN v : f[i] = f[k] => i = k
      /\ \A i \in DOMAIN v : f[i] = i
  OBVIOUS
<1> HIDE DEF f
<1>4. \A i \in DOMAIN v : Once(v[i].stored) /\ Ids(v[i].stored) \subseteq Ids(u[f[i]].stored)
  BY <1>3
<1>5. OncePlaced(v) /\ All(v) \subseteq All(u)
  BY <1>3, <1>4, Thinned
<1> QED BY <1>2, <1>5

LEMMA TickPlaces ==
  ASSUME SentInv, Tick
  PROVE  SentInv'
<1>1. leases \in Seq(Lease) /\ old \in Seq(Lease) /\ OncePlaced(leases) /\ OncePlaced(old)
      /\ All(leases) \cap All(old) = {} /\ thread \in Threads
  BY DEF SentInv, StoreType, PlacedInv
<1>2. UNCHANGED <<old, thread, fate, got>> /\ leases' = [i \in DOMAIN leases |-> Aged(leases[i])]
  BY DEF Tick
<1>3. \A i \in DOMAIN leases : leases[i] \in Lease /\ Once(leases[i].stored)
  BY <1>1, LenProperties, ElementOfSeq DEF OncePlaced
<1>4. \A i \in DOMAIN leases : /\ Aged(leases[i]) \in Lease /\ Once(Aged(leases[i]).stored)
                               /\ Ids(Aged(leases[i]).stored) \subseteq Ids(leases[i].stored)
  BY <1>3, AgedType
<1>5. /\ leases' \in [DOMAIN leases -> Lease]
      /\ \A i \in DOMAIN leases : /\ Once(leases'[i].stored)
                                  /\ Ids(leases'[i].stored) \subseteq Ids(leases[i].stored)
  BY <1>2, <1>4
<1>6. leases' \in Seq(Lease) /\ OncePlaced(leases') /\ All(leases') \subseteq All(leases)
  BY <1>1, <1>5, EachThinned
<1> QED BY <1>1, <1>2, <1>6, LessPlaced

LEMMA ExpiryPlaces ==
  ASSUME SentInv, ExpiryChecks
  PROVE  SentInv'
<1>1. leases \in Seq(Lease) /\ old \in Seq(Lease) /\ OncePlaced(leases) /\ OncePlaced(old)
      /\ All(leases) \cap All(old) = {} /\ thread \in Threads
  BY DEF SentInv, StoreType, PlacedInv
<1>2. UNCHANGED <<fate, got>> /\ thread' \in Threads
  BY <1>1 DEF ExpiryChecks, Threads
<1> DEFINE kept(purge) ==
             IF purge THEN [i \in DOMAIN leases |-> IF leases[i].stored = <<>> THEN leases[i]
                                                    ELSE Purged(leases[i])]
             ELSE leases
<1>3. PICK purge \in BOOLEAN : IF sweepDue THEN leases' = <<>> /\ old' = kept(purge)
                               ELSE leases' = kept(purge) /\ UNCHANGED old
  BY DEF ExpiryChecks
<1>4. /\ kept(purge) \in Seq(Lease) /\ OncePlaced(kept(purge))
      /\ All(kept(purge)) \subseteq All(leases)
  <2>1. CASE purge
    <3> DEFINE v == [i \in DOMAIN leases |-> IF leases[i].stored = <<>> THEN leases[i]
                                             ELSE Purged(leases[i])]
    <3>1. \A i \in DOMAIN leases : leases[i] \in Lease /\ Once(leases[i].stored)
      BY <1>1, LenProperties, ElementOfSeq DEF OncePlaced
    <3>2. \A i \in DOMAIN leases : /\ Purged(leases[i]) \in Lease
                                   /\ Once(Purged(leases[i]).stored)
                                   /\ Ids(Purged(leases[i]).stored) \subseteq Ids(leases[i].stored)
      BY <3>1, PurgedType
    <3>3. v \in [DOMAIN leases -> Lease]
          /\ \A i \in DOMAIN leases : /\ Once(v[i].stored)
                                      /\ Ids(v[i].stored) \subseteq Ids(leases[i].stored)
      BY <3>1, <3>2
    <3>4. kept(purge) = v
      BY <2>1
    <3> HIDE DEF v, kept
    <3>5. v \in Seq(Lease) /\ OncePlaced(v) /\ All(v) \subseteq All(leases)
      BY <1>1, <3>3, EachThinned
    <3> QED BY <3>4, <3>5
  <2>2. CASE ~ purge
    BY <1>1, <2>2
  <2> QED BY <2>1, <2>2
<1> HIDE DEF kept
<1>5. CASE sweepDue
  <2>1. leases' = <<>> /\ old' = kept(purge)
    BY <1>3, <1>5
  <2>2. leases' \in Seq(Lease) /\ OncePlaced(leases') /\ All(leases') = {}
    BY <2>1, EmptySeq, EmptyArchive
  <2>3. All(leases') \cup All(old') \subseteq All(leases) \cup All(old)
        /\ All(leases') \cap All(old') = {}
    BY <1>4, <2>1, <2>2
  <2> QED BY <1>2, <1>4, <2>1, <2>2, <2>3, LessPlaced
<1>6. CASE ~ sweepDue
  <2>1. leases' = kept(purge) /\ old' = old
    BY <1>3, <1>6
  <2>2. All(leases') \cup All(old') \subseteq All(leases) \cup All(old)
        /\ All(leases') \cap All(old') = {}
    BY <1>1, <1>4, <2>1
  <2> QED BY <1>1, <1>2, <1>4, <2>1, <2>2, LessPlaced
<1> QED BY <1>5, <1>6

\* The first lease of a vector, and the others.
LEMMA HeadAndTail ==
  ASSUME NEW v \in Seq(Lease), v # <<>>, OncePlaced(v)
  PROVE  /\ Head(v) \in Lease /\ Once(Head(v).stored) /\ Ids(Head(v).stored) \subseteq All(v)
         /\ Tail(v) \in Seq(Lease) /\ OncePlaced(Tail(v)) /\ All(Tail(v)) \subseteq All(v)
         /\ Ids(Head(v).stored) \cap All(Tail(v)) = {}
<1> DEFINE w == Tail(v)
           f == [k \in DOMAIN w |-> k + 1]
<1>1. DOMAIN v = 1 .. Len(v) /\ Len(v) \in Nat \ {0}
  BY LenProperties, EmptySeq
<1>2. /\ Head(v) \in Lease /\ w \in Seq(Lease) /\ Len(w) = Len(v) - 1
      /\ \A k \in 1 .. Len(w) : w[k] = v[k + 1]
  BY HeadTailProperties
<1>3. Head(v) = v[1] /\ 1 \in DOMAIN v
  BY <1>1
<1> HIDE DEF w
<1>4. DOMAIN w = 1 .. Len(v) - 1
  BY <1>2, LenProperties
<1>5. f \in [DOMAIN w -> DOMAIN v] /\ (\A j, k \in DOMAIN w : f[j] = f[k] => j = k)
      /\ \A k \in DOMAIN w : f[k] # 1
  BY <1>1, <1>4
<1>6. \A k \in DOMAIN w : w[k] = v[f[k]]
  BY <1>1, <1>2, <1>4
<1> HIDE DEF f
<1>7. \A k \in DOMAIN w : Once(w[k].stored) /\ Ids(w[k].stored) \subseteq Ids(v[f[k]].stored)
  BY <1>5, <1>6 DEF OncePlaced
<1>8. OncePlaced(w) /\ All(w) \subseteq All(v)
  BY <1>5, <1>7, Thinned
<1>9. Once(v[1].stored) /\ Ids(v[1].stored) \subseteq All(v)
  BY <1>3 DEF OncePlaced, All
<1>10. \A k \in DOMAIN w : Ids(v[1].stored) \cap Ids(w[k].stored) = {}
  BY <1>3, <1>5, <1>6 DEF OncePlaced
<1>11. Ids(v[1].stored) \cap All(w) = {}
  BY <1>10 DEF All
<1> QED BY <1>2, <1>3, <1>8, <1>9, <1>11 DEF w

LEMMA SweepPlaces ==
  ASSUME SentInv, Sweep
  PROVE  SentInv'
<1>1. leases \in Seq(Lease) /\ old \in Seq(Lease) /\ OncePlaced(leases) /\ OncePlaced(old)
      /\ All(leases) \cap All(old) = {} /\ thread \in Threads
  BY DEF SentInv, StoreType, PlacedInv
<1>2. UNCHANGED <<fate, got>> /\ thread' \in Threads
  BY <1>1 DEF Sweep, Threads
<1>3. CASE old = <<>>
  <2>1. leases' = leases /\ old' = old
    BY <1>3 DEF Sweep
  <2> QED BY <1>1, <1>2, <2>1, LessPlaced
<1>4. CASE old # <<>>
  <2> DEFINE l == Head(old)
  <2>1. /\ l \in Lease /\ Once(l.stored) /\ Ids(l.stored) \subseteq All(old)
        /\ Tail(old) \in Seq(Lease) /\ OncePlaced(Tail(old)) /\ All(Tail(old)) \subseteq All(old)
        /\ Ids(l.stored) \cap All(Tail(old)) = {}
    BY <1>1, <1>4, HeadAndTail
  <2>2. old' = Tail(old) /\ leases' = IF Valid(l) THEN Append(leases, l) ELSE leases
    BY <1>4 DEF Sweep
  <2> HIDE DEF l
  <2>3. CASE Valid(l)
    <3>1. Ids(l.stored) \cap All(leases) = {}
      BY <1>1, <2>1
    <3>2. /\ Append(leases, l) \in Seq(Lease) /\ OncePlaced(Append(leases, l))
          /\ All(Append(leases, l)) = All(leases) \cup Ids(l.stored)
      BY <1>1, <2>1, <3>1, Appended
    <3>3. leases' = Append(leases, l)
      BY <2>2, <2>3
    <3>4. All(leases') \cup All(old') \subseteq All(leases) \cup All(old)
          /\ All(leases') \cap All(old') = {}
      BY <1>1, <2>1, <2>2, <3>2, <3>3
    <3> QED BY <1>2, <2>1, <2>2, <3>2, <3>3, <3>4, LessPlaced
  <2>4. CASE ~ Valid(l)
    <3>1. leases' = leases
      BY <2>2, <2>4
    <3>2. All(leases') \cup All(old') \subseteq All(leases) \cup All(old)
          /\ All(leases') \cap All(old') = {}
      BY <1>1, <2>1, <2>2, <3>1
    <3> QED BY <1>1, <1>2, <2>1, <2>2, <3>1, <3>2, LessPlaced
  <2> QED BY <2>3, <2>4
<1> QED BY <1>3, <1>4

LEMMA RestartPlaces ==
  ASSUME SentInv, Restart
  PROVE  SentInv'
<1>1. UNCHANGED <<fate, got>> /\ leases' = <<>> /\ old' = <<>> /\ thread' \in Threads
  BY DEF Restart, Threads
<1>2. /\ leases' \in Seq(Lease) /\ OncePlaced(leases') /\ All(leases') = {}
      /\ old' \in Seq(Lease) /\ OncePlaced(old') /\ All(old') = {}
  BY <1>1, EmptySeq, EmptyArchive
<1>3. All(leases') \cup All(old') \subseteq All(leases) \cup All(old)
      /\ All(leases') \cap All(old') = {}
  BY <1>2
<1> QED BY <1>1, <1>2, <1>3, LessPlaced

\* The steps that touch no archive.
LEMMA OthersPlace ==
  ASSUME SentInv, UNCHANGED <<leases, old, fate, got>>, thread' \in Threads
  PROVE  SentInv'
<1>1. leases \in Seq(Lease) /\ old \in Seq(Lease) /\ OncePlaced(leases) /\ OncePlaced(old)
      /\ All(leases) \cap All(old) = {}
  BY DEF SentInv, StoreType, PlacedInv
<1>2. leases' = leases /\ old' = old
  OBVIOUS
<1> QED BY <1>1, <1>2, LessPlaced

LEMMA SentInit == Init => SentInv
<1> SUFFICES ASSUME Init PROVE SentInv
  OBVIOUS
<1>1. leases = <<>> /\ old = <<>> /\ OncePlaced(<<>>) /\ All(<<>>) = {} /\ <<>> \in Seq(Lease)
  BY EmptyArchive, EmptySeq DEF Init
<1>2. thread \in Threads
  BY DEF Init, Threads
<1>3. fate = [id \in Msg |-> "new"] /\ got = [id \in Msg |-> 0]
  BY DEF Init
<1>4. StoreType
  BY <1>1, <1>2, <1>3 DEF StoreType
<1>5. PlacedInv
  BY <1>1, <1>3 DEF PlacedInv
<1> QED BY <1>4, <1>5 DEF SentInv

\* Every step keeps the invariant.
LEMMA SentNext == SentInv /\ [Next]_relayVars => SentInv'
<1> SUFFICES ASSUME SentInv, [Next]_relayVars PROVE SentInv'
  OBVIOUS
<1>1. thread \in Threads
  BY DEF SentInv, StoreType
<1>2. ASSUME NEW c \in Client, TakeRequest(c) PROVE SentInv'
  BY <1>1, <1>2, OthersPlace DEF TakeRequest
<1>3. ASSUME NEW c \in Client, Grant(c) PROVE SentInv'
  BY <1>3, GrantPlaces
<1>4. ASSUME NEW c \in Client, Expire(c) \/ Renew(c) \/ Connect(c) \/ TakeReply(c) \/ Lose(c)
      PROVE  SentInv'
  <2>1. UNCHANGED <<leases, old, fate, got, thread>>
    BY <1>4 DEF Expire, Renew, Connect, TakeReply, Lose, serverVars
  <2> QED BY <1>1, <2>1, OthersPlace
<1>5. ASSUME NEW c \in Client, NEW id \in Msg, Forward(c, id) PROVE SentInv'
  BY <1>5, ForwardPlaces
<1>6. CASE Announce \/ Wake \/ SendDone \/ NeedToSleep \/ TimedWait \/ Timeout
  <2>1. UNCHANGED <<leases, old, fate, got>>
    BY <1>6 DEF Announce, Wake, SendDone, NeedToSleep, TimedWait, Timeout
  <2>2. CASE Wake
    <3>1. PICK all \in {~ arrivals, TRUE} : thread' = [pc |-> "send", at |-> 1, all |-> all]
      BY <2>2 DEF Wake
    <3>2. all \in BOOLEAN
      OBVIOUS
    <3>3. thread' \in Threads
      BY <3>1, <3>2 DEF Threads
    <3> QED BY <2>1, <3>3, OthersPlace
  <2>3. CASE Announce \/ SendDone \/ NeedToSleep \/ TimedWait \/ Timeout
    <3>1. thread' \in Threads
      BY <1>1, <2>3 DEF Announce, SendDone, NeedToSleep, TimedWait, Timeout, Threads
    <3> QED BY <2>1, <3>1, OthersPlace
  <2> QED BY <1>6, <2>2, <2>3
<1>7. CASE SendLease
  BY <1>7, SendPlaces
<1>8. CASE ExpiryChecks
  BY <1>8, ExpiryPlaces
<1>9. CASE Sweep
  BY <1>9, SweepPlaces
<1>10. CASE Tick
  BY <1>10, TickPlaces
<1>11. CASE Restart
  BY <1>11, RestartPlaces
<1>12. CASE UNCHANGED relayVars
  BY <1>1, <1>12, OthersPlace DEF relayVars, serverVars
<1> QED BY <1>2, <1>3, <1>4, <1>5, <1>6, <1>7, <1>8, <1>9, <1>10, <1>11, <1>12 DEF Next

\* What is held is in an archive of one of the two vectors.
LEMMA HeldIsPlaced ==
  ASSUME NEW id
  PROVE  HeldSomewhere(id) <=> id \in All(leases) \cup All(old)
BY DEF HeldSomewhere, Held, All, Ids

LEMMA PlacedOnce == SentInv => SentOnce
<1> SUFFICES ASSUME SentInv, NEW id \in Msg
             PROVE  got[id] <= (IF HeldSomewhere(id) THEN 0 ELSE 1)
  BY DEF SentOnce
<1>1. got[id] \in Nat /\ got[id] <= 1 /\ (id \in All(leases) \cup All(old) => got[id] = 0)
  BY DEF SentInv, StoreType, PlacedInv
<1> QED BY <1>1, HeldIsPlaced

(***************************************************************************)
(* relay_send_all_messages_1, leases_remove_expired, archive_put_message_1:*)
(* a message is sent once at most, and nothing that was sent is kept.      *)
(***************************************************************************)
THEOREM SentTheorem == RelaySpec => []SentOnce
BY SentInit, SentNext, PlacedOnce, PTL DEF RelaySpec
==============================================================================
