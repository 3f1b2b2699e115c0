---------------------------- MODULE EndpointPoll ----------------------------
(***************************************************************************)
(* The socket polling of the endpoint service, src/src/                    *)
(* jxta_endpoint_service.c, on the thread pool of TaskService: do_poll is  *)
(* a task that polls once and submits itself again as long as the service  *)
(* runs and sockets are registered; transports register and remove sockets *)
(* at any time, from any thread; endpoint_stop cancels the tasks.          *)
(*                                                                         *)
(* me->mutex makes add_poll and remove_poll atomic.  do_poll takes no lock *)
(* at all, so each of its reads is a step.                                 *)
(***************************************************************************)
EXTENDS TaskService, Naturals, FiniteSets

CONSTANTS Endpoint,     \* the service, owner of its tasks
          Poll,         \* one task for each do_poll that can be under way
          Message,      \* tasks that send messages, outgoing_message_thread
          Data,         \* tasks of connections that process received data
          Connection,   \* the owner of those
          Socket,       \* the sockets ever registered, each once
          PollsetSize,  \* size given to apr_pollset_create
          Stopper       \* the thread that stops the service

ASSUME EndpointAssumption ==
  /\ Poll \cap Message = {} /\ Data \cap (Poll \cup Message) = {}
  /\ Poll \cup Message \cup Data = Task /\ NoTask \notin Task
  /\ OwnerOf = [t \in Task |-> IF t \in Data THEN Connection ELSE Endpoint]
  /\ Connection # Endpoint
  /\ Stopper \in Caller
  /\ PollsetSize \in Nat
  /\ IsFiniteSet(Socket)

VARIABLES state,       \* the module's state
          pollfd_cnt,
          registered,  \* the sockets in the pollset
          opened,      \* the sockets add_poll was called with
          step,        \* where each worker is in do_poll
          fds          \* what each worker's poll returned and has not been called back

endpointVars == <<state, pollfd_cnt, registered, opened, step, fds>>
pollVars == <<taskServiceVars, endpointVars>>

EndpointInit ==
  /\ TaskServiceInit
  /\ state = "INITED"
  /\ pollfd_cnt = 0 /\ registered = {} /\ opened = {}
  /\ step = [w \in Worker |-> "idle"]
  /\ fds = [w \in Worker |-> {}]

Free(t) == t \notin pending /\ \A w \in Worker : running[w] # t

\* apr_thread_pool_push of do_poll.
PushPoll == \E t \in Poll : Free(t) /\ Submit(t)
----------------------------------------------------------------------------
\* jxta_module_start and endpoint_start, before any other thread knows the service.
endpoint_start ==
  /\ state = "INITED"
  /\ state' = "STARTED"
  /\ IF pollfd_cnt > 0 THEN PushPoll ELSE UNCHANGED taskServiceVars
  /\ UNCHANGED <<pollfd_cnt, registered, opened, step, fds>>

\* Mutant: the counter is tested after it was incremented.
AddPollTestsNewCount(s) ==
  /\ s \notin opened
  /\ opened' = opened \cup {s}
  /\ registered' = IF Cardinality(registered) < PollsetSize THEN registered \cup {s} ELSE registered
  /\ pollfd_cnt' = pollfd_cnt + 1
  /\ IF pollfd_cnt' = 0 /\ state = "STARTED" THEN PushPoll ELSE UNCHANGED taskServiceVars
  /\ UNCHANGED <<state, step, fds>>

\* Mutant: a socket that did not fit is registered but not counted.
AddPollUncounted(s) ==
  /\ s \notin opened
  /\ opened' = opened \cup {s}
  /\ registered' = registered \cup {s}
  /\ pollfd_cnt' = IF Cardinality(registered) < PollsetSize THEN pollfd_cnt + 1 ELSE pollfd_cnt
  /\ IF pollfd_cnt = 0 /\ state = "STARTED" THEN PushPoll ELSE UNCHANGED taskServiceVars
  /\ UNCHANGED <<state, step, fds>>

\* A socket that does not fit into the pollset is counted and not taken back.
jxta_endpoint_service_add_poll(s) ==
  /\ s \notin opened
  /\ opened' = opened \cup {s}
  /\ registered' = IF Cardinality(registered) < PollsetSize THEN registered \cup {s} ELSE registered
  /\ pollfd_cnt' = pollfd_cnt + 1
  /\ IF pollfd_cnt = 0 /\ state = "STARTED" THEN PushPoll ELSE UNCHANGED taskServiceVars
  /\ UNCHANGED <<state, step, fds>>

\* Mutant: the counter is lowered for a socket that did not fit, too.
RemovePollUnasked(s) ==
  /\ s \in opened
  /\ registered' = registered \ {s}
  /\ pollfd_cnt' = pollfd_cnt - 1
  /\ UNCHANGED <<taskServiceVars, state, opened, step, fds>>

\* The poll element is freed at once.
jxta_endpoint_service_remove_poll(s) ==
  /\ s \in registered
  /\ registered' = registered \ {s}
  /\ pollfd_cnt' = pollfd_cnt - 1
  /\ UNCHANGED <<taskServiceVars, state, opened, step, fds>>

\* jxta_endpoint_service_send_ex without sync.
jxta_endpoint_service_send_ex(m) ==
  /\ state = "STARTED" /\ m \notin pending
  /\ Submit(m)
  /\ UNCHANGED endpointVars
----------------------------------------------------------------------------
(***************************************************************************)
(* An idle worker, or one whose task is done, picks a task: do_poll and    *)
(* the processing of data come first, with the highest priority.           *)
(***************************************************************************)
PickPoll(w, t) ==
  /\ step[w] \in {"idle", "done"}
  /\ Begin(w, t)
  /\ step' = [step EXCEPT ![w] = "enter"]
  /\ UNCHANGED <<state, pollfd_cnt, registered, opened, fds>>

PickOther(w, t) ==
  /\ step[w] \in {"idle", "done"} /\ (t \in Message => pending \subseteq Message)
  /\ Begin(w, t)
  /\ step' = [step EXCEPT ![w] = "done"]
  /\ UNCHANGED <<state, pollfd_cnt, registered, opened, fds>>

\* The poll returns with any of the sockets that are registered now, or none.
endpoint_service_poll(w) ==
  /\ step[w] = "enter"
  /\ \E ready \in SUBSET registered : fds' = [fds EXCEPT ![w] = ready]
  /\ step' = [step EXCEPT ![w] = "dispatch"]
  /\ UNCHANGED <<taskServiceVars, state, pollfd_cnt, registered, opened>>

(***************************************************************************)
(* tc->fn is called for the returned sockets, one after the other.  It may *)
(* hand the data to a task of the connection (read_cb).                    *)
(***************************************************************************)
Callback(w, s) ==
  /\ step[w] = "dispatch" /\ s \in fds[w]
  /\ fds' = [fds EXCEPT ![w] = @ \ {s}]
  /\ \/ UNCHANGED taskServiceVars
     \/ \E d \in Data : Free(d) /\ Submit(d)
  /\ UNCHANGED <<state, pollfd_cnt, registered, opened, step>>

\* Mutant: do_poll looks at the counter only.
ReadStateIgnored(w) ==
  /\ step[w] = "dispatch" /\ fds[w] = {}
  /\ step' = [step EXCEPT ![w] = "count"]
  /\ UNCHANGED <<taskServiceVars, state, pollfd_cnt, registered, opened, fds>>

\* The state is read, ...
ReadState(w) ==
  /\ step[w] = "dispatch" /\ fds[w] = {}
  /\ step' = [step EXCEPT ![w] = IF state = "STARTED" THEN "count" ELSE "done"]
  /\ UNCHANGED <<taskServiceVars, state, pollfd_cnt, registered, opened, fds>>

\* ... the counter is read, ...
ReadCount(w) ==
  /\ step[w] = "count"
  /\ step' = [step EXCEPT ![w] = IF pollfd_cnt > 0 THEN "push" ELSE "done"]
  /\ UNCHANGED <<taskServiceVars, state, pollfd_cnt, registered, opened, fds>>

\* Mutant: do_poll does not submit itself again.
PushForgets(w) ==
  /\ step[w] = "push"
  /\ step' = [step EXCEPT ![w] = "done"]
  /\ UNCHANGED <<taskServiceVars, state, pollfd_cnt, registered, opened, fds>>

\* ... and do_poll submits itself again.
PushAgain(w) ==
  /\ step[w] = "push"
  /\ PushPoll
  /\ step' = [step EXCEPT ![w] = "done"]
  /\ UNCHANGED <<state, pollfd_cnt, registered, opened, fds>>

\* A worker that finds no task goes idle.
Finish(w) ==
  /\ step[w] = "done" /\ pending = {}
  /\ End(w)
  /\ step' = [step EXCEPT ![w] = "idle"]
  /\ UNCHANGED <<state, pollfd_cnt, registered, opened, fds>>
----------------------------------------------------------------------------
\* jxta_module_stop announces the stop without a lock, ...
jxta_module_stop ==
  /\ state = "STARTED"
  /\ state' = "STOPPING"
  /\ UNCHANGED <<taskServiceVars, pollfd_cnt, registered, opened, step, fds>>

\* ... endpoint_stop cancels the service's tasks ...
endpoint_stop ==
  /\ state = "STOPPING"
  /\ Revoke(Stopper, Endpoint)
  /\ state' = "CANCELLING"
  /\ UNCHANGED <<pollfd_cnt, registered, opened, step, fds>>

\* ... and returns once none is running.
Stopped ==
  /\ state = "CANCELLING"
  /\ Revoked(Stopper)
  /\ state' = "STOPPED"
  /\ UNCHANGED <<pollfd_cnt, registered, opened, step, fds>>
----------------------------------------------------------------------------
PollStep(w) ==
  \/ endpoint_service_poll(w)
  \/ \E s \in Socket : Callback(w, s)
  \/ ReadState(w) \/ ReadCount(w) \/ PushAgain(w) \/ Finish(w)

Pick(w) == \/ \E t \in Poll : PickPoll(w, t)
           \/ \E t \in Message \cup Data : PickOther(w, t)

EndpointNext ==
  \/ endpoint_start
  \/ \E s \in Socket : jxta_endpoint_service_add_poll(s) \/ jxta_endpoint_service_remove_poll(s)
  \/ \E m \in Message : jxta_endpoint_service_send_ex(m)
  \/ \E w \in Worker : Pick(w) \/ PollStep(w)
  \/ jxta_module_stop \/ endpoint_stop \/ Stopped

EndpointSpec == EndpointInit /\ [][EndpointNext]_pollVars

(***************************************************************************)
(* Threads of the pool run, and a poll returns after its timeout of one    *)
(* second.  Nothing makes transports register or remove sockets.           *)
(***************************************************************************)
FairEndpointSpec ==
  /\ EndpointSpec
  /\ \A w \in Worker : WF_pollVars(PollStep(w)) /\ SF_pollVars(Pick(w))
----------------------------------------------------------------------------
\* The service's variables have the expected values.
EndpointTypeOK ==
  /\ state \in {"INITED", "STARTED", "STOPPING", "CANCELLING", "STOPPED"}
  /\ pollfd_cnt \in Nat
  /\ registered \subseteq opened /\ opened \subseteq Socket
  /\ step \in [Worker -> {"idle", "enter", "dispatch", "count", "push", "done"}]
  /\ fds \in [Worker -> SUBSET Socket]
  /\ \A w \in Worker : step[w] = "idle" <=> running[w] = NoTask

(***************************************************************************)
(* While the service runs, a registered socket is being polled or about to *)
(* be: the unlocked reads of do_poll and the test of add_poll never leave  *)
(* the pollset without a do_poll, however the two interleave.              *)
(***************************************************************************)
SocketsArePolled ==
  state = "STARTED" /\ registered # {} =>
    \/ pending \cap Poll # {}
    \/ \E w \in Worker : step[w] \in {"enter", "dispatch", "count", "push"}

(***************************************************************************)
(* pollfd_cnt never falls below the number of sockets in the pollset, also *)
(* when the pollset was full: the count may stop the polling too late and  *)
(* never too early.                                                        *)
(***************************************************************************)
CountCoversSockets == pollfd_cnt >= Cardinality(registered)

\* A registered socket is polled again and again as long as the service runs.
PollingGoesOn ==
  [](state = "STARTED" /\ registered # {} =>
       <>(state # "STARTED" \/ registered = {} \/ \E w \in Worker : step[w] = "enter"))

(***************************************************************************)
(* A do_poll may submit itself once more behind the back of endpoint_stop. *)
(* It finds the service stopped then and is the last: the pool is free of  *)
(* the service's polls for good.                                           *)
(***************************************************************************)
StoppedQuietens ==
  state = "STOPPED" ~> [](pending \cap Poll = {} /\ \A w \in Worker : step[w] \in {"idle", "done"})

(***************************************************************************)
(* endpoint_service_poll: assert(me->pollfd_cnt > 0).                      *)
(***************************************************************************)
PollsSomething == \A w \in Worker : step[w] = "enter" => pollfd_cnt > 0

(***************************************************************************)
(* A socket is removed "to ensure the connection had done reading": once   *)
(* remove_poll has freed the poll element no callback of it is to come.    *)
(***************************************************************************)
NoCallbackAfterRemove == \A w \in Worker : fds[w] \subseteq registered

(***************************************************************************)
(* A stopped module "is released and eventually deallocated": none of its  *)
(* tasks is left in the pool.                                              *)
(***************************************************************************)
StoppedIsQuiet ==
  state = "STOPPED" => pending \subseteq Data /\ \A w \in Worker : running[w] \in Data \cup {NoTask}

(***************************************************************************)
(* do_poll polls with a timeout to "give this thread a chance to serve     *)
(* other tasks in thread pool": messages are sent.                         *)
(***************************************************************************)
MessagesAreSent == \A m \in Message : m \in pending ~> m \notin pending
============================================================================
