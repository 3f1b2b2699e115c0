---------------------------- MODULE PeriodicTask ----------------------------
(***************************************************************************)
(* Two services whose housekeeping is a task that schedules itself again,  *)
(* on the thread pool of TaskService, and how stopping them races with it: *)
(* the discovery service (advertisement_handling_func, src/src/            *)
(* jxta_discovery_service_ref.c) and the TCP transport                     *)
(* (remove_unused_connections, src/src/jxta_transport_tcp.c).  Discovery   *)
(* looks at its running flag before the work, TCP at the module's state    *)
(* after it; neither looks again when it schedules the next round, and     *)
(* neither shares a lock with the thread that stops the service.           *)
(*                                                                         *)
(* The first round is scheduled minutes ahead, so start has returned long  *)
(* before it.                                                              *)
(***************************************************************************)
EXTENDS TaskService

CONSTANTS Discovery, Tcp,  \* the services, owners of their tasks
          Round,           \* the tasks a service can have in the pool at once
          Stopper          \* the thread that stops them

PeriodicService == {Discovery, Tcp}

ASSUME PeriodicAssumption ==
  /\ Owner = PeriodicService /\ Discovery # Tcp
  /\ Task = PeriodicService \X Round /\ NoTask \notin Task
  /\ OwnerOf = [t \in Task |-> t[1]]
  /\ Stopper \in Caller

VARIABLES state,  \* of each service; discovery->running is TRUE while STARTED
          step    \* where each worker is in its handler

roundVars == <<taskServiceVars, state, step>>

PeriodicInit ==
  /\ TaskServiceInit
  /\ state = [s \in PeriodicService |-> "INITED"]
  /\ step = [w \in Worker |-> "idle"]

Goto(w, where) == step' = [step EXCEPT ![w] = where]

\* apr_thread_pool_schedule of the service's handler.
Schedule(s) ==
  \E r \in Round : /\ \A w \in Worker : running[w] # <<s, r>>
                   /\ Submit(<<s, r>>)

\* start schedules the first round.
start(s) ==
  /\ state[s] = "INITED"
  /\ state' = [state EXCEPT ![s] = "STARTED"]
  /\ Schedule(s)
  /\ UNCHANGED step

\* The scheduled time has come and a worker calls the handler.
Due(w, t) ==
  /\ running[w] = NoTask
  /\ Begin(w, t)
  /\ Goto(w, "enter")
  /\ UNCHANGED state
----------------------------------------------------------------------------
\* advertisement_handling_func: "As long as discovery is running".
advertisement_handling_func(w) ==
  /\ step[w] = "enter" /\ OwnerOf[running[w]] = Discovery
  /\ Goto(w, IF state[Discovery] = "STARTED" THEN "work" ELSE "done")
  /\ UNCHANGED <<taskServiceVars, state>>

\* The expired records are removed and the SRDI deltas pushed.
DiscoveryWork(w) ==
  /\ step[w] = "work" /\ OwnerOf[running[w]] = Discovery
  /\ Goto(w, "again")
  /\ UNCHANGED <<taskServiceVars, state>>

remove_unused_connections(w) ==
  /\ step[w] = "enter" /\ OwnerOf[running[w]] = Tcp
  /\ Goto(w, "work")
  /\ UNCHANGED <<taskServiceVars, state>>

\* Mutant: the handler loops as a thread of its own would.
CheckStartedLoops(w) ==
  /\ step[w] = "work" /\ OwnerOf[running[w]] = Tcp
  /\ Goto(w, "enter")
  /\ UNCHANGED <<taskServiceVars, state>>

\* Mutant: the handler does not look whether the transport was stopped.
CheckStartedNot(w) ==
  /\ step[w] = "work" /\ OwnerOf[running[w]] = Tcp
  /\ Goto(w, "again")
  /\ UNCHANGED <<taskServiceVars, state>>

\* Under me->mutex, which stop does not take.
CheckStarted(w) ==
  /\ step[w] = "work" /\ OwnerOf[running[w]] = Tcp
  /\ Goto(w, IF state[Tcp] = "STARTED" THEN "again" ELSE "done")
  /\ UNCHANGED <<taskServiceVars, state>>

\* Mutant: the next round is scheduled before this one's work is done.
ScheduleFirst(w) ==
  /\ step[w] \in {"enter", "again"}
  /\ Schedule(OwnerOf[running[w]])
  /\ Goto(w, IF step[w] = "enter" THEN "work" ELSE "done")
  /\ UNCHANGED state

\* Mutant: the next round is forgotten.
ScheduleNever(w) ==
  /\ step[w] = "again"
  /\ Goto(w, "done")
  /\ UNCHANGED <<taskServiceVars, state>>

ScheduleAgain(w) ==
  /\ step[w] = "again"
  /\ Schedule(OwnerOf[running[w]])
  /\ Goto(w, "done")
  /\ UNCHANGED state

\* Mutant: the worker does not leave the handler.
ReturnStays(w) ==
  /\ step[w] = "done"
  /\ End(w)
  /\ UNCHANGED <<state, step>>

Return(w) ==
  /\ step[w] = "done"
  /\ End(w)
  /\ Goto(w, "idle")
  /\ UNCHANGED state
----------------------------------------------------------------------------
\* jxta_module_stop and stop: the flag first, ...
stop(s) ==
  /\ state[s] = "STARTED" /\ \A r \in PeriodicService : state[r] \notin {"STOPPING", "CANCELLING"}
  /\ state' = [state EXCEPT ![s] = "STOPPING"]
  /\ UNCHANGED <<taskServiceVars, step>>

\* ... then the cancel, ...
Cancel(s) ==
  /\ state[s] = "STOPPING"
  /\ Revoke(Stopper, s)
  /\ state' = [state EXCEPT ![s] = "CANCELLING"]
  /\ UNCHANGED step

\* ... which returns when no handler of the service is running.
Stopped(s) ==
  /\ state[s] = "CANCELLING"
  /\ Revoked(Stopper)
  /\ state' = [state EXCEPT ![s] = "STOPPED"]
  /\ UNCHANGED step
----------------------------------------------------------------------------
HandlerStep(w) ==
  \/ advertisement_handling_func(w) \/ DiscoveryWork(w)
  \/ remove_unused_connections(w) \/ CheckStarted(w)
  \/ ScheduleAgain(w) \/ Return(w)

PeriodicNext ==
  \/ \E s \in PeriodicService : start(s) \/ stop(s) \/ Cancel(s) \/ Stopped(s)
  \/ \E w \in Worker : HandlerStep(w) \/ \E t \in Task : Due(w, t)

PeriodicSpec == PeriodicInit /\ [][PeriodicNext]_roundVars

(***************************************************************************)
(* Handlers run to their end, time passes, and a stop once begun goes on.  *)
(***************************************************************************)
FairPeriodicSpec ==
  /\ PeriodicSpec
  /\ \A w \in Worker : WF_roundVars(HandlerStep(w))
  /\ \A t \in Task : SF_roundVars(\E w \in Worker : Due(w, t))
  /\ WF_roundVars(\E s \in PeriodicService : Cancel(s) \/ Stopped(s))
----------------------------------------------------------------------------
\* A worker is in a handler exactly while it runs a task.
PeriodicTypeOK ==
  /\ state \in [PeriodicService -> {"INITED", "STARTED", "STOPPING", "CANCELLING", "STOPPED"}]
  /\ step \in [Worker -> {"idle", "enter", "work", "again", "done"}]
  /\ \A w \in Worker : step[w] = "idle" <=> running[w] = NoTask

(***************************************************************************)
(* Two rounds of one service never work at the same time: the counters     *)
(* expired_loop and delta_loop of discovery are changed without a lock.    *)
(***************************************************************************)
RoundsDoNotOverlap ==
  \A v, w \in Worker :
    v # w /\ {step[v], step[w]} \subseteq {"enter", "work", "again"} =>
      OwnerOf[running[v]] # OwnerOf[running[w]]

\* As long as it is started, a service has a next round, in the pool or under way.
RoundsGoOn ==
  \A s \in PeriodicService :
    []<>(state[s] = "STARTED" => \E w \in Worker : step[w] = "work" /\ OwnerOf[running[w]] = s)

\* jxta_module_stop returns although the handler schedules itself again.
StopReturns == \A s \in PeriodicService : state[s] = "STOPPING" ~> state[s] = "STOPPED"

(***************************************************************************)
(* A handler that has passed its test before the stop leaves one more      *)
(* round in the pool.  That round finds the service stopped and is the     *)
(* last one: in the end no worker is in a handler of the service again.    *)
(***************************************************************************)
RoundsDieOut ==
  \A s \in PeriodicService :
    state[s] = "STOPPED" ~>
      [](/\ \A t \in pending : OwnerOf[t] # s
         /\ \A w \in Worker : running[w] # NoTask => OwnerOf[running[w]] # s)

(***************************************************************************)
(* stop has "to tell the background thread that it has to die": once stop  *)
(* has returned no round of the service is left in the pool, for a stopped *)
(* module "is released and eventually deallocated".                        *)
(***************************************************************************)
NoRoundAfterStop ==
  \A s \in PeriodicService : state[s] = "STOPPED" =>
    /\ \A t \in pending : OwnerOf[t] # s
    /\ \A w \in Worker : running[w] # NoTask => OwnerOf[running[w]] # s
============================================================================
