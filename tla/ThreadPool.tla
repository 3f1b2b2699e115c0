----------------------------- MODULE ThreadPool -----------------------------
(***************************************************************************)
(* The thread pool every JXTA service runs its work on,                    *)
(* src/src/jpr/apr_thread_pool.c.  Worker threads take tasks from the ring *)
(* of TaskQueue or from the list of scheduled tasks; callers submit and    *)
(* cancel tasks; one thread trims the idle workers or destroys the pool.   *)
(*                                                                         *)
(* A section of code that holds me->lock is one step, but for the exit of  *)
(* a thread: the destroying thread reads thd_cnt without the lock, so the  *)
(* unlock after --thd_cnt is a step of its own and nobody can take the     *)
(* lock before it.  The lock and the condition variable's cond_lock are    *)
(* different mutexes: between the unlock of one and the lock of the other  *)
(* every thread can run, so parking and signalling are steps as well.      *)
(*                                                                         *)
(* Time is abstract.  scheduled_tasks is ordered by dispatch time and the  *)
(* first `due' of them have come due; a delay may be anything, so a new    *)
(* task may go to any place behind the due ones.                           *)
(***************************************************************************)
EXTENDS TaskQueue

CONSTANTS Worker,       \* identities of the pool's threads, with their list elements
          Client,       \* threads outside the pool that call it
          init_threads, \* arguments of apr_thread_pool_create
          max_threads,
          idle_wait,    \* TRUE iff me->idle_wait is not 0
          Scheduled,    \* the tasks submitted by apr_thread_pool_schedule
          IdleMaxes,    \* the limits apr_thread_pool_idle_max_set is called with
          TaskSubmits,  \* whether a running task submits tasks itself
          CreateFails   \* whether apr_thread_create may fail

ASSUME PoolAssumption ==
  /\ IsFiniteSet(Worker)
  /\ Worker \cap Client = {}
  /\ init_threads \in Nat /\ max_threads \in Nat
  /\ IdleMaxes \subseteq Nat
  /\ Scheduled \subseteq Task
  /\ idle_wait \in BOOLEAN /\ TaskSubmits \in BOOLEAN /\ CreateFails \in BOOLEAN

Caller == Client \cup Worker

VARIABLES
  scheduled_tasks, \* ordered by dispatch time
  due,             \* how many of them have come due
  thd_cnt, idle_cnt, idle_max, terminated,
  busy_thds, idle_thds,
  pc,              \* where each worker is, "none" if there is no such thread
  state,           \* elt->state of each worker: TH_RUN, TH_STOP or TH_PROBATION
  current,         \* the task each worker runs, or NoTask
  timed,           \* whether the worker waits with a timeout
  caller,          \* "ready", "signal" (task linked, signal not yet sent), "quiesce"
  cancelling,      \* the owner each caller is cancelling, if any: at most one
  trimmer,         \* the thread that trims or destroys the pool
  trimmed,         \* the idle threads it has unlinked and will join
  clean,           \* history: owners with nothing submitted since a cancel removed their tasks
  quiet            \* history: the clean owners whose cancel has returned

threadVars == <<thd_cnt, idle_cnt, busy_thds, idle_thds, pc, state, current, timed>>
scheduleVars == <<scheduled_tasks, due>>
callerVars == <<caller, cancelling, clean, quiet>>
trimVars == <<idle_max, terminated, trimmer, trimmed>>
vars == <<queueVars, scheduleVars, threadVars, callerVars, trimVars>>

scheduled_task_cnt == Len(scheduled_tasks)

threshold == init_threads \div 2

PoolInit ==
  /\ QueueInit
  /\ scheduled_tasks = <<>> /\ due = 0
  /\ pc \in [Worker -> {"none", "start"}]
  /\ Cardinality({w \in Worker : pc[w] = "start"}) = init_threads
  /\ thd_cnt = init_threads /\ idle_cnt = 0
  /\ idle_max = init_threads /\ terminated = FALSE
  /\ busy_thds = {} /\ idle_thds = {}
  /\ state = [w \in Worker |-> "TH_RUN"]
  /\ current = [w \in Worker |-> NoTask]
  /\ timed = [w \in Worker |-> FALSE]
  /\ caller = [c \in Caller |-> "ready"]
  /\ cancelling = [c \in Caller |-> {}]
  /\ trimmer = "off" /\ trimmed = {}
  /\ clean = {} /\ quiet = {}

----------------------------------------------------------------------------
(***************************************************************************)
(* Worker threads: thread_pool_func.                                       *)
(***************************************************************************)

(***************************************************************************)
(* thread_pool_cleanup sets me->terminated without the lock: a worker that *)
(* is inside a locked section meanwhile may have read it before.           *)
(***************************************************************************)
SeesTerminated == IF trimmer \in {"limit", "trim"} THEN {FALSE, terminated} ELSE {terminated}

\* A thread that is past --thd_cnt still holds the lock.
LockFree == \A w \in Worker : pc[w] \notin {"leaving", "detaching"}

\* Mutant: the exiting thread forgets to lower thd_cnt.
ExitUncounted(w) ==
  /\ pc' = [pc EXCEPT ![w] = "detaching"]
  /\ busy_thds' = busy_thds \ {w}
  /\ current' = [current EXCEPT ![w] = NoTask]
  /\ state' = [state EXCEPT ![w] = "TH_RUN"]
  /\ UNCHANGED <<thd_cnt, timed>>

\* Mutant: the exiting thread stays linked as busy with its last task.
ExitStillBusy(w) ==
  /\ thd_cnt' = thd_cnt - 1
  /\ pc' = [pc EXCEPT ![w] = "detaching"]
  /\ UNCHANGED <<busy_thds, current, state, timed>>

\* The thread ends on its own and will detach: nobody is to join it.
ExitDetached(w) ==
  /\ thd_cnt' = thd_cnt - 1
  /\ pc' = [pc EXCEPT ![w] = "detaching"]
  /\ busy_thds' = busy_thds \ {w}
  /\ current' = [current EXCEPT ![w] = NoTask]
  /\ state' = [state EXCEPT ![w] = "TH_RUN"]
  /\ UNCHANGED timed

(***************************************************************************)
(* A thread without work links itself into idle_thds and gives up the      *)
(* lock.  It will wait with a timeout for the next scheduled task, or for  *)
(* idle_wait when there are too many idle threads, and otherwise until it  *)
(* is signalled.  The time left to the scheduled task is computed after    *)
(* pop_task found it not yet due: if it comes due in between, the result   *)
(* is negative, which stands for waiting without a timeout.                *)
(***************************************************************************)
BecomeIdle(w, idle) ==
  /\ idle_cnt' = idle + 1
  /\ idle_thds' = idle_thds \cup {w}
  /\ busy_thds' = busy_thds \ {w}
  /\ current' = [current EXCEPT ![w] = NoTask]
  /\ pc' = [pc EXCEPT ![w] = "parking"]
  /\ \/ /\ scheduled_task_cnt > 0
        /\ \/ timed' = [timed EXCEPT ![w] = TRUE] /\ UNCHANGED scheduleVars
           \/ /\ timed' = [timed EXCEPT ![w] = FALSE]
              /\ due' = due + 1 /\ UNCHANGED scheduled_tasks
        /\ UNCHANGED state
     \/ /\ scheduled_task_cnt = 0
        /\ LET extra == idle + 1 > idle_max
           IN  /\ timed' = [timed EXCEPT ![w] = extra]
               /\ state' = [state EXCEPT ![w] = IF extra THEN "TH_PROBATION" ELSE @]
        /\ UNCHANGED scheduleVars
  /\ UNCHANGED thd_cnt

MustExit(w, idle) ==
  \/ /\ idle >= idle_max
     /\ ~ (scheduled_task_cnt > 0 /\ idle_max = 0)
     /\ ~ idle_wait
  \/ terminated
  \/ state[w] # "TH_RUN"

\* pop_task found nothing: go idle or exit.  idle is idle_cnt without w.
Settle(w, idle) ==
  IF MustExit(w, idle)
  THEN ExitDetached(w) /\ idle_cnt' = idle /\ idle_thds' = idle_thds \ {w}
       /\ UNCHANGED scheduleVars
  ELSE BecomeIdle(w, idle)

Run(w, t, idle) ==
  /\ current' = [current EXCEPT ![w] = t]
  /\ pc' = [pc EXCEPT ![w] = "run"]
  /\ busy_thds' = busy_thds \cup {w}
  /\ idle_thds' = idle_thds \ {w}
  /\ idle_cnt' = idle
  /\ UNCHANGED <<thd_cnt, state, timed>>

\* A popped task is run, or dropped if the pool terminates meanwhile.
RunOrDrop(w, t, idle) ==
  IF terminated
  THEN ExitDetached(w) /\ idle_cnt' = idle /\ idle_thds' = idle_thds \ {w}
  ELSE Run(w, t, idle)

\* pop_task: a scheduled task that is due, else the first of the ring.
PopAndGo(w, idle) ==
  \/ /\ due > 0
     /\ scheduled_tasks' = Tail(scheduled_tasks) /\ due' = due - 1
     /\ RunOrDrop(w, Head(scheduled_tasks), idle)
     /\ UNCHANGED queueVars
  \/ /\ due = 0 /\ task_cnt > 0
     /\ PopFirst
     /\ RunOrDrop(w, Head(tasks), idle)
     /\ UNCHANGED scheduleVars
  \/ /\ due = 0 /\ task_cnt = 0
     /\ Settle(w, idle)
     /\ UNCHANGED queueVars

\* Mutant: only the end of the pool stops an awakened thread.
StopsAtEndOnly(w, seen) == seen

\* The condition of the outer loop of thread_pool_func.
AskedToStop(w, seen) == seen \/ state[w] = "TH_STOP"

\* A new or awakened thread takes the lock and looks whether it should stop.
TakeLock(w) ==
  /\ pc[w] \in {"start", "woken"} /\ LockFree
  /\ \E stop \in SeesTerminated :
       IF AskedToStop(w, stop)
       THEN /\ thd_cnt' = thd_cnt - 1
            /\ pc' = [pc EXCEPT ![w] = "leaving"]
            /\ UNCHANGED <<queueVars, scheduleVars, idle_cnt, busy_thds, idle_thds,
                           state, current, timed>>
       ELSE PopAndGo(w, IF w \in idle_thds THEN idle_cnt - 1 ELSE idle_cnt)
  /\ UNCHANGED <<callerVars, trimVars>>

\* The task function returns; the thread takes the lock and looks for more.
FinishTask(w) ==
  /\ pc[w] = "run" /\ caller[w] = "ready" /\ LockFree
  /\ PopAndGo(w, idle_cnt)
  /\ UNCHANGED <<callerVars, trimVars>>

\* An exiting thread lets go of the lock, and detaches or is left to be joined.
Unlock(w) ==
  /\ \/ pc[w] = "leaving" /\ pc' = [pc EXCEPT ![w] = "joinable"]
     \/ pc[w] = "detaching" /\ pc' = [pc EXCEPT ![w] = "none"]
  /\ UNCHANGED <<queueVars, scheduleVars, callerVars, trimVars, thd_cnt, idle_cnt,
                 busy_thds, idle_thds, state, current, timed>>

\* The thread takes cond_lock and waits, whatever happened since it let go
\* of the pool's lock.
Park(w) ==
  /\ pc[w] = "parking"
  /\ pc' = [pc EXCEPT ![w] = "waiting"]
  /\ UNCHANGED <<queueVars, scheduleVars, callerVars, trimVars, thd_cnt, idle_cnt,
                 busy_thds, idle_thds, state, current, timed>>

Awake(ws) == pc' = [w \in Worker |-> IF w \in ws THEN "woken" ELSE pc[w]]

\* The timeout of apr_thread_cond_timedwait.
TimeOut(w) ==
  /\ pc[w] = "waiting" /\ timed[w]
  /\ Awake({w})
  /\ UNCHANGED <<queueVars, scheduleVars, callerVars, trimVars, thd_cnt, idle_cnt,
                 busy_thds, idle_thds, state, current, timed>>

\* Time passes and the next scheduled task comes due.
ComeDue ==
  /\ due < scheduled_task_cnt
  /\ due' = due + 1
  /\ UNCHANGED <<queueVars, scheduled_tasks, threadVars, callerVars, trimVars>>
----------------------------------------------------------------------------
(***************************************************************************)
(* Callers: threads of the program and, when TaskSubmits, running tasks.   *)
(***************************************************************************)
MaySubmit(c) ==
  /\ caller[c] = "ready" /\ LockFree
  /\ \/ c \in Client /\ ~ terminated
     \/ c \in Worker /\ pc[c] = "run" /\ TaskSubmits

\* apr_thread_create and the accounting for it.
StartThread ==
  \/ \E w \in Worker :
       /\ pc[w] = "none"
       /\ pc' = [pc EXCEPT ![w] = "start"]
       /\ thd_cnt' = thd_cnt + 1
  \/ CreateFails /\ UNCHANGED <<pc, thd_cnt>>

Linked(c, t) ==
  /\ caller' = [caller EXCEPT ![c] = "signal"]
  /\ clean' = clean \ {OwnerOf[t]} /\ quiet' = quiet \ {OwnerOf[t]}
  /\ UNCHANGED <<trimVars, cancelling, idle_cnt, busy_thds, idle_thds, state, current, timed>>

\* Mutant: one thread too many.
NeedsThreadOffByOne ==
  thd_cnt = 0 \/ (idle_cnt = 0 /\ thd_cnt <= max_threads /\ task_cnt + 1 > threshold)

\* Mutant: the counter is compared before the task is counted.
NeedsThreadUncounted == idle_cnt = 0 /\ thd_cnt < max_threads /\ task_cnt > threshold

NeedsThread ==
  thd_cnt = 0 \/ (idle_cnt = 0 /\ thd_cnt < max_threads /\ task_cnt + 1 > threshold)

\* add_task: link the task, start a thread if one is needed, unlock.
add_task(c, t, push) ==
  /\ MaySubmit(c) /\ t \in Task \ Scheduled
  /\ InsertTask(t, push)
  /\ IF NeedsThread THEN StartThread ELSE UNCHANGED <<pc, thd_cnt>>
  /\ Linked(c, t)
  /\ UNCHANGED scheduleVars

\* schedule_task: the same for a task with a delay.
schedule_task(c, t) ==
  /\ MaySubmit(c) /\ t \in Scheduled \ ToSet(scheduled_tasks)
  /\ \E place \in due + 1 .. scheduled_task_cnt + 1 :
       scheduled_tasks' = InsertAt(scheduled_tasks, place, t)
  /\ UNCHANGED due
  /\ IF thd_cnt = 0 THEN StartThread ELSE UNCHANGED <<pc, thd_cnt>>
  /\ Linked(c, t)
  /\ UNCHANGED queueVars

\* The signal both end with, under cond_lock: it wakes one waiting thread, if
\* there is one, and is forgotten otherwise.
Signal(c) ==
  /\ caller[c] = "signal"
  /\ caller' = [caller EXCEPT ![c] = "ready"]
  /\ LET waiting == {w \in Worker : pc[w] = "waiting"}
     IN  IF waiting = {} THEN UNCHANGED pc ELSE \E w \in waiting : Awake({w})
  /\ UNCHANGED <<queueVars, scheduleVars, trimVars, thd_cnt, idle_cnt, busy_thds,
                 idle_thds, state, current, timed, cancelling, clean, quiet>>

(***************************************************************************)
(* apr_thread_pool_tasks_cancel: remove_tasks and remove_scheduled_tasks   *)
(* in one locked section, then wait_on_busy_threads.                       *)
(***************************************************************************)
\* Mutant: the tasks are unlinked and not counted off.
RemoveScheduledUncounted(owner) ==
  /\ scheduled_tasks' = Without(owner, scheduled_tasks)
  /\ UNCHANGED due

\* Mutant: the scheduled tasks are forgotten by the cancel.
RemoveScheduledNot(owner) == UNCHANGED scheduleVars

remove_scheduled_tasks(owner) ==
  /\ scheduled_tasks' = Without(owner, scheduled_tasks)
  /\ due' = Cardinality({i \in 1 .. due : OwnerOf[scheduled_tasks[i]] # owner})

apr_thread_pool_tasks_cancel(c, owner) ==
  /\ c \in Client /\ caller[c] = "ready" /\ ~ terminated /\ LockFree
  /\ remove_tasks(owner)
  /\ remove_scheduled_tasks(owner)
  /\ caller' = [caller EXCEPT ![c] = "quiesce"]
  /\ cancelling' = [cancelling EXCEPT ![c] = {owner}]
  /\ clean' = clean \cup {owner}
  /\ UNCHANGED <<quiet, threadVars, trimVars>>

\* Mutant: the cancel returns without waiting for running tasks.
ReturnsAtOnce(c) ==
  /\ caller[c] = "quiesce" /\ LockFree
  /\ caller' = [caller EXCEPT ![c] = "ready"]
  /\ cancelling' = [cancelling EXCEPT ![c] = {}]
  /\ quiet' = quiet \cup (cancelling[c] \cap clean)
  /\ UNCHANGED <<clean, queueVars, scheduleVars, threadVars, trimVars>>

\* The scan of busy_thds finds no thread running a task of the owner.
wait_on_busy_threads(c) ==
  /\ caller[c] = "quiesce" /\ LockFree
  /\ \A w \in busy_thds : OwnerOf[current[w]] \notin cancelling[c]
  /\ caller' = [caller EXCEPT ![c] = "ready"]
  /\ cancelling' = [cancelling EXCEPT ![c] = {}]
  /\ quiet' = quiet \cup (cancelling[c] \cap clean)
  /\ UNCHANGED <<clean, queueVars, scheduleVars, threadVars, trimVars>>
----------------------------------------------------------------------------
(***************************************************************************)
(* One thread at a time trims the pool: apr_thread_pool_idle_max_set, and  *)
(* thread_pool_cleanup, which is idle_max_set(0) with me->terminated set   *)
(* before and a wait for the last thread after.                            *)
(***************************************************************************)
thread_pool_cleanup ==
  /\ trimmer = "off" /\ ~ terminated
  /\ \A c \in Client : caller[c] = "ready"
  /\ terminated' = TRUE
  /\ trimmer' = "limit"
  /\ UNCHANGED <<queueVars, scheduleVars, threadVars, callerVars, idle_max, trimmed>>

apr_thread_pool_idle_max_set(cnt) ==
  /\ \/ trimmer = "off" /\ ~ terminated /\ cnt \in IdleMaxes
     \/ trimmer = "limit" /\ cnt = 0
  /\ idle_max' = cnt
  /\ trimmer' = "trim"
  /\ UNCHANGED <<queueVars, scheduleVars, threadVars, callerVars, terminated, trimmed>>

\* Mutant: the trimmed threads are still counted as idle.
TrimUncounted ==
  /\ trimmer = "trim" /\ LockFree
  /\ trimmed' = IF idle_max = 0 THEN idle_thds ELSE {}
  /\ idle_thds' = idle_thds \ trimmed'
  /\ state' = [w \in Worker |-> IF w \in trimmed' THEN "TH_STOP" ELSE state[w]]
  /\ trimmer' = "broadcast"
  /\ UNCHANGED <<queueVars, scheduleVars, callerVars, idle_max, idle_cnt, terminated,
                 thd_cnt, busy_thds, pc, current, timed>>

\* trim_threads: unlink the idle threads above the limit and mark them.
trim_threads ==
  /\ trimmer = "trim" /\ LockFree
  /\ \E extra \in SUBSET idle_thds :
       /\ Cardinality(extra) = IF idle_cnt <= idle_max THEN 0 ELSE idle_cnt - idle_max
       /\ trimmed' = extra
       /\ idle_thds' = idle_thds \ extra
       /\ state' = [w \in Worker |-> IF w \in extra THEN "TH_STOP" ELSE state[w]]
  /\ idle_cnt' = IF idle_cnt <= idle_max THEN idle_cnt ELSE idle_max
  /\ trimmer' = "broadcast"
  /\ UNCHANGED <<queueVars, scheduleVars, callerVars, idle_max, terminated, thd_cnt,
                 busy_thds, pc, current, timed>>

\* trim_idle_threads: wake every waiting thread ...
Broadcast ==
  /\ trimmer = "broadcast"
  /\ Awake({w \in Worker : pc[w] = "waiting"})
  /\ trimmer' = "join"
  /\ UNCHANGED <<queueVars, scheduleVars, callerVars, idle_max, terminated, trimmed,
                 thd_cnt, idle_cnt, busy_thds, idle_thds, state, current, timed>>

\* ... join the trimmed ones and give their elements back.
JoinTrimmed ==
  /\ trimmer = "join"
  /\ \A w \in trimmed : pc[w] = "joinable"
  /\ pc' = [w \in Worker |-> IF w \in trimmed THEN "none" ELSE pc[w]]
  /\ state' = [w \in Worker |-> IF w \in trimmed THEN "TH_RUN" ELSE state[w]]
  /\ trimmed' = {}
  /\ trimmer' = IF terminated THEN "spin" ELSE "off"
  /\ UNCHANGED <<queueVars, scheduleVars, callerVars, idle_max, terminated, thd_cnt,
                 idle_cnt, busy_thds, idle_thds, current, timed>>

\* thread_pool_cleanup: no thread is left, the locks are destroyed.
Destroyed ==
  /\ trimmer = "spin" /\ thd_cnt = 0
  /\ trimmer' = "down"
  /\ UNCHANGED <<queueVars, scheduleVars, threadVars, callerVars, idle_max, terminated,
                 trimmed>>
----------------------------------------------------------------------------
WorkerStep(w) == TakeLock(w) \/ FinishTask(w) \/ Unlock(w) \/ Park(w) \/ TimeOut(w)

CallerStep(c) == Signal(c) \/ wait_on_busy_threads(c)

TrimStep ==
  \/ apr_thread_pool_idle_max_set(0) /\ terminated
  \/ trim_threads \/ Broadcast \/ JoinTrimmed \/ Destroyed

Request(c) ==
  \/ \E t \in Task : add_task(c, t, TRUE) \/ schedule_task(c, t)
  \/ \E o \in Owner : apr_thread_pool_tasks_cancel(c, o)

PoolNext ==
  \/ \E w \in Worker : WorkerStep(w)
  \/ ComeDue
  \/ \E c \in Caller : CallerStep(c) \/ Request(c)
  \/ thread_pool_cleanup
  \/ \E n \in IdleMaxes : apr_thread_pool_idle_max_set(n)
  \/ TrimStep

PoolSpec == PoolInit /\ [][PoolNext]_vars

(***************************************************************************)
(* Every thread that can run eventually does, task functions return, and   *)
(* time passes.  Nothing makes a client call the pool.                     *)
(***************************************************************************)
PoolFairness ==
  /\ \A w \in Worker : WF_vars(WorkerStep(w))
  /\ WF_vars(ComeDue)
  /\ \A c \in Caller : WF_vars(CallerStep(c))
  /\ WF_vars(TrimStep)

FairPoolSpec == PoolSpec /\ PoolFairness
----------------------------------------------------------------------------
Live == {w \in Worker : pc[w] \in {"start", "run", "parking", "waiting", "woken"}}

\* The pool's threads and callers are in states the code knows.
PoolTypeOK ==
  /\ QueueTypeOK
  /\ scheduled_tasks \in Seq(Task) /\ due \in 0 .. scheduled_task_cnt
  /\ pc \in [Worker -> {"none", "start", "run", "parking", "waiting", "woken",
                         "leaving", "detaching", "joinable"}]
  /\ state \in [Worker -> {"TH_RUN", "TH_STOP", "TH_PROBATION"}]
  /\ current \in [Worker -> Task \cup {NoTask}]
  /\ timed \in [Worker -> BOOLEAN]
  /\ caller \in [Caller -> {"ready", "signal", "quiesce"}]
  /\ cancelling \in [Caller -> SUBSET Owner]
  /\ trimmer \in {"off", "limit", "trim", "broadcast", "join", "spin", "down"}
  /\ idle_thds \subseteq Worker /\ busy_thds \subseteq Worker /\ trimmed \subseteq Worker
  /\ idle_max \in Nat /\ terminated \in BOOLEAN
  /\ clean \subseteq Owner /\ quiet \subseteq Owner

(***************************************************************************)
(* The counters that decide whether a thread is started, parked, stopped   *)
(* or waited for are what they count, although they are updated apart from *)
(* the lists, by the exiting thread, by the thread that starts it and by   *)
(* the thread that trims it; and busy_thds holds the running threads.      *)
(***************************************************************************)
CountsAreExact ==
  /\ thd_cnt = Cardinality(Live)
  /\ idle_cnt = Cardinality(idle_thds)
  /\ busy_thds = {w \in Worker : pc[w] = "run"}

\* Never more threads than max_threads, the initial ones, or the one that
\* is always allowed.
ThreadsBounded ==
  thd_cnt <= 1 \/ thd_cnt <= max_threads \/ thd_cnt <= init_threads

(***************************************************************************)
(* trim_idle_threads joins the threads it has unlinked: none of them may   *)
(* pick up a task or detach itself any more, and none may be started anew  *)
(* under the same list element.                                            *)
(***************************************************************************)
TrimmedAreJoinable ==
  \A w \in trimmed : /\ state[w] = "TH_STOP"
                     /\ pc[w] \in {"parking", "waiting", "woken", "leaving", "joinable"}

(***************************************************************************)
(* After apr_thread_pool_tasks_cancel returns, no task of the owner runs   *)
(* or is waiting to run until one is submitted again: services cancel      *)
(* their tasks to be free to release what the tasks use.                   *)
(***************************************************************************)
CancelledStaysQuiet ==
  \A t \in Task : OwnerOf[t] \in quiet =>
    t \notin Queued \cup ToSet(scheduled_tasks) \cup {current[w] : w \in Worker}

(***************************************************************************)
(* thread_pool_func: "If there is a scheduled task, always scheduled to    *)
(* perform that task."  A thread that goes idle while one is scheduled     *)
(* waits with a timeout, so that it comes back for it without a signal.    *)
(***************************************************************************)
IdleThreadsComeBack ==
  [][\A w \in Worker :
       pc[w] # "parking" /\ pc'[w] = "parking" /\ scheduled_tasks # <<>> => timed'[w]]_vars

(***************************************************************************)
(* The pool implements TaskService: whatever threads do between the two    *)
(* mutexes, a task is run at most once per submission, by one worker, and  *)
(* a cancel takes effect at once and returns only when the owner is quiet. *)
(***************************************************************************)
Service == INSTANCE TaskService WITH
  pending  <- Queued \cup ToSet(scheduled_tasks),
  running  <- current,
  revoking <- cancelling,
  closed   <- terminated

ImplementsTaskService == Service!TaskServiceSpec

\* The locks are destroyed when no thread holds one of them.
NoThreadInsideWhenDestroyed == trimmer = "down" => LockFree

(***************************************************************************)
(* "Destroy the thread pool and stop all the threads": thread_pool_cleanup *)
(* returns.                                                                *)
(***************************************************************************)
CleanupReturns == terminated ~> trimmer = "down"

\* A submitted task is eventually run, cancelled, or dropped by a destroyed pool.
TasksAreServed ==
  \A t \in Task : t \in Queued \cup ToSet(scheduled_tasks) ~>
                    t \notin Queued \cup ToSet(scheduled_tasks) \/ terminated

\* apr_thread_pool_tasks_cancel returns.
CancelReturns == \A c \in Client : caller[c] = "quiesce" ~> caller[c] = "ready"
============================================================================
