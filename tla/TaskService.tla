---------------------------- MODULE TaskService ----------------------------
(***************************************************************************)
(* What the thread pool promises its users, without threads, rings, locks  *)
(* or signals: a submitted task waits, is run by some worker, and is gone; *)
(* a cancel takes the waiting tasks of an owner away in one step and       *)
(* returns when none of the owner's tasks runs; a closed pool may forget a *)
(* waiting task.  ThreadPool implements this specification; EndpointPoll   *)
(* and PeriodicTask, the services on the pool, build on it.                *)
(***************************************************************************)
CONSTANTS Task, Owner, OwnerOf, Worker, Caller, NoTask

VARIABLES pending,    \* the tasks that wait to be run
          running,    \* the task each worker runs, or NoTask
          revoking,   \* the owner each caller is cancelling, if any: at most one
          closed      \* the pool is being destroyed

taskServiceVars == <<pending, running, revoking, closed>>

TaskServiceInit ==
  /\ pending = {}
  /\ running = [w \in Worker |-> NoTask]
  /\ revoking = [c \in Caller |-> {}]
  /\ closed = FALSE

Submit(t) ==
  /\ t \notin pending
  /\ pending' = pending \cup {t}
  /\ UNCHANGED <<running, revoking, closed>>

\* A worker picks a task, right after the one it ran or later.
Begin(w, t) ==
  /\ t \in pending /\ ~ closed
  /\ pending' = pending \ {t}
  /\ running' = [running EXCEPT ![w] = t]
  /\ UNCHANGED <<revoking, closed>>

End(w) ==
  /\ running[w] # NoTask
  /\ running' = [running EXCEPT ![w] = NoTask]
  /\ UNCHANGED <<pending, revoking, closed>>

\* A worker that finds the pool closed drops the task it has picked.
Forget(w, t) ==
  /\ t \in pending /\ closed
  /\ pending' = pending \ {t}
  /\ running' = [running EXCEPT ![w] = NoTask]
  /\ UNCHANGED <<revoking, closed>>

Revoke(c, owner) ==
  /\ revoking[c] = {}
  /\ pending' = {t \in pending : OwnerOf[t] # owner}
  /\ revoking' = [revoking EXCEPT ![c] = {owner}]
  /\ UNCHANGED <<running, closed>>

Revoked(c) ==
  /\ revoking[c] # {}
  /\ \A w \in Worker : running[w] # NoTask => OwnerOf[running[w]] \notin revoking[c]
  /\ revoking' = [revoking EXCEPT ![c] = {}]
  /\ UNCHANGED <<pending, running, closed>>

Close == closed' = TRUE /\ UNCHANGED <<pending, running, revoking>>

TaskServiceNext ==
  \/ \E t \in Task : Submit(t)
  \/ \E w \in Worker : End(w) \/ \E t \in Task : Begin(w, t) \/ Forget(w, t)
  \/ \E c \in Caller : Revoked(c) \/ \E o \in Owner : Revoke(c, o)
  \/ Close

TaskServiceSpec == TaskServiceInit /\ [][TaskServiceNext]_taskServiceVars
============================================================================
