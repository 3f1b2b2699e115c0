----------------------------- MODULE TaskQueue -----------------------------
(***************************************************************************)
(* The ring of runnable tasks of the thread pool, src/src/jpr/             *)
(* apr_thread_pool.c.  The ring is kept in priority order with the help of *)
(* one pointer per priority segment, task_idx[seg], that remembers a task  *)
(* of that segment so that an insertion does not walk the whole ring.      *)
(* Every operation runs with the pool's lock held, so each is one step.    *)
(***************************************************************************)
EXTENDS Naturals, Sequences, FiniteSets, SequencesExt

CONSTANTS Task,      \* the tasks that can be submitted (apr_thread_pool_task)
          Owner,     \* the owners tasks are submitted for
          OwnerOf,   \* task->owner
          Priority,  \* task->dispatch.priority, one byte
          NoTask     \* the NULL pointer

TASK_PRIORITY_SEGS == 4

Segment == 0 .. TASK_PRIORITY_SEGS - 1

ASSUME TaskAssumption ==
  /\ NoTask \notin Task
  /\ OwnerOf \in [Task -> Owner]
  /\ Priority \in [Task -> 0 .. 255]

VARIABLES tasks,     \* the ring, its first element at index 1
          task_idx,  \* task_idx[seg]: a task of the segment, or NoTask
          task_cnt   \* the number of tasks in the ring

queueVars == <<tasks, task_idx, task_cnt>>

TASK_PRIORITY_SEG(t) == Priority[t] \div 64

Queued == {tasks[i] : i \in DOMAIN tasks}

Position(t) == CHOOSE i \in DOMAIN tasks : tasks[i] = t

\* The ring's sentinel: inserting before it appends.
Sentinel == Len(tasks) + 1

\* The first position at or after i whose task satisfies Test, or the sentinel.
FirstFrom(i, Test(_)) ==
  CHOOSE j \in i .. Sentinel :
    /\ j = Sentinel \/ Test(tasks[j])
    /\ \A k \in i .. j - 1 : ~ Test(tasks[k])

QueueInit ==
  /\ tasks = <<>>
  /\ task_idx = [seg \in Segment |-> NoTask]
  /\ task_cnt = 0

(***************************************************************************)
(* A list of tasks without those of an owner, in the same order: its n-th  *)
(* task is the one with n kept tasks up to it.                             *)
(***************************************************************************)
Without(owner, list) ==
  LET kept    == {i \in DOMAIN list : OwnerOf[list[i]] # owner}
      upTo(i) == Cardinality({k \in kept : k <= i})
  IN  [n \in 1 .. Cardinality(kept) |-> list[CHOOSE i \in kept : upTo(i) = n]]

----------------------------------------------------------------------------
\* Mutant: a task whose segment is empty goes to the end.
AlwaysAtTheEnd(t) == Sentinel

(***************************************************************************)
(* add_if_empty: where a task goes when its segment has no pointer, before *)
(* the pointer of the next lower segment that has one, or at the end.      *)
(***************************************************************************)
EmptySegmentPlace(t) ==
  LET lower == {seg \in Segment : seg < TASK_PRIORITY_SEG(t) /\ task_idx[seg] # NoTask}
  IN  IF lower = {} THEN Sentinel
      ELSE Position(task_idx[CHOOSE s \in lower : \A r \in lower : r <= s])

(***************************************************************************)
(* add_if_empty: the first task of same or lower priority, looked for from *)
(* the segment's pointer on.                                               *)
(***************************************************************************)
SameOrLowerPlace(t) ==
  FirstFrom(Position(task_idx[TASK_PRIORITY_SEG(t)]),
            LAMBDA u : Priority[u] <= Priority[t])

\* add_task with push: step over the tasks of the same priority.
LowerPlace(t) ==
  FirstFrom(SameOrLowerPlace(t), LAMBDA u : Priority[u] < Priority[t])

\* Mutant: the pointer stays where it is unless the segment was empty.
BecomesIndexOfEmpty(t, push, place) == task_idx[TASK_PRIORITY_SEG(t)] = NoTask

(***************************************************************************)
(* The segment's pointer moves to the new task when the segment had none   *)
(* and when a task put on top goes right before it; a pushed task never    *)
(* becomes the pointer of a segment that has one.                          *)
(***************************************************************************)
BecomesIndex(t, push, place) ==
  LET idx == task_idx[TASK_PRIORITY_SEG(t)]
  IN  idx = NoTask \/ (~ push /\ place = Position(idx))

\* add_task, the part that links the task.
InsertTask(t, push) ==
  LET seg   == TASK_PRIORITY_SEG(t)
      place == IF task_idx[seg] = NoTask THEN EmptySegmentPlace(t)
               ELSE IF push THEN LowerPlace(t) ELSE SameOrLowerPlace(t)
  IN  /\ t \notin Queued
      /\ tasks' = InsertAt(tasks, place, t)
      /\ task_cnt' = task_cnt + 1
      /\ task_idx' = IF BecomesIndex(t, push, place)
                     THEN [task_idx EXCEPT ![seg] = t] ELSE task_idx

\* The pointer of seg once the task it points to, at position i, is unlinked.
NextOfSegment(seg, i) ==
  IF i < Len(tasks) /\ TASK_PRIORITY_SEG(tasks[i + 1]) = seg THEN tasks[i + 1] ELSE NoTask

\* Mutant: the segment's pointer is left on the popped task.
PopFirstKeepsIndex ==
  /\ task_cnt > 0
  /\ tasks' = Tail(tasks)
  /\ task_cnt' = task_cnt - 1
  /\ UNCHANGED task_idx

\* pop_task, the normal tasks: unlink the first one.
PopFirst ==
  LET t   == Head(tasks)
      seg == TASK_PRIORITY_SEG(t)
  IN  /\ task_cnt > 0
      /\ tasks' = Tail(tasks)
      /\ task_cnt' = task_cnt - 1
      /\ task_idx' = IF task_idx[seg] = t
                     THEN [task_idx EXCEPT ![seg] = NextOfSegment(seg, 1)]
                     ELSE task_idx

\* Mutant: the counter is lowered once, however many tasks are unlinked.
RemoveTasksCountsOne(owner) ==
  /\ tasks' = Without(owner, tasks)
  /\ task_cnt' = IF tasks' = tasks THEN task_cnt ELSE task_cnt - 1
  /\ task_idx' = [seg \in Segment |-> NoTask]

(***************************************************************************)
(* remove_tasks: unlink every task of an owner, first to last.  A pointer  *)
(* to a removed task slides to the next task as long as that stays in the  *)
(* segment, and is cleared as soon as it does not.                         *)
(***************************************************************************)
remove_tasks(owner) ==
  LET kept(t) == OwnerOf[t] # owner
      slide(seg) ==
        LET i == Position(task_idx[seg])
            j == FirstFrom(i, kept)
        IN  IF j # Sentinel /\ \A k \in i .. j : TASK_PRIORITY_SEG(tasks[k]) = seg
            THEN tasks[j] ELSE NoTask
  IN  /\ tasks' = Without(owner, tasks)
      /\ task_cnt' = task_cnt - Cardinality({t \in Queued : ~ kept(t)})
      /\ task_idx' = [seg \in Segment |->
                        IF task_idx[seg] = NoTask THEN NoTask ELSE slide(seg)]
----------------------------------------------------------------------------
\* The queue on its own: any sequence of the pool's operations on it.
apr_thread_pool_push(t) == InsertTask(t, TRUE)
apr_thread_pool_top(t)  == InsertTask(t, FALSE)

QueueNext ==
  \/ \E t \in Task : apr_thread_pool_push(t) \/ apr_thread_pool_top(t)
  \/ PopFirst
  \/ \E o \in Owner : remove_tasks(o)

QueueSpec == QueueInit /\ [][QueueNext]_queueVars
----------------------------------------------------------------------------
\* The queue's state has the expected shape and no task is linked twice.
QueueTypeOK ==
  /\ tasks \in Seq(Task)
  /\ task_idx \in [Segment -> Task \cup {NoTask}]
  /\ task_cnt = Len(tasks)
  /\ \A i, j \in DOMAIN tasks : tasks[i] = tasks[j] => i = j

(***************************************************************************)
(* add_if_empty and pop_task follow task_idx without looking whether the   *)
(* task is still linked: a pointer left on a task that was popped, or      *)
(* removed by remove_tasks, would be a pointer into a recycled task.       *)
(***************************************************************************)
IndexPointsIntoRing ==
  \A seg \in Segment : task_idx[seg] # NoTask =>
    task_idx[seg] \in Queued /\ TASK_PRIORITY_SEG(task_idx[seg]) = seg

(***************************************************************************)
(* add_if_empty looks for a place from the segment's pointer on and stops  *)
(* at the first task of a lower priority.  For any priorities, and whatever *)
(* pops and removals did before, that finds the right place among the      *)
(* tasks from the pointer on: no task of a higher segment stands there, and *)
(* no task of the segment stands there behind one of lower priority.       *)
(***************************************************************************)
OrderedFromPointers ==
  \A seg \in Segment : task_idx[seg] # NoTask =>
    \A i, j \in DOMAIN tasks : Position(task_idx[seg]) <= i /\ i < j =>
      /\ TASK_PRIORITY_SEG(tasks[j]) <= seg
      /\ TASK_PRIORITY_SEG(tasks[j]) = seg => Priority[tasks[i]] >= Priority[tasks[j]]

(***************************************************************************)
(* apr_thread_pool.h: push schedules "to the bottom of the tasks of same   *)
(* priority", for any priorities and wherever the segment's pointer is:    *)
(* tasks of one priority are served in the order of their pushes.          *)
(***************************************************************************)
BehindItsEquals ==
  [][\A t \in Task, i, j \in DOMAIN tasks' :
       apr_thread_pool_push(t) /\ tasks'[i] = t /\ Priority[tasks'[j]] = Priority[t]
         => j <= i]_queueVars

\* apr_thread_pool.h: top schedules "to the top of the tasks of same priority".
PutOnTopOfEquals ==
  [][\A t \in Task, i, j \in DOMAIN tasks' :
       apr_thread_pool_top(t) /\ tasks'[i] = t /\ Priority[tasks'[j]] = Priority[t]
         => i <= j]_queueVars

(***************************************************************************)
(* The ring is in priority order: a task never waits behind one of lower   *)
(* priority.                                                               *)
(***************************************************************************)
PriorityOrdered ==
  \A i, j \in DOMAIN tasks : i < j => Priority[tasks[i]] >= Priority[tasks[j]]
============================================================================
