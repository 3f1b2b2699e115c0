---------------------------- MODULE MCTaskQueue ----------------------------
(* Small instances of TaskQueue. *)
EXTENDS TaskQueue

CONSTANTS t1, t2, t3, t4, t5, t6, t7, o1, o2

Five == {t1, t2, t3, t4, t5}
Owners == {o1, o2}
OwnersOfFive == [t \in Five |-> IF t \in {t1, t3} THEN o1 ELSE o2]

\* Any byte can be a priority (task_priority of jxta_endpoint_service.c): two
\* equal priorities, two different ones in their segment, one segment above.
BytePriorities == [t \in Five |-> CASE t = t1 -> 70 [] t = t2 -> 100 [] t = t3 -> 100
                                    [] t = t4 -> 110 [] t = t5 -> 200]

\* One priority per segment, as with the constants of apr_thread_pool.h
\* other than APR_THREAD_TASK_PRIORITY_LOWEST.
Seven == Five \cup {t6, t7}
OwnersOfSeven == [t \in Seven |-> IF t \in {t1, t3, t4} THEN o1 ELSE o2]
LevelPriorities == [t \in Seven |-> CASE t = t1 -> 63 [] t \in {t4, t7} -> 191 [] t = t5 -> 255
                                      [] OTHER -> 127]
============================================================================
