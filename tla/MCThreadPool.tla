---------------------------- MODULE MCThreadPool ----------------------------
(* Small instances of ThreadPool. *)
EXTENDS ThreadPool

CONSTANTS w1, w2, w3, c1, c2, t1, t2, t3, t4, o1, o2

OneTask == {t1}
TwoTasks == {t1, t2}
OwnerOfOne == [t \in OneTask |-> o1]
OwnerOfTwo == [t \in TwoTasks |-> o1]
ThreeTasks == {t1, t2, t3}
OwnerOfThree == [t \in ThreeTasks |-> IF t = t2 THEN o2 ELSE o1]
SamePriority == [t \in Task |-> 127]
Workers == Permutations(Worker)
============================================================================
