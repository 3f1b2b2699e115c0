SPECIFICATION PoolSpec
CONSTANTS
  w1 = w1  w2 = w2  w3 = w3  c1 = c1  c2 = c2
  t1 = t1  t2 = t2  t3 = t3  t4 = t4  o1 = o1  o2 = o2
  NoTask = NoTask
  Task <- ThreeTasks
  Owner = {o1, o2}
  OwnerOf <- OwnerOfThree
  Priority <- SamePriority
  Worker = {w1, w2, w3}
  Client = {c1}
  init_threads = 1
  max_threads = 2
  idle_wait = FALSE
  Scheduled = {t3}
  IdleMaxes = {0}
  TaskSubmits = TRUE
  CreateFails = TRUE
SYMMETRY Workers
INVARIANTS IndexPointsIntoRing CountsAreExact ThreadsBounded TrimmedAreJoinable CancelledStaysQuiet
PROPERTY ImplementsTaskService
CHECK_DEADLOCK FALSE
