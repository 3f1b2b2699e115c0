SPECIFICATION FairPoolSpec
CONSTANTS
  w1 = w1  w2 = w2  w3 = w3  c1 = c1  c2 = c2
  t1 = t1  t2 = t2  t3 = t3  t4 = t4  o1 = o1  o2 = o2
  NoTask = NoTask
  Task <- TwoTasks
  Owner = {o1}
  OwnerOf <- OwnerOfTwo
  Priority <- SamePriority
  Worker = {w1, w2}
  Client = {c1}
  init_threads = 0
  max_threads = 2
  idle_wait = TRUE
  Scheduled = {}
  IdleMaxes = {}
  TaskSubmits = FALSE
  CreateFails = FALSE
PROPERTY TasksAreServed CancelReturns
CHECK_DEADLOCK FALSE
