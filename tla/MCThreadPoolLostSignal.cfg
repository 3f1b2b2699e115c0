SPECIFICATION FairPoolSpec
CONSTANTS
  w1 = w1  w2 = w2  w3 = w3  c1 = c1  c2 = c2
  t1 = t1  t2 = t2  t3 = t3  t4 = t4  o1 = o1  o2 = o2
  NoTask = NoTask
  Task <- OneTask
  Owner = {o1}
  OwnerOf <- OwnerOfOne
  Priority <- SamePriority
  Worker = {w1}
  Client = {c1}
  init_threads = 1
  max_threads = 1
  idle_wait = FALSE
  Scheduled = {}
  IdleMaxes = {}
  TaskSubmits = FALSE
  CreateFails = FALSE
PROPERTY TasksAreServed
CHECK_DEADLOCK FALSE
