SPECIFICATION QueueSpec
CONSTANTS
  t1 = t1  t2 = t2  t3 = t3  t4 = t4  t5 = t5  t6 = t6  t7 = t7
  o1 = o1  o2 = o2
  NoTask = NoTask
  Task <- Seven
  Owner <- Owners
  OwnerOf <- OwnersOfSeven
  Priority <- LevelPriorities
INVARIANTS IndexPointsIntoRing OrderedFromPointers
PROPERTY BehindItsEquals
