SPECIFICATION MCSpec
CONSTANTS
  None = None
  Rdv = {1, 2, 3}
  View <- FullView
  Edge = {4, 5}
  Lease <- Leases
  Elem = {"name"}
  ReplicaPeer <- AtTwo
  Near <- Alone
  Query = {q1}
  Asker = {2, 4}
  Target = {5}
  Suspect <- Suspects
  Capacity = 1
CHECK_DEADLOCK FALSE
INVARIANT FoundWhenSettled
PROPERTY EveryHopCounts
