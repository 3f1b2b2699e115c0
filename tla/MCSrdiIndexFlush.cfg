SPECIFICATION SrdiSpec
CONSTANTS
  None = None
  r1 = r1
  r2 = r2
  u = u
  v = v
  a1 = a1
  a2 = a2
  Edge = {e1}
  Rdv = {r1, r2}
  Adv = {a1}
  Val = {u}
  ReplicaOf <- NoReplicas
  Bound <- Flushing
  MaxFaults = 1
  MaxLoad = 2
CHECK_DEADLOCK FALSE
INVARIANT FlushedIsForgotten
