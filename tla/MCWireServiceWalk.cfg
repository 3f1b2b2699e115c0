SPECIFICATION WireSpec
CONSTANTS
  None = None
  m1 = m1
  m2 = m2
  Rdv = {1, 2, 3}
  Edge = {4}
  View <- FullView
  Lease <- AllAtLast
  Starts <- EdgeWaits
  Msg = {m1, m2}
  Listener = {user, own}
  Own = {own}
  MaxCache = 3
  Handlers = 2
  MaxLost = 1
  MaxChanges = 2
  Callers = {4}
SYMMETRY MsgSymmetry
CHECK_DEADLOCK FALSE
INVARIANTS WalkReachesAll GivenOnce
