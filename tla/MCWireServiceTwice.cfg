SPECIFICATION WireSpec
CONSTANTS
  None = None
  m1 = m1
  m2 = m2
  Rdv = {1, 2, 3}
  Edge = {4}
  View <- FullView
  Lease <- AllAtLast
  Starts <- Everybody
  Msg = {m1}
  Listener = {user, own}
  Own = {own}
  MaxCache = 1
  Handlers = 2
  MaxLost = 1
  Callers = {4}
  MaxChanges = 2
CHECK_DEADLOCK FALSE
INVARIANT GivenExactlyOnce
