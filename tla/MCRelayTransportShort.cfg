SPECIFICATION RelaySpec
CONSTANTS
  m1 = m1
  m2 = m2
  m3 = m3
  Client = {c1}
  Msg = {m1, m2}
  Duration = 2
  Granted = 6
  Renewal = 1
  Storage = 1
  Naps = 3
  MaxLeases = 1
  MaxStored = 1
  Handlers = 2
  MaxFaults = 0
INVARIANT ConnectedIsServed
