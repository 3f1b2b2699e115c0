SPECIFICATION FairTcpSpec
CONSTANTS
  p1 = p1  p2 = p2  w1 = w1  w2 = w2  c1 = c1  m1 = m1  m2 = m2  m3 = m3
  Poller = {p1, p2}
  Worker = {w1, w2}
  Closer = {c1}
  Messages <- MCThree
  RemoteCloses = TRUE
  Malformed = {m2}
  Nobody = Nobody
INVARIANTS OneProcessor NothingStranded DeliveredInOrder
PROPERTY EverythingDelivered
CHECK_DEADLOCK FALSE
