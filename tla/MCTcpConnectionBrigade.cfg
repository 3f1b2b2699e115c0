SPECIFICATION TcpSpec
CONSTANTS
  p1 = p1  p2 = p2  w1 = w1  w2 = w2  c1 = c1  m1 = m1  m2 = m2  m3 = m3
  Poller = {p1}
  Worker = {w1}
  Closer = {c1}
  Messages <- MCOne
  RemoteCloses = FALSE
  Malformed = {}
  Nobody = Nobody
PROPERTY NobodyReadsWhenClosed
CHECK_DEADLOCK FALSE
