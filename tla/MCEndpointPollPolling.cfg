SPECIFICATION FairEndpointSpec
CONSTANTS
  w1 = w1  w2 = w2  p1 = p1  p2 = p2  p3 = p3  p4 = p4  p5 = p5  m1 = m1  d1 = d1
  s1 = s1  s2 = s2  s3 = s3  stopper = stopper  ep = ep  conn = conn
  NoTask = NoTask
  Worker = {w1, w2}
  Caller = {stopper}
  Stopper = stopper
  Owner = {ep, conn}
  Connection = conn
  Endpoint = ep
  Poll = {p1, p2, p3, p4}
  Message = {m1}
  Data = {d1}
  Task <- Tasks
  OwnerOf <- OwnerOfAll
  Socket = {s1, s2}
  PollsetSize = 1
INVARIANT SocketsArePolled
PROPERTIES PollingGoesOn StoppedQuietens
CHECK_DEADLOCK FALSE
