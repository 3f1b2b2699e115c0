SPECIFICATION CacheSpec
CONSTANTS
  m1 = m1  m2 = m2  m3 = m3  m4 = m4  p1 = p1  p2 = p2  s1 = s1  s2 = s2
  Message = {m1, m2}
  Peer = {p1}
  Dest <- MCOnePeer
  Sender = {s1, s2}
  Capacity = 2
  TimeoutInit = 1
  TimeoutMax = 2
  RetryCount = 2
  CountModulus = 4
  Async = {m1, m2}
  SendResults = {"UNREACHABLE"}
  NoMessage = NoMessage  NoEntry = NoEntry
PROPERTY LeavesOnlyByPolicy
CHECK_DEADLOCK FALSE
