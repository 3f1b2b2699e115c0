SPECIFICATION CacheSpec
CONSTANTS
  m1 = m1  m2 = m2  m3 = m3  m4 = m4  p1 = p1  p2 = p2  s1 = s1  s2 = s2
  Message = {m1, m2, m3, m4}
  Peer = {p1, p2}
  Dest <- MCTwoPeers
  Sender = {s1}
  Capacity = 2
  TimeoutInit = 1
  TimeoutMax = 3
  RetryCount = 2
  CountModulus = 4
  Async = {m4}
  SendResults = {"UNREACHABLE", "FAILED"}
  NoMessage = NoMessage  NoEntry = NoEntry
INVARIANTS HeldExactly SentInOrder
PROPERTY LeavesOnlyByPolicy
CHECK_DEADLOCK FALSE
