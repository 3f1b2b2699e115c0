SPECIFICATION FairLeaseSpec
CONSTANTS
  c1 = c1
  c2 = c2
  r1 = r1
  r2 = r2
  Client = {c1, c2}
  Rdv = {r1, r2}
  View <- TwoInView
  Lease = 3
  RenewalDelay = 2
  MinRetry = 1
  MaxRetry = 1
  Cycle = 1
  MinConnected = 1
  MaxClients <- OneAndTwo
  MaxDelay = 0
  MaxFaults = 1
  MayStop = {c1}
INVARIANT TablesBounded
PROPERTY ConnectedAgain
