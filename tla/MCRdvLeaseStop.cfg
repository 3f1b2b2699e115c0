SPECIFICATION FairLeaseSpec
CONSTANTS
  c1 = c1
  c2 = c2
  r1 = r1
  r2 = r2
  Client = {c1}
  Rdv = {r1}
  View <- OneInView
  Lease = 4
  RenewalDelay = 3
  MinRetry = 1
  MaxRetry = 2
  Cycle = 1
  MinConnected = 1
  MaxClients <- OnePlace
  MaxDelay = 1
  MaxFaults = 1
  MayStop = {c1}
PROPERTY StopReturns
