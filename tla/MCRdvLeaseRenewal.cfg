SPECIFICATION FairLeaseSpec
CONSTANTS
  c1 = c1
  c2 = c2
  r1 = r1
  r2 = r2
  Client = {c1}
  Rdv = {r1, r2}
  View <- TwoInView
  Lease = 6
  RenewalDelay = 5
  MinRetry = 1
  MaxRetry = 2
  Cycle = 1
  MinConnected = 1
  MaxClients <- TwoPlaces
  MaxDelay = 1
  MaxFaults = 1
  MayStop = {c1}
INVARIANTS EveryLeaseEnds ClientIsServed
PROPERTIES UnservedFindsOut ConnectedAgain StoppedIsForgotten
