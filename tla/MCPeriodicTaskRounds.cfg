SPECIFICATION FairPeriodicSpec
CONSTANTS
  disc = disc  tcp = tcp  none = none
  Discovery = disc
  Tcp = tcp
  Round = {r1, r2}
  Worker = {w1, w2}
  Caller = {stopper}
  Stopper = stopper
  Owner = {disc, tcp}
  Task <- Tasks
  OwnerOf <- OwnerOfAll
  NoTask <- NoRound
INVARIANT RoundsDoNotOverlap
PROPERTIES RoundsGoOn StopReturns
CHECK_DEADLOCK FALSE
