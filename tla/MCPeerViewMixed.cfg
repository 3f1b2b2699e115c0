SPECIFICATION FairViewSpec
CONSTANTS
  Peer = {1, 2, 3}
  None = None
  Seeds <- FirstIsSeed
  HappySize = 3
  MaxProbed = 1
  Setups <- Mixed
  UseOnlySeeds = FALSE
  MaxNet = 0
INVARIANTS NeighboursMatch HalvesAgree
PROPERTIES GoneLeavesViews KnownInTheEnd
