SPECIFICATION FairSpec
CONSTANTS
  HostA = HostA
  HostB = HostB
  HostC = HostC
  Host <- MCHost
  Pairs <- MCPairs
  Slots = 2
  Life = 2
  MaxLoss = 1
  MaxHaste = 1
  None = None
INVARIANTS
  TypeOK
  NoItemLost
  ReachesItsHost
PROPERTIES
  EvictsOldest
  Resolves
CHECK_DEADLOCK FALSE
