SPECIFICATION FairSpec
CONSTANTS
  Callers = {c1, c2, c3}
  Runners = {c1, c2}
  Kinds <- AllKinds
  PoolSizes = {2, 3}
  MaxTiles = 4
  MaxCalls = 3
PROPERTIES
  ImplementsForkJoin
  CallsReturn
CHECK_DEADLOCK FALSE
