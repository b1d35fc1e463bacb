SPECIFICATION FairSpec
CONSTANTS
  Subscribers = {s1}
  PoolSize = 3
  BatchSize = 1
  MaxPosition = 3
  MaxDrops = 1
  MaxStops = 1
INVARIANTS
  OnlyDropsLoseConnections
PROPERTIES
  YieldsEachEventOnceInOrder
  EventuallyYielded
  AbortEnds
