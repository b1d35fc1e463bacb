SPECIFICATION FairSpec
CONSTANTS
  Subscribers = {s1}
  PoolSize = 3
  BatchSize = 1
  MaxPosition = 1
  MaxDrops = 2
  MaxStops = 0
PROPERTIES
  DeliversDespiteDrops
CHECK_DEADLOCK FALSE
