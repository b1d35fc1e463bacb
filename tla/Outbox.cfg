SPECIFICATION OFairSpec
CONSTANTS
  Workers = {w1, w2}
  Nobody = nobody
  MaxId = 3
  Limit = 2
  MaxFailures = 2
INVARIANTS
  ProcessedWasPublished
  RepeatedOnlyAfterFailure
PROPERTIES
  EveryEntryProcessed
