SPECIFICATION FairSpec
CONSTANTS
  workerCount = 2
  operationsPerWorker = 2
  streamCount = 2
  hotStreamCount = 1
  appendPercent = 80
  historyEventsPerStream = 3
  appendBatchSize = 2
  maxRetries = 1
  Seeds <- MCSeeds
INVARIANTS
  VerificationAgrees
  QuietWhileVerifying
PROPERTIES
  CleanupLeavesNothing
  RunEnds
