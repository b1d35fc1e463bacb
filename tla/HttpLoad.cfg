SPECIFICATION FairSpec
CONSTANTS
  Profiles <- MCProfiles
  seed = 1
  workerCount = 2
  accountCount = 2
  activeUserCount = 2
  operationsPerUser = 2
  hotAccountCount = 1
  hotTrafficPercent = 75
  readPercent = 50
  concurrency = 2
  maxRetries = 1
  customRequestCount = 3
  dailyRequestCount = 0
  capacityStart = 1
  capacityStep = 1
  capacityMax = 2
  capacityStageSeconds = 1
  historyEventsPerAccount = 2
  seedBatchSize = 1
  snapshotBenchmarkRequests = 1
  snapshotBenchmarkHistoryEventsPerAccount = 3
  snapshotEvery = 2
INVARIANTS
  VerificationAgrees
  OneEventPerDeposit
  EachOperationOnce
PROPERTIES
  TrafficEnds
