SPECIFICATION FairSpec
CONSTANTS
  Migrators = {"m1", "m2"}
  Verifiers = {"v"}
  Callers <- MCCallers
  ReleaseUpcasters <- MCUpcasters
  MaxSchemaVersion = 4
  MaxFaults = 2
INVARIANTS
  InitializedMeansMigrated
  MigrationsNeverCollide
  UpcastReachesLatest
PROPERTIES
  EventuallyInitialized
