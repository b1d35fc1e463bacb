SPECIFICATION Spec
CONSTANTS
  Deposit = Deposit
  Withdrawal = Withdrawal
  SourceTypes = {Deposit, Withdrawal}
  Definitions = {1, 2, 3}
  Handles <- MCHandles
  Every <- MCEvery
  Encrypted = {1}
  MaxBatch = 2
  MaxLength = 4
INVARIANTS
  LoadEqualsReplay
  SnapshotsAreFaithful
  ReplayIsBounded
CHECK_DEADLOCK FALSE
