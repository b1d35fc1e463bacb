SPECIFICATION FairSpec
CONSTANTS
  Clients = {c1, c2}
  Streams = {s1, s2}
  Keys = {k1}
  NoKey = noKey
  NoStream = noStream
  ExpectedVersions <- MCExpectedVersions
  NoBody = noBody
  Nobody = nobody
  Bodies <- MCBodies
  MaxPosition = 2
  MaxAppends = 2
INVARIANTS
  GapFreeVersions
  AppendedOncePerKey
  AnswerIsTrue
  OutboxMatchesEvents
PROPERTIES
  TransactionsEnd
  AppendsAtomically
