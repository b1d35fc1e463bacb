SPECIFICATION PFairSpec
CONSTANTS
  Writers = {w1, w2}
  Certifiers = {r1, r2}
  Nobody = nobody
  MaxPosition = 2
  BatchSize = 2
  Policies = {"skip", "handler", "none"}
INVARIANTS
  TypeOK
  CertifiedIsSettled
PROPERTIES
  CertifiedPrefixFrozen
  StaleOnlyBehindWriter
  ProjectsExactlyOnceInOrder
  EventuallyProjected
