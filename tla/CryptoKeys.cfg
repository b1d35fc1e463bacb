SPECIFICATION Spec
CONSTANTS
  Processes = {p1, p2}
  Keys = {1, 2}
  Nobody = nobody
  LastPhase = 4
  MaxAppends = 2
SYMMETRY Symmetry
INVARIANTS
  StaysReadable
  LoadIsUniform
  KeyLocksNeverDeadlock
PROPERTIES
  NothingEncryptedAfterRevocation
