SPECIFICATION WSpec
CONSTANTS
  Transactions = {t1, t2, t3}
  Streams = {s1, s2}
  Limits = {1, 2}
  MaxPosition = 4
SYMMETRY Symmetry
INVARIANTS
  WalkReadsTheBoundary
  CursorsRepeat
CHECK_DEADLOCK FALSE
