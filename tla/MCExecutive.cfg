SPECIFICATION FairSpec
CONSTANTS
  Contexts = {c1, c2}
  Keys = {k1, k2}
  MaxSeq = 1
  MaxOps = 2
INVARIANTS
  TypeOK
  Isolation
  RevertedLeavesNothing
PROPERTIES
  RevertsOwnOnly
  AllEnd
CHECK_DEADLOCK FALSE
