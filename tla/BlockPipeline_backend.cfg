SPECIFICATION FairSpec
CONSTANTS
  Keys = {k1, k2}
  MaxBlock = 3
  MaxStorage = 3
  HasCache = FALSE
INVARIANTS
  ChainLinked
PROPERTIES
  ImplementsLedger
CHECK_DEADLOCK FALSE
