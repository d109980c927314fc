SPECIFICATION FairSpec
CONSTANTS
  Keys = {k1, k2}
  MaxBlock = 3
  MaxStorage = 3
  HasCache = TRUE
INVARIANTS
  TypeOK
  ChainLinked
  CacheAgreesWithBackend
PROPERTIES
  ImplementsLedger
  CommitFinishes
CHECK_DEADLOCK FALSE
