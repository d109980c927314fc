SPECIFICATION FairSpec
CONSTANTS
  Threads = {t1, t2, t3}
  Hashes = {1, 3}
  Low <- MCLow
  Capacity = 2
INVARIANTS
  TypeOK
  HandleIsValid
  ItemsAccounted
PROPERTIES
  InsertReturns
CHECK_DEADLOCK FALSE
