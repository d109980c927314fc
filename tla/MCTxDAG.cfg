SPECIFICATION FairSpec
CONSTANTS
  N = 4
  a = a
  b = b
  Fields <- MCFields
  CriticalLists <- MCCriticalLists
  Threads = {t1, t2}
INVARIANTS
  TypeOK
  ConflictOrder
  OnePlace
  FinishedMeansAll
  ReadsAsSerial
PROPERTIES
  ImplementsSerialOrder
  Termination
CHECK_DEADLOCK FALSE
