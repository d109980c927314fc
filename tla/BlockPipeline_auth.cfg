SPECIFICATION Spec
CONSTANTS
  Keys = {k1, k2}
  MaxBlock = 3
  MaxStorage = 3
  HasCache = TRUE
INVARIANT
  AuthReadsParentState
CHECK_DEADLOCK FALSE
