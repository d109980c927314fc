SPECIFICATION FairSpec
CONSTANTS
  Modules <- MCModules
  Cost <- MCCost
  Gas = {9, 24}
INVARIANTS
  PaidExactly
  SameContract
PROPERTIES
  Stops
CHECK_DEADLOCK FALSE
