SPECIFICATION Spec
CONSTANTS
  Contracts = {"c", "d"}
  Funcs = {"f", "g"}
  Accounts = {"a", "b"}
  Committee = "committee"
  Deployed <- MCDeployed
  Types = {0, 1, 2, 3}
  MaxNumber = 2
  TxsPerBlock = 2
INVARIANTS
  DecisionsHold
PROPERTIES
  StableInBlock
CHECK_DEADLOCK FALSE
