SPECIFICATION Spec
CONSTANTS
  NodeIds = {"aa", "AA", "bb", "short"}
  LowerId <- MCLowerId
  Is128 <- MCIs128
  Weights = {0, 1}
  ConfigKeys = {"tx_count_limit", "TX_COUNT_LIMIT", "other"}
  LowerKey <- MCLowerKey
  Values = {NotANumber, 0, 1, 2}
  NotANumber = NotANumber
  TX_GAS_LIMIT_MIN = 1
  TX_COUNT_LIMIT_MIN = 1
  CnsNames = {"n", " n", "long", "n,n"}
  Versions = {"1", "long"}
  Addresses = {"x", "y"}
  Trim <- MCTrim
  Long <- MCLong
  Comma <- MCComma
  Contracts = {"c"}
  Signatures = {"f(string,string)", "f("}
  ParamCount <- MCParamCount
  Sizes = {1, 3}
  ArgLists <- MCArgLists
  Genesis <- MCGenesis
  MaxNumber = 2
INVARIANTS
  SealerRemains
PROPERTIES
  RefusedChangesNothing
  SettledStays
