SPECIFICATION FairSpec
CONSTANTS
  N = 3
  app = app
  u = u
  v = v
  bad = bad
  Calls <- MCCalls
  Abi <- MCAbi
  Slots <- MCSlots
  Keys <- MCKeys
  Invalid <- bad
INVARIANTS
  UnansweredOnlyBehindOwnEdge
PROPERTIES
  WasmImplementsSerialOrder
  CallbackCalled
CHECK_DEADLOCK FALSE
