SPECIFICATION BridgeSteps
CONSTANTS Events = {e1, e2, e3, e4}
INVARIANTS
  NothingLost
PROPERTY ImplementsBridge
