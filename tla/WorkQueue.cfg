SPECIFICATION Spec
CONSTANTS
  Items = {i1, i2}
  Workers = {w1, w2, w3}
  Closer = closer
  NoItem = none
INVARIANTS
  NoLostWakeup
  WakeupsReachSleepers
PROPERTY ImplementsQueue
