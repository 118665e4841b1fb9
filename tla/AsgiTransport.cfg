SPECIFICATION Spec
CONSTANTS
  MaxForwarded = 2
  MaxData = 2
  MaxReads = 2
  MaxCloses = 1
INVARIANTS
  FuturesAccounted
  ResponseIsTruthful
  RequestIsTruthful
PROPERTY
  CallsReturn
