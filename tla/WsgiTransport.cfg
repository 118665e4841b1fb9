SPECIFICATION Spec
CONSTANTS
  MaxForwarded = 1
  MaxData = 2
  MaxReads = 2
INVARIANTS
  NothingIsLeft
  ResponseIsTruthful
  RequestIsTruthful
PROPERTY
  CallsReturn
