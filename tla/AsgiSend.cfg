SPECIFICATION Spec
CONSTANTS
  MaxChunks = 2
  MaxTrailers = 2
  MaxRaises = 1
INVARIANTS
  OneHolder
  WellFormedResponse
  SenderIsHeldBack
PROPERTIES
  SendsAndResponsesEnd
