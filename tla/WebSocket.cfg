SPECIFICATION Spec
CONSTANTS
  MaxMessages = 2
  MaxReceives = 2
  MaxSends = 2
  MaxCancels = 1
  MaxRaises = 1
INVARIANTS
  FuturesAccounted
  SendsAreTruthful
  ReceivesAreTruthful
  NobodyWaitsInVain
