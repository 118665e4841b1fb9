SPECIFICATION ReceiveSteps
CONSTANTS
  MaxBody = 3
  Window = 2
  MaxReceives = 3
INVARIANTS
  OneHolderPerReceive
  EventsAreTruthful
PROPERTY ReceivesReturn
