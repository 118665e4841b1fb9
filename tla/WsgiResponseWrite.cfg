SPECIFICATION Spec
CONSTANTS
  MaxChunks = 2
  MaxStarts = 1
  MaxLevel = 1
  MaxRaises = 1
PROPERTY Backpressure
