SPECIFICATION Spec
CONSTANTS
  MaxChunks = 3
  MaxStarts = 2
  MaxLevel = 2
  MaxRaises = 2
INVARIANTS
  WellFormedResponse
  IterationIsHeldBack
PROPERTIES
  WriterResumes
  ResponseEnds
