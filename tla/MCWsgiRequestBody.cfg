SPECIFICATION Spec
CONSTANTS
  MaxBody = 5
  Newlines <- SecondByte
  Window = 3
  Reads <- SomeReads
INVARIANTS
  BodyConserved
  OneReadOneAnswer
PROPERTIES
  ImplementsInput
  ReadsReturn
