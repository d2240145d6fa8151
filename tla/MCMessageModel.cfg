CONSTANTS
  Messages <- MCMessages
  Inner <- MCInner
  MaxBits = 32
  MaxValue = 3
  Unknowns <- MCUnknowns
  Workers = 2
  MaxTimeouts = 1
SPECIFICATION Spec
INVARIANTS TypeOK AcceptedUnambiguous FieldsContinue ErrorsInOrder  AssertionHolds
