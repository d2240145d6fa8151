CONSTANTS
  Messages <- MCMessages
  MaxByte = 2
  MaxBytes = 3
SPECIFICATION Spec
INVARIANTS BytestringParses UncheckedAgrees
