CONSTANTS
  Machines <- MCMachines
  Fields <- MCFields
  Links <- MCLinks
  MaxValue = 1
  MaxLength = 1
SPECIFICATION Spec
INVARIANT InvalidNextRaises
