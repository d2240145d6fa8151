CONSTANTS
  States <- MCStates
  Machine <- MCMachine
  InitialState = "Receive"
  Globals <- MCGlobals
  Composite <- MCComposite
  Kind <- MCKind
  Fields <- MCFields
  integration <- external
  slot_ptr <- externalSlots
  ExternalLength = 2
SPECIFICATION Spec
INVARIANTS PreconditionsHold BuffersConserved
