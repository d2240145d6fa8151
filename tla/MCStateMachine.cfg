CONSTANTS
  States <- MCStates
  Machine <- MCMachine
  InitialState = "Receive"
  Globals <- MCGlobals
  Composite <- MCComposite
  Kind <- MCKind
  Fields <- MCFields
  integration <- internal
  slot_ptr <- internalSlots
  ExternalLength = 2
SPECIFICATION Spec
INVARIANTS TypeOK PreconditionsHold BuffersConserved InitializedBetweenCalls CopyFits ReadFresh
PROPERTY ImplementsInterface
