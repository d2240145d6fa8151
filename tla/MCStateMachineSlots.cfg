CONSTANTS
  States <- slotStates
  Machine <- slotMachine
  InitialState = "Prepare"
  Globals <- slotGlobals
  Composite <- MCComposite
  Kind <- MCKind
  Fields <- slotFields
  integration <- shared
  slot_ptr <- sharedSlots
  ExternalLength = 2
SPECIFICATION Spec
INVARIANT CopyFits
