SPECIFICATION Spec
CONSTANTS
    NumFields <- MCNumFields
    Links <- MCLinks
    Composite = {4}
    SequenceFields = {4}
    FieldValues <- MCFieldValues
    Parameters = {0}
    Condition <- MCCondition
    LinkSize <- MCLinkSize
    BufferLength <- MCBufferLength
    Contents <- MCContents
    Windows <- MCWindows
    BitLengthLast = 1000
    EndPhases <- MCEndPhases
INVARIANTS
    FieldFirstAgrees
PROPERTY ValidFieldContinues
