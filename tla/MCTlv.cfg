SPECIFICATION Spec
CONSTANTS
    NumFields <- MCNumFields
    Links <- MCLinks
    Composite = {3}
    SequenceFields = {}
    FieldValues <- MCFieldValues
    Parameters = {0}
    Condition <- MCCondition
    LinkSize <- MCLinkSize
    BufferLength <- MCBufferLength
    Contents <- MCContents
    Windows <- MCWindows
    BitLengthLast = 1000
    EndPhases <- MCEndPhases
INVARIANTS
    TypeOK
    ValidContext
    MessageEnd
    ReparseAgrees
PROPERTY VerifyMessageVerdict
