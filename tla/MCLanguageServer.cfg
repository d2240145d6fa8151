SPECIFICATION Spec
CONSTANTS
    MaxJobs = 3
    MaxVersion = 3
    UpdateErrors = {2}
    VerifyErrors = {1, 2}
CHECK_DEADLOCK FALSE
INVARIANTS EditPending SerialConsistent
PROPERTIES EditsServed SavesVerified
