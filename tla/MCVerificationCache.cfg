SPECIFICATION FairSpec
CONSTANTS
    p1 = p1
    p2 = p2
    message1 = message1
    message2 = message2
    wrong = wrong
    retyped = retyped
    hash1 = hash1
    hash2 = hash2
    hash3 = hash3
    hash4 = hash4
    type = type
    malformed = malformed
    NoProcess = NoProcess
    Dead = Dead
    Process <- MCProcess
    Declarations <- MCDeclarations
    Specs <- MCSpecs
    MaxFaults = 1
    Malformed = {malformed}
    Unprovable = {wrong, retyped}
    Digest <- MCDigest
    NoDigest = NoDigest
INVARIANTS TypeOK CacheSound LockOwned AcceptedVouched
PROPERTY RunsEnd
