CONSTANTS
    MaxRequests = 2
    MaxReceived = 1
    MaxPosted = 1
    FileKind <- PushThenInstall
SPECIFICATION FairSpec
INVARIANTS
    TypeOK
    PusherIsSafe
    CleanupIsOrdered
PROPERTIES
    Terminates
CHECK_DEADLOCK FALSE
