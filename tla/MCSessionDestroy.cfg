CONSTANTS
    MaxRequests = 1
    MaxReceived = 1
    MaxPosted = 0
    FileKind <- PushOnly
SPECIFICATION Spec
INVARIANTS
    NoUseAfterDestroy
CHECK_DEADLOCK FALSE
