SPECIFICATION MCSpec
CONSTANTS
    Arguments <- MCArguments
    MaxArguments = 2
    Sizes <- MCSizes
    Setups <- MCSetups
    Configs <- MCConfigs
    MaxSequence = 2
    Gamepads = {g1, g2}
    Slots = 1
    QueueLimit = 2
    SenderLimit = 2
    HidSetups <- MCHidSetups
    AudioCapacity = 3
    AudioTarget = 1
    InitialLimit = 1
    PlayedLimit = 2
    FrameLengths = {1, 2, 4}
    PullLengths = {1, 2}
    MaxSample = 6
VIEW ClientView
\* A session ends, and a command line is read once.
CHECK_DEADLOCK FALSE
INVARIANTS
    ClientTypeOK
    CommandLineAgrees
    EventsAreHandled
    DisplayIsRight
    SoundIsInOrder
    InputIsFaithful
    PasteIsCurrent
    ReportsReachTheirDevice
