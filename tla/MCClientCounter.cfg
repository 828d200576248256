SPECIFICATION MCSpec
CONSTANTS
    Arguments = {}
    MaxArguments = 0
    Sizes <- MCSizes
    Setups <- CounterSetups
    Configs <- MCConfigs
    MaxSequence = 0
    Gamepads = {g1}
    Slots = 1
    QueueLimit = 1
    SenderLimit = 2
    HidSetups <- MCHidSetups
    AudioCapacity = 3
    AudioTarget = 1
    InitialLimit = 1
    PlayedLimit = 2
    FrameLengths = {1, 2, 4}
    PullLengths = {1, 2}
    MaxSample = 1
VIEW ClientView
CHECK_DEADLOCK FALSE
INVARIANT CounterInterruptedAtJoin
