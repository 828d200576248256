CONSTANTS
    MaxClock = 3
    MaxEdits = 1
    MaxCommands = 2
    MaxPresses = 1
    MaxTasks = 2
SPECIFICATION IpcFairSpec
INVARIANTS
    IpcTypeOK
    PanelIsFollowed
PROPERTIES
    Settles
CHECK_DEADLOCK FALSE
