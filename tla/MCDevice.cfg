SPECIFICATION DeviceSpec
CONSTANTS
    Finger = {f1, f2}
    Mouse = mouse
    MaxPointers = 2
    CaptureSetups <- MCCaptureSetups
    Property = {1, 2}
    Initial = 1
    MaxErrors = 2
    MaxLevel = 1
    CleanUpSetups <- MCCleanUpSetups
    MaxPowers = 3
\* A capture ends, and so does the process that cleans up.
CHECK_DEADLOCK FALSE
INVARIANTS
    DeviceTypeOK
    TouchesAreFaithful
    SessionIsTruthful
PROPERTIES
    ResetIsAnswered
    SettingsAreRestored
