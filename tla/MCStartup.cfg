SPECIFICATION Spec
CONSTANTS
    Params <- MCParams
    Devices <- MCDevices
    LastPort = 2
    Attempts = 2
INVARIANTS
    TypeOK
    ResourcesAreOwned
PROPERTIES
    StopEnds
    MainIsAnswered
