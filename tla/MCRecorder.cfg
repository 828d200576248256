CONSTANTS
    Pts = {3, 4}
    NoPts <- MCNoPts
    Scale = 2
    MaxPackets <- MCMaxPackets
SPECIFICATION FairSpec
INVARIANTS
    TypeOK
    CompleteRecording
    FileIsPlayable
PROPERTIES
    StopEnds
CHECK_DEADLOCK FALSE
