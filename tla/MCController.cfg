CONSTANTS
    touch = touch
    create = create
    s1 = s1
    s2 = s2
    NoSize = NoSize
    Msg <- MCMsg
    NonDroppable <- MCNonDroppable
    Size <- MCSize
    QueueLimit = 2
    Reserve = 1
    WireLimit = 1
    MaxPushes = 5
    MaxResizes = 2
SPECIFICATION FairSpec
INVARIANTS
    TypeOK
    NoLostWakeup
    FifoOrder
    ReserveForNonDroppable
    LatestSizeWins
PROPERTIES
    ImplementsChannel
    ThreadIsLive
