SPECIFICATION FairSpec
CONSTANTS
    Hi = 3
    V1 = {2, 3}
    Type <- Types
    Priority <- Priorities
    Requests <- AllRequests
    Strangers = {2}
    Foreign <- AllForeign
    MaxItems = 2
    Attempts = 2
    Loops = 1
    NoPacket = NoPacket
    MaxMishaps = 2
INVARIANTS
    TypeOK
    OnlyListsLeftOver
    RoomForOne
    Trusted
PROPERTIES
    DeadLeave
    CyclesGoOn
    DoWorkEnds
