SPECIFICATION FairSpec
CONSTANTS
    MaxHandles = 2
    MaxClients = 2
    RingCap = 1
    ScreenCap = 2
    MaxLines = 3
INVARIANTS
    TypeOK
    LogsInOrder
PROPERTIES
    PendingServed
    StoppedIsBlank
    StatsArrive
CHECK_DEADLOCK FALSE
