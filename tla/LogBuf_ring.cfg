SPECIFICATION Spec
CONSTANTS
    t1 = t1
    t2 = t2
    Threads <- MCThreads
    Nobody = Nobody
    Capacity = 2
    FileSize = 2
    DebugToBuf = FALSE
    MaxLogs = 3
INVARIANTS
    RoomKept
PROPERTIES
    LogReturns
CHECK_DEADLOCK FALSE
