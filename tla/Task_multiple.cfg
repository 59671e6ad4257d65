SPECIFICATION FairSpec
CONSTANTS
    NWorkers = 2
    SendKill = TRUE
    HandlerLogs = FALSE
    PrintsInfo = FALSE
    Nobody = Nobody
INVARIANTS
    QuietWhenIdle
PROPERTIES
    CallbacksInSession
    StopReturns
