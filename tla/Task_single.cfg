SPECIFICATION Spec
CONSTANTS
    NWorkers = 1
    SendKill = TRUE
    HandlerLogs = TRUE
    PrintsInfo = TRUE
    Nobody = Nobody
INVARIANTS
    TypeOK
PROPERTIES
    CallbacksInSession
