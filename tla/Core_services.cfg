SPECIFICATION FairSpec
CONSTANTS
    module = module
    worker = worker
    service = service
    group = group
    Apps <- MCApps
    Main <- MCMain
    WithApi <- MCApps
    WithLoop = {worker, service, group}
    Compatible <- MCApps
    Imports <- MCImports
    Count <- MCCount
    InitFails = {}
    CreateFails <- MCCreateFails
    Services = {service, group}
    Subtasks <- MCSubtasks
    AutoStart <- MCAuto
INVARIANTS
    NamesUnique
    CallsReachInstances
    NothingLeft
PROPERTIES
    CallbackOrder
    ShutdownEnds
CHECK_DEADLOCK FALSE
