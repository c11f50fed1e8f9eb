SPECIFICATION FairSpec
CONSTANTS
    Hosts = {h1, h2}
    Turns = {t1, t2}
    MaxTasks = 2
    MaxTools = 1
    ToolKind = {"read", "side", "external"}
    StaleReads = FALSE
    OrphanAbort = FALSE
    WorkerAborts = FALSE
    NoHost = NoHost
    NoTurn = NoTurn
PROPERTIES
    NewHostSettlesOrphan
CHECK_DEADLOCK FALSE
