SPECIFICATION Spec
CONSTANTS
    Hosts = {h1, h2}
    Turns = {t1, t2}
    MaxTasks = 3
    MaxTools = 1
    ToolKind = {"read", "side"}
    StaleReads = TRUE
    OrphanAbort = TRUE
    WorkerAborts = TRUE
    NoHost = NoHost
    NoTurn = NoTurn
SYMMETRY Symmetry
INVARIANTS
    SingleOwner
    EffectIsJournaled
CHECK_DEADLOCK FALSE
