SPECIFICATION FairSpec
CONSTANTS
    StreamKeys = {s1}
    ProgressKeys = {p1}
    NoKey = NoKey
    FactBytes = 2
    MaxCommands = 2
    MaxBytes = 5
    MaxLive = 1
    MaxEmits = 3
    MaxFlushes = 1
    StoreFails = TRUE
    Aborts = TRUE
INVARIANTS
    LedgerTellsTheRun
    FlushIsBarrier
    NoSilentLoss
PROPERTIES
    CallersReturn
CHECK_DEADLOCK FALSE
