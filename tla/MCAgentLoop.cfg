SPECIFICATION FairSpec
CONSTANTS
    MaxStreamRetries = 1
    MaxRequestRetries = 1
    TransportFallback = TRUE
    HasFallback = TRUE
    MaxWaits = 1
    MaxIterations = 2
    MaxToolCalls = 2
    MaxFailures = 2
    CallLists <- MCCallLists
    MaxTurns = 1
    MaxSummaries = 2
    MaxCorrections = 1
    Contracts <- MCContracts
INVARIANTS
    PreviewOfOneAttempt
    PairedHistory
    EffectsAreCleared
    BudgetsHold
    
PROPERTIES
    QuietAfterCancel
    CancelEnds
