SPECIFICATION FairSpec
CONSTANTS
    Procs = {p1, p2}
    Releases = {r1, r2}
    NoRelease = NoRelease
    MaxDeployments = 5
    MaxStops = 2
    NoProc = NoProc
    NoPending = NoPending
INVARIANTS
    OnlyLostNewlineRefused
    StableWasVetted
PROPERTIES
    DeploymentsAreAtomic
    PendingIsCompleted
CHECK_DEADLOCK FALSE
