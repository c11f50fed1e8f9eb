SPECIFICATION Spec
CONSTANTS
    Procs = {p1, p2}
    Releases = {r1, r2}
    NoRelease = NoRelease
    MaxDeployments = 4
    MaxStops = 1
    NoProc = NoProc
    NoPending = NoPending
INVARIANTS
    JournalRecovers
CHECK_DEADLOCK FALSE
