SPECIFICATION Spec
CONSTANTS
    Procs = {p1, p2}
    Bootstraps = {b1, b2}
    Candidates = {c1}
    Releases <- MCReleases
    NoRelease = NoRelease
    Epochs = {e1}
    Tasks = {t1, t2}
    HighSignal = {}
    Sources = {b1}
    MaxCandidates = 2
    MaxHoldout = 1
SYMMETRY Symmetry
INVARIANTS
    
    EpochFollowsCandidate
PROPERTIES
    RolledBackStaysOut
    RestartRepairs
CHECK_DEADLOCK FALSE
