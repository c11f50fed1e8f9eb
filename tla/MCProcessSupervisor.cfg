SPECIFICATION FairSpec
CONSTANTS
    i1 = i1
    i2 = i2
    s1 = s1
    Callers = {a1, a2}
    Ids = {i1, i2}
    SessionOf <- MCSessionOf
    Launches = {l1}
    MaxProcesses = 1
    MaxShutdowns = 1
    NoOne = NoOne
INVARIANTS
    
    TerminateWins
PROPERTIES
    TerminationIsComplete
    StoppedIsPublished
CHECK_DEADLOCK FALSE
