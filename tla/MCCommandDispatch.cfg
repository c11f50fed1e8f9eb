SPECIFICATION FairSpec
CONSTANTS
    Hosts = {h1, h2}
    Requests <- MCRequests
    c1 = c1
    c2 = c2
    k = k
    r1 = r1
    r2 = r2
    r3 = r3
    CommandOf <- MCCommandOf
    Commands <- MCCommands
    Keys <- MCKeys
    KeyOf <- MCKeyOf
    Interruptions = TRUE
    None = None
INVARIANTS
    RedeliveryIsIdempotent
    
PROPERTIES
    EveryRequestEnds
CHECK_DEADLOCK FALSE
