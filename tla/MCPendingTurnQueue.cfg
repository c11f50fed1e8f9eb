SPECIFICATION FairSpec
CONSTANTS
    Turns = {t1, t2, t3}
    Capacity = 2
    MaxChanges = 1
    NoTurn = NoTurn
INVARIANTS
    TakenAsRecorded
    OnlyDroppedLeftBehind
PROPERTIES
    QueuedIsTaken
CHECK_DEADLOCK FALSE
