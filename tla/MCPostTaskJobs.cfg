SPECIFICATION JobsFairSpec
CONSTANTS
    Tasks = {t1}
    Workers = {w1, w2}
    MaxAttempts = 3
    MaxRetries = 1
    Nothing = Nothing
INVARIANTS
    CompletedOnce
    AttemptsAddUp
    LeaseHeldByBusyWorker
PROPERTIES
    QueuedJobSettles
    NewHostSchedules
CHECK_DEADLOCK FALSE
