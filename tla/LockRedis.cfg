CONSTANTS
    t1 = t1
    t2 = t2
    t3 = t3
    p1 = p1
    p2 = p2
    p3 = p3
    Tasks = {t1, t2, t3}
    Procs = {p1, p2, p3}
    ProcOf <- Separate
    NoTask = NoTask
    Redis = TRUE
    Db = "statement"
    FailOpen = FALSE
    MaxAcquires = 5
    MaxOutages = 0
    MaxCrashes = 1
SPECIFICATION LiveSpec
INVARIANT TypeOK
PROPERTIES
    ImplementsMutex
    LockComesFree
CHECK_DEADLOCK FALSE
