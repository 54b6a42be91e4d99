CONSTANTS
    t1 = t1
    t2 = t2
    t3 = t3
    p1 = p1
    p2 = p2
    p3 = p3
    Tasks = {t1, t2}
    Procs = {p1, p2}
    ProcOf <- Pair
    NoTask = NoTask
    Redis = TRUE
    Db = "statement"
    FailOpen = FALSE
    MaxAcquires = 4
    MaxOutages = 2
    MaxCrashes = 1
SPECIFICATION Spec
PROPERTY ReleaseSparesOthers
CHECK_DEADLOCK FALSE
