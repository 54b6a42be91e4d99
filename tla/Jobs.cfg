CONSTANTS
    r1 = r1
    r2 = r2
    k = k
    same = same
    other = other
    Requests = {r1, r2}
    Keys = {k}
    NoKey = NoKey
    Hashes = {same, other}
    Workers = {w1, w2}
    Schedulers = {s1, s2}
    Calls <- TwoCalls
    MaxFaults = 1
    NoJob = NoJob
SPECIFICATION LiveSpec
INVARIANTS
    TypeOK
    RunsOnce
    KeyNamesOneJob
PROPERTIES
    CancelledStays
    JobsEnd
CHECK_DEADLOCK FALSE
