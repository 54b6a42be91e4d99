CONSTANTS
    c1 = c1
    c2 = c2
    c3 = c3
    p1 = p1
    p2 = p2
    Calls = {c1, c2, c3}
    Procs = {p1, p2}
    ProcOf <- Uneven
    failure_threshold = 2
    success_threshold = 2
    MaxFailures = 3
    MaxRestarts = 1
    MaxResets = 1
SPECIFICATION LiveSpec
INVARIANTS
    TypeOK
    CountersHaveRoom
PROPERTY OpenCloses
