CONSTANTS
    s1 = s1
    r1 = r1
    r2 = r2
    p1 = p1
    p2 = p2
    o1 = o1
    Sagas = {s1}
    Starts = {r1, r2}
    Sources <- Twice
    Servers = {p1, p2}
    Modes <- OneCutOff
    Helpers = {o1}
    COUNT = 2
    MAX_RETRIES = 1
    MaxLetters = 1
    MaxReplays = 1
    MaxFaults = 1
    Nobody = Nobody
    Ghost = Ghost
SPECIFICATION Spec
INVARIANTS
    TypeOK
    RunsAreAsked
PROPERTIES
    SagasEnd
CHECK_DEADLOCK FALSE
