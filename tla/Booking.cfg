CONSTANTS
    Tasks = {t1, t2}
    Free = Free
    Orphan = Orphan
    Plan <- BookingPlan
    Compensatable = {"reserve_slot"}
    Undoable = {"reserve_slot"}
    Vetoes = {}
    Partial = {}
    Pauses = TRUE
    RunBreaker = TRUE
    BreakerOpens = TRUE
    MaxStartRetries = 1
    MaxResumeRetries = 1
    MaxAttempts = 2
    MaxCrashes = 1
    MaxOutages = 0
    MaxReplays = 0
SPECIFICATION LiveSpec
INVARIANTS
    TypeOK
    LockDiscipline
    ConfirmedStands
    AnsweredOnce
PROPERTIES
    CallsReturn
    StuckIsRecovered
