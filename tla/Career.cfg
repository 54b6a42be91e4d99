CONSTANTS
    Tasks = {t1, t2}
    Free = Free
    Orphan = Orphan
    Plan <- CareerPlan
    Compensatable = {"generate_cv", "generate_learning_path"}
    Undoable = {"generate_learning_path"}
    Vetoes = {}
    Partial = {"apply_for_jobs"}
    Pauses = FALSE
    RunBreaker = FALSE
    BreakerOpens = FALSE
    MaxStartRetries = 1
    MaxResumeRetries = 1
    MaxAttempts = 2
    MaxCrashes = 1
    MaxOutages = 1
    MaxReplays = 1
SPECIFICATION Spec
SYMMETRY Symmetry
INVARIANTS
    PlanRunsOnce
    CompensatedIsAnswered
    SucceededStands
