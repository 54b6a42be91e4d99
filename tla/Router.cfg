CONSTANTS
    h1 = h1
    h2 = h2
    Handlers = {h1, h2}
    Modes = {TRUE, FALSE}
    MaxInvokes = 2
SPECIFICATION LiveSpec
INVARIANTS
    TypeOK
    ExecutedOnce
    OneDecision
PROPERTY PendingIsSettled
CHECK_DEADLOCK FALSE
