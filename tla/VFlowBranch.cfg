CONSTANTS
    a = a
    b = b
    c = c
    d = d
    Nodes = {a, b, c, d}
    Root = Root
    Graphs <- AllGraphs
    Routers = {a}
    Routes = {"true", "false"}
    NoRoute = NoRoute
    MaxAttempts <- Attempts
    MaxFaults = 1
SPECIFICATION Spec
INVARIANT BranchNotTakenIsSkipped
CHECK_DEADLOCK FALSE
