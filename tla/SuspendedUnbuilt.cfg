SPECIFICATION Spec
CONSTANTS
    Requests = {r1, r2, r3}
    Workers = {w1}
    Ops <- HoldOps
    Concurrency = 2
    Serial = {}
    MaxJobs = 3
    MaxFaults = 0
    Starts = {"fresh"}
    TrialEnabled = FALSE
SYMMETRY RequestSymmetry
INVARIANTS ActiveHasSite
CHECK_DEADLOCK FALSE
