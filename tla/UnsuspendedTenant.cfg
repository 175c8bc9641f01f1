SPECIFICATION Spec
CONSTANTS
    Requests = {r1, r2, r3}
    Workers = {w1}
    Ops <- UnsuspendedOps
    Concurrency = 2
    Serial = {}
    MaxJobs = 5
    MaxFaults = 1
    Starts = {"live"}
    TrialEnabled = FALSE
SYMMETRY RequestSymmetry
INVARIANTS ActiveHasSite
CHECK_DEADLOCK FALSE
