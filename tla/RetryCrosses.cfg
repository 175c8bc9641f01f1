SPECIFICATION Spec
CONSTANTS
    Requests = {r1, r2, r3}
    Workers = {w1}
    Ops <- PaidOps
    Concurrency = 2
    Serial <- Events
    MaxJobs = 3
    MaxFaults = 0
    Starts = {"fresh"}
    TrialEnabled = FALSE
INVARIANTS OneCreateJob
CHECK_DEADLOCK FALSE
