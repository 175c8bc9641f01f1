SPECIFICATION FairSpec
CONSTANTS
    Requests = {r1}
    Workers = {w1}
    Ops <- PayOps
    Concurrency = 1
    Serial = {}
    MaxJobs = 2
    MaxFaults = 1
    Starts = {"fresh"}
    TrialEnabled = FALSE
PROPERTIES JobsEnd
CHECK_DEADLOCK FALSE
