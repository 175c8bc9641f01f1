SPECIFICATION Spec
CONSTANTS
    Requests = {r1, r2, r3}
    Workers = {w1}
    Ops <- AllOps
    Concurrency = 2
    Serial = {}
    MaxJobs = 5
    MaxFaults = 1
    Starts = {"fresh", "live"}
    TrialEnabled = FALSE
SYMMETRY RequestSymmetry
INVARIANTS TypeOK OnlyMisreadLeavesSite StampedJobsHaveMessages
PROPERTIES SuccessIsReal KeepsDeletionPromise
CHECK_DEADLOCK FALSE
