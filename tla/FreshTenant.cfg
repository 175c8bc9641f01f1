SPECIFICATION FairSpec
CONSTANTS
    Requests = {r1, r2, r3}
    Workers = {w1}
    Ops <- AllOps
    Concurrency = 2
    Serial = {}
    MaxJobs = 3
    MaxFaults = 0
    Starts = {"fresh"}
    TrialEnabled = FALSE
INVARIANTS NothingBuiltUnpaid TransitionalHasRunner OneProvisioningAtATime
PROPERTIES DeletionSettles JobsEnd
CHECK_DEADLOCK FALSE
