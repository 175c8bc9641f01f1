SPECIFICATION FairBackendSpec
CONSTANTS
    Parts = {"payments", "lease"}
    InvoiceCount = 1
    Payers = {p1}
    Visitors = {v1}
    MaxFaults = 1
    Provider = "dpo"
    Credits = {}
    Probes = {TRUE}
    MaxCalls = 0
    Spares = {TRUE}
    Schedulers = {s1, s2}
    MaxBroken = 2
INVARIANTS AckedIsBooked CyclesAreOwed
PROPERTIES ConfirmedIsProcessed ReconciledInTheEnd CyclesComeAgain
CHECK_DEADLOCK FALSE
