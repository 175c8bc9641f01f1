SPECIFICATION Spec
CONSTANTS
    InvoiceCount = 1
    Payers = {p1, p2}
    Visitors = {}
    MaxFaults = 0
    Provider = "dpo"
    Credits = {}
    Probes = {TRUE}
INVARIANTS ChargedOnce
CHECK_DEADLOCK FALSE
