SPECIFICATION BackendSpec
CONSTANTS
    Parts = {"payments", "cycles"}
    InvoiceCount = 2
    Payers = {p1, p2}
    Visitors = {}
    MaxFaults = 0
    Provider = "dpo"
    Credits = {2}
    Probes = {TRUE}
    MaxCalls = 3
    Spares = {TRUE, FALSE}
    Schedulers = {s1}
    MaxBroken = 0
INVARIANTS TypeOK PaidTellsTruth
PROPERTIES
    OpensAfterTheLast RemindersSpaced GraceAfterReminder PaidBeforeReminderStays
CHECK_DEADLOCK FALSE
