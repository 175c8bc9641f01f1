SPECIFICATION FairSpec
CONSTANTS
    InvoiceCount = 1
    Payers = {p1}
    Visitors = {}
    MaxFaults = 0
    Provider = "azampay"
    Credits = {}
    Probes = {TRUE}
PROPERTIES ConfirmedIsProcessed
CHECK_DEADLOCK FALSE
