SPECIFICATION FairCycleSpec
CONSTANTS
    MaxCalls = 1
    Spares = {FALSE}
PROPERTIES GraceEnds
CHECK_DEADLOCK FALSE
