CONSTANTS
    Default = d
    Other = o
    Email = {a, b}
    None = none
    Torn = torn
    Windows = TRUE
    MaxEdits = 1
    MaxFaults = 3
SPECIFICATION FairSpec
INVARIANTS
    NoEmptyDefault
PROPERTIES
    WorkIsKept
    CompleteIsCurrent
    ComesUp
CHECK_DEADLOCK FALSE
