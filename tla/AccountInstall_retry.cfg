CONSTANTS
    Default = d
    Other = o
    Email = {a, b}
    None = none
    Torn = torn
    Windows = FALSE
    MaxEdits = 1
    MaxFaults = 1
SPECIFICATION FairSpec
PROPERTIES
    InterruptedContinues
CHECK_DEADLOCK FALSE
