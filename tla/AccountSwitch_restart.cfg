CONSTANTS
    Cloud = {a, b}
    Default = d
    Nobody = nobody
    Worker = {w}
    MaxSwitches = 2
    MaxFaults = 2
SPECIFICATION FairSpec
INVARIANTS
    WritersStay
    NoReminderLeftBehind
    StartsOnCurrent
PROPERTIES
    OneStep
    ComesUp
    Reopens
CHECK_DEADLOCK FALSE
