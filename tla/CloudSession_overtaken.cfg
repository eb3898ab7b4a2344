CONSTANTS
    Account = {a, b}
    Home = a
    Run = {"run"}
    None = none
    MaxLogins = 1
    MaxReloads = 1
    MaxFaults = 1
    Kinds = {TRUE, FALSE}
SPECIFICATION FairSpec
PROPERTY
    AlwaysWorks
CHECK_DEADLOCK FALSE
