CONSTANTS
    Account = {a, b}
    Home = a
    Run = {"run"}
    None = none
    MaxLogins = 1
    MaxReloads = 0
    MaxFaults = 0
    Kinds = {TRUE, FALSE}
SPECIFICATION Spec
INVARIANT
    NeverTyped
CHECK_DEADLOCK FALSE
