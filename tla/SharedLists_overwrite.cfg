CONSTANTS
    User = {o, m}
    Founder = o
    Editors = {}
    Guests = {m}
    Task = {s}
    Field = {"title"}
    Value = {1, 2, 3}
    Start = {s}
    First = 1
    Absent = absent
    Gone = gone
    None = none
    MaxEdits = 2
    MaxAdmin = 1
    MaxFaults = 0
SPECIFICATION FairSpec
INVARIANT
    NeverOverwrites
CHECK_DEADLOCK FALSE
