CONSTANTS
    User = {o, m}
    Founder = o
    Editors = {}
    Guests = {m}
    Task = {s}
    Field = {"title"}
    Value = {1}
    Start = {}
    First = 1
    Absent = absent
    Gone = gone
    None = none
    MaxEdits = 1
    MaxAdmin = 2
    MaxFaults = 0
SPECIFICATION FairSpec
PROPERTY
    Settles
CHECK_DEADLOCK FALSE
