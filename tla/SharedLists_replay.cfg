CONSTANTS
    User = {o, m}
    Founder = o
    Editors = {m}
    Guests = {}
    Task = {s, t}
    Field = {"title"}
    Value = {1, 2}
    Start = {s, t}
    First = 1
    Absent = absent
    Gone = gone
    None = none
    MaxEdits = 2
    MaxAdmin = 0
    MaxFaults = 1
SPECIFICATION FairSpec
INVARIANT
    SnapshotIsExact
CHECK_DEADLOCK FALSE
