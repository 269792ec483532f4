SPECIFICATION FairSpec
CONSTANTS
    a1 = a1   a2 = a2
    Absent = Absent
    Pending = Pending
    Address = {a1, a2}
    MaxChange = 1
    MaxSwitch = 3
    MaxBuild = 2
INVARIANTS
    CacheCurrent
PROPERTIES
    ChangeIsSent
CHECK_DEADLOCK FALSE
