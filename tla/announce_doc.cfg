SPECIFICATION Spec
CONSTANTS
    a1 = a1   a2 = a2
    Absent = Absent
    Pending = Pending
    Address = {a1}
    MaxChange = 1
    MaxSwitch = 2
    MaxBuild = 2
INVARIANTS
    SuspendIsAnnounced
CHECK_DEADLOCK FALSE
