CHECK_DEADLOCK FALSE
SPECIFICATION Spec
CONSTANTS
    Paths = {p1}
    Foreign = {}
    Stamps = {}
    HasErrLog = FALSE
    First = 2
    MaxTime = 3
    MaxDuration = 1
    Absent = Absent
    None = None
INVARIANTS
    Continues
