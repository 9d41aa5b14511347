CHECK_DEADLOCK FALSE
SPECIFICATION FairSpec
CONSTANTS
    Paths = {p1, p2}
    Foreign = {p2}
    Stamps = {0, 1, 9}
    HasErrLog = TRUE
    First = 4
    MaxTime = 6
    MaxDuration = 2
    Absent = Absent
    None = None
INVARIANTS
    TypeOK
    Fresh
    SampleBounds
PROPERTIES
    StatusFollows
    Terminates
