CHECK_DEADLOCK FALSE
SPECIFICATION FairSpec
CONSTANTS
    Contents <- MCContents
    FileOps <- InPlaceOps
    Overflows = FALSE
    MaxOps = 3
    Absent = Absent
    None = None
PROPERTIES
    Converges
