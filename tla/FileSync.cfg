CHECK_DEADLOCK FALSE
SPECIFICATION FairSpec
CONSTANTS
    Contents <- MCContents
    FileOps <- FileOpNames
    Overflows = TRUE
    MaxOps = 5
    Absent = Absent
    None = None
INVARIANTS
    TypeOK
    Synced
PROPERTIES
    ConvergesIfNoticed
