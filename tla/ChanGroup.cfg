CHECK_DEADLOCK FALSE
SPECIFICATION Spec
CONSTANTS
    Conns = {c1, c2, c3}
    None = None
    CloseErrors = {FALSE}
    Values <- MCUrls
    Options <- MCOptions
    MaxChanges = 2
SYMMETRY MCSymmetry
INVARIANTS
    TypeOK
    ConnsCurrent
    StaleMarked
    ClosedIdleMarked
    ExpiredEnded
    GraceKept
    ChangeCounted
