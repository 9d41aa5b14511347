CHECK_DEADLOCK FALSE
SPECIFICATION Spec
CONSTANTS
    Secrets = {s1, s2, s3, s4}
    maxCount = 3
    MaxTime = 4
    MaxRandoms = 6
    None = None
INVARIANTS
    TypeOK
    LeastRecentGoes
    Recognisable
    PanicsOnlyOnTies
