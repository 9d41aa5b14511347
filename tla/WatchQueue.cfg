CHECK_DEADLOCK FALSE
SPECIFICATION FairSpec
CONSTANTS
    Queries = {q1, q2}
    Watches = {w1, w2, w3}
    Values = {v1, v2}
    OperCap = 1
    MaxSets = 2
    MaxCloses = 2
    CanClose = TRUE
    None = None
INVARIANTS
    TypeOK
    NothingDropped
    NoOrphan
    NoPanicWhileOpen
PROPERTIES
    DeliversInOrder
    Delivered
    CloseHappens
    
