CHECK_DEADLOCK FALSE
SPECIFICATION Spec
CONSTANTS
    Drivers <- MCDrivers
    MaxStmts = 4
    MaxTxs = 3
INVARIANTS
    TypeOK
    CountedOnce
