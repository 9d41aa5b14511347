CHECK_DEADLOCK FALSE
SPECIFICATION FairSpec
CONSTANTS
    n1 = n1
    n2 = n2
    d1 = d1
    d2 = d2
    q1 = q1
    q2 = q2
    Callers = {c1, c2}
    Drivers = {d1, d2}
    Names = {n1, n2}
    Queries = {q1, q2}
    DriverOf <- MCDriverOf
    QueryOf <- MCSameQuery
    Values = {v1, v2}
    OperCap = 1
    MaxSets = 1
    MaxStrategies = 1
    None = None
PROPERTIES
    GroupsFollow
