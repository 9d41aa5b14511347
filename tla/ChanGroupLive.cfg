CHECK_DEADLOCK FALSE
SPECIFICATION FairSpec
CONSTANTS
    Conns = {c1, c2}
    None = None
    CloseErrors = {FALSE, TRUE}
    Values <- MCUrlOrText
    Options <- MCOptions
    MaxChanges = 2
PROPERTIES
    ChangeCompletes
    CloseReturns
    ReloadsAsPromised
