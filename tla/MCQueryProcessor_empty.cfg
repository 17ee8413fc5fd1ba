CONSTANTS
    x = x
    y = y
    z = z
    a = a
    b = b
    None = None
    Qvars <- XYZ
    Conds <- AB
    GlobalSet <- AB
    Domains <- NoSets
    Joinable <- NoSets
    Relations <- NoSets
    Selections <- NoSets
    Rank <- XYZRank
    Builds = {"graph"}
    Asked <- NoSets
    Related <- NoSets
    NoReply = NoReply
    MaxColumns = 3
    Queries <- EmptyQueries
SPECIFICATION QuerySpec
INVARIANTS
    EmptyMeansFalse
CHECK_DEADLOCK FALSE
