CONSTANTS
    x = x
    y = y
    z = z
    a = a
    b = b
    None = None
    Qvars <- XYZ
    Conds <- AB
    GlobalSet <- AB
    Domains <- NoSets
    Joinable <- NoSets
    Relations <- NoSets
    Selections <- NoSets
    Rank <- XYZRank
    Builds = {"graph", "cluster"}
    Asked <- NoSets
    Related <- NoSets
    NoReply = NoReply
    MaxColumns = 3
    Queries <- SomeQueries
SPECIFICATION QuerySpec
INVARIANTS
    RequestsMeanClauses
    AnswerComplete
    AnswerExact
PROPERTIES
    EveryQueryAnswered
CHECK_DEADLOCK FALSE
