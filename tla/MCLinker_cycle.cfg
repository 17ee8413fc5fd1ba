CONSTANTS
    w = w
    x = x
    y = y
    z = z
    a = a
    b = b
    d = d
    Qvars <- XYZ
    Conds <- ABD
    GlobalSet <- ABD
    Domains <- WideDomains
    Joinable <- Triangle
    Relations <- WideRelations
    Rank <- XYZRank
    Selections <- UpToThree
    Builds = {"graph"}
    Asked <- SomeAsked
    Related <- WideRelations
    NoReply = NoReply
    MaxColumns = 3
SPECIFICATION BuildSpec
INVARIANTS
    ConditionsSupported
