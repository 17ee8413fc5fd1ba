CONSTANTS
    w = w
    x = x
    y = y
    z = z
    a = a
    b = b
    d = d
    Qvars <- WXYZ
    Conds <- AB
    GlobalSet <- AB
    Domains <- WXYZDomains
    Joinable <- DetourPairs
    Relations <- DetourRelations
    Rank <- Alphabetical
    Selections <- XZ
    Builds = {"graph"}
    Asked <- XZ
    Related <- DetourRelations
    NoReply = NoReply
    MaxColumns = 3
SPECIFICATION BuildSpec
INVARIANTS
    TuplesFollowLinks
