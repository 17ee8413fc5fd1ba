CONSTANTS
    w = w
    x = x
    y = y
    z = z
    a = a
    b = b
    d = d
    Qvars <- XYZ
    Conds <- AB
    GlobalSet <- AB
    Domains <- MixedDomains
    Joinable <- AllPairs
    Relations <- SomeRelations
    Rank <- XYZRank
    Selections <- UpToThree
    Builds = {"graph", "cluster"}
    Asked <- SomeAsked
    Related <- SomeRelated
    NoReply = NoReply
    MaxColumns = 3
SPECIFICATION BuildSpec
INVARIANTS
    ExactOnForests
    TuplesFollowLinks
    TypeOK
    NoSolutionLost
    WorkHarmless
    InvalidMeansUnsatisfiable
    LinksSymmetric
    TuplesComplete
PROPERTIES
    ImplementsContract
    ImplementsStore
    CallsReturn
