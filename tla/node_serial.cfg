\* One call at a time of every kind that writes or replays, any of which may die.
SPECIFICATION NodeSpec
CONSTANTS
    r1 = r1
    r2 = r2
    r3 = r3
    k1 = k1
    v1 = v1
    v2 = v2
    float = float
    p1 = p1
    p2 = p2
    c1 = c1
    c2 = c2
    q1 = q1
    Null = Null
    Missing = Missing
    Receipt <- ThreeRuns
    Requests <- MixedRequests
    Serial = TRUE
    Faults = TRUE
    Event <- Events
    WellFormed <- GoodEvents
    PatchOf <- Patches
    Key <- Keys
    Value <- Values
    FloatValue <- Floats
    Path <- OnePath
    Inside <- OnePath
    Content <- TwoContents
    MaxFileChanges = 1
    Claim <- Claims
    Place <- ThreePlaces
SYMMETRY RunSymmetry
INVARIANTS
    NodeTypeOK
    HeadCoversAnswer
    ChainValid
PROPERTIES
    ImplementsChainLog
CHECK_DEADLOCK FALSE
