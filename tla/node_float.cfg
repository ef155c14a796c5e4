\* One event at a time, one of them with a float value.
SPECIFICATION NodeSpec
CONSTANTS
    r1 = r1
    r2 = r2
    r3 = r3
    k1 = k1
    v1 = v1
    v2 = v2
    float = float
    p1 = p1
    p2 = p2
    c1 = c1
    c2 = c2
    q1 = q1
    Null = Null
    Missing = Missing
    Receipt <- TwoRuns
    Requests <- FloatPatches
    Serial = TRUE
    Faults = FALSE
    Event <- Events
    WellFormed <- GoodEvents
    PatchOf <- Patches
    Key <- Keys
    Value <- Values
    FloatValue <- Floats
    Path = {}
    Inside = {}
    Content <- TwoContents
    MaxFileChanges = 0
    Claim <- Claims
    Place = {}
INVARIANTS
    EveryValueReplays
CHECK_DEADLOCK FALSE
