\* Two runs at once on fair threads while files change, either of which may die.
SPECIFICATION FairNodeSpec
CONSTANTS
    r1 = r1
    r2 = r2
    r3 = r3
    k1 = k1
    v1 = v1
    v2 = v2
    float = float
    p1 = p1
    p2 = p2
    c1 = c1
    c2 = c2
    q1 = q1
    Null = Null
    Missing = Missing
    Receipt <- TwoRuns
    Requests <- FileRequests
    Serial = FALSE
    Faults = TRUE
    Event <- TwoEvents
    WellFormed <- TwoEvents
    PatchOf <- TwoPatches
    Key <- Keys
    Value <- Values
    FloatValue <- Floats
    Path <- TwoPaths
    Inside <- OnePath
    Content <- TwoContents
    MaxFileChanges = 1
    Claim <- Claims
    Place <- TwoPlaces
INVARIANTS
    AuthorityPrecedesEffect
    ReceiptsTellTheTruth
    RecallIsGrounded
PROPERTIES
    AllowedEventsAreExecuted
CHECK_DEADLOCK FALSE
