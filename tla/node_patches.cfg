\* Three runs at once, state events and replays, any of which may die.
SPECIFICATION NodeSpec
CONSTANTS
    r1 = r1
    r2 = r2
    r3 = r3
    k1 = k1
    v1 = v1
    v2 = v2
    float = float
    p1 = p1
    p2 = p2
    c1 = c1
    c2 = c2
    q1 = q1
    Null = Null
    Missing = Missing
    Receipt <- ThreeRuns
    Requests <- PatchRequests
    Serial = FALSE
    Faults = TRUE
    Event <- Events
    WellFormed <- GoodEvents
    PatchOf <- Patches
    Key <- Keys
    Value <- Values
    FloatValue <- Floats
    Path = {}
    Inside = {}
    Content <- TwoContents
    MaxFileChanges = 0
    Claim <- Claims
    Place = {}
SYMMETRY RunSymmetry
INVARIANTS
    OneReceiptPerOutput
    AnswersStand
    AnswerCoversHead
    ReadsItsOwnEvent
PROPERTIES
    ImplementsEventLedger
CHECK_DEADLOCK FALSE
