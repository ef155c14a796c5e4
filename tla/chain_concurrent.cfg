\* Four runs append at once; any may die between two steps.
SPECIFICATION ChainSpec
CONSTANTS
    r1 = r1
    r2 = r2
    r3 = r3
    r4 = r4
    Receipt <- FourReceipts
    Serial = FALSE
    Faults = TRUE
INVARIANTS
    ChainTypeOK
    Linkage
    AppendedOnce
    RefusalIsFinal
PROPERTIES
    VerifiedPrefixKept
    ForkIsForever
CHECK_DEADLOCK FALSE
