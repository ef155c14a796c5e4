\* Two overlapping appends, no faults: the table forks.
SPECIFICATION ChainSpec
CONSTANTS
    r1 = r1
    r2 = r2
    r3 = r3
    r4 = r4
    Receipt <- ThreeReceipts
    Serial = FALSE
    Faults = FALSE
INVARIANTS
    ChainValid
CHECK_DEADLOCK FALSE
