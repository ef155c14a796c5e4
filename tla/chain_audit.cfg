\* A table of up to three receipts, damaged once or twice.
SPECIFICATION AuditSpec
CONSTANTS
    r1 = r1
    r2 = r2
    r3 = r3
    Receipt <- ThreeReceipts
    Serial = TRUE
    Faults = FALSE
    Damages = 2
SYMMETRY ReceiptSymmetry
INVARIANTS
    AuditFindsDamage
    AuditCountsIntactRows
CHECK_DEADLOCK FALSE
