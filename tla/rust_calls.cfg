\* Two overlapping calls, in the same second or not, one of broken code.
SPECIFICATION FairRustSpec
CONSTANTS
    a = a
    b = b
    x = x
    Call <- CallsOneBroken
    Broken <- BrokenCalls
    MaxSecond = 1
INVARIANTS
    RustTypeOK
    ExecutesItsOwnCode
    OrphansAreTimeouts
    LeaksAreExplained
PROPERTIES
    EveryCallReturns
CHECK_DEADLOCK FALSE
