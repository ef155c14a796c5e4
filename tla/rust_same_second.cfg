\* Two calls that may begin in the same second.
SPECIFICATION RustSpec
CONSTANTS
    a = a
    b = b
    x = x
    Call <- TwoCalls
    Broken = {}
    MaxSecond = 1
INVARIANTS
    WorkspacesAreIsolated
CHECK_DEADLOCK FALSE
