\* Two sends, of one event or of two of three, to two receives; and every
\* assignment of patches to three local events, in every order.
SPECIFICATION FairCamSpec
CONSTANTS
    k1 = k1
    k2 = k2
    v = v
    float = float
    s1 = s1
    s2 = s2
    r1 = r1
    r2 = r2
    Null = Null
    NoSend = NoSend
    NoEvent = NoEvent
    Event <- ThreeEvents
    Key <- TwoKeys
    Value <- TwoValues
    FloatValue <- Floats
    Send <- TwoSends
    Receive <- TwoReceives
    HeaderLen = 1
    PayloadLen = 2
    Scenarios <- AllScenarios
INVARIANTS
    LastWriterWins
    FailureIsDefinite
    RemoteStateHashes
PROPERTIES
    EveryReceiveEnds
    ArrivedFramesAreProcessed
CHECK_DEADLOCK FALSE
