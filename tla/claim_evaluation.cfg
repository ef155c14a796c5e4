\* Up to three pieces of evidence of every direction and several weights, with
\* every threshold, against profiles and requirements that fit or do not.
SPECIFICATION ClaimSpec
CONSTANTS
    Scale = 2
    Negligible = 3
    Thresholds <- AllThresholds
    Items <- SomeItems
    MaxItems = 3
    Profiles <- SomeProfiles
    Requirements <- SomeRequirements
    SourceClasses <- TwoClasses
INVARIANTS
    VerifiedIsFactual
    WeakEvidenceIsUnresolved
PROPERTIES
    EvidenceMovesTheStateItsWay
CHECK_DEADLOCK FALSE
