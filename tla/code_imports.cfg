\* Three imports, taking turns or not, any of which may die.
SPECIFICATION CodeSpec
CONSTANTS
    i1 = i1
    i2 = i2
    i3 = i3
    py = py
    rs = rs
    c1 = c1
    c2 = c2
    can = can
    chat = chat
    log = log
    Import <- ThreeImports
    Language <- Languages
    Content <- Contents
    Label <- Labels
    Kind <- Kinds
    Texts <- SomeTexts
    OccursIn <- SomeTokens
    Queries <- SomeQueries
    MaxClock = 1
SYMMETRY ImportSymmetry
INVARIANTS
    CodeTypeOK
    AnswersAreFindable
    OneArtifactPerContent
PROPERTIES
    ImportsAreRecalled
CHECK_DEADLOCK FALSE
