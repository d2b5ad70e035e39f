CONSTANTS
    MaxNodes = 5
    MaxMade = 3
    MaxEdits = 2
    Fresh = TRUE
SPECIFICATION Spec
INVARIANTS
    TreeIntact
PROPERTIES
    ReplacementKeepsId
    ReadBack
    CopiesAreApart
CHECK_DEADLOCK FALSE
