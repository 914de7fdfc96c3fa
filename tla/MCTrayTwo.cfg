\* Two connections at once.
SPECIFICATION TraySpec
CONSTANTS
    Paths = {1, 2}
    NoPath = NoPath
    MaxEvents = 1
    Together = 2
    Swift = TRUE
INVARIANTS
    TwoAreShown
CHECK_DEADLOCK FALSE
