\* The time of the connection shown.
SPECIFICATION TraySpec
CONSTANTS
    Paths = {1, 2}
    NoPath = NoPath
    MaxEvents = 1
    Together = 2
    Swift = TRUE
INVARIANTS
    TimeOfShown
CHECK_DEADLOCK FALSE
