\* A signal sent before the subscription.
SPECIFICATION TraySpec
CONSTANTS
    Paths = {1, 2}
    NoPath = NoPath
    MaxEvents = 1
    Together = 1
    Swift = TRUE
INVARIANTS
    ShowsWhatIs
CHECK_DEADLOCK FALSE
