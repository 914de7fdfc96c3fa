\* One connection after another, with a click in the menu or a change of the
\* list that concerns no VPN.
SPECIFICATION TrayFairSpec
CONSTANTS
    Paths = {1, 2}
    NoPath = NoPath
    MaxEvents = 1
    Together = 1
    Swift = TRUE
PROPERTIES
    Follows
    MarksEnd
    EndsWhatWasShown
CHECK_DEADLOCK FALSE
