\* The GUI is launched again.
SPECIFICATION Spec
CONSTANTS
    Tunnels = {t1}
    None = None
    Stale = Stale
    MaxCommands = 1
    Scenes <- OnlyOdd
PROPERTIES
    StaleIsStale
CHECK_DEADLOCK FALSE
