\* The window is closed.
SPECIFICATION Spec
CONSTANTS
    Tunnels = {t1}
    None = None
    Stale = Stale
    MaxCommands = 1
    Scenes <- OnlyCalm
INVARIANTS
    ExitTearsDown
CHECK_DEADLOCK FALSE
