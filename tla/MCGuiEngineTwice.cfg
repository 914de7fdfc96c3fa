\* Two clicks on Connect.
SPECIFICATION Spec
CONSTANTS
    Tunnels = {t1, t2}
    None = None
    Stale = Stale
    MaxCommands = 1
    Scenes <- OnlyTwice
INVARIANTS
    DisconnectedIsDown
CHECK_DEADLOCK FALSE
