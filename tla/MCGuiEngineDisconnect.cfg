\* Disconnect while negotiating.
SPECIFICATION Spec
CONSTANTS
    Tunnels = {t1}
    None = None
    Stale = Stale
    MaxCommands = 1
    Scenes <- OnlyCalm
PROPERTIES
    NoSetupAfterDisconnect
CHECK_DEADLOCK FALSE
