SPECIFICATION Spec
CONSTANTS
    Tunnels = {t1, t2}
    None = None
    MaxSignals = 3
PROPERTIES
    TornDownByOwn
CHECK_DEADLOCK FALSE
