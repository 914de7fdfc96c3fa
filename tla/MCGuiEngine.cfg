SPECIFICATION FairSpec
CONSTANTS
    Tunnels = {t1, t2}
    None = None
    Stale = Stale
    MaxCommands = 1
    Scenes <- MCScenes
INVARIANTS
    ViewSettles
    KeepaliveShown
    TunnelIntact
    NothingLeft
PROPERTIES
    ToldInOrder
    DisconnectServed
    OrphanEnds
CHECK_DEADLOCK FALSE
