\* Three activations, the tasks of those before still running or not; a sender waits
\* until NM has received what was sent before.
SPECIFICATION FairSpec
CONSTANTS
    Tunnels = {t1, t2, t3}
    None = None
    MaxSignals = 1
INVARIANTS
    LostToAnother
PROPERTIES
    ToldInOrder
    ToldToTheEnd
    DisconnectEnds
CHECK_DEADLOCK FALSE
