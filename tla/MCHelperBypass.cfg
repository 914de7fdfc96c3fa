SPECIFICATION Spec
CONSTANTS
    Servers = {s1, s2}
    NoServer = NoServer
    Machines <- DefaultTaken
INVARIANTS
    NoBypassLeft
