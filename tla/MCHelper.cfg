\* An ordinary machine, one whose resolv.conf may be unreadable, and one on which
\* everything may fail, be killed, be ignored; the GUI may crash on each.
SPECIFICATION FairSpec
CONSTANTS
    Servers = {s1, s2}
    NoServer = NoServer
    Machines <- Tried
INVARIANTS
    UpAsAsked
    Recoverable
    CleanAfterTeardown
PROPERTIES
    BypassFirst
    CrashIsCleanedUp
