SPECIFICATION Spec
CONSTANTS
    Servers = {s1}
    NoServer = NoServer
    Machines <- NoResolved
INVARIANTS
    DnsRestored
