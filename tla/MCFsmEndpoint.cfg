SPECIFICATION Spec
CONSTANTS
    Wildcard = Wildcard
    NoOption = NoOption
    Malformed = Malformed
    Option <- MCOption
    Desired <- MCDesired
    Acceptable <- MCAcceptable
    PeerAreas <- MCPeerAreas
    RestartLimit = 2
    IdMod = 3
INVARIANTS
    HandshakeSound
    AgreedOptions
    RetryBudget
    NakBudget
