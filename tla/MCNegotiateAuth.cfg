SPECIFICATION Spec
CONSTANTS
    Wildcard = Wildcard
    NoOption = NoOption
    Malformed = Malformed
    Option <- MCOption
    LcpDesired <- MCLcpDesired
    LcpAcceptable <- MCLcpAcceptable
    IpcpDesired <- MCIpcpDesired
    IpcpAcceptable <- MCIpcpAcceptable
    LcpFrames <- MCLcpFrames
    IpcpFrames <- MCIpcpFrames
    AuthType = "Auth"
    PapMethod = "pap"
    AuthMethods = {"pap"}
    AddrType = "Addr"
    RestartLimit = 2
    IdMod = 2
    ReadTimeout = 2
    Deadline = 4
    MaxBatch = 2
PROPERTIES
    AuthStartsOnOpening
CHECK_DEADLOCK FALSE
