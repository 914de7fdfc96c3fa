SPECIFICATION Spec
CONSTANTS
    Wildcard = Wildcard
    NoOption = NoOption
    Malformed = Malformed
    Option <- MCOption
    LcpDesired <- MCLcpDesired
    LcpAcceptable <- MCLcpAcceptable
    LcpRequest <- MCLcpRequest
    IpcpDesired <- MCIpcpDesired
    IpcpAcceptable <- MCIpcpAcceptable
    IpcpRequest <- MCIpcpRequest
    LcpFrames <- NoFrames
    IpcpFrames <- NoFrames
    RestartLimit = 2
    IdMod = 2
    Interval = 3
    Soon = 2
    MaxMissed = 2
    PingInterval = 4
    MaxBatch = 1
    MaxCommands = 1
PROPERTIES
    PingSentAtOnce
CHECK_DEADLOCK FALSE
