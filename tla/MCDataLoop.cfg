SPECIFICATION FairSpec
CONSTANTS
    Wildcard = Wildcard
    NoOption = NoOption
    Malformed = Malformed
    Option <- MCOption
    LcpDesired <- MCLcpDesired
    LcpAcceptable <- MCLcpAcceptable
    LcpRequest <- MCLcpRequest
    IpcpDesired <- MCIpcpDesired
    IpcpAcceptable <- MCIpcpAcceptable
    IpcpRequest <- MCIpcpRequest
    LcpFrames <- Renegotiation
    IpcpFrames <- MCIpcpFrames
    RestartLimit = 2
    IdMod = 2
    Interval = 2
    Soon = 1
    MaxMissed = 2
    PingInterval = 2
    MaxBatch = 1
    MaxCommands = 2
INVARIANTS
    AnswersKeepAlive
PROPERTIES
    DisconnectObeyed
    SilenceNoticed
    MuteNoticed
CHECK_DEADLOCK FALSE
