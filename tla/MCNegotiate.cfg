SPECIFICATION FairSpec
CONSTANTS
    Wildcard = Wildcard
    NoOption = NoOption
    Malformed = Malformed
    Option <- MCOption
    LcpDesired <- MCLcpDesired
    LcpAcceptable <- MCLcpAcceptable
    IpcpDesired <- MCIpcpDesired
    IpcpAcceptable <- MCIpcpAcceptable
    LcpFrames <- MCLcpFrames
    IpcpFrames <- MCIpcpFrames
    AuthType = "Auth"
    PapMethod = "pap"
    AuthMethods = {"pap"}
    AddrType = "Addr"
    RestartLimit = 2
    IdMod = 2
    ReadTimeout = 1
    Deadline = 2
    MaxBatch = 2
INVARIANTS
    StoppedIsLast
    IpcpTimerArmed
    TerminateIsFinal
PROPERTIES
    TimeoutsNeverGiveUp
    NegotiationEnds
CHECK_DEADLOCK FALSE
