SPECIFICATION FairSpec
CONSTANTS
    Base = 4
    Message <- MCMessage
    Padding <- MCPadding
    LCP = 6
    ReadSize = 11
    MaxSent = 3
PROPERTIES
    InOrder
    Heard
CHECK_DEADLOCK FALSE
