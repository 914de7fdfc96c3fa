SPECIFICATION ProfilesSpec
CONSTANTS
    Names = {home, work, lab}
    Passwords = {secret, other}
    Empty = Empty
    NoEntry = NoEntry
    MaxProfiles = 2
    Windows = {w1, w2}
    Legacy = FALSE
    RingFails = FALSE
PROPERTIES
    SelectionSaved
