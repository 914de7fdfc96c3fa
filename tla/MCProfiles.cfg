SPECIFICATION ProfilesSpec
CONSTANTS
    Names = {home, work, lab}
    Passwords = {secret, other}
    Empty = Empty
    NoEntry = NoEntry
    MaxProfiles = 3
    Windows = {w1}
    Legacy = TRUE
    RingFails = FALSE
SYMMETRY Symmetry
INVARIANTS
    OwnPassword
    NoPasswordLeft
    StartsAsLeft
