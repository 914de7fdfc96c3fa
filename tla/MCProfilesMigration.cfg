SPECIFICATION ProfilesSpec
CONSTANTS
    Names = {home, work, lab}
    Passwords = {secret, other}
    Empty = Empty
    NoEntry = NoEntry
    MaxProfiles = 2
    Windows = {w1}
    Legacy = TRUE
    RingFails = TRUE
SYMMETRY Symmetry
INVARIANTS
    PasswordRemains
