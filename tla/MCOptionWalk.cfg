\* Areas hold two empty options or one with two bytes of data; lengths from 0 to
\* one past what fits.
SPECIFICATION MCSpec
CONSTANTS
    Wildcard = Wildcard
    NoOption = NoOption
    Malformed = Malformed
    Option <- MCOption
    Wanted <- MCWanted
    Table <- MCTable
    Demanded <- MCDemanded
    Lists <- MCLists
    RestartLimit = 1
    IdMod = 1
    Base = 5
    MaxLen = 4
INVARIANTS
    JudgedAsWalked
    DesiredAsWalked
    ParsedAsWritten
CHECK_DEADLOCK FALSE
