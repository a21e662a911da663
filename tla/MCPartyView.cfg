SPECIFICATION ViewSpec
CONSTANTS
    MaxSession = 3
    CharUids = {c1, c2, c3}
    NoChar = NoChar
    DuplicateLogin = FALSE
    DBOutcomes = {"ok"}
    MAX_PARTY = 3
    MaxPartyId = 2
    MaxQueue = 1
SYMMETRY Symmetry
CONSTRAINT ListedOnce
INVARIANTS PartyFollows
PROPERTIES JoinsWhomItSaw
CHECK_DEADLOCK FALSE
