SPECIFICATION Spec
CONSTANTS
    MaxSession = 2
    CharUids = {1, 2}
    NoChar = NoChar
    DuplicateLogin = TRUE
    DBOutcomes = {"ok", "failed", "lost", "twice"}
    LoginIds = {"7", "07", "8"}
    ChannelIds = {7, 8}
    ChannelId <- MCChannelId
    Names = {n1, n2}
    NoName = NoName
    RewardGold = 100
    MaxDay = 2
SYMMETRY Symmetry
CONSTRAINT FewBookings
INVARIANTS
    NamesUnique
    FallbackIsOwnAccount
    AttendancePaidOnce
PROPERTIES
    OnlyLoginSeparates
CHECK_DEADLOCK FALSE
