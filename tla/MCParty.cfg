SPECIFICATION Spec
CONSTANTS
    MaxSession = 4
    CharUids = {c1, c2}
    NoChar = NoChar
    DuplicateLogin = TRUE
    DBOutcomes = {"ok"}
    MAX_PARTY = 3
    MaxPartyId = 2
SYMMETRY Symmetry
INVARIANTS
    TypeOK
    MappedIsMember
    PartySize
    EndedHoldsNothing
PROPERTIES
    DisbandedStaysDisbanded
    JoinByInvitation
    OnlyLateAcceptBreaksOneParty
CHECK_DEADLOCK FALSE
