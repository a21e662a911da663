SPECIFICATION Spec
CONSTANTS
    MaxSession = 2
    CharUids = {c1}
    NoChar = NoChar
    DuplicateLogin = FALSE
    DBOutcomes = {"ok"}
    Quests = {q1, q2}
    Target = 2
    MaxRewards = 2
SYMMETRY Symmetry
INVARIANTS
    TypeOK
    WriteThrough
    PaidOnce
    StatusMatchesProgress
PROPERTIES
    StatusForward
