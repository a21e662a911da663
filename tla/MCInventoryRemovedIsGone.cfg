SPECIFICATION Spec
CONSTANTS
    MaxSession = 1
    CharUids = {c1, c2}
    NoChar = NoChar
    DuplicateLogin = TRUE
    DBOutcomes = {"ok"}
    MAX_INVENTORY = 1
    Weapons = {sword}
    Armors = {mail}
    Consumables = {potion}
    DropTids = {sword}
    RewardTids = {potion}
    NoTid = NoTid
    MaxItemUid = 2
INVARIANT RemovedIsGone
CHECK_DEADLOCK FALSE
