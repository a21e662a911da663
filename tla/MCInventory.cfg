SPECIFICATION Spec
CONSTANTS
    MaxSession = 2
    CharUids = {c1}
    NoChar = NoChar
    DuplicateLogin = TRUE
    DBOutcomes = {"ok", "failed", "twice"}
    MAX_INVENTORY = 1
    Weapons = {sword}
    Armors = {mail}
    Consumables = {potion}
    DropTids = {sword}
    RewardTids = {potion}
    NoTid = NoTid
    MaxItemUid = 2
CONSTRAINT NameLoaded
INVARIANTS
    HeldIsOwn
    EquipmentSound
PROPERTIES
    NothingSlipsAway
CHECK_DEADLOCK FALSE
