CONSTANTS
    Accounts = {a1, a2}
    NoAccount = NoAccount
    MAP_SIZE = 2
    StartPlaces <- MCStartPlaces
    MAX_NPC = 1
    NpcMaxHp = 2
    MaxSession = 3
    MaxNpcUid = 2
    MaxQueue = 1
SYMMETRY AccountSymmetry
SPECIFICATION Spec
INVARIANTS NpcsFollow PlayersFollow
CHECK_DEADLOCK FALSE
