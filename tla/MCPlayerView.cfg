CONSTANTS
    ItemData <- MCItemData
    MAX_INVENTORY = 1
    QuestData <- MCQuestData
    Characters <- MCCharacters
    Me = me
    NoPlayer = nobody
    OtherUids = {other}
    Others <- MCOthers
    ExpReward = 2
    GoldReward = 2
    ExpPerLevel = 2
    HpPerLevel = 20
    AtkPerLevel = 3
    DefPerLevel = 2
    Members = 2
    AttendanceGold = 2
    UINT16 = 65536
    MaxLevel = 1
    MaxHp = 100
    MaxGold = 0
    MaxSelected = 2
    MaxQueue = 1
    MaxListQueue = 2
SPECIFICATION Spec
INVARIANTS ExpBelowFullIsReal GoldShown StatsSound PlayerFollows
CHECK_DEADLOCK FALSE
