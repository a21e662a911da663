SPECIFICATION CombatSpec
CONSTANTS
    MaxSession = 3
    CharUids = {c1}
    NoChar = NoChar
    DuplicateLogin = FALSE
    DBOutcomes = {"ok"}
    MAX_PARTY = 3
    MaxPartyId = 1
    MAX_NPC = 2
    NpcMaxHp = 2
    ExpReward = 30
    GoldReward = 10
    ExpPerLevel = 100
    QuestExp = 300
    QuestGold = 500
    MaxNpcUid = 3
    MaxQuestGold = 500
INVARIANTS
    EveryNpcStands
    ExpBelowMax
PROPERTIES
    KilledForGood
    NoMintedGold
    FairShare
CHECK_DEADLOCK FALSE
