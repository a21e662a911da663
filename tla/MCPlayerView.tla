---------------------------- MODULE MCPlayerView ----------------------------
EXTENDS PlayerView

\* A weapon, an armor and a potion.
MCItemData ==
    [i \in 1..3 |->
       IF i = 1 THEN [type |-> "weapon", atk |-> 5, def |-> 0, hp |-> 0, price |-> 2]
       ELSE IF i = 2 THEN [type |-> "armor", atk |-> 0, def |-> 5, hp |-> 0, price |-> 0]
       ELSE [type |-> "consumable", atk |-> 0, def |-> 0, hp |-> 50, price |-> 0]]

\* One kill, and a reward that is worth two levels.
MCQuestData == [q \in {1} |-> [target |-> 1, rewardGold |-> 1, rewardExp |-> 6, rewardItem |-> 3]]

\* A new character, and one that wears a weapon, has another and is at a quest.
MCCharacters ==
    {[gold |-> 0, bag |-> [i \in Slots |-> NoItem], weapon |-> NoItem, armor |-> NoItem,
      quests |-> NoProgress],
     [gold |-> 0, bag |-> [i \in Slots |-> IF i = 0 THEN 1 ELSE NoItem], weapon |-> 1, armor |-> NoItem,
      quests |-> [q \in Quests |-> [status |-> 1, progress |-> 0]]]}

\* A player of another level.
MCOthers == [uid : OtherUids, level : {3}, hp : {140}, maxHp : {140}]
=============================================================================
