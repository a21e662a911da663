------------------------------ MODULE PlayerView ------------------------------
(***************************************************************************)
(* One player: PlayerData, bag, equipment and quests on the server, and    *)
(* what the client of the player shows of them.  The server never sends    *)
(* the whole of it; the client puts its numbers together from the packets  *)
(* of many handlers, and some it computes itself.                          *)
(*                                                                         *)
(* Packets are a FIFO queue, and keys take effect at once, as in WorldView.*)
(* The database works (its failures are the matter of Inventory, Quest and *)
(* Account), the account has one session, and the other players are part   *)
(* of the environment; but the client tells itself from them by the uid in *)
(* SC_CHAR_INFO alone, as in WorldView.  Which menu is open on the screen  *)
(* is left out: a key that some menu offers can be pressed.  Requests that *)
(* are refused with a message alone are the absence of a step.             *)
(***************************************************************************)
EXTENDS Naturals, SequencesExt, FiniteSetsExt

CONSTANTS
    ItemData,       \* by item id: type, atk, def, hp and price
    MAX_INVENTORY,
    QuestData,      \* by quest id: target, rewardGold, rewardExp, rewardItem
    Characters,     \* what the database may have of one when it is selected:
                    \* gold, bag, weapon, armor and quests
    Me, NoPlayer,   \* account uids: of the player, and 0
    OtherUids,      \* and of other players in the game
    Others,         \* what they are when others are told: uid, level, hp, maxHp
    ExpReward, GoldReward,      \* of an NPC
    ExpPerLevel, HpPerLevel, AtkPerLevel, DefPerLevel,
    Members,        \* members of the player's party when it shares a kill
    AttendanceGold,
    UINT16,         \* 2^16
    MaxLevel, MaxHp,        \* bounds: level and maxHp a player may kill at
    MaxGold,        \* bound: gold at which kills may pay and gold be told
    MaxSelected,    \* bound: characters selected on the connection
    MaxQueue,       \* bound: packets under way before the next step in the game
    MaxListQueue    \* bound: and before the next key in the selection

Items == DOMAIN ItemData
Quests == DOMAIN QuestData
NoItem == 0
Slots == 0..(MAX_INVENTORY - 1)
MaybeItem == Items \cup {NoItem}
Progress == [status : 0..3, progress : Nat]
Uids == OtherUids \cup {Me, NoPlayer}
ItemTypes == {"weapon", "armor", "consumable"}

ASSUME PlayerAssumption ==
    /\ Items \subseteq Nat \ {0} /\ IsFiniteSet(Quests) /\ MAX_INVENTORY \in Nat \ {0}
    /\ \A i \in Items : ItemData[i] \in [type : ItemTypes, atk : Nat, def : Nat, hp : Nat, price : Nat]
    /\ \A q \in Quests : QuestData[q] \in [target : Nat \ {0}, rewardGold : Nat, rewardExp : Nat,
                                           rewardItem : MaybeItem]
    /\ \A c \in Characters : c \in [gold : Nat, bag : [Slots -> MaybeItem],
                                    weapon : MaybeItem, armor : MaybeItem,
                                    quests : [Quests -> Progress]]
    /\ Me \notin OtherUids \cup {NoPlayer} /\ IsFiniteSet(Others)
    /\ Others \subseteq [uid : OtherUids, level : Nat \ {0}, hp : Nat, maxHp : Nat]
    /\ {ExpReward, GoldReward, HpPerLevel, AtkPerLevel, DefPerLevel, AttendanceGold} \subseteq Nat
    /\ {ExpPerLevel, Members, UINT16} \subseteq Nat \ {0}
    /\ {MaxLevel, MaxHp, MaxGold, MaxSelected, MaxQueue, MaxListQueue} \subseteq Nat

VARIABLES
    loggedIn,
    player,         \* PlayerData
    bag, weapon, armor,     \* the inventory of the session
    quests,         \* g_questProgress of the session
    queue,          \* packets under way to the client
    view,           \* what the client shows
    selected,       \* history: characters selected on the connection
    oldList,        \* history: the last one has not asked for its quests, one before may have
    extraGold,      \* history: the client was told of gold the player did not get
    emptySale       \* history: the gold was last told by a sale of an empty slot

selections == <<selected, oldList>>
history == <<selections, extraGold, emptySale>>
inventory == <<bag, weapon, armor>>
vars == <<loggedIn, player, inventory, quests, queue, view, history>>

PlayerData == [level : Nat \ {0}, exp : Nat, maxExp : Nat \ {0}, hp : Nat, maxHp : Nat,
               atk : Nat, def : Nat, gold : Nat]
NewPlayer == [level |-> 1, exp |-> 0, maxExp |-> ExpPerLevel, hp |-> 100, maxHp |-> 100,
              atk |-> 15, def |-> 5, gold |-> 0]
NoItems == [i \in Slots |-> NoItem]
NoProgress == [q \in Quests |-> [status |-> 0, progress |-> 0]]

\* The client starts with the same numbers.  uid: whom it takes for the player;
\* listed: it has a list of quests.
NewView == [state |-> "CharSelect", uid |-> NoPlayer, player |-> NewPlayer, bag |-> NoItems,
            weapon |-> NoItem, armor |-> NoItem, listed |-> FALSE, quests |-> NoProgress]

Init ==
    /\ loggedIn = FALSE /\ player = NewPlayer
    /\ bag = NoItems /\ weapon = NoItem /\ armor = NoItem
    /\ quests = NoProgress
    /\ queue = <<>> /\ view = NewView
    /\ selected = 0 /\ oldList = FALSE /\ extraGold = FALSE /\ emptySale = FALSE

-----------------------------------------------------------------------------
(* Packets, and the handlers of the client for them. *)

CharInfo(p) == [type |-> "SC_CHAR_INFO", uid |-> Me, level |-> p.level, exp |-> p.exp,
                hp |-> p.hp, maxHp |-> p.maxHp, gold |-> p.gold]
\* Of another player exp and gold are left at 0.
OtherInfo(o) == [type |-> "SC_CHAR_INFO", uid |-> o.uid, level |-> o.level, exp |-> 0,
                 hp |-> o.hp, maxHp |-> o.maxHp, gold |-> 0]
CharList == [type |-> "SC_CHAR_LIST"]
ExpUpdate(p) == [type |-> "SC_EXP_UPDATE", exp |-> p.exp, maxExp |-> p.maxExp]
LevelUpOf(p) == [type |-> "SC_LEVEL_UP", level |-> p.level, hp |-> p.hp, maxHp |-> p.maxHp,
                 atk |-> p.atk, def |-> p.def]
NpcDeath == [type |-> "SC_NPC_DEATH", gold |-> GoldReward]
AttendanceResult == [type |-> "SC_ATTENDANCE_RESULT", gold |-> AttendanceGold]
ShopResult(g) == [type |-> "SC_SHOP_RESULT", gold |-> g]
SlotUpdate(i, item) == [type |-> "SC_INVENTORY_UPDATE", slot |-> i, item |-> item]
InventoryList(b) == [type |-> "SC_INVENTORY_LIST", bag |-> b]
EquipResult(p, w, a) == [type |-> "SC_EQUIP_RESULT", atk |-> p.atk, def |-> p.def,
                         weapon |-> w, armor |-> a]
QuestList(qs) == [type |-> "SC_QUEST_LIST", quests |-> qs]
QuestAcceptResult(q) == [type |-> "SC_QUEST_ACCEPT_RESULT", quest |-> q]
QuestProgress(q, n) == [type |-> "SC_QUEST_PROGRESS", quest |-> q, progress |-> n]
QuestReward(q) == [type |-> "SC_QUEST_REWARD", quest |-> q]

OnCharList(v, p) == [v EXCEPT !.state = "CharSelect"]
\* Whoever the first one after a list is about is taken for the player.
OnCharInfo(v, p) ==
    IF v.state = "CharSelect" \/ p.uid = v.uid
    THEN [v EXCEPT !.state = "InGame", !.uid = p.uid,
                   !.player = [@ EXCEPT !.level = p.level, !.exp = p.exp, !.hp = p.hp,
                                        !.maxHp = p.maxHp, !.gold = p.gold]]
    ELSE v
OnExpUpdate(v, p) == [v EXCEPT !.player = [@ EXCEPT !.exp = p.exp, !.maxExp = p.maxExp]]
OnLevelUp(v, p) ==
    [v EXCEPT !.player = [@ EXCEPT !.level = p.level, !.hp = p.hp, !.maxHp = p.maxHp,
                                   !.atk = p.atk, !.def = p.def]]
\* Every SC_NPC_DEATH counts as gold, whoever killed the NPC.
DeathOnly(v, p) == v                    \* mutant: gold is left to SC_CHAR_INFO
OnNpcDeath(v, p) == [v EXCEPT !.player.gold = @ + p.gold]
OnAttendanceResult(v, p) == [v EXCEPT !.player.gold = @ + p.gold]
OnShopResult(v, p) == [v EXCEPT !.player.gold = p.gold]
\* OnItemDrop does the same with SC_ITEM_DROP.
OnInventoryUpdate(v, p) == [v EXCEPT !.bag[p.slot] = p.item]
\* The list has the slots that hold something; the others stay as they were.
OnInventoryList(v, p) ==
    [v EXCEPT !.bag = [i \in Slots |-> IF p.bag[i] # NoItem THEN p.bag[i] ELSE v.bag[i]]]
OnEquipResult(v, p) ==
    [v EXCEPT !.player = [@ EXCEPT !.atk = p.atk, !.def = p.def],
              !.weapon = p.weapon, !.armor = p.armor]
OnQuestListResult(v, p) == [v EXCEPT !.listed = TRUE, !.quests = p.quests]
\* The other three find no entry before there was a list.
OnQuestAcceptResult(v, p) ==
    IF v.listed THEN [v EXCEPT !.quests[p.quest] = [status |-> 1, progress |-> 0]] ELSE v
OnQuestProgressUpdate(v, p) ==
    IF v.listed
    THEN [v EXCEPT !.quests[p.quest] =
             [status |-> IF p.progress >= QuestData[p.quest].target THEN 2 ELSE @.status,
              progress |-> p.progress]]
    ELSE v
OnQuestRewardResult(v, p) == IF v.listed THEN [v EXCEPT !.quests[p.quest].status = 3] ELSE v

Handled(v, p) ==
    CASE p.type = "SC_CHAR_LIST"           -> OnCharList(v, p)
      [] p.type = "SC_CHAR_INFO"           -> OnCharInfo(v, p)
      [] p.type = "SC_EXP_UPDATE"          -> OnExpUpdate(v, p)
      [] p.type = "SC_LEVEL_UP"            -> OnLevelUp(v, p)
      [] p.type = "SC_NPC_DEATH"           -> OnNpcDeath(v, p)
      [] p.type = "SC_ATTENDANCE_RESULT"   -> OnAttendanceResult(v, p)
      [] p.type = "SC_SHOP_RESULT"         -> OnShopResult(v, p)
      [] p.type = "SC_INVENTORY_UPDATE"    -> OnInventoryUpdate(v, p)
      [] p.type = "SC_INVENTORY_LIST"      -> OnInventoryList(v, p)
      [] p.type = "SC_EQUIP_RESULT"        -> OnEquipResult(v, p)
      [] p.type = "SC_QUEST_LIST"          -> OnQuestListResult(v, p)
      [] p.type = "SC_QUEST_ACCEPT_RESULT" -> OnQuestAcceptResult(v, p)
      [] p.type = "SC_QUEST_PROGRESS"      -> OnQuestProgressUpdate(v, p)
      [] p.type = "SC_QUEST_REWARD"        -> OnQuestRewardResult(v, p)

Receive ==
    /\ queue # <<>>
    /\ view' = Handled(view, Head(queue))
    /\ queue' = Tail(queue)
    /\ UNCHANGED <<loggedIn, player, inventory, quests, history>>

Send(packets) == queue' = queue \o packets /\ UNCHANGED view

\* A key of the game, and what others do while the player is in the game.
Key == view.state = "InGame" /\ Len(queue) <= MaxQueue
Meanwhile == loggedIn /\ Len(queue) <= MaxQueue
\* A key of the selection, whether or not a character was selected before.
ListKey == view.state = "CharSelect" /\ Len(queue) <= MaxListQueue

-----------------------------------------------------------------------------
(* Exp, levels and kills. *)

LevelUpFlat(p) ==                       \* mutant: atk from the level, without the weapon
    [p EXCEPT !.level = @ + 1, !.exp = @ - p.maxExp, !.maxExp = (p.level + 1) * ExpPerLevel,
              !.maxHp = @ + HpPerLevel, !.hp = p.maxHp + HpPerLevel,
              !.atk = 15 + p.level * AtkPerLevel, !.def = @ + DefPerLevel]
LevelUp(p) ==
    [p EXCEPT !.level = @ + 1, !.exp = @ - p.maxExp, !.maxExp = (p.level + 1) * ExpPerLevel,
              !.maxHp = @ + HpPerLevel, !.hp = p.maxHp + HpPerLevel,
              !.atk = @ + AtkPerLevel, !.def = @ + DefPerLevel]

\* The loop, with the SC_LEVEL_UP of each round.
CheckLevelUp[p \in PlayerData] ==
    IF p.exp < p.maxExp THEN [player |-> p, packets |-> <<>>]
    ELSE LET r == CheckLevelUp[LevelUp(p)]
         IN  [r EXCEPT !.packets = <<LevelUpOf(LevelUp(p))>> \o @]

\* Exp and gold are paid; SC_EXP_UPDATE is sent before the level is looked at.
ExpSentEarly(p, exp, gold) ==           \* mutant: sent before the exp is added
    LET q == [p EXCEPT !.exp = @ + exp, !.gold = @ + gold]
        r == CheckLevelUp[q]
    IN  [r EXCEPT !.packets = <<ExpUpdate(p)>> \o @]
Paid(p, exp, gold) ==
    LET q == [p EXCEPT !.exp = @ + exp, !.gold = @ + gold]
        r == CheckLevelUp[q]
    IN  [r EXCEPT !.packets = <<ExpUpdate(q)>> \o @]

MayBePaid == player.level <= MaxLevel /\ player.maxHp <= MaxHp /\ player.gold <= MaxGold

Counted(q) ==
    LET n == quests[q].progress + 1
    IN  [status |-> IF n >= QuestData[q].target THEN 2 ELSE 1, progress |-> n]
Counting == {q \in Quests : quests[q].status = 1}
UpdateQuestProgress == quests' = [q \in Quests |-> IF q \in Counting THEN Counted(q) ELSE quests[q]]
ProgressPackets == SetToSeq({QuestProgress(q, Counted(q).progress) : q \in Counting})

\* FindEmptySlot, or MAX_INVENTORY if there is none.
FindEmptySlot == Min({i \in Slots : bag[i] = NoItem} \cup {MAX_INVENTORY})
\* An item that is dropped or rewarded goes into the bag if there is room.
Given(item) ==
    IF item = NoItem \/ FindEmptySlot = MAX_INVENTORY
    THEN <<>> ELSE <<SlotUpdate(FindEmptySlot, item)>>
BagAfter(packets) ==
    IF packets = <<>> THEN bag ELSE [bag EXCEPT ![packets[1].slot] = packets[1].item]

\* The player kills an NPC, alone or as one of n members; a drop is possible.
OwnKill(n, drop) ==
    /\ Key /\ MayBePaid
    /\ LET r == Paid(player, ExpReward \div n, GoldReward \div n) IN
       /\ player' = r.player
       /\ Send(<<NpcDeath>> \o r.packets \o ProgressPackets \o Given(drop))
    /\ bag' = BagAfter(Given(drop))
    /\ UpdateQuestProgress
    /\ extraGold' = (extraGold \/ GoldReward \div n # GoldReward)
    /\ UNCHANGED <<loggedIn, weapon, armor, selections, emptySale>>

\* Another member of the party kills one: SC_NPC_DEATH goes out before the share.
SharedKill ==
    /\ Meanwhile /\ MayBePaid
    /\ LET r == Paid(player, ExpReward \div Members, GoldReward \div Members) IN
       /\ player' = r.player
       /\ Send(<<NpcDeath>> \o r.packets \o ProgressPackets)
    /\ UpdateQuestProgress
    /\ extraGold' = (extraGold \/ GoldReward \div Members # GoldReward)
    /\ UNCHANGED <<loggedIn, inventory, selections, emptySale>>

\* A stranger kills one: the player is told all the same.
OtherKill ==
    /\ Meanwhile
    /\ view.player.gold <= MaxGold      \* keeps what the client shows within bounds
    /\ Send(<<NpcDeath>>)
    /\ extraGold' = TRUE
    /\ UNCHANGED <<loggedIn, player, inventory, quests, selections, emptySale>>

\* Another player enters or moves, and the player is told where it is.
OtherMoves(o) ==
    /\ Meanwhile
    /\ Send(<<OtherInfo(o)>>)
    /\ UNCHANGED <<loggedIn, player, inventory, quests, history>>

-----------------------------------------------------------------------------
(* Selection, attendance, items, shop. *)

\* atk and def are set only if there is something to wear, and hp, maxHp and
\* maxExp not at all.
LoadStats(p, c) ==
    [p EXCEPT !.level = 1, !.exp = 0, !.gold = c.gold,
              !.atk = IF c.weapon # NoItem THEN 15 + ItemData[c.weapon].atk ELSE @,
              !.def = IF c.armor # NoItem THEN 5 + ItemData[c.armor].def ELSE @]

EquipNotSent(c, p) == <<>>              \* mutant: only equipping sends SC_EQUIP_RESULT
EquipSent(c, p) ==
    IF c.weapon = NoItem /\ c.armor = NoItem THEN <<>> ELSE <<EquipResult(p, c.weapon, c.armor)>>

\* SC_CHAR_INFO goes out before the inventory is loaded, and after it those of
\* the players that are there.  The quests that were saved are loaded, and the
\* client is not told.
OnCharSelect(c, there) ==
    /\ ListKey /\ selected < MaxSelected
    /\ player' = LoadStats(player, c)
    /\ bag' = c.bag /\ weapon' = c.weapon /\ armor' = c.armor
    /\ quests' = c.quests
    /\ loggedIn' = TRUE
    /\ Send(<<CharInfo([player' EXCEPT !.atk = player.atk, !.def = player.def])>>
            \o SetToSeq({OtherInfo(o) : o \in there})
            \o <<InventoryList(c.bag)>> \o EquipSent(c, player'))
    /\ selected' = selected + 1 /\ oldList' = loggedIn
    /\ extraGold' = FALSE /\ emptySale' = FALSE

\* A creation that succeeds sends the list again, in whatever state the session is.
OnCharCreate ==
    /\ ListKey
    /\ Send(<<CharList>>)
    /\ UNCHANGED <<loggedIn, player, inventory, quests, history>>

\* The first CS_ATTENDANCE_CHECK of a day.  The gold goes to the table.
OnAttendanceCheck ==
    /\ Key
    /\ view.player.gold <= MaxGold
    /\ Send(<<AttendanceResult>>)
    /\ extraGold' = TRUE
    /\ UNCHANGED <<loggedIn, player, inventory, quests, selections, emptySale>>

Healed(p, item) == [p EXCEPT !.hp = Min({(@ + ItemData[item].hp) % UINT16, p.maxHp})]

OnItemUse(i) ==
    /\ Key
    /\ bag[i] \in Items /\ ItemData[bag[i]].type = "consumable"
    /\ player' = Healed(player, bag[i])
    /\ bag' = [bag EXCEPT ![i] = NoItem]
    /\ Send(<<SlotUpdate(i, NoItem), CharInfo(player')>>)
    /\ extraGold' = FALSE /\ emptySale' = FALSE
    /\ UNCHANGED <<loggedIn, weapon, armor, quests, selections>>

\* The old item goes into the slot of the new one.
OnItemEquip(i) ==
    /\ Key
    /\ bag[i] \in Items
    /\ LET item == ItemData[bag[i]] IN
       \/ /\ item.type = "weapon"
          /\ weapon' = bag[i] /\ bag' = [bag EXCEPT ![i] = weapon]
          /\ player' = [player EXCEPT !.atk = 15 + item.atk]
          /\ UNCHANGED armor
       \/ /\ item.type = "armor"
          /\ armor' = bag[i] /\ bag' = [bag EXCEPT ![i] = armor]
          /\ player' = [player EXCEPT !.def = 5 + item.def]
          /\ UNCHANGED weapon
    /\ Send(<<EquipResult(player', weapon', armor'), SlotUpdate(i, bag'[i]), CharInfo(player')>>)
    /\ extraGold' = FALSE /\ emptySale' = FALSE
    /\ UNCHANGED <<loggedIn, quests, selections>>

CanPay(item) == player.gold >= ItemData[item].price
\* A purchase that is refused tells the gold as well.
OnShopBuy(item) ==
    /\ Key
    /\ IF CanPay(item) /\ FindEmptySlot # MAX_INVENTORY
       THEN /\ player' = [player EXCEPT !.gold = @ - ItemData[item].price]
            /\ bag' = [bag EXCEPT ![FindEmptySlot] = item]
            /\ Send(<<SlotUpdate(FindEmptySlot, item), ShopResult(player'.gold)>>)
       ELSE /\ UNCHANGED <<player, bag>>
            /\ Send(<<ShopResult(player.gold)>>)
    /\ extraGold' = FALSE /\ emptySale' = FALSE
    /\ UNCHANGED <<loggedIn, weapon, armor, quests, selections>>

\* A fifth of the price.  For an empty slot remainGold is left at 0.
OnShopSell(i) ==
    /\ Key
    /\ IF bag[i] = NoItem
       THEN /\ UNCHANGED <<player, bag>>
            /\ Send(<<ShopResult(0)>>)
            /\ emptySale' = TRUE /\ extraGold' = FALSE
       ELSE /\ player.gold <= MaxGold
            /\ player' = [player EXCEPT !.gold = @ + ItemData[bag[i]].price \div 5]
            /\ bag' = [bag EXCEPT ![i] = NoItem]
            /\ Send(<<SlotUpdate(i, NoItem), ShopResult(player'.gold)>>)
            /\ emptySale' = FALSE /\ extraGold' = FALSE
    /\ UNCHANGED <<loggedIn, weapon, armor, quests, selections>>

-----------------------------------------------------------------------------
(* Quests, near the quest NPC. *)

OnQuestList ==
    /\ Key
    /\ Send(<<QuestList(quests)>>)
    /\ oldList' = FALSE
    /\ UNCHANGED <<loggedIn, player, inventory, quests, selected, extraGold, emptySale>>

\* The client offers what its list says; the server looks at its own.
OnQuestAccept(q) ==
    /\ Key /\ view.listed /\ view.quests[q].status = 0
    /\ quests[q].status = 0
    /\ quests' = [quests EXCEPT ![q] = [status |-> 1, progress |-> 0]]
    /\ Send(<<QuestAcceptResult(q)>>)
    /\ UNCHANGED <<loggedIn, player, inventory, history>>

OnQuestComplete(q) ==
    /\ Key /\ view.listed /\ view.quests[q].status = 2
    /\ quests[q].status = 2
    /\ quests' = [quests EXCEPT ![q].status = 3]
    /\ LET given == Given(QuestData[q].rewardItem)
           r == Paid(player, QuestData[q].rewardExp, QuestData[q].rewardGold)
       IN  /\ player' = r.player
           /\ bag' = BagAfter(given)
           /\ Send(given \o r.packets \o <<CharInfo(r.player), QuestReward(q)>>)
    /\ extraGold' = FALSE /\ emptySale' = FALSE
    /\ UNCHANGED <<loggedIn, weapon, armor, selections>>

Next ==
    \/ \E c \in Characters, there \in SUBSET Others : OnCharSelect(c, there)
    \/ OnCharCreate
    \/ \E o \in Others : OtherMoves(o)
    \/ \E n \in {1, Members}, drop \in MaybeItem : OwnKill(n, drop)
    \/ SharedKill \/ OtherKill \/ OnAttendanceCheck
    \/ \E i \in Slots : OnItemUse(i) \/ OnItemEquip(i) \/ OnShopSell(i)
    \/ \E item \in Items : OnShopBuy(item)
    \/ OnQuestList
    \/ \E q \in Quests : OnQuestAccept(q) \/ OnQuestComplete(q)
    \/ Receive

Spec == Init /\ [][Next]_vars

-----------------------------------------------------------------------------
\* What each variable holds.
TypeOK ==
    /\ loggedIn \in BOOLEAN
    /\ player \in PlayerData
    /\ bag \in [Slots -> MaybeItem] /\ weapon \in MaybeItem /\ armor \in MaybeItem
    /\ quests \in [Quests -> Progress]
    /\ view.player \in PlayerData /\ view.bag \in [Slots -> MaybeItem]
    /\ selected \in Nat /\ oldList \in BOOLEAN /\ extraGold \in BOOLEAN /\ emptySale \in BOOLEAN

\* What the client shows once it has handled the packets under way.
Shown == FoldLeft(Handled, view, queue)

\* A list that is sent after a selection brings the client back to the selection,
\* and the next SC_CHAR_INFO, whosever it is, into the game.
KnowsItself == Shown.uid = Me

\* Level, hit points, attack and defence are shown as they are, though no packet
\* carries them all and kills, shares, quests, potions and equipment change them
\* in any order.  While the client takes another player for its own, attack and
\* defence still are, and the others are again once it knows itself.
StatsFollow ==
    LET v == Shown.player IN
    /\ v.atk = player.atk /\ v.def = player.def
    /\ KnowsItself => /\ v.level = player.level
                      /\ v.hp = player.hp /\ v.maxHp = player.maxHp

\* SC_EXP_UPDATE goes out before the level-up takes exp away, so the client may
\* show too much; but then it shows a full bar.  What it shows below maxExp is
\* what the player has, if it is the player that it shows.
ExpBelowFullIsReal ==
    KnowsItself /\ Shown.player.exp < Shown.player.maxExp => Shown.player.exp = player.exp

\* The gold shown is the gold the shop will look at, except for what the client
\* counted and the player did not get (kills of others, the undivided reward of
\* a shared one, attendance) and except for a sale of an empty slot, which sets
\* it to 0; the next SC_CHAR_INFO or shop result puts both right.  It is not
\* while the client takes another player for its own, whose gold it is told as 0.
GoldShown ==
    KnowsItself /\ ~emptySale => /\ Shown.player.gold >= player.gold
                                 /\ ~extraGold => Shown.player.gold = player.gold

\* Bag and equipment are shown as they are, however drops, rewards, purchases,
\* sales and exchanges follow each other; only a second selection on the
\* connection leaves items of the first character on the screen.
ItemsFollow ==
    selected < 2 => /\ Shown.bag = bag
                    /\ Shown.weapon = weapon /\ Shown.armor = armor

\* From the first list on the client shows every quest as the server has it,
\* whatever was saved of it before; the list of one character stays on the
\* screen when another is selected, until that one asks for its own.
QuestsFollow == Shown.listed /\ ~oldList => Shown.quests = quests

\* The client shows the player, what it carries and its quests as they are.
PlayerFollows == StatsFollow /\ ItemsFollow /\ QuestsFollow

\* Nothing in the game costs hit points, and neither a level nor a potion takes
\* the player away from its maximum, as long as hit points and a potion together
\* fit in a uint16_t.
\* Whatever was gained or exchanged, and in whichever order, weapon and armor
\* count in full; levels gained before an exchange do not.  (Types included.)
StatsSound ==
    /\ TypeOK
    /\ player.hp = player.maxHp
    /\ weapon # NoItem => player.atk >= 15 + ItemData[weapon].atk
    /\ armor # NoItem => player.def >= 5 + ItemData[armor].def
=============================================================================
