--------------------------- MODULE PlayerViewProofs ---------------------------
(***************************************************************************)
(* Proofs about PlayerView: what the client shows once the packets under   *)
(* way are handled (Shown) is what the server has of the player.           *)
(*                                                                         *)
(* Shown is a fold over the queue.  FoldLeft is recursive, so the proofs   *)
(* first show (through RecursionExists) that it yields the last picture of *)
(* a run of the client through the packets, and from it the two laws that  *)
(* everything rests on: a packet that the client handles leaves Shown as   *)
(* it is, and packets that are sent are handled after those under way.     *)
(* Then it remains to look, for each handler of the server, at the         *)
(* packets it sends and at what they make of a picture; the level-ups and  *)
(* the progress of the quests are sequences of packets of any length.      *)
(***************************************************************************)
EXTENDS PlayerView, FiniteSetTheorems, SequenceTheorems, TLAPS

\* What the client shows, and the packets that may be under way to it.
Views == [state : {"CharSelect", "InGame"}, uid : Uids, player : PlayerData, bag : [Slots -> MaybeItem],
          weapon : MaybeItem, armor : MaybeItem, listed : BOOLEAN, quests : [Quests -> Progress]]
Packet ==
    [type : {"SC_CHAR_LIST"}]
    \cup [type : {"SC_CHAR_INFO"}, uid : Uids, level : Nat \ {0}, exp : Nat, hp : Nat, maxHp : Nat, gold : Nat]
    \cup [type : {"SC_EXP_UPDATE"}, exp : Nat, maxExp : Nat \ {0}]
    \cup [type : {"SC_LEVEL_UP"}, level : Nat \ {0}, hp : Nat, maxHp : Nat, atk : Nat, def : Nat]
    \cup [type : {"SC_NPC_DEATH", "SC_ATTENDANCE_RESULT", "SC_SHOP_RESULT"}, gold : Nat]
    \cup [type : {"SC_INVENTORY_UPDATE"}, slot : Slots, item : MaybeItem]
    \cup [type : {"SC_INVENTORY_LIST"}, bag : [Slots -> MaybeItem]]
    \cup [type : {"SC_EQUIP_RESULT"}, atk : Nat, def : Nat, weapon : MaybeItem, armor : MaybeItem]
    \cup [type : {"SC_QUEST_LIST"}, quests : [Quests -> Progress]]
    \cup [type : {"SC_QUEST_ACCEPT_RESULT", "SC_QUEST_REWARD"}, quest : Quests]
    \cup [type : {"SC_QUEST_PROGRESS"}, quest : Quests, progress : Nat]

\* Recursion, and the folds of the handlers of this module.
R == INSTANCE Recursion WITH Handle <- Handled, Picture <- Views, Packets <- Packet

\* The handler of each packet.
LEMMA HandledCases ==
  ASSUME NEW v, NEW p
  PROVE  /\ p.type = "SC_CHAR_LIST" => Handled(v, p) = OnCharList(v, p)
         /\ p.type = "SC_CHAR_INFO" => Handled(v, p) = OnCharInfo(v, p)
         /\ p.type = "SC_EXP_UPDATE" => Handled(v, p) = OnExpUpdate(v, p)
         /\ p.type = "SC_LEVEL_UP" => Handled(v, p) = OnLevelUp(v, p)
         /\ p.type = "SC_NPC_DEATH" => Handled(v, p) = OnNpcDeath(v, p)
         /\ p.type = "SC_ATTENDANCE_RESULT" => Handled(v, p) = OnAttendanceResult(v, p)
         /\ p.type = "SC_SHOP_RESULT" => Handled(v, p) = OnShopResult(v, p)
         /\ p.type = "SC_INVENTORY_UPDATE" => Handled(v, p) = OnInventoryUpdate(v, p)
         /\ p.type = "SC_INVENTORY_LIST" => Handled(v, p) = OnInventoryList(v, p)
         /\ p.type = "SC_EQUIP_RESULT" => Handled(v, p) = OnEquipResult(v, p)
         /\ p.type = "SC_QUEST_LIST" => Handled(v, p) = OnQuestListResult(v, p)
         /\ p.type = "SC_QUEST_ACCEPT_RESULT" => Handled(v, p) = OnQuestAcceptResult(v, p)
         /\ p.type = "SC_QUEST_PROGRESS" => Handled(v, p) = OnQuestProgressUpdate(v, p)
         /\ p.type = "SC_QUEST_REWARD" => Handled(v, p) = OnQuestRewardResult(v, p)
  BY DEF Handled

\* Every packet is one of these.
LEMMA PacketTypes ==
  ASSUME NEW p \in Packet
  PROVE  \/ p.type = "SC_CHAR_LIST"
         \/ p.type = "SC_CHAR_INFO" /\ p.uid \in Uids /\ p.level \in Nat \ {0} /\ {p.exp, p.hp, p.maxHp, p.gold} \subseteq Nat
         \/ p.type = "SC_EXP_UPDATE" /\ p.exp \in Nat /\ p.maxExp \in Nat \ {0}
         \/ p.type = "SC_LEVEL_UP" /\ p.level \in Nat \ {0} /\ {p.hp, p.maxHp, p.atk, p.def} \subseteq Nat
         \/ p.type \in {"SC_NPC_DEATH", "SC_ATTENDANCE_RESULT", "SC_SHOP_RESULT"} /\ p.gold \in Nat
         \/ p.type = "SC_INVENTORY_UPDATE" /\ p.slot \in Slots /\ p.item \in MaybeItem
         \/ p.type = "SC_INVENTORY_LIST" /\ p.bag \in [Slots -> MaybeItem]
         \/ p.type = "SC_EQUIP_RESULT" /\ {p.atk, p.def} \subseteq Nat /\ {p.weapon, p.armor} \subseteq MaybeItem
         \/ p.type = "SC_QUEST_LIST" /\ p.quests \in [Quests -> Progress]
         \/ p.type \in {"SC_QUEST_ACCEPT_RESULT", "SC_QUEST_REWARD"} /\ p.quest \in Quests
         \/ p.type = "SC_QUEST_PROGRESS" /\ p.quest \in Quests /\ p.progress \in Nat
  BY DEF Packet

\* What v and w have in common that the handlers of the player's numbers leave.
SameItems(v, w) == w.bag = v.bag /\ w.weapon = v.weapon /\ w.armor = v.armor
SameQuests(v, w) == w.listed = v.listed /\ w.quests = v.quests

\* The numbers that SC_CHAR_INFO carries.
Informed(q, p) == [q EXCEPT !.level = p.level, !.exp = p.exp, !.hp = p.hp,
                            !.maxHp = p.maxHp, !.gold = p.gold]

\* SC_CHAR_LIST.
LEMMA CharListTold ==
  ASSUME NEW v \in Views, NEW p \in Packet, p.type = "SC_CHAR_LIST", NEW w, w = Handled(v, p)
  PROVE  w \in Views /\ w.uid = v.uid /\ w.player = v.player /\ SameItems(v, w) /\ SameQuests(v, w)
<1>1. w = [v EXCEPT !.state = "CharSelect"]
  BY HandledCases DEF OnCharList
<1> QED BY <1>1 DEF Views, SameItems, SameQuests

\* SC_CHAR_INFO, of whomever the client takes for the player, and of others.
LEMMA CharInfoTold ==
  ASSUME NEW v \in Views, NEW p \in Packet, p.type = "SC_CHAR_INFO", NEW w, w = Handled(v, p)
  PROVE  /\ w \in Views /\ SameItems(v, w) /\ SameQuests(v, w)
         /\ \/ w.uid = p.uid /\ w.player = Informed(v.player, p)
            \/ p.uid # v.uid /\ w = v
<1> DEFINE q == [v.player EXCEPT !.level = p.level, !.exp = p.exp, !.hp = p.hp,
                                 !.maxHp = p.maxHp, !.gold = p.gold]
<1>1. v.player \in PlayerData
  BY DEF Views
<1>2. /\ p.uid \in Uids /\ p.level \in Nat \ {0}
      /\ p.exp \in Nat /\ p.hp \in Nat /\ p.maxHp \in Nat /\ p.gold \in Nat
  BY PacketTypes
<1>3. q \in PlayerData
  BY <1>1, <1>2 DEF PlayerData
<1>4. IF v.state = "CharSelect" \/ p.uid = v.uid
      THEN w = [v EXCEPT !.state = "InGame", !.uid = p.uid, !.player = q]
      ELSE w = v
  BY HandledCases DEF OnCharInfo
<1> HIDE DEF q
<1>5. CASE v.state = "CharSelect" \/ p.uid = v.uid
  <2>1. /\ w \in Views /\ w.player = q /\ w.uid = p.uid
        /\ SameItems(v, w) /\ SameQuests(v, w)
    BY <1>2, <1>3, <1>4, <1>5 DEF Views, SameItems, SameQuests
  <2> QED BY <2>1 DEF q, Informed
<1>6. CASE ~(v.state = "CharSelect" \/ p.uid = v.uid)
  BY <1>4, <1>6 DEF SameItems, SameQuests
<1> QED BY <1>5, <1>6

\* SC_EXP_UPDATE.
LEMMA ExpTold ==
  ASSUME NEW v \in Views, NEW p \in Packet, p.type = "SC_EXP_UPDATE", NEW w, w = Handled(v, p)
  PROVE  /\ w \in Views /\ w.uid = v.uid
         /\ w.player = [v.player EXCEPT !.exp = p.exp, !.maxExp = p.maxExp]
         /\ SameItems(v, w) /\ SameQuests(v, w)
<1> DEFINE q == [v.player EXCEPT !.exp = p.exp, !.maxExp = p.maxExp]
<1>1. v.player \in PlayerData
  BY DEF Views
<1>2. p.exp \in Nat /\ p.maxExp \in Nat \ {0}
  BY PacketTypes
<1>3. q \in PlayerData
  BY <1>1, <1>2 DEF PlayerData
<1>4. w = [v EXCEPT !.player = q]
  BY HandledCases DEF OnExpUpdate
<1> HIDE DEF q
<1>5. w \in Views /\ w.uid = v.uid /\ w.player = q /\ SameItems(v, w) /\ SameQuests(v, w)
  BY <1>3, <1>4 DEF Views, SameItems, SameQuests
<1> QED BY <1>5 DEF q

\* SC_LEVEL_UP.
LEMMA LevelTold ==
  ASSUME NEW v \in Views, NEW p \in Packet, p.type = "SC_LEVEL_UP", NEW w, w = Handled(v, p)
  PROVE  /\ w \in Views /\ w.uid = v.uid
         /\ w.player = [v.player EXCEPT !.level = p.level, !.hp = p.hp, !.maxHp = p.maxHp, !.atk = p.atk, !.def = p.def]
         /\ SameItems(v, w) /\ SameQuests(v, w)
<1> DEFINE q == [v.player EXCEPT !.level = p.level, !.hp = p.hp, !.maxHp = p.maxHp, !.atk = p.atk, !.def = p.def]
<1>1. v.player \in PlayerData
  BY DEF Views
<1>2. p.level \in Nat \ {0} /\ p.hp \in Nat /\ p.maxHp \in Nat /\ p.atk \in Nat /\ p.def \in Nat
  BY PacketTypes
<1>3. q \in PlayerData
  BY <1>1, <1>2 DEF PlayerData
<1>4. w = [v EXCEPT !.player = q]
  BY HandledCases DEF OnLevelUp
<1> HIDE DEF q
<1>5. w \in Views /\ w.uid = v.uid /\ w.player = q /\ SameItems(v, w) /\ SameQuests(v, w)
  BY <1>3, <1>4 DEF Views, SameItems, SameQuests
<1> QED BY <1>5 DEF q

\* SC_SHOP_RESULT.
LEMMA ShopTold ==
  ASSUME NEW v \in Views, NEW p \in Packet, p.type = "SC_SHOP_RESULT", NEW w, w = Handled(v, p)
  PROVE  /\ w \in Views /\ w.uid = v.uid
         /\ w.player = [v.player EXCEPT !.gold = p.gold]
         /\ SameItems(v, w) /\ SameQuests(v, w)
<1> DEFINE q == [v.player EXCEPT !.gold = p.gold]
<1>1. v.player \in PlayerData
  BY DEF Views
<1>2. p.gold \in Nat
  BY PacketTypes
<1>3. q \in PlayerData
  BY <1>1, <1>2 DEF PlayerData
<1>4. w = [v EXCEPT !.player = q]
  BY HandledCases DEF OnShopResult
<1> HIDE DEF q
<1>5. w \in Views /\ w.uid = v.uid /\ w.player = q /\ SameItems(v, w) /\ SameQuests(v, w)
  BY <1>3, <1>4 DEF Views, SameItems, SameQuests
<1> QED BY <1>5 DEF q

\* SC_NPC_DEATH and SC_ATTENDANCE_RESULT: gold that the client adds.
LEMMA GoldTold ==
  ASSUME NEW v \in Views, NEW p \in Packet, p.type \in {"SC_NPC_DEATH", "SC_ATTENDANCE_RESULT"},
         NEW w, w = Handled(v, p)
  PROVE  /\ w \in Views /\ w.uid = v.uid
         /\ w.player = [v.player EXCEPT !.gold = v.player.gold + p.gold]
         /\ SameItems(v, w) /\ SameQuests(v, w)
<1> DEFINE q == [v.player EXCEPT !.gold = v.player.gold + p.gold]
<1>1. v.player \in PlayerData
  BY DEF Views
<1>2. p.gold \in Nat
  BY PacketTypes
<1>3. q \in PlayerData
  BY <1>1, <1>2 DEF PlayerData
<1>4. w = [v EXCEPT !.player = q]
  BY HandledCases DEF OnNpcDeath, OnAttendanceResult
<1> HIDE DEF q
<1>5. w \in Views /\ w.uid = v.uid /\ w.player = q /\ SameItems(v, w) /\ SameQuests(v, w)
  BY <1>3, <1>4 DEF Views, SameItems, SameQuests
<1> QED BY <1>5 DEF q

\* SC_INVENTORY_UPDATE: one slot.
LEMMA SlotTold ==
  ASSUME NEW v \in Views, NEW p \in Packet, p.type = "SC_INVENTORY_UPDATE", NEW w, w = Handled(v, p)
  PROVE  /\ w \in Views /\ w.uid = v.uid
         /\ w.player = v.player /\ SameQuests(v, w)
         /\ w.bag = [v.bag EXCEPT ![p.slot] = p.item] /\ w.weapon = v.weapon /\ w.armor = v.armor
<1> DEFINE b == [v.bag EXCEPT ![p.slot] = p.item]
<1>1. p.slot \in Slots /\ p.item \in MaybeItem
  BY PacketTypes
<1>2. b \in [Slots -> MaybeItem]
  BY <1>1 DEF Views
<1>3. w = [v EXCEPT !.bag = b]
  BY HandledCases DEF OnInventoryUpdate
<1> HIDE DEF b
<1>4. w \in Views /\ w.uid = v.uid /\ w.bag = b /\ w.weapon = v.weapon /\ w.armor = v.armor
      /\ w.player = v.player /\ SameQuests(v, w)
  BY <1>2, <1>3 DEF Views, SameQuests
<1> QED BY <1>4 DEF b

\* SC_INVENTORY_LIST: the slots that hold something.
LEMMA BagTold ==
  ASSUME NEW v \in Views, NEW p \in Packet, p.type = "SC_INVENTORY_LIST", NEW w, w = Handled(v, p)
  PROVE  /\ w \in Views /\ w.uid = v.uid
         /\ w.player = v.player /\ SameQuests(v, w)
         /\ w.bag = [i \in Slots |-> IF p.bag[i] # NoItem THEN p.bag[i] ELSE v.bag[i]]
         /\ w.weapon = v.weapon /\ w.armor = v.armor
<1> DEFINE b == [i \in Slots |-> IF p.bag[i] # NoItem THEN p.bag[i] ELSE v.bag[i]]
<1>1. p.bag \in [Slots -> MaybeItem]
  BY PacketTypes
<1>2. b \in [Slots -> MaybeItem]
  BY <1>1 DEF Views
<1>3. w = [v EXCEPT !.bag = b]
  BY HandledCases DEF OnInventoryList
<1> HIDE DEF b
<1>4. w \in Views /\ w.uid = v.uid /\ w.bag = b /\ w.weapon = v.weapon /\ w.armor = v.armor
      /\ w.player = v.player /\ SameQuests(v, w)
  BY <1>2, <1>3 DEF Views, SameQuests
<1> QED BY <1>4 DEF b

\* SC_EQUIP_RESULT.
LEMMA EquipTold ==
  ASSUME NEW v \in Views, NEW p \in Packet, p.type = "SC_EQUIP_RESULT", NEW w, w = Handled(v, p)
  PROVE  /\ w \in Views /\ w.uid = v.uid
         /\ w.player = [v.player EXCEPT !.atk = p.atk, !.def = p.def]
         /\ w.bag = v.bag /\ w.weapon = p.weapon /\ w.armor = p.armor
         /\ SameQuests(v, w)
<1> DEFINE q == [v.player EXCEPT !.atk = p.atk, !.def = p.def]
<1>1. p.atk \in Nat /\ p.def \in Nat /\ p.weapon \in MaybeItem /\ p.armor \in MaybeItem
  BY PacketTypes
<1>2. v.player \in PlayerData
  BY DEF Views
<1>3. q \in PlayerData
  BY <1>1, <1>2 DEF PlayerData
<1>4. w = [v EXCEPT !.player = q, !.weapon = p.weapon, !.armor = p.armor]
  BY HandledCases DEF OnEquipResult
<1> HIDE DEF q
<1>5. w \in Views /\ w.uid = v.uid /\ w.bag = v.bag /\ w.weapon = p.weapon /\ w.armor = p.armor
      /\ w.player = q /\ SameQuests(v, w)
  BY <1>1, <1>3, <1>4 DEF Views, SameQuests
<1> QED BY <1>5 DEF q

\* SC_QUEST_LIST.
LEMMA QuestsTold ==
  ASSUME NEW v \in Views, NEW p \in Packet, p.type = "SC_QUEST_LIST", NEW w, w = Handled(v, p)
  PROVE  /\ w \in Views /\ w.uid = v.uid /\ w.player = v.player /\ SameItems(v, w)
         /\ w.listed = TRUE /\ w.quests = p.quests
<1>1. p.quests \in [Quests -> Progress]
  BY PacketTypes
<1>2. w = [v EXCEPT !.listed = TRUE, !.quests = p.quests]
  BY HandledCases DEF OnQuestListResult
<1> QED BY <1>1, <1>2 DEF Views, SameItems

\* What the other three make of the entry of a quest.
QuestAfter(v, p) ==
    IF p.type = "SC_QUEST_ACCEPT_RESULT" THEN [status |-> 1, progress |-> 0]
    ELSE IF p.type = "SC_QUEST_REWARD" THEN [v.quests[p.quest] EXCEPT !.status = 3]
    ELSE [status |-> IF p.progress >= QuestData[p.quest].target THEN 2 ELSE v.quests[p.quest].status,
          progress |-> p.progress]

\* SC_QUEST_ACCEPT_RESULT, SC_QUEST_PROGRESS and SC_QUEST_REWARD.
LEMMA QuestTold ==
  ASSUME NEW v \in Views, NEW p \in Packet, NEW w, w = Handled(v, p),
         p.type \in {"SC_QUEST_ACCEPT_RESULT", "SC_QUEST_PROGRESS", "SC_QUEST_REWARD"}
  PROVE  /\ w \in Views /\ w.uid = v.uid /\ w.player = v.player /\ SameItems(v, w) /\ w.listed = v.listed
         /\ v.listed => w.quests = [v.quests EXCEPT ![p.quest] = QuestAfter(v, p)]
<1>1. p.quest \in Quests /\ (p.type = "SC_QUEST_PROGRESS" => p.progress \in Nat)
  BY PacketTypes
<1>2. CASE ~v.listed
  <2>1. w = v
    BY <1>2, HandledCases DEF OnQuestAcceptResult, OnQuestProgressUpdate, OnQuestRewardResult
  <2> QED BY <1>2, <2>1 DEF SameItems
<1>3. CASE v.listed
  <2> DEFINE e == QuestAfter(v, p)
             qs == [v.quests EXCEPT ![p.quest] = e]
  <2>1. v.quests \in [Quests -> Progress] /\ v.quests[p.quest] \in Progress
    BY <1>1 DEF Views
  <2>2. e \in Progress
    BY <1>1, <2>1 DEF QuestAfter, Progress
  <2>3. qs \in [Quests -> Progress]
    BY <2>1, <2>2
  <2>4. w = [v EXCEPT !.quests = qs]
    BY <1>3, HandledCases
       DEF OnQuestAcceptResult, OnQuestProgressUpdate, OnQuestRewardResult, QuestAfter
  <2> HIDE DEF qs
  <2>5. w \in Views /\ w.uid = v.uid /\ w.player = v.player /\ SameItems(v, w) /\ w.listed = v.listed /\ w.quests = qs
    BY <2>3, <2>4 DEF Views, SameItems
  <2> QED BY <2>5 DEF qs
<1> QED BY <1>2, <1>3

\* The client stays in a state it knows, whatever arrives.
LEMMA HandledType ==
  ASSUME NEW v \in Views, NEW p \in Packet PROVE Handled(v, p) \in Views
  BY PacketTypes, CharListTold, CharInfoTold, ExpTold, LevelTold, ShopTold, GoldTold, SlotTold, BagTold,
     EquipTold, QuestsTold, QuestTold

-----------------------------------------------------------------------------
(* FoldLeft of the handlers over the packets of a queue. *)

\* What v becomes by the packets s.
After(v, s) == FoldLeft(Handled, v, s)

\* That is what the lemmas of Recursion speak of.
LEMMA AfterIsFold == \A v, s : After(v, s) = R!After(v, s)
  BY DEF After, R!After, FoldLeft, R!FoldLeft, MapThenFoldSet, R!MapThenFoldSet, Max, R!Max

\* The handlers are as those lemmas need them.
LEMMA HandlersFit == R!Handles
  BY HandledType DEF R!Handles

\* Nothing under way.
LEMMA FoldEmpty ==
  ASSUME NEW v \in Views PROVE After(v, <<>>) = v
  BY AfterIsFold, HandlersFit, R!FoldEmpty

\* The pictures are those the client can show.
LEMMA FoldType ==
  ASSUME NEW v \in Views, NEW s \in Seq(Packet) PROVE After(v, s) \in Views
  BY AfterIsFold, HandlersFit, R!FoldType

\* One packet.
LEMMA FoldOne ==
  ASSUME NEW v \in Views, NEW p \in Packet PROVE After(v, <<p>>) = Handled(v, p)
  BY AfterIsFold, HandlersFit, R!FoldOne

\* Packets sent later are handled later.
LEMMA FoldConcat ==
  ASSUME NEW v \in Views, NEW s \in Seq(Packet), NEW t \in Seq(Packet)
  PROVE  After(v, s \o t) = After(After(v, s), t)
  BY AfterIsFold, HandlersFit, R!FoldConcat

\* Two packets.
LEMMA AfterTwo ==
  ASSUME NEW v \in Views, NEW p \in Packet, NEW q \in Packet
  PROVE  After(v, <<p, q>>) = Handled(Handled(v, p), q)
<1>1. <<p>> \in Seq(Packet) /\ <<q>> \in Seq(Packet) /\ <<p, q>> \in Seq(Packet)
  OBVIOUS
<1>2. <<p, q>> = <<p>> \o <<q>>
  <2> DEFINE s == <<p>> \o <<q>>
  <2>1. s \in Seq(Packet) /\ Len(s) = 2 /\ s[1] = p /\ s[2] = q
    BY <1>1, ConcatProperties
  <2> HIDE DEF s
  <2>2. Len(<<p, q>>) = 2 /\ <<p, q>>[1] = p /\ <<p, q>>[2] = q
    OBVIOUS
  <2>3. \A i \in 1..2 : <<p, q>>[i] = s[i]
    BY <2>1, <2>2
  <2>4. <<p, q>> = s
    BY <1>1, <2>1, <2>2, <2>3, SeqEqual
  <2> QED BY <2>4 DEF s
<1>3. After(v, <<p>>) = Handled(v, p) /\ Handled(v, p) \in Views
  BY FoldOne, HandledType
<1>4. After(v, <<p>> \o <<q>>) = After(After(v, <<p>>), <<q>>)
  BY <1>1, FoldConcat
<1>5. After(Handled(v, p), <<q>>) = Handled(Handled(v, p), q)
  BY <1>3, FoldOne
<1> QED BY <1>2, <1>3, <1>4, <1>5

\* Three.
LEMMA AfterThree ==
  ASSUME NEW v \in Views, NEW p \in Packet, NEW q \in Packet, NEW r \in Packet
  PROVE  After(v, <<p, q, r>>) = Handled(Handled(Handled(v, p), q), r)
<1>1. <<p>> \in Seq(Packet) /\ <<q, r>> \in Seq(Packet)
  OBVIOUS
<1>2. <<p, q, r>> = <<p>> \o <<q, r>>
  OBVIOUS
<1>3. After(v, <<p>>) = Handled(v, p) /\ Handled(v, p) \in Views
  BY FoldOne, HandledType
<1>4. After(v, <<p>> \o <<q, r>>) = After(After(v, <<p>>), <<q, r>>)
  BY <1>1, FoldConcat
<1>5. After(Handled(v, p), <<q, r>>) = Handled(Handled(Handled(v, p), q), r)
  BY <1>3, AfterTwo
<1> QED BY <1>2, <1>3, <1>4, <1>5

-----------------------------------------------------------------------------
(* Level-ups. *)

\* v shows attack and defence of p and, if it knows the player from others,
\* level and hit points.
Shows(v, p) ==
    /\ v.player.atk = p.atk /\ v.player.def = p.def
    /\ v.uid = Me => /\ v.player.level = p.level
                     /\ v.player.hp = p.hp /\ v.player.maxHp = p.maxHp
\* w shows the same exp and gold as v.
SameExp(v, w) == w.player.exp = v.player.exp /\ w.player.maxExp = v.player.maxExp
SameGold(v, w) == w.player.gold = v.player.gold

\* A round of CheckLevelUp yields a player again, with less exp.
LEMMA LevelUpFacts ==
  ASSUME NEW p \in PlayerData, ~(p.exp < p.maxExp)
  PROVE  /\ LevelUp(p) \in PlayerData
         /\ LevelUp(p).exp < p.exp
         /\ LevelUp(p).gold = p.gold
<1>1. /\ p.level \in Nat /\ p.exp \in Nat /\ p.maxExp \in Nat \ {0} /\ p.gold \in Nat
      /\ p.hp \in Nat /\ p.maxHp \in Nat /\ p.atk \in Nat /\ p.def \in Nat
  BY DEF PlayerData
<1> DEFINE l == p.level + 1
           e == p.exp - p.maxExp
           m == (p.level + 1) * ExpPerLevel
           h == p.maxHp + HpPerLevel
           a == p.atk + AtkPerLevel
           d == p.def + DefPerLevel
<1>2. l \in Nat \ {0} /\ m \in Nat \ {0} /\ e \in Nat /\ e < p.exp /\ h \in Nat /\ a \in Nat /\ d \in Nat
  BY <1>1, PlayerAssumption
<1>3. LevelUp(p) = [p EXCEPT !.level = l, !.exp = e, !.maxExp = m, !.maxHp = h, !.hp = h,
                             !.atk = a, !.def = d]
  BY DEF LevelUp
<1> HIDE DEF l, e, m, h, a, d
<1>4. LevelUp(p) \in PlayerData /\ LevelUp(p).exp = e /\ LevelUp(p).gold = p.gold
  BY <1>2, <1>3 DEF PlayerData
<1> QED BY <1>2, <1>4

\* SC_LEVEL_UP is a packet, and shows what it is sent for.
LEMMA LevelUpShown ==
  ASSUME NEW p \in PlayerData
  PROVE  /\ LevelUpOf(p) \in Packet
         /\ \A v \in Views : LET w == Handled(v, LevelUpOf(p)) IN
               /\ w \in Views /\ w.uid = v.uid /\ Shows(w, p) /\ SameExp(v, w) /\ SameGold(v, w)
               /\ SameItems(v, w) /\ SameQuests(v, w)
<1> DEFINE pk == LevelUpOf(p)
<1>1. /\ p.level \in Nat \ {0} /\ p.hp \in Nat /\ p.maxHp \in Nat /\ p.atk \in Nat /\ p.def \in Nat
  BY DEF PlayerData
<1>2. /\ pk \in Packet /\ pk.type = "SC_LEVEL_UP" /\ pk.level = p.level /\ pk.hp = p.hp
      /\ pk.maxHp = p.maxHp /\ pk.atk = p.atk /\ pk.def = p.def
  BY <1>1 DEF LevelUpOf, Packet
<1> HIDE DEF pk
<1>3. ASSUME NEW v \in Views, NEW w, w = Handled(v, pk)
      PROVE  /\ w \in Views /\ w.uid = v.uid /\ Shows(w, p) /\ SameExp(v, w) /\ SameGold(v, w)
             /\ SameItems(v, w) /\ SameQuests(v, w)
  <2>1. /\ w \in Views /\ w.uid = v.uid /\ SameItems(v, w) /\ SameQuests(v, w)
        /\ w.player = [v.player EXCEPT !.level = pk.level, !.hp = pk.hp, !.maxHp = pk.maxHp,
                                       !.atk = pk.atk, !.def = pk.def]
    BY <1>2, <1>3, LevelTold
  <2>2. v.player \in PlayerData
    BY DEF Views
  <2> QED BY <1>2, <2>1, <2>2 DEF Shows, SameExp, SameGold, PlayerData
<1> QED BY <1>2, <1>3 DEF pk

\* A player after level-ups, and the packets that tell of them.
Outcome == [player : PlayerData, packets : Seq(Packet)]
NoLevel(p) == [player |-> p, packets |-> <<>>]
OneLevel(p, r) == [r EXCEPT !.packets = <<LevelUpOf(LevelUp(p))>> \o r.packets]

\* One more level.
LEMMA OneLevelType ==
  ASSUME NEW p \in PlayerData, ~(p.exp < p.maxExp), NEW r \in Outcome
  PROVE  /\ OneLevel(p, r) \in Outcome
         /\ OneLevel(p, r).player = r.player
         /\ OneLevel(p, r).packets = <<LevelUpOf(LevelUp(p))>> \o r.packets
<1> DEFINE s == <<LevelUpOf(LevelUp(p))>> \o r.packets
<1>1. LevelUpOf(LevelUp(p)) \in Packet
  BY LevelUpFacts, LevelUpShown
<1>2. s \in Seq(Packet)
  <2> DEFINE one == <<LevelUpOf(LevelUp(p))>>
  <2>1. one \in Seq(Packet) /\ r.packets \in Seq(Packet)
    BY <1>1 DEF Outcome
  <2> HIDE DEF one
  <2>2. one \o r.packets \in Seq(Packet)
    BY <2>1, ConcatProperties
  <2> QED BY <2>2 DEF one
<1>3. OneLevel(p, r) = [r EXCEPT !.packets = s]
  BY DEF OneLevel
<1> HIDE DEF s
<1>4. OneLevel(p, r) \in Outcome /\ OneLevel(p, r).player = r.player /\ OneLevel(p, r).packets = s
  BY <1>2, <1>3 DEF Outcome
<1> QED BY <1>4 DEF s

\* CheckLevelUp is what its loop says: each round leaves less exp.
LEMMA CheckLevelUpIsLoop ==
  \A p \in PlayerData :
     CheckLevelUp[p] = IF p.exp < p.maxExp THEN NoLevel(p)
                       ELSE OneLevel(p, CheckLevelUp[LevelUp(p)])
<1> DEFINE Stop == {p \in PlayerData : p.exp < p.maxExp}
           mu == [p \in PlayerData |-> p.exp]
           step == [p \in PlayerData |-> IF p \in Stop THEN p ELSE LevelUp(p)]
           base == [p \in PlayerData |-> NoLevel(p)]
           comb == [p \in PlayerData |-> [r \in Outcome |-> IF p \in Stop THEN r ELSE OneLevel(p, r)]]
           Loop(c) == c = [p \in PlayerData |-> IF p.exp < p.maxExp THEN NoLevel(p)
                                                ELSE OneLevel(p, c[LevelUp(p)])]
<1>1. mu \in [PlayerData -> Nat]
  BY DEF PlayerData
<1>2. \A p \in PlayerData : p \notin Stop => LevelUp(p) \in PlayerData /\ LevelUp(p).exp < p.exp
  BY LevelUpFacts
<1>3. /\ step \in [PlayerData -> PlayerData]
      /\ \A p \in PlayerData : p \notin Stop => mu[step[p]] < mu[p]
  BY <1>2
<1>4. base \in [PlayerData -> Outcome]
  BY DEF NoLevel, Outcome
<1>5. comb \in [PlayerData -> [Outcome -> Outcome]]
  BY OneLevelType
<1>6. PICK g \in [PlayerData -> Outcome] : R!Satisfies(g, PlayerData, Stop, step, base, comb)
  <2> HIDE DEF mu, Stop, step, base, comb
  <2> QED BY <1>1, <1>3, <1>4, <1>5, R!RecursionExists
<1>7. ASSUME NEW p \in PlayerData
      PROVE  g[p] = IF p.exp < p.maxExp THEN NoLevel(p) ELSE OneLevel(p, g[LevelUp(p)])
  <2>1. g[p] = IF p \in Stop THEN base[p] ELSE comb[p][g[step[p]]]
    <3> HIDE DEF Stop, step, base, comb
    <3> QED BY <1>6 DEF R!Satisfies
  <2> QED BY <1>2, <2>1
<1>8. Loop(g)
  BY <1>7
<1>9. CheckLevelUp = CHOOSE c : Loop(c)
  BY DEF CheckLevelUp, NoLevel, OneLevel
<1>10. Loop(CheckLevelUp)
  <2> HIDE DEF Loop
  <2> QED BY <1>8, <1>9
<1> QED BY <1>10

\* Players, packets and what the client makes of them: the loop leaves the gold
\* alone, and a client that showed the player before shows it afterwards.
LoopIsTold(p) ==
    LET r == CheckLevelUp[p] IN
    /\ r \in Outcome /\ r.player.gold = p.gold
    /\ \A v \in Views : Shows(v, p) =>
          LET w == After(v, r.packets) IN
          /\ w.uid = v.uid /\ Shows(w, r.player) /\ SameExp(v, w) /\ SameGold(v, w)
          /\ SameItems(v, w) /\ SameQuests(v, w)

\* So it is for every player: one with the least exp for which it failed would
\* have to gain a level, and then has less.
LEMMA LevelUpsAreTold == \A p \in PlayerData : LoopIsTold(p)
<1> DEFINE Bad == {p \in PlayerData : ~LoopIsTold(p)}
           mu == [p \in PlayerData |-> p.exp]
<1> SUFFICES ASSUME Bad # {} PROVE FALSE
  OBVIOUS
<1>1. PICK p \in Bad : \A q \in Bad : mu[p] <= mu[q]
  <2>1. mu \in [PlayerData -> Nat] /\ Bad \subseteq PlayerData
    BY DEF PlayerData
  <2> HIDE DEF mu, Bad
  <2> QED BY <2>1, R!LeastMeasure
<1>2. p \in PlayerData /\ p.exp \in Nat /\ ~LoopIsTold(p)
  BY DEF PlayerData
<1> DEFINE r == CheckLevelUp[p]
<1>3. CASE p.exp < p.maxExp
  <2>1. r = NoLevel(p)
    BY <1>2, <1>3, CheckLevelUpIsLoop
  <2>2. r \in Outcome /\ r.player = p /\ r.packets = <<>>
    BY <1>2, <2>1 DEF NoLevel, Outcome
  <2>3. \A v \in Views : After(v, r.packets) = v
    BY <2>2, FoldEmpty
  <2>4. LoopIsTold(p)
    BY <2>2, <2>3 DEF LoopIsTold, SameExp, SameGold, SameItems, SameQuests
  <2> QED BY <1>2, <2>4
<1>4. CASE ~(p.exp < p.maxExp)
  <2> DEFINE q == LevelUp(p)
             rest == CheckLevelUp[q]
             pk == LevelUpOf(q)
  <2>1. q \in PlayerData /\ q.exp \in Nat /\ q.exp < p.exp /\ q.gold = p.gold
    BY <1>2, <1>4, LevelUpFacts DEF PlayerData
  <2>2. LoopIsTold(q)
    <3>1. mu[p] = p.exp /\ mu[q] = q.exp /\ ~(p.exp <= q.exp)
      BY <1>2, <2>1
    <3> HIDE DEF q, mu
    <3> QED BY <1>1, <2>1, <3>1
  <2>3. rest \in Outcome /\ rest.player.gold = p.gold
    BY <2>1, <2>2 DEF LoopIsTold
  <2>4. r = OneLevel(p, rest)
    BY <1>2, <1>4, CheckLevelUpIsLoop
  <2>5. r \in Outcome /\ r.player = rest.player /\ r.packets = <<pk>> \o rest.packets
    BY <1>2, <1>4, <2>3, <2>4, OneLevelType
  <2>6. pk \in Packet /\ <<pk>> \in Seq(Packet) /\ rest.packets \in Seq(Packet)
    BY <2>1, <2>3, LevelUpShown DEF Outcome
  <2>7. ASSUME NEW v \in Views
        PROVE  LET w == After(v, r.packets) IN
               /\ w.uid = v.uid /\ Shows(w, r.player) /\ SameExp(v, w) /\ SameGold(v, w)
               /\ SameItems(v, w) /\ SameQuests(v, w)
    <3> DEFINE u == Handled(v, pk)
               w == After(u, rest.packets)
    <3>1. /\ u \in Views /\ u.uid = v.uid /\ Shows(u, q) /\ SameExp(v, u) /\ SameGold(v, u)
          /\ SameItems(v, u) /\ SameQuests(v, u)
      BY <2>1, LevelUpShown
    <3>2. After(v, r.packets) = w
      <4>1. After(v, <<pk>>) = u
        BY <2>6, FoldOne
      <4>2. After(v, <<pk>> \o rest.packets) = After(After(v, <<pk>>), rest.packets)
        BY <2>6, FoldConcat
      <4> QED BY <2>5, <4>1, <4>2
    <3>3. /\ w.uid = u.uid /\ Shows(w, rest.player) /\ SameExp(u, w) /\ SameGold(u, w)
          /\ SameItems(u, w) /\ SameQuests(u, w)
      <4> HIDE DEF u, q
      <4> QED BY <2>2, <3>1 DEF LoopIsTold
    <3> HIDE DEF u, w
    <3> QED BY <2>5, <3>1, <3>2, <3>3 DEF SameExp, SameGold, SameItems, SameQuests
  <2>8. LoopIsTold(p)
    BY <2>3, <2>5, <2>7 DEF LoopIsTold
  <2> QED BY <1>2, <2>8
<1> QED BY <1>3, <1>4

\* SC_EXP_UPDATE.
LEMMA ExpShown ==
  ASSUME NEW p \in PlayerData
  PROVE  /\ ExpUpdate(p) \in Packet
         /\ \A v \in Views : LET w == Handled(v, ExpUpdate(p)) IN
               /\ w \in Views /\ w.uid = v.uid /\ (\A q : Shows(v, q) => Shows(w, q)) /\ SameGold(v, w)
               /\ w.player.exp = p.exp /\ w.player.maxExp = p.maxExp
               /\ SameItems(v, w) /\ SameQuests(v, w)
<1> DEFINE pk == ExpUpdate(p)
<1>1. p.exp \in Nat /\ p.maxExp \in Nat \ {0}
  BY DEF PlayerData
<1>2. pk \in Packet /\ pk.type = "SC_EXP_UPDATE" /\ pk.exp = p.exp /\ pk.maxExp = p.maxExp
  BY <1>1 DEF ExpUpdate, Packet
<1> HIDE DEF pk
<1>3. ASSUME NEW v \in Views, NEW w, w = Handled(v, pk)
      PROVE  /\ w \in Views /\ w.uid = v.uid /\ (\A q : Shows(v, q) => Shows(w, q)) /\ SameGold(v, w)
             /\ w.player.exp = p.exp /\ w.player.maxExp = p.maxExp
             /\ SameItems(v, w) /\ SameQuests(v, w)
  <2>1. /\ w \in Views /\ w.uid = v.uid /\ SameItems(v, w) /\ SameQuests(v, w)
        /\ w.player = [v.player EXCEPT !.exp = pk.exp, !.maxExp = pk.maxExp]
    BY <1>2, <1>3, ExpTold
  <2>2. v.player \in PlayerData
    BY DEF Views
  <2> QED BY <1>2, <2>1, <2>2 DEF Shows, SameGold, PlayerData
<1> QED BY <1>2, <1>3 DEF pk

\* What a payment of exp and gold leads to on the server, and by its packets on
\* the client; the gold is told by others.
PaymentIsTold(p, r, gold) ==
    /\ r \in Outcome /\ r.player.gold = p.gold + gold
    /\ \A v \in Views : Shows(v, p) =>
          LET w == After(v, r.packets) IN
          /\ w \in Views /\ w.uid = v.uid /\ Shows(w, r.player) /\ SameGold(v, w)
          /\ w.player.exp < w.player.maxExp => w.player.exp = r.player.exp
          /\ SameItems(v, w) /\ SameQuests(v, w)

\* SC_EXP_UPDATE tells the exp before the level-ups take some away; if there are
\* any, it shows a full bar.
LEMMA PaidIsTold ==
  ASSUME NEW p \in PlayerData, NEW exp \in Nat, NEW gold \in Nat
  PROVE  PaymentIsTold(p, Paid(p, exp, gold), gold)
<1> DEFINE q == [p EXCEPT !.exp = p.exp + exp, !.gold = p.gold + gold]
           c == CheckLevelUp[q]
           pk == ExpUpdate(q)
           r == Paid(p, exp, gold)
<1>1. /\ q \in PlayerData /\ q.gold = p.gold + gold
      /\ q.level = p.level /\ q.hp = p.hp /\ q.maxHp = p.maxHp /\ q.atk = p.atk /\ q.def = p.def
  <2>1. p.exp + exp \in Nat /\ p.gold + gold \in Nat
    BY DEF PlayerData
  <2> QED BY <2>1 DEF PlayerData
<1>2. r = [c EXCEPT !.packets = <<pk>> \o c.packets]
  BY DEF Paid
<1> HIDE DEF q
<1>3. LoopIsTold(q)
  BY <1>1, LevelUpsAreTold
<1>4. c \in Outcome /\ c.player.gold = q.gold
  BY <1>3 DEF LoopIsTold
<1>5. pk \in Packet /\ <<pk>> \in Seq(Packet) /\ c.packets \in Seq(Packet)
  BY <1>1, <1>4, ExpShown DEF Outcome
<1>6. r \in Outcome /\ r.player = c.player /\ r.packets = <<pk>> \o c.packets
  <2> DEFINE s == <<pk>> \o c.packets
  <2>1. s \in Seq(Packet)
    <3> DEFINE one == <<pk>>
    <3>1. one \in Seq(Packet) /\ c.packets \in Seq(Packet)
      BY <1>5
    <3> HIDE DEF one, c
    <3>2. one \o c.packets \in Seq(Packet)
      BY <3>1, ConcatProperties
    <3> QED BY <3>2 DEF one
  <2>2. r = [c EXCEPT !.packets = s]
    BY <1>2
  <2> HIDE DEF s, r, c
  <2>3. r \in Outcome /\ r.player = c.player /\ r.packets = s
    BY <1>4, <2>1, <2>2 DEF Outcome
  <2> QED BY <2>3 DEF s
<1>7. q.exp < q.maxExp => c.player = q
  <2>1. q.exp < q.maxExp => c = NoLevel(q)
    BY <1>1, CheckLevelUpIsLoop
  <2> QED BY <2>1 DEF NoLevel
<1> HIDE DEF r
<1>8. ASSUME NEW v \in Views, Shows(v, p), NEW w, w = After(v, r.packets)
      PROVE  /\ w \in Views /\ w.uid = v.uid /\ Shows(w, r.player) /\ SameGold(v, w)
             /\ w.player.exp < w.player.maxExp => w.player.exp = r.player.exp
             /\ SameItems(v, w) /\ SameQuests(v, w)
  <2> DEFINE u == Handled(v, pk)
  <2>1. Shows(v, q)
    BY <1>1, <1>8 DEF Shows
  <2>2. /\ u \in Views /\ u.uid = v.uid /\ Shows(u, q) /\ SameGold(v, u)
        /\ u.player.exp = q.exp /\ u.player.maxExp = q.maxExp
        /\ SameItems(v, u) /\ SameQuests(v, u)
    BY <1>1, <2>1, ExpShown
  <2>3. w = After(u, c.packets) /\ w \in Views
    <3>1. After(v, <<pk>>) = u
      BY <1>5, FoldOne
    <3>2. After(v, <<pk>> \o c.packets) = After(After(v, <<pk>>), c.packets)
      BY <1>5, FoldConcat
    <3>3. After(u, c.packets) \in Views
      BY <1>5, <2>2, FoldType
    <3> QED BY <1>6, <1>8, <3>1, <3>2, <3>3
  <2> HIDE DEF u
  <2>4. /\ w.uid = u.uid /\ Shows(w, c.player) /\ SameExp(u, w) /\ SameGold(u, w)
        /\ SameItems(u, w) /\ SameQuests(u, w)
    BY <1>3, <2>2, <2>3 DEF LoopIsTold
  <2>5. w.player.exp = q.exp /\ w.player.maxExp = q.maxExp
    BY <2>2, <2>4 DEF SameExp
  <2> QED BY <1>6, <1>7, <2>2, <2>3, <2>4, <2>5 DEF SameGold, SameItems, SameQuests
<1> QED BY <1>1, <1>4, <1>6, <1>8 DEF PaymentIsTold, r

-----------------------------------------------------------------------------
(* The quests that count a kill. *)

QuestsAfterKill == [q \in Quests |-> IF q \in Counting THEN Counted(q) ELSE quests[q]]

\* A quest that counts is either under way or done.
LEMMA CountedFacts ==
  ASSUME quests \in [Quests -> Progress], NEW q \in Counting
  PROVE  /\ q \in Quests /\ quests[q].status = 1
         /\ Counted(q) \in Progress
         /\ Counted(q) = [status |-> IF Counted(q).progress >= QuestData[q].target THEN 2 ELSE 1,
                          progress |-> Counted(q).progress]
<1>1. q \in Quests /\ quests[q].status = 1 /\ quests[q].progress \in Nat
  BY DEF Counting, Progress
<1> DEFINE n == quests[q].progress + 1
<1>2. n \in Nat /\ Counted(q) = [status |-> IF n >= QuestData[q].target THEN 2 ELSE 1, progress |-> n]
  BY <1>1 DEF Counted
<1> HIDE DEF n
<1>3. Counted(q).progress = n
  BY <1>2
<1>4. Counted(q) \in Progress
  BY <1>2 DEF Progress
<1> QED BY <1>1, <1>2, <1>3, <1>4

\* Their packets, one for each in an open order.
LEMMA ProgressPacketsFacts ==
  ASSUME quests \in [Quests -> Progress], NEW s, s = ProgressPackets
  PROVE  /\ s \in Seq(Packet)
         /\ \A k \in 1..Len(s) :
               \E q \in Counting : s[k] = QuestProgress(q, Counted(q).progress)
         /\ \A q \in Counting : \E k \in 1..Len(s) : s[k] = QuestProgress(q, Counted(q).progress)
<1> DEFINE pk == [q \in Counting |-> QuestProgress(q, Counted(q).progress)]
           S == {QuestProgress(q, Counted(q).progress) : q \in Counting}
           n == Cardinality(S)
<1>1. IsFiniteSet(S)
  <2>1. IsFiniteSet(Counting)
    BY PlayerAssumption, FS_Subset DEF Counting
  <2>2. pk \in Surjection(Counting, S)
    BY DEF Surjection
  <2> HIDE DEF pk, S
  <2> QED BY <2>1, <2>2, FS_Surjection
<1>2. S \subseteq Packet
  <2>1. \A q \in Counting : q \in Quests /\ Counted(q).progress \in Nat
    BY CountedFacts DEF Progress
  <2> QED BY <2>1 DEF QuestProgress, Packet
<1>3. s = SetToSeq(S)
  BY DEF ProgressPackets
<1>4. \A x : x \in S <=> \E q \in Counting : x = QuestProgress(q, Counted(q).progress)
  OBVIOUS
<1> HIDE DEF S
<1>5. n \in Nat /\ ExistsBijection(1..n, S)
  BY <1>1, FS_CardinalityType
<1> HIDE DEF n
<1>6. \E f \in [1..n -> S] : IsInjective(f)
  BY <1>5 DEF ExistsBijection, Bijection, Injection
<1>7. s \in [1..n -> S] /\ IsInjective(s)
  BY <1>3, <1>6 DEF SetToSeq, n
<1>8. s \in Surjection(1..n, S)
  <2>1. s \in Injection(1..n, S)
    BY <1>7 DEF Injection
  <2>2. Cardinality(1..n) = n /\ n = Cardinality(S)
    BY <1>5, FS_Interval DEF n
  <2> QED BY <1>1, <2>1, <2>2, FS_Injection
<1>9. s \in Seq(S) /\ Len(s) = n
  BY <1>5, <1>7
<1>10. s \in Seq(Packet)
  BY <1>2, <1>9, SeqMonotonic
<1>11. \A k \in 1..n : s[k] \in S
  BY <1>7
<1>12. \A x \in S : \E k \in 1..n : s[k] = x
  BY <1>8 DEF Surjection
<1> HIDE DEF pk
<1> QED BY <1>4, <1>9, <1>10, <1>11, <1>12

\* v has a list of quests only if it is qs, or an old one.
QuestsReal(v, qs, old) == v.listed /\ ~old => v.quests = qs

\* Whatever the order, a client that showed the quests shows them afterwards.
LEMMA ProgressIsTold ==
  ASSUME quests \in [Quests -> Progress],
         NEW v \in Views, NEW old, QuestsReal(v, quests, old), NEW w, w = After(v, ProgressPackets)
  PROVE  /\ w \in Views /\ w.uid = v.uid /\ w.player = v.player /\ SameItems(v, w) /\ w.listed = v.listed
         /\ QuestsReal(w, QuestsAfterKill, old)
<1> DEFINE s == ProgressPackets
           n == Len(s)
           At(q, k) == s[k] = QuestProgress(q, Counted(q).progress)
           Done(k) == {q \in Counting : \E j \in 1..k : At(q, j)}
           Told(k) == [q \in Quests |-> IF q \in Done(k) THEN Counted(q) ELSE quests[q]]
<1>1. /\ s \in Seq(Packet) /\ n \in Nat
      /\ \A k \in 1..n : s[k] \in Packet /\ \E q \in Counting : At(q, k)
      /\ \A q \in Counting : \E k \in 1..n : At(q, k)
  BY ProgressPacketsFacts
<1> HIDE DEF s
<1>2. PICK g : R!IsRun(g, v, s) /\ After(v, s) = g[n]
  BY <1>1, AfterIsFold, HandlersFit, R!FoldIsRun
<1>3. /\ g \in [0..n -> Views] /\ g[0] = v
      /\ \A k \in 1..n : g[k] = Handled(g[k - 1], s[k])
  BY <1>2 DEF R!IsRun
<1> HIDE DEF n, At
<1> DEFINE Good(k) == /\ g[k].uid = v.uid /\ g[k].player = v.player /\ SameItems(v, g[k]) /\ g[k].listed = v.listed
                      /\ v.listed /\ ~old => g[k].quests = Told(k)
           Bad == {k \in 0..n : ~Good(k)}
<1>4. Good(0)
  <2>1. Done(0) = {}
    OBVIOUS
  <2>2. Told(0) = [q \in Quests |-> quests[q]]
    BY <2>1
  <2>3. Told(0) = quests
    BY <2>2
  <2> HIDE DEF Told
  <2> QED BY <1>3, <2>3 DEF SameItems, QuestsReal
<1>5. ASSUME NEW k \in 1..n, Good(k - 1) PROVE Good(k)
  <2>1. k - 1 \in 0..n /\ k \in Nat /\ k - 1 \in Nat
    BY <1>1
  <2> DEFINE u == g[k - 1]
             x == g[k]
             p == s[k]
  <2>2. PICK q \in Counting : At(q, k)
    BY <1>1
  <2>3. /\ q \in Quests /\ quests[q].status = 1 /\ Counted(q) \in Progress
        /\ Counted(q) = [status |-> IF Counted(q).progress >= QuestData[q].target THEN 2 ELSE 1,
                         progress |-> Counted(q).progress]
    BY CountedFacts
  <2>4. /\ p \in Packet /\ p.type = "SC_QUEST_PROGRESS" /\ p.quest = q
        /\ p.progress = Counted(q).progress
    BY <1>1, <2>2 DEF QuestProgress, At
  <2>5. u \in Views /\ x = Handled(u, p)
    BY <1>3, <2>1
  <2>6. /\ u.uid = v.uid /\ u.player = v.player /\ SameItems(v, u) /\ u.listed = v.listed
        /\ v.listed /\ ~old => u.quests = Told(k - 1)
    BY <1>5
  <2> HIDE DEF u, x, p, Told
  <2>7. /\ x.uid = u.uid /\ x.player = u.player /\ SameItems(u, x) /\ x.listed = u.listed
        /\ u.listed => x.quests = [u.quests EXCEPT ![q] = QuestAfter(u, p)]
    BY <2>4, <2>5, QuestTold
  <2>8. ASSUME v.listed, ~old PROVE x.quests = Told(k)
    <3>1. Told(k - 1)[q] = Counted(q) \/ Told(k - 1)[q] = quests[q]
      BY <2>3 DEF Told
    <3>2. QuestAfter(u, p) = Counted(q)
      <4>1. u.quests[q].status = 1 \/ u.quests[q] = Counted(q)
        BY <2>3, <2>6, <2>8, <3>1
      <4>2. QuestAfter(u, p) = [status |-> IF Counted(q).progress >= QuestData[q].target THEN 2
                                           ELSE u.quests[q].status,
                                progress |-> Counted(q).progress]
        BY <2>4 DEF QuestAfter
      <4>3. Counted(q).progress >= QuestData[q].target \/ u.quests[q].status = 1
        BY <2>3, <4>1
      <4> QED BY <2>3, <4>2, <4>3
    <3>3. Done(k) = Done(k - 1) \cup {q}
      <4>1. ASSUME NEW d \in Counting, At(d, k) PROVE d = q
        BY <2>2, <4>1 DEF At, QuestProgress
      <4>2. \A j : j \in 1..k <=> j \in 1..(k - 1) \/ j = k
        BY <2>1
      <4> QED BY <2>2, <4>1, <4>2
    <3>4. Told(k) = [Told(k - 1) EXCEPT ![q] = Counted(q)]
      BY <2>3, <3>3 DEF Told
    <3> QED BY <2>6, <2>7, <2>8, <3>2, <3>4
  <2>9. x.uid = v.uid /\ x.player = v.player /\ SameItems(v, x) /\ x.listed = v.listed
    BY <2>6, <2>7 DEF SameItems
  <2> QED BY <2>8, <2>9 DEF x
<1> HIDE DEF Good
<1>6. Bad = {}
  <2> SUFFICES ASSUME Bad # {} PROVE FALSE
    OBVIOUS
  <2>1. PICK m \in Bad : \A k \in Bad : m <= k
    <3>1. Bad \subseteq Nat
      BY <1>1
    <3> HIDE DEF Bad
    <3> QED BY <3>1, R!LeastNat
  <2>2. m \in 1..n
    BY <1>1, <1>4
  <2>3. m - 1 \in 0..n /\ m - 1 \notin Bad
    BY <1>1, <2>1, <2>2
  <2> QED BY <1>5, <2>2, <2>3
<1>7. Good(n)
  BY <1>1, <1>6
<1>8. Told(n) = QuestsAfterKill
  <2>1. Done(n) = Counting
    BY <1>1
  <2> QED BY <2>1 DEF QuestsAfterKill
<1>9. w = g[n] /\ w \in Views
  BY <1>1, <1>2, <1>3 DEF s
<1> HIDE DEF Told
<1> QED BY <1>7, <1>8, <1>9 DEF Good, QuestsReal

-----------------------------------------------------------------------------
(* The invariant. *)

\* Before the first selection only lists of characters have been sent, and the
\* client has no list of quests and shows no items.
Entering ==
    /\ loggedIn => selected > 0
    /\ ~loggedIn => /\ view.state = "CharSelect" /\ ~Shown.listed
                    /\ \A k \in 1..Len(queue) : queue[k] = CharList
                    /\ bag = NoItems /\ weapon = NoItem /\ armor = NoItem

IInv ==
    /\ TypeOK /\ view \in Views /\ queue \in Seq(Packet)
    /\ Entering
    /\ StatsFollow /\ ItemsFollow /\ QuestsFollow
    /\ ExpBelowFullIsReal /\ GoldShown

\* A client that knows the player shows exp below maxExp only if it is that of p.
ExpReal(v, p) == v.uid = Me /\ v.player.exp < v.player.maxExp => v.player.exp = p.exp

\* The parts of the invariant, said of the picture Shown.
LEMMA Parts ==
  /\ StatsFollow <=> Shows(Shown, player)
  /\ ExpBelowFullIsReal <=> ExpReal(Shown, player)
  BY DEF StatsFollow, Shows, ExpBelowFullIsReal, ExpReal, KnowsItself

\* The client and the server start with the same.
LEMMA InitIInv == Init => IInv
<1> SUFFICES ASSUME Init PROVE IInv
  OBVIOUS
<1> DEFINE np == NewPlayer
<1>1. np \in PlayerData /\ np.gold = 0
  BY PlayerAssumption DEF NewPlayer, PlayerData
<1>2. NoItems \in [Slots -> MaybeItem] /\ NoItem \in MaybeItem
  BY DEF NoItems, MaybeItem
<1>3. NoProgress \in [Quests -> Progress]
  BY DEF NoProgress, Progress
<1> HIDE DEF np
<1>4. /\ NewView = [state |-> "CharSelect", uid |-> NoPlayer, player |-> np, bag |-> NoItems, weapon |-> NoItem,
                    armor |-> NoItem, listed |-> FALSE, quests |-> NoProgress]
      /\ player = np
  BY DEF NewView, Init, np
<1>5. /\ NewView \in Views /\ NewView.state = "CharSelect" /\ NewView.player = np /\ NewView.bag = NoItems
      /\ NewView.weapon = NoItem /\ NewView.armor = NoItem /\ NewView.listed = FALSE
  BY <1>1, <1>2, <1>3, <1>4 DEF Views, Uids
<1>6. view = NewView /\ Shown = NewView
  <2>1. view = NewView /\ queue = <<>>
    BY DEF Init
  <2>2. After(NewView, <<>>) = NewView
    BY <1>5, FoldEmpty
  <2> QED BY <2>1, <2>2 DEF Shown, After
<1>7. Shows(Shown, player) /\ ExpReal(Shown, player)
  BY <1>4, <1>5, <1>6 DEF Shows, ExpReal
<1>8. TypeOK /\ view \in Views /\ queue \in Seq(Packet)
  <2>1. view.player \in PlayerData /\ view.bag \in [Slots -> MaybeItem] /\ player \in PlayerData
    BY <1>1, <1>2, <1>4, <1>5, <1>6
  <2>2. /\ bag \in [Slots -> MaybeItem] /\ weapon \in MaybeItem /\ armor \in MaybeItem
        /\ quests \in [Quests -> Progress]
    BY <1>2, <1>3 DEF Init
  <2>3. loggedIn \in BOOLEAN /\ selected \in Nat /\ oldList \in BOOLEAN /\ extraGold \in BOOLEAN /\ emptySale \in BOOLEAN
    BY DEF Init
  <2>4. queue \in Seq(Packet)
    BY EmptySeq DEF Init
  <2> QED BY <1>5, <1>6, <2>1, <2>2, <2>3, <2>4 DEF TypeOK
<1>9. Entering
  <2>1. queue = <<>> /\ ~loggedIn /\ bag = NoItems /\ weapon = NoItem /\ armor = NoItem
    BY DEF Init
  <2> QED BY <1>5, <1>6, <2>1 DEF Entering
<1>10. ItemsFollow /\ QuestsFollow /\ GoldShown
  BY <1>1, <1>4, <1>5, <1>6 DEF ItemsFollow, QuestsFollow, GoldShown, KnowsItself, Init
<1> QED BY <1>7, <1>8, <1>9, <1>10, Parts DEF IInv

\* Packets that are sent now are handled after those under way.
LEMMA SentShown ==
  ASSUME IInv, NEW s \in Seq(Packet), Send(s)
  PROVE  /\ view' = view /\ queue' \in Seq(Packet)
         /\ Shown \in Views /\ Shown' \in Views /\ Shown' = After(Shown, s)
<1>1. view \in Views /\ queue \in Seq(Packet) /\ view' = view /\ queue' = queue \o s
  BY DEF IInv, Send
<1>2. queue' \in Seq(Packet)
  BY <1>1, ConcatProperties
<1>3. Shown = After(view, queue) /\ Shown' = After(view, queue')
  BY <1>1 DEF Shown, After
<1>4. After(view, queue \o s) = After(After(view, queue), s)
  BY <1>1, FoldConcat
<1>5. Shown \in Views /\ Shown' \in Views
  BY <1>1, <1>2, <1>3, FoldType
<1> QED BY <1>1, <1>2, <1>3, <1>4, <1>5

\* The client handles a packet: what it will show is what it would have shown.
LEMMA ReceiveKeepsShown ==
  ASSUME IInv, Receive
  PROVE  /\ view' \in Views /\ queue' \in Seq(Packet) /\ Shown' = Shown
         /\ (\A k \in 1..Len(queue) : queue[k] = CharList) =>
               view'.state = "CharSelect" /\ \A k \in 1..Len(queue') : queue'[k] = CharList
<1> DEFINE p == Head(queue)
           s == Tail(queue)
<1>1. view \in Views /\ queue \in Seq(Packet) /\ queue # <<>> /\ view' = Handled(view, p) /\ queue' = s
  BY DEF IInv, Receive
<1>2. p \in Packet /\ s \in Seq(Packet) /\ <<p>> \in Seq(Packet) /\ queue = <<p>> \o s
  <2>1. p \in Packet /\ s \in Seq(Packet)
    BY <1>1, HeadTailProperties
  <2>2. queue = <<p>> \o s
    BY <1>1
  <2> QED BY <2>1, <2>2
<1> HIDE DEF p, s
<1>3. After(view, <<p>> \o s) = After(After(view, <<p>>), s) /\ After(view, <<p>>) = Handled(view, p)
  BY <1>1, <1>2, FoldConcat, FoldOne
<1>4. Shown = After(view, queue) /\ Shown' = After(view', queue')
  BY DEF Shown, After
<1>5. Shown' = Shown
  BY <1>1, <1>2, <1>3, <1>4
<1>6. view' \in Views
  BY <1>1, <1>2, HandledType
<1>7. ASSUME \A k \in 1..Len(queue) : queue[k] = CharList
      PROVE  view'.state = "CharSelect" /\ \A k \in 1..Len(queue') : queue'[k] = CharList
  <2>1. p = queue[1] /\ 1 \in 1..Len(queue)
    BY <1>1 DEF p
  <2>2. view' = OnCharList(view, p)
    BY <1>1, <1>7, <2>1, HandledCases DEF CharList
  <2>3. view'.state = "CharSelect"
    BY <1>1, <2>2 DEF OnCharList, Views
  <2>4. \A k \in 1..Len(s) : s[k] = queue[k + 1] /\ k + 1 \in 1..Len(queue)
    BY <1>1 DEF s
  <2> QED BY <1>1, <1>7, <2>3, <2>4
<1> QED BY <1>1, <1>2, <1>5, <1>6, <1>7

-----------------------------------------------------------------------------
(* What each packet of the server does to the picture. *)

\* SC_CHAR_LIST.
LEMMA CharListShown ==
  /\ CharList \in Packet
  /\ \A v \in Views : LET w == Handled(v, CharList) IN
        /\ w \in Views /\ w.uid = v.uid /\ w.player = v.player
        /\ SameItems(v, w) /\ SameQuests(v, w)
<1> DEFINE pk == CharList
<1>1. pk \in Packet /\ pk.type = "SC_CHAR_LIST"
  BY DEF CharList, Packet
<1> HIDE DEF pk
<1>2. ASSUME NEW v \in Views, NEW w, w = Handled(v, pk)
      PROVE  /\ w \in Views /\ w.uid = v.uid /\ w.player = v.player
             /\ SameItems(v, w) /\ SameQuests(v, w)
  BY <1>1, <1>2, CharListTold
<1> QED BY <1>1, <1>2 DEF pk

\* SC_CHAR_INFO carries neither attack and defence nor maxExp.  A client that
\* takes another player for its own keeps what it shows.
LEMMA CharInfoShown ==
  ASSUME NEW p \in PlayerData
  PROVE  /\ CharInfo(p) \in Packet
         /\ \A v \in Views : LET w == Handled(v, CharInfo(p)) IN
               /\ w \in Views /\ ExpReal(w, p)
               /\ w.uid = Me => /\ w.player.gold = p.gold /\ w.player.level = p.level
                                /\ w.player.hp = p.hp /\ w.player.maxHp = p.maxHp
               /\ w.player.atk = v.player.atk /\ w.player.def = v.player.def
               /\ SameItems(v, w) /\ SameQuests(v, w)
<1> DEFINE pk == CharInfo(p)
<1>1. p.level \in Nat \ {0} /\ p.exp \in Nat /\ p.hp \in Nat /\ p.maxHp \in Nat /\ p.gold \in Nat
  BY DEF PlayerData
<1>2. /\ pk \in Packet /\ pk.type = "SC_CHAR_INFO" /\ pk.uid = Me /\ pk.level = p.level
      /\ pk.exp = p.exp /\ pk.hp = p.hp /\ pk.maxHp = p.maxHp /\ pk.gold = p.gold
  BY <1>1 DEF CharInfo, Packet, Uids
<1> HIDE DEF pk
<1>3. ASSUME NEW v \in Views, NEW w, w = Handled(v, pk)
      PROVE  /\ w \in Views /\ ExpReal(w, p)
             /\ w.uid = Me => /\ w.player.gold = p.gold /\ w.player.level = p.level
                              /\ w.player.hp = p.hp /\ w.player.maxHp = p.maxHp
             /\ w.player.atk = v.player.atk /\ w.player.def = v.player.def
             /\ SameItems(v, w) /\ SameQuests(v, w)
  <2>1. /\ w \in Views /\ SameItems(v, w) /\ SameQuests(v, w)
        /\ \/ w.uid = Me /\ w.player = Informed(v.player, pk)
           \/ v.uid # Me /\ w = v
    BY <1>2, <1>3, CharInfoTold
  <2>2. v.player \in PlayerData
    BY DEF Views
  <2>3. CASE w.player = Informed(v.player, pk)
    BY <1>2, <2>1, <2>2, <2>3 DEF ExpReal, Informed, PlayerData
  <2>4. CASE v.uid # Me /\ w = v
    BY <2>1, <2>4 DEF ExpReal
  <2> QED BY <2>1, <2>3, <2>4
<1> QED BY <1>2, <1>3 DEF pk

\* w shows what v does of the player, and takes none but the player for its own
\* if v did not either.
Reminded(v, w) ==
    /\ w.player.atk = v.player.atk /\ w.player.def = v.player.def
    /\ w.uid = Me => v.uid = Me /\ w.player = v.player
    /\ SameItems(v, w) /\ SameQuests(v, w)

\* SC_CHAR_INFO of another player.
LEMMA OtherInfoShown ==
  ASSUME NEW o \in Others
  PROVE  /\ OtherInfo(o) \in Packet
         /\ \A v \in Views : LET w == Handled(v, OtherInfo(o)) IN w \in Views /\ Reminded(v, w)
<1> DEFINE pk == OtherInfo(o)
<1>1. o.uid \in OtherUids /\ o.level \in Nat \ {0} /\ o.hp \in Nat /\ o.maxHp \in Nat
  BY PlayerAssumption
<1>2. pk \in Packet /\ pk.type = "SC_CHAR_INFO" /\ pk.uid = o.uid
  BY <1>1 DEF OtherInfo, Packet, Uids
<1>3. o.uid # Me
  BY <1>1, PlayerAssumption
<1> HIDE DEF pk
<1>4. ASSUME NEW v \in Views, NEW w, w = Handled(v, pk) PROVE w \in Views /\ Reminded(v, w)
  <2>1. /\ w \in Views /\ SameItems(v, w) /\ SameQuests(v, w)
        /\ \/ w.uid = o.uid /\ w.player = Informed(v.player, pk)
           \/ w = v
    BY <1>2, <1>4, CharInfoTold
  <2>2. v.player \in PlayerData
    BY DEF Views
  <2>3. CASE w.uid = o.uid /\ w.player = Informed(v.player, pk)
    BY <1>3, <2>1, <2>2, <2>3 DEF Reminded, Informed, PlayerData
  <2>4. CASE w = v
    BY <2>1, <2>4 DEF Reminded
  <2> QED BY <2>1, <2>3, <2>4
<1> QED BY <1>2, <1>4 DEF pk

\* And those of any number of them, in whatever order.
LEMMA OthersShown ==
  ASSUME NEW there \in SUBSET Others, NEW s, s = SetToSeq({OtherInfo(o) : o \in there})
  PROVE  s \in Seq(Packet) /\ \A v \in Views : After(v, s) \in Views /\ Reminded(v, After(v, s))
<1> DEFINE info == [o \in there |-> OtherInfo(o)]
           S == {OtherInfo(o) : o \in there}
           n == Cardinality(S)
<1>1. IsFiniteSet(S)
  <2>1. IsFiniteSet(there)
    BY PlayerAssumption, FS_Subset
  <2>2. info \in Surjection(there, S)
    BY DEF Surjection
  <2> HIDE DEF info, S
  <2> QED BY <2>1, <2>2, FS_Surjection
<1>2. \A p \in S : p \in Packet /\ \A v \in Views : Handled(v, p) \in Views /\ Reminded(v, Handled(v, p))
  BY OtherInfoShown
<1>3. s = SetToSeq(S)
  OBVIOUS
<1> HIDE DEF S
<1>4. n \in Nat /\ ExistsBijection(1..n, S)
  BY <1>1, FS_CardinalityType
<1> HIDE DEF n
<1>5. \E f \in [1..n -> S] : IsInjective(f)
  BY <1>4 DEF ExistsBijection, Bijection, Injection
<1>6. s \in [1..n -> S]
  BY <1>3, <1>5 DEF SetToSeq, n
<1>7. s \in Seq(S) /\ Len(s) = n
  BY <1>4, <1>6
<1>8. s \in Seq(Packet)
  BY <1>2, <1>7, SeqMonotonic
<1>9. ASSUME NEW v \in Views PROVE After(v, s) \in Views /\ Reminded(v, After(v, s))
  <2> DEFINE I == {x \in Nat \X Views : Reminded(v, x[2])}
  <2>1. <<0, v>> \in I
    BY DEF Reminded, SameItems, SameQuests
  <2>2. ASSUME NEW k \in 1..Len(s), NEW w \in Views, <<k - 1, w>> \in I
        PROVE  <<k, Handled(w, s[k])>> \in I
    <3>1. s[k] \in S /\ k \in Nat
      BY <1>6, <1>7
    <3>2. Handled(w, s[k]) \in Views /\ Reminded(w, Handled(w, s[k])) /\ Reminded(v, w)
      BY <1>2, <2>2, <3>1
    <3>3. Reminded(v, Handled(w, s[k]))
      BY <3>2 DEF Reminded, SameItems, SameQuests
    <3> QED BY <3>1, <3>2, <3>3
  <2>3. <<Len(s), R!After(v, s)>> \in I
    <3> HIDE DEF I
    <3> QED BY <1>8, <2>1, <2>2, HandlersFit, R!FoldInduction
  <2>4. R!After(v, s) = After(v, s)
    BY AfterIsFold
  <2> QED BY <2>3, <2>4
<1> QED BY <1>8, <1>9

\* SC_NPC_DEATH: the client adds the gold of the NPC.
LEMMA NpcDeathShown ==
  /\ NpcDeath \in Packet
  /\ \A v \in Views : LET w == Handled(v, NpcDeath) IN
               /\ w \in Views /\ w.uid = v.uid /\ (\A q : Shows(v, q) => Shows(w, q)) /\ SameExp(v, w)
               /\ w.player.gold = v.player.gold + GoldReward /\ SameItems(v, w) /\ SameQuests(v, w)
<1> DEFINE pk == NpcDeath
<1>1. pk \in Packet /\ pk.type = "SC_NPC_DEATH" /\ pk.gold = GoldReward /\ GoldReward \in Nat
  BY PlayerAssumption DEF NpcDeath, Packet
<1> HIDE DEF pk
<1>2. ASSUME NEW v \in Views, NEW w, w = Handled(v, pk)
      PROVE  /\ w \in Views /\ w.uid = v.uid /\ (\A q : Shows(v, q) => Shows(w, q)) /\ SameExp(v, w)
             /\ w.player.gold = v.player.gold + GoldReward /\ SameItems(v, w) /\ SameQuests(v, w)
  <2>1. /\ w \in Views /\ w.uid = v.uid /\ SameItems(v, w) /\ SameQuests(v, w)
        /\ w.player = [v.player EXCEPT !.gold = v.player.gold + pk.gold]
    BY <1>1, <1>2, GoldTold
  <2>2. v.player \in PlayerData
    BY DEF Views
  <2> QED BY <1>1, <2>1, <2>2 DEF Shows, SameExp, PlayerData
<1> QED BY <1>1, <1>2 DEF pk

\* SC_ATTENDANCE_RESULT: and that of the attendance.
LEMMA AttendanceShown ==
  /\ AttendanceResult \in Packet
  /\ \A v \in Views : LET w == Handled(v, AttendanceResult) IN
               /\ w \in Views /\ w.uid = v.uid /\ (\A q : Shows(v, q) => Shows(w, q)) /\ SameExp(v, w)
               /\ w.player.gold = v.player.gold + AttendanceGold /\ SameItems(v, w) /\ SameQuests(v, w)
<1> DEFINE pk == AttendanceResult
<1>1. pk \in Packet /\ pk.type = "SC_ATTENDANCE_RESULT" /\ pk.gold = AttendanceGold /\ AttendanceGold \in Nat
  BY PlayerAssumption DEF AttendanceResult, Packet
<1> HIDE DEF pk
<1>2. ASSUME NEW v \in Views, NEW w, w = Handled(v, pk)
      PROVE  /\ w \in Views /\ w.uid = v.uid /\ (\A q : Shows(v, q) => Shows(w, q)) /\ SameExp(v, w)
             /\ w.player.gold = v.player.gold + AttendanceGold /\ SameItems(v, w) /\ SameQuests(v, w)
  <2>1. /\ w \in Views /\ w.uid = v.uid /\ SameItems(v, w) /\ SameQuests(v, w)
        /\ w.player = [v.player EXCEPT !.gold = v.player.gold + pk.gold]
    BY <1>1, <1>2, GoldTold
  <2>2. v.player \in PlayerData
    BY DEF Views
  <2> QED BY <1>1, <2>1, <2>2 DEF Shows, SameExp, PlayerData
<1> QED BY <1>1, <1>2 DEF pk

\* SC_SHOP_RESULT: the gold is the one told.
LEMMA ShopShown ==
  ASSUME NEW g \in Nat
  PROVE  /\ ShopResult(g) \in Packet
         /\ \A v \in Views : LET w == Handled(v, ShopResult(g)) IN
               /\ w \in Views /\ w.uid = v.uid /\ (\A q : Shows(v, q) => Shows(w, q)) /\ SameExp(v, w)
               /\ w.player.gold = g /\ SameItems(v, w) /\ SameQuests(v, w)
<1> DEFINE pk == ShopResult(g)
<1>1. pk \in Packet /\ pk.type = "SC_SHOP_RESULT" /\ pk.gold = g /\ g \in Nat
  BY PlayerAssumption DEF ShopResult, Packet
<1> HIDE DEF pk
<1>2. ASSUME NEW v \in Views, NEW w, w = Handled(v, pk)
      PROVE  /\ w \in Views /\ w.uid = v.uid /\ (\A q : Shows(v, q) => Shows(w, q)) /\ SameExp(v, w)
             /\ w.player.gold = g /\ SameItems(v, w) /\ SameQuests(v, w)
  <2>1. /\ w \in Views /\ w.uid = v.uid /\ SameItems(v, w) /\ SameQuests(v, w)
        /\ w.player = [v.player EXCEPT !.gold = pk.gold]
    BY <1>1, <1>2, ShopTold
  <2>2. v.player \in PlayerData
    BY DEF Views
  <2> QED BY <1>1, <2>1, <2>2 DEF Shows, SameExp, PlayerData
<1> QED BY <1>1, <1>2 DEF pk

\* SC_INVENTORY_UPDATE.
LEMMA SlotShown ==
  ASSUME NEW i \in Slots, NEW item \in MaybeItem
  PROVE  /\ SlotUpdate(i, item) \in Packet
         /\ \A v \in Views : LET w == Handled(v, SlotUpdate(i, item)) IN
               /\ w \in Views /\ w.uid = v.uid /\ w.player = v.player /\ SameQuests(v, w)
               /\ w.bag = [v.bag EXCEPT ![i] = item] /\ w.weapon = v.weapon /\ w.armor = v.armor
<1> DEFINE pk == SlotUpdate(i, item)
<1>1. pk \in Packet /\ pk.type = "SC_INVENTORY_UPDATE" /\ pk.slot = i /\ pk.item = item
  BY DEF SlotUpdate, Packet
<1> HIDE DEF pk
<1>2. ASSUME NEW v \in Views, NEW w, w = Handled(v, pk)
      PROVE  /\ w \in Views /\ w.uid = v.uid /\ w.player = v.player /\ SameQuests(v, w)
             /\ w.bag = [v.bag EXCEPT ![i] = item] /\ w.weapon = v.weapon /\ w.armor = v.armor
  BY <1>1, <1>2, SlotTold
<1> QED BY <1>1, <1>2 DEF pk

\* SC_INVENTORY_LIST.
LEMMA BagShown ==
  ASSUME NEW b \in [Slots -> MaybeItem]
  PROVE  /\ InventoryList(b) \in Packet
         /\ \A v \in Views : LET w == Handled(v, InventoryList(b)) IN
               /\ w \in Views /\ w.uid = v.uid /\ w.player = v.player /\ SameQuests(v, w)
               /\ v.bag = NoItems => w.bag = b
               /\ w.weapon = v.weapon /\ w.armor = v.armor
<1> DEFINE pk == InventoryList(b)
<1>1. pk \in Packet /\ pk.type = "SC_INVENTORY_LIST" /\ pk.bag = b
  BY DEF InventoryList, Packet
<1> HIDE DEF pk
<1>2. ASSUME NEW v \in Views, NEW w, w = Handled(v, pk)
      PROVE  /\ w \in Views /\ w.uid = v.uid /\ w.player = v.player /\ SameQuests(v, w)
             /\ v.bag = NoItems => w.bag = b
             /\ w.weapon = v.weapon /\ w.armor = v.armor
  <2>1. /\ w \in Views /\ w.uid = v.uid /\ w.player = v.player /\ SameQuests(v, w)
        /\ w.bag = [i \in Slots |-> IF pk.bag[i] # NoItem THEN pk.bag[i] ELSE v.bag[i]]
        /\ w.weapon = v.weapon /\ w.armor = v.armor
    BY <1>1, <1>2, BagTold
  <2>2. ASSUME v.bag = NoItems PROVE w.bag = b
    <3>1. \A i \in Slots : w.bag[i] = b[i]
      BY <1>1, <2>1, <2>2 DEF NoItems
    <3> QED BY <2>1, <3>1
  <2> QED BY <2>1, <2>2
<1> QED BY <1>1, <1>2 DEF pk

\* SC_EQUIP_RESULT.
LEMMA EquipShown ==
  ASSUME NEW p \in PlayerData, NEW x \in MaybeItem, NEW y \in MaybeItem
  PROVE  /\ EquipResult(p, x, y) \in Packet
         /\ \A v \in Views : LET w == Handled(v, EquipResult(p, x, y)) IN
               /\ w \in Views /\ w.uid = v.uid /\ SameExp(v, w) /\ SameGold(v, w)
               /\ w.player.level = v.player.level /\ w.player.hp = v.player.hp
               /\ w.player.maxHp = v.player.maxHp
               /\ w.player.atk = p.atk /\ w.player.def = p.def
               /\ w.bag = v.bag /\ w.weapon = x /\ w.armor = y
               /\ SameQuests(v, w)
<1> DEFINE pk == EquipResult(p, x, y)
<1>1. p.atk \in Nat /\ p.def \in Nat
  BY DEF PlayerData
<1>2. /\ pk \in Packet /\ pk.type = "SC_EQUIP_RESULT" /\ pk.atk = p.atk /\ pk.def = p.def
      /\ pk.weapon = x /\ pk.armor = y
  BY <1>1 DEF EquipResult, Packet
<1> HIDE DEF pk
<1>3. ASSUME NEW v \in Views, NEW w, w = Handled(v, pk)
      PROVE  /\ w \in Views /\ w.uid = v.uid /\ SameExp(v, w) /\ SameGold(v, w)
             /\ w.player.level = v.player.level /\ w.player.hp = v.player.hp
             /\ w.player.maxHp = v.player.maxHp
             /\ w.player.atk = p.atk /\ w.player.def = p.def
             /\ w.bag = v.bag /\ w.weapon = x /\ w.armor = y
             /\ SameQuests(v, w)
  <2>1. /\ w \in Views /\ w.uid = v.uid /\ SameQuests(v, w)
        /\ w.player = [v.player EXCEPT !.atk = pk.atk, !.def = pk.def]
        /\ w.bag = v.bag /\ w.weapon = pk.weapon /\ w.armor = pk.armor
    <3>1. pk \in Packet /\ pk.type = "SC_EQUIP_RESULT"
      BY <1>2
    <3> QED BY <1>3, <3>1, EquipTold, ZenonT(60)
  <2>2. v.player \in PlayerData
    BY DEF Views
  <2> QED BY <1>2, <2>1, <2>2 DEF SameExp, SameGold, PlayerData
<1> QED BY <1>2, <1>3 DEF pk

\* SC_QUEST_LIST.
LEMMA QuestListShown ==
  ASSUME NEW qs \in [Quests -> Progress]
  PROVE  /\ QuestList(qs) \in Packet
         /\ \A v \in Views : LET w == Handled(v, QuestList(qs)) IN
               /\ w \in Views /\ w.uid = v.uid /\ w.player = v.player /\ SameItems(v, w) /\ w.quests = qs
<1> DEFINE pk == QuestList(qs)
<1>1. pk \in Packet /\ pk.type = "SC_QUEST_LIST" /\ pk.quests = qs
  BY DEF QuestList, Packet
<1> HIDE DEF pk
<1>2. ASSUME NEW v \in Views, NEW w, w = Handled(v, pk)
      PROVE  w \in Views /\ w.uid = v.uid /\ w.player = v.player /\ SameItems(v, w) /\ w.quests = qs
  BY <1>1, <1>2, QuestsTold
<1> QED BY <1>1, <1>2 DEF pk

\* SC_QUEST_ACCEPT_RESULT.
LEMMA AcceptShown ==
  ASSUME NEW q \in Quests
  PROVE  /\ QuestAcceptResult(q) \in Packet
         /\ \A v \in Views : LET w == Handled(v, QuestAcceptResult(q)) IN
               /\ w \in Views /\ w.uid = v.uid /\ w.player = v.player /\ SameItems(v, w) /\ w.listed = v.listed
               /\ v.listed => w.quests = [v.quests EXCEPT ![q] = [status |-> 1, progress |-> 0]]
<1> DEFINE pk == QuestAcceptResult(q)
<1>1. pk \in Packet /\ pk.type = "SC_QUEST_ACCEPT_RESULT" /\ pk.quest = q
  BY DEF QuestAcceptResult, Packet
<1> HIDE DEF pk
<1>2. ASSUME NEW v \in Views, NEW w, w = Handled(v, pk)
      PROVE  /\ w \in Views /\ w.uid = v.uid /\ w.player = v.player /\ SameItems(v, w) /\ w.listed = v.listed
             /\ v.listed => w.quests = [v.quests EXCEPT ![q] = [status |-> 1, progress |-> 0]]
  <2>1. /\ w \in Views /\ w.uid = v.uid /\ w.player = v.player /\ SameItems(v, w) /\ w.listed = v.listed
        /\ v.listed => w.quests = [v.quests EXCEPT ![q] = QuestAfter(v, pk)]
    BY <1>1, <1>2, QuestTold
  <2>2. QuestAfter(v, pk) = [status |-> 1, progress |-> 0]
    BY <1>1 DEF QuestAfter
  <2> QED BY <2>1, <2>2
<1> QED BY <1>1, <1>2 DEF pk

\* SC_QUEST_REWARD.
LEMMA RewardShown ==
  ASSUME NEW q \in Quests
  PROVE  /\ QuestReward(q) \in Packet
         /\ \A v \in Views : LET w == Handled(v, QuestReward(q)) IN
               /\ w \in Views /\ w.uid = v.uid /\ w.player = v.player /\ SameItems(v, w) /\ w.listed = v.listed
               /\ v.listed => w.quests = [v.quests EXCEPT ![q] = [v.quests[q] EXCEPT !.status = 3]]
<1> DEFINE pk == QuestReward(q)
<1>1. pk \in Packet /\ pk.type = "SC_QUEST_REWARD" /\ pk.quest = q
  BY DEF QuestReward, Packet
<1> HIDE DEF pk
<1>2. ASSUME NEW v \in Views, NEW w, w = Handled(v, pk)
      PROVE  /\ w \in Views /\ w.uid = v.uid /\ w.player = v.player /\ SameItems(v, w) /\ w.listed = v.listed
             /\ v.listed => w.quests = [v.quests EXCEPT ![q] = [v.quests[q] EXCEPT !.status = 3]]
  <2>1. /\ w \in Views /\ w.uid = v.uid /\ w.player = v.player /\ SameItems(v, w) /\ w.listed = v.listed
        /\ v.listed => w.quests = [v.quests EXCEPT ![q] = QuestAfter(v, pk)]
    BY <1>1, <1>2, QuestTold
  <2>2. QuestAfter(v, pk) = [v.quests[q] EXCEPT !.status = 3]
    BY <1>1 DEF QuestAfter
  <2> QED BY <2>1, <2>2
<1> QED BY <1>1, <1>2 DEF pk

-----------------------------------------------------------------------------
(* The handlers of the server. *)

GoldReal(v, p, extra, empty) ==
    v.uid = Me /\ ~empty => /\ v.player.gold >= p.gold
                            /\ ~extra => v.player.gold = p.gold
ItemsReal(v, b, x, y, n) == n < 2 => v.bag = b /\ v.weapon = x /\ v.armor = y

\* What a handler leaves behind when the player is in the game.
Types ==
    /\ loggedIn = TRUE /\ player \in PlayerData
    /\ bag \in [Slots -> MaybeItem] /\ weapon \in MaybeItem /\ armor \in MaybeItem
    /\ quests \in [Quests -> Progress]
    /\ selected \in Nat /\ selected > 0 /\ oldList \in BOOLEAN
    /\ extraGold \in BOOLEAN /\ emptySale \in BOOLEAN

\* A handler preserves the invariant if what is shown after its packets is what
\* it leaves behind.
LEMMA SentKeeps ==
  ASSUME IInv, NEW s \in Seq(Packet), Send(s), Types', NEW w, w = After(Shown, s),
         Shows(w, player'), ExpReal(w, player'), GoldReal(w, player', extraGold', emptySale'),
         ItemsReal(w, bag', weapon', armor', selected'), QuestsReal(w, quests', oldList')
  PROVE  IInv'
<1>1. view' = view /\ queue' \in Seq(Packet) /\ Shown' = w /\ view \in Views
  BY SentShown DEF IInv
<1>2. (view' \in Views)
  BY <1>1
<1>3. TypeOK'
  <2>1. view'.player \in PlayerData /\ view'.bag \in [Slots -> MaybeItem]
    BY <1>2 DEF Views
  <2>2. loggedIn' \in BOOLEAN
    BY DEF Types
  <2> QED BY <2>1, <2>2 DEF TypeOK, Types
<1>4. Entering'
  BY <1>1 DEF Entering, Types
<1>5. StatsFollow' /\ ExpBelowFullIsReal'
  BY <1>1 DEF StatsFollow, Shows, ExpBelowFullIsReal, ExpReal, KnowsItself
<1>6. GoldShown' /\ ItemsFollow' /\ QuestsFollow'
  <2>1. GoldShown'
    BY <1>1, Zenon DEF GoldShown, GoldReal, KnowsItself
  <2>2. ItemsFollow'
    BY <1>1 DEF ItemsFollow, ItemsReal
  <2>3. QuestsFollow'
    BY <1>1, Zenon DEF QuestsFollow, QuestsReal
  <2> QED BY <2>1, <2>2, <2>3
<1> QED BY <1>1, <1>2, <1>3, <1>4, <1>5, <1>6 DEF IInv

\* What is known before a handler runs.
LEMMA Before ==
  ASSUME IInv
  PROVE  /\ Shown \in Views /\ Shown.player.gold \in Nat /\ player.gold \in Nat
         /\ Shows(Shown, player) /\ ExpReal(Shown, player)
         /\ GoldReal(Shown, player, extraGold, emptySale)
         /\ ItemsReal(Shown, bag, weapon, armor, selected)
         /\ QuestsReal(Shown, quests, oldList)
         /\ loggedIn \/ view.state = "InGame" => Types /\ loggedIn
<1>1. Shown \in Views
  <2>1. Shown = After(view, queue)
    BY DEF Shown, After
  <2> QED BY <2>1, FoldType DEF IInv
<1>2. Shown.player.gold \in Nat /\ player.gold \in Nat
  BY <1>1 DEF Views, PlayerData, IInv, TypeOK
<1>3. Shows(Shown, player) /\ ExpReal(Shown, player)
  BY Parts DEF IInv
<1>4. /\ GoldReal(Shown, player, extraGold, emptySale)
      /\ ItemsReal(Shown, bag, weapon, armor, selected) /\ QuestsReal(Shown, quests, oldList)
  BY DEF IInv, GoldShown, ItemsFollow, QuestsFollow, GoldReal, ItemsReal, QuestsReal, KnowsItself
<1>5. view.state = "InGame" => loggedIn
  BY DEF IInv, Entering
<1>6. loggedIn => Types
  BY DEF IInv, TypeOK, Types, Entering
<1> QED BY <1>1, <1>2, <1>3, <1>4, <1>5, <1>6

\* The client takes packets from the queue.
LEMMA ReceiveKeeps == ASSUME IInv, Receive PROVE IInv'
<1>1. /\ view' \in Views /\ queue' \in Seq(Packet) /\ Shown' = Shown
      /\ (\A k \in 1..Len(queue) : queue[k] = CharList) =>
            view'.state = "CharSelect" /\ \A k \in 1..Len(queue') : queue'[k] = CharList
  BY ReceiveKeepsShown
<1>2. UNCHANGED <<loggedIn, player, bag, weapon, armor, quests, selected, oldList, extraGold, emptySale>>
  BY DEF Receive, inventory, history, selections
<1>3. TypeOK'
  BY <1>1, <1>2 DEF IInv, TypeOK, Views
<1>4. Entering'
  <2>1. CASE loggedIn
    BY <1>2, <2>1 DEF IInv, Entering
  <2>2. CASE ~loggedIn
    BY <1>1, <1>2, <2>2 DEF IInv, Entering
  <2> QED BY <2>1, <2>2
<1>5. StatsFollow' /\ ExpBelowFullIsReal' /\ GoldShown' /\ ItemsFollow' /\ QuestsFollow'
  BY <1>1, <1>2 DEF IInv, StatsFollow, ExpBelowFullIsReal, GoldShown, ItemsFollow, QuestsFollow, KnowsItself
<1> QED BY <1>1, <1>3, <1>4, <1>5 DEF IInv

\* What a handler sends changes nothing of what the client shows of the player,
\* and nothing happens on the server: another player is told.
LEMMA OtherMovesKeeps == ASSUME IInv, NEW o \in Others, OtherMoves(o) PROVE IInv'
<1> DEFINE b == OtherInfo(o)
           w == Handled(Shown, b)
<1>1. /\ loggedIn /\ Send(<<b>>)
      /\ UNCHANGED <<loggedIn, player, bag, weapon, armor, quests, selected, oldList, extraGold, emptySale>>
  BY DEF OtherMoves, Meanwhile, inventory, history, selections
<1>2. b \in Packet /\ w \in Views /\ Reminded(Shown, w)
  BY Before, OtherInfoShown
<1> HIDE DEF b, w
<1>3. <<b>> \in Seq(Packet) /\ After(Shown, <<b>>) = w
  BY <1>2, Before, FoldOne DEF w
<1>4. Types'
  BY <1>1, Before DEF Types
<1>5. Shows(w, player') /\ ExpReal(w, player') /\ GoldReal(w, player', extraGold', emptySale')
  BY <1>1, <1>2, Before DEF Reminded, Shows, ExpReal, GoldReal
<1>6. ItemsReal(w, bag', weapon', armor', selected') /\ QuestsReal(w, quests', oldList')
  BY <1>1, <1>2, Before DEF Reminded, ItemsReal, QuestsReal, SameItems, SameQuests
<1> QED BY <1>1, <1>3, <1>4, <1>5, <1>6, SentKeeps

\* The list of characters after a creation, before the first selection or later.
LEMMA CharCreateKeeps == ASSUME IInv, OnCharCreate PROVE IInv'
<1> DEFINE b == CharList
           w == Handled(Shown, b)
<1>1. /\ view.state = "CharSelect" /\ Send(<<b>>)
      /\ UNCHANGED <<loggedIn, player, bag, weapon, armor, quests, selected, oldList, extraGold, emptySale>>
  BY DEF OnCharCreate, ListKey, inventory, history, selections
<1>2. /\ b \in Packet /\ w \in Views /\ w.uid = Shown.uid /\ w.player = Shown.player
      /\ SameItems(Shown, w) /\ SameQuests(Shown, w)
  BY Before, CharListShown
<1> HIDE DEF b, w
<1>3. <<b>> \in Seq(Packet) /\ After(Shown, <<b>>) = w
  BY <1>2, Before, FoldOne DEF w
<1>4. Shows(w, player') /\ ExpReal(w, player') /\ GoldReal(w, player', extraGold', emptySale')
  BY <1>1, <1>2, Before DEF Shows, ExpReal, GoldReal
<1>5. ItemsReal(w, bag', weapon', armor', selected') /\ QuestsReal(w, quests', oldList')
  BY <1>1, <1>2, Before DEF ItemsReal, QuestsReal, SameItems, SameQuests
<1>6. CASE loggedIn
  <2>1. Types'
    BY <1>1, <1>6, Before DEF Types
  <2> QED BY <1>1, <1>3, <1>4, <1>5, <2>1, SentKeeps
<1>7. CASE ~loggedIn
  <2>1. view' = view /\ queue' \in Seq(Packet) /\ Shown' = w /\ view' \in Views
    BY <1>1, <1>3, SentShown DEF IInv
  <2>2. TypeOK'
    BY <1>1, <2>1 DEF IInv, TypeOK
  <2>3. \A k \in 1..Len(queue') : queue'[k] = CharList
    <3>1. queue' = queue \o <<b>> /\ queue \in Seq(Packet) /\ b = CharList
      BY <1>1 DEF Send, IInv, b
    <3>2. \A k \in 1..Len(queue) : queue[k] = CharList
      BY <1>7 DEF IInv, Entering
    <3> HIDE DEF b
    <3>3. Len(queue') = Len(queue) + 1 /\ \A k \in 1..Len(queue') : queue'[k] = IF k <= Len(queue) THEN queue[k] ELSE b
      BY <3>1
    <3> QED BY <3>1, <3>2, <3>3
  <2>4. Entering'
    BY <1>1, <1>2, <1>7, <2>1, <2>3 DEF IInv, Entering, SameQuests
  <2>5. StatsFollow' /\ ExpBelowFullIsReal'
    BY <1>4, <2>1 DEF StatsFollow, Shows, ExpBelowFullIsReal, ExpReal, KnowsItself
  <2>6. GoldShown' /\ ItemsFollow' /\ QuestsFollow'
    <3>1. GoldShown'
      BY <1>4, <2>1, Zenon DEF GoldShown, GoldReal, KnowsItself
    <3>2. ItemsFollow'
      BY <1>5, <2>1 DEF ItemsFollow, ItemsReal
    <3>3. QuestsFollow'
      BY <1>5, <2>1, Zenon DEF QuestsFollow, QuestsReal
    <3> QED BY <3>1, <3>2, <3>3
  <2> QED BY <2>1, <2>2, <2>4, <2>5, <2>6 DEF IInv
<1> QED BY <1>6, <1>7

\* A stranger's kill, and the attendance: gold the player does not get.
LEMMA ExtraKeeps ==
  ASSUME IInv, NEW p \in Packet, NEW g \in Nat, Send(<<p>>), loggedIn \/ view.state = "InGame",
         extraGold' = TRUE, UNCHANGED <<loggedIn, player, inventory, quests, selected, oldList, emptySale>>,
         \A v \in Views : LET w == Handled(v, p) IN
            /\ w \in Views /\ w.uid = v.uid /\ (\A q : Shows(v, q) => Shows(w, q)) /\ SameExp(v, w)
            /\ w.player.gold = v.player.gold + g /\ SameItems(v, w) /\ SameQuests(v, w)
  PROVE  IInv'
<1> DEFINE s == <<p>>
           w == Handled(Shown, p)
<1>1. s \in Seq(Packet) /\ After(Shown, s) = w
  BY Before, FoldOne
<1>2. UNCHANGED <<loggedIn, player, bag, weapon, armor, quests, selected, oldList, emptySale>>
  BY DEF inventory
<1>3. Types'
  BY <1>2, Before DEF Types
<1>4. /\ w.uid = Shown.uid /\ Shows(w, player) /\ SameExp(Shown, w) /\ w.player.gold = Shown.player.gold + g
      /\ SameItems(Shown, w) /\ SameQuests(Shown, w)
  BY Before
<1> HIDE DEF w, s
<1>5. Shows(w, player') /\ ExpReal(w, player')
  BY <1>2, <1>4, Before DEF ExpReal, SameExp
<1>6. GoldReal(w, player', extraGold', emptySale')
  <2> DEFINE x == w.player.gold
             y == Shown.player.gold
             z == player.gold
  <2>1. x = y + g /\ y \in Nat /\ z \in Nat
    BY <1>4, Before
  <2>2. ASSUME w.uid = Me, ~emptySale PROVE y >= z
    <3>1. Shown.uid = Me
      BY <1>4, <2>2
    <3> QED BY <2>2, <3>1, Before, Zenon DEF GoldReal
  <2> HIDE DEF x, y, z
  <2>3. ASSUME w.uid = Me, ~emptySale PROVE x >= z
    BY <2>1, <2>2, <2>3
  <2>4. extraGold' = TRUE /\ player' = player /\ emptySale' = emptySale
    BY <1>2
  <2> QED BY <2>3, <2>4 DEF GoldReal, x, z
<1>7. ItemsReal(w, bag', weapon', armor', selected') /\ QuestsReal(w, quests', oldList')
  BY <1>2, <1>4, Before DEF ItemsReal, QuestsReal, SameItems, SameQuests
<1>8. Send(s)
  BY DEF s
<1> QED BY <1>1, <1>3, <1>5, <1>6, <1>7, <1>8, SentKeeps

\* A stranger kills an NPC.
LEMMA OtherKillKeeps == ASSUME IInv, OtherKill PROVE IInv'
<1>1. /\ loggedIn /\ Send(<<NpcDeath>>) /\ extraGold' = TRUE
      /\ UNCHANGED <<loggedIn, player, inventory, quests, selected, oldList, emptySale>>
  BY DEF OtherKill, Meanwhile, selections
<1> QED BY <1>1, NpcDeathShown, ExtraKeeps, PlayerAssumption

\* The attendance of the day.
LEMMA AttendanceKeeps == ASSUME IInv, OnAttendanceCheck PROVE IInv'
<1>1. /\ view.state = "InGame" /\ Send(<<AttendanceResult>>) /\ extraGold' = TRUE
      /\ UNCHANGED <<loggedIn, player, inventory, quests, selected, oldList, emptySale>>
  BY DEF OnAttendanceCheck, Key, selections
<1> QED BY <1>1, AttendanceShown, ExtraKeeps, PlayerAssumption

\* FindEmptySlot is a slot of the bag, or MAX_INVENTORY.
LEMMA EmptySlotType == FindEmptySlot # MAX_INVENTORY => FindEmptySlot \in Slots
<1> DEFINE S == {i \in Slots : bag[i] = NoItem} \cup {MAX_INVENTORY}
<1>1. S \subseteq Nat /\ S # {}
  BY PlayerAssumption DEF Slots
<1>2. \E m \in S : \A k \in S : m <= k
  <2> HIDE DEF S
  <2> QED BY <1>1, R!LeastNat
<1>3. Min(S) \in S
  <2> HIDE DEF S
  <2> QED BY <1>2 DEF Min
<1> QED BY <1>3 DEF FindEmptySlot

\* w shows what v does, except for a bag that it shows as before if v does.
OnlyBag(v, w, before, after) ==
    /\ w.uid = v.uid /\ w.player = v.player /\ SameQuests(v, w)
    /\ w.weapon = v.weapon /\ w.armor = v.armor
    /\ v.bag = before => w.bag = after

\* An item that is given to the player is shown in the slot it went into.
LEMMA GivenIsTold ==
  ASSUME bag \in [Slots -> MaybeItem], NEW item \in MaybeItem, NEW s, s = Given(item)
  PROVE  /\ s \in Seq(Packet) /\ BagAfter(s) \in [Slots -> MaybeItem]
         /\ \A v \in Views : After(v, s) \in Views /\ OnlyBag(v, After(v, s), bag, BagAfter(s))
<1> DEFINE i == FindEmptySlot
<1>1. CASE item = NoItem \/ i = MAX_INVENTORY
  <2>1. s = <<>>
    BY <1>1 DEF Given
  <2>2. s \in Seq(Packet) /\ BagAfter(s) = bag
    BY <2>1, EmptySeq DEF BagAfter
  <2>3. \A v \in Views : After(v, s) = v
    BY <2>1, FoldEmpty
  <2> QED BY <2>2, <2>3 DEF OnlyBag, SameQuests
<1>2. CASE ~(item = NoItem \/ i = MAX_INVENTORY)
  <2>1. i \in Slots
    BY <1>2, EmptySlotType
  <2> DEFINE p == SlotUpdate(i, item)
  <2>2. s = <<p>>
    BY <1>2 DEF Given
  <2>3. p.slot = i /\ p.item = item
    BY DEF SlotUpdate
  <2>4. /\ p \in Packet
        /\ \A v \in Views : LET w == Handled(v, p) IN
              /\ w \in Views /\ w.uid = v.uid /\ w.player = v.player /\ SameQuests(v, w)
              /\ w.bag = [v.bag EXCEPT ![i] = item] /\ w.weapon = v.weapon /\ w.armor = v.armor
    BY <2>1, SlotShown
  <2> HIDE DEF p, i
  <2>5. s \in Seq(Packet) /\ s # <<>> /\ s[1] = p
    BY <2>2, <2>4
  <2>6. BagAfter(s) = [bag EXCEPT ![i] = item]
    BY <2>3, <2>5 DEF BagAfter
  <2>7. BagAfter(s) \in [Slots -> MaybeItem]
    BY <2>1, <2>6
  <2>8. \A v \in Views : After(v, s) = Handled(v, p)
    BY <2>2, <2>4, FoldOne
  <2> QED BY <2>4, <2>5, <2>6, <2>7, <2>8 DEF OnlyBag
<1> QED BY <1>1, <1>2

\* A kill is told: SC_NPC_DEATH, the payment, the progress of the quests.
KillPackets(r) == <<NpcDeath>> \o r.packets \o ProgressPackets

\* The numbers, the exp and the quests are then as the kill left them; the gold
\* has grown by the whole reward.
LEMMA KillIsTold ==
  ASSUME IInv, NEW exp \in Nat, NEW gold \in Nat, NEW r, r = Paid(player, exp, gold),
         NEW w, w = After(Shown, KillPackets(r))
  PROVE  /\ KillPackets(r) \in Seq(Packet) /\ w \in Views /\ w.uid = Shown.uid
         /\ r.player \in PlayerData /\ r.player.gold = player.gold + gold
         /\ Shows(w, r.player) /\ ExpReal(w, r.player)
         /\ w.player.gold = Shown.player.gold + GoldReward
         /\ SameItems(Shown, w) /\ w.listed = Shown.listed /\ QuestsReal(w, QuestsAfterKill, oldList)
<1>1. player \in PlayerData /\ quests \in [Quests -> Progress]
  BY DEF IInv, TypeOK
<1>2. PaymentIsTold(player, r, gold)
  BY <1>1, PaidIsTold
<1> DEFINE a == Handled(Shown, NpcDeath)
           b == After(a, r.packets)
           s == <<NpcDeath>>
           t == ProgressPackets
<1>3. /\ a \in Views /\ a.uid = Shown.uid /\ Shows(a, player) /\ SameExp(Shown, a)
      /\ a.player.gold = Shown.player.gold + GoldReward
      /\ SameItems(Shown, a) /\ SameQuests(Shown, a)
      /\ NpcDeath \in Packet
  BY Before, NpcDeathShown
<1>4. s \in Seq(Packet) /\ After(Shown, s) = a
  BY <1>3, Before, FoldOne
<1> HIDE DEF a
<1>5. /\ r \in Outcome /\ r.player.gold = player.gold + gold
      /\ b \in Views /\ b.uid = a.uid /\ Shows(b, r.player) /\ SameGold(a, b) /\ ExpReal(b, r.player)
      /\ SameItems(a, b) /\ SameQuests(a, b)
  BY <1>2, <1>3 DEF PaymentIsTold, ExpReal
<1>6. r.packets \in Seq(Packet) /\ r.player \in PlayerData
  BY <1>5 DEF Outcome
<1>7. t \in Seq(Packet)
  BY <1>1, ProgressPacketsFacts
<1> HIDE DEF b, s, t
<1>8. s \o r.packets \in Seq(Packet) /\ (s \o r.packets) \o t \in Seq(Packet)
  BY <1>4, <1>6, <1>7, ConcatProperties
<1>9. After(Shown, s \o r.packets) = b
  BY <1>4, <1>6, Before, FoldConcat DEF b
<1>10. KillPackets(r) = (s \o r.packets) \o t
  BY DEF KillPackets, s, t
<1>11. w = After(b, t)
  <2> DEFINE u == s \o r.packets
  <2>1. u \in Seq(Packet) /\ After(Shown, u) = b /\ w = After(Shown, u \o t)
    BY <1>8, <1>9, <1>10
  <2> HIDE DEF u
  <2>2. Shown \in Views
    BY Before
  <2> QED BY <1>7, <2>1, <2>2, FoldConcat
<1>12. QuestsReal(b, quests, oldList)
  BY <1>3, <1>5, Before DEF SameQuests, QuestsReal
<1>13. /\ w \in Views /\ w.uid = b.uid /\ w.player = b.player /\ SameItems(b, w) /\ w.listed = b.listed
       /\ QuestsReal(w, QuestsAfterKill, oldList)
  BY <1>1, <1>5, <1>11, <1>12, ProgressIsTold DEF t
<1>14. Shows(w, r.player) /\ ExpReal(w, r.player)
  BY <1>5, <1>13 DEF Shows, ExpReal
<1>15. w.player.gold = Shown.player.gold + GoldReward
  BY <1>3, <1>5, <1>13 DEF SameGold
<1>16. w.uid = Shown.uid /\ SameItems(Shown, w) /\ w.listed = Shown.listed
  BY <1>3, <1>5, <1>13 DEF SameItems, SameQuests
<1> QED BY <1>5, <1>6, <1>8, <1>10, <1>13, <1>14, <1>15, <1>16

\* A share is not more than the whole.
LEMMA ShareBound ==
  ASSUME NEW g \in Nat, NEW n \in Nat \ {0} PROVE g \div n \in Nat /\ g \div n <= g
  OBVIOUS

\* The gold after a kill: the client counts the whole of it, the player gets a share.
LEMMA KillGold ==
  ASSUME IInv, NEW g \in Nat, g <= GoldReward, NEW w, NEW p, w.uid = Shown.uid,
         w.player.gold = Shown.player.gold + GoldReward, p.gold = player.gold + g,
         NEW extra, ~extra => ~extraGold /\ g = GoldReward
  PROVE  GoldReal(w, p, extra, emptySale)
<1> SUFFICES ASSUME w.uid = Me, ~emptySale
             PROVE  w.player.gold >= p.gold /\ (~extra => w.player.gold = p.gold)
  BY Zenon DEF GoldReal
<1> DEFINE a == Shown.player.gold
           b == player.gold
<1>1. GoldReward \in Nat
  BY PlayerAssumption
<1>2. a \in Nat /\ b \in Nat /\ GoldReal(Shown, player, extraGold, emptySale)
  BY Before
<1>3. a >= b /\ (~extra => a = b)
  <2>1. Shown.uid = Me
    OBVIOUS
  <2> QED BY <1>2, <2>1, Zenon DEF GoldReal
<1> HIDE DEF a, b
<1>4. w.player.gold = a + GoldReward /\ p.gold = b + g
  BY DEF a, b
<1>5. w.player.gold >= p.gold
  BY <1>1, <1>2, <1>3, <1>4
<1>6. ~extra => w.player.gold = p.gold
  BY <1>3, <1>4
<1> QED BY <1>5, <1>6

\* The quests after a kill.
LEMMA QuestsAfterKillType ==
  ASSUME quests \in [Quests -> Progress] PROVE QuestsAfterKill \in [Quests -> Progress]
  BY CountedFacts DEF QuestsAfterKill

\* The share that is told, and the history of it.
LEMMA ShareFacts ==
  ASSUME NEW n \in {1, Members}
  PROVE  /\ ExpReward \div n \in Nat /\ GoldReward \div n \in Nat /\ GoldReward \div n <= GoldReward
<1>1. ExpReward \in Nat /\ GoldReward \in Nat /\ n \in Nat \ {0}
  BY PlayerAssumption
<1> QED BY <1>1, ShareBound

\* Another member of the party kills an NPC.
LEMMA SharedKillKeeps == ASSUME IInv, SharedKill PROVE IInv'
<1> DEFINE e == ExpReward \div Members
           g == GoldReward \div Members
           r == Paid(player, e, g)
           s == KillPackets(r)
           w == After(Shown, s)
<1>1. e \in Nat /\ g \in Nat /\ g <= GoldReward
  BY ShareFacts
<1>2. /\ loggedIn /\ player' = r.player /\ Send(s) /\ quests' = QuestsAfterKill
      /\ extraGold' = (extraGold \/ g # GoldReward)
      /\ UNCHANGED <<loggedIn, bag, weapon, armor, selected, oldList, emptySale>>
  BY DEF SharedKill, Meanwhile, KillPackets, selections, UpdateQuestProgress, QuestsAfterKill, inventory
<1> HIDE DEF e, g
<1>3. /\ s \in Seq(Packet) /\ w \in Views /\ w.uid = Shown.uid
      /\ r.player \in PlayerData /\ r.player.gold = player.gold + g
      /\ Shows(w, r.player) /\ ExpReal(w, r.player)
      /\ w.player.gold = Shown.player.gold + GoldReward
      /\ SameItems(Shown, w) /\ w.listed = Shown.listed /\ QuestsReal(w, QuestsAfterKill, oldList)
  BY <1>1, KillIsTold
<1> HIDE DEF r, s, w
<1>4. Types /\ quests \in [Quests -> Progress]
  BY <1>2, Before DEF IInv, TypeOK
<1>5. Types'
  <2>1. extraGold' \in BOOLEAN
    BY <1>2
  <2>2. quests' \in [Quests -> Progress]
    BY <1>2, <1>4, QuestsAfterKillType
  <2> QED BY <1>2, <1>3, <1>4, <2>1, <2>2 DEF Types
<1>6. GoldReal(w, player', extraGold', emptySale')
  <2>1. ~extraGold' => ~extraGold /\ g = GoldReward
    BY <1>2
  <2>2. GoldReal(w, r.player, extraGold', emptySale)
    BY <1>1, <1>3, <2>1, KillGold
  <2> QED BY <1>2, <2>2
<1>7. Shows(w, player') /\ ExpReal(w, player')
  BY <1>2, <1>3
<1>8. ItemsReal(w, bag', weapon', armor', selected') /\ QuestsReal(w, quests', oldList')
  BY <1>2, <1>3, Before DEF ItemsReal, SameItems
<1> QED BY <1>2, <1>3, <1>5, <1>6, <1>7, <1>8, SentKeeps DEF w

\* The player kills one, and something may be dropped.
LEMMA OwnKillKeeps ==
  ASSUME IInv, NEW n \in {1, Members}, NEW drop \in MaybeItem, OwnKill(n, drop) PROVE IInv'
<1> DEFINE e == ExpReward \div n
           g == GoldReward \div n
           r == Paid(player, e, g)
           s == KillPackets(r)
           t == Given(drop)
           v == After(Shown, s)
           w == After(v, t)
<1>1. e \in Nat /\ g \in Nat /\ g <= GoldReward
  BY ShareFacts
<1>2. /\ view.state = "InGame" /\ player' = r.player /\ Send(s \o t) /\ quests' = QuestsAfterKill
      /\ extraGold' = (extraGold \/ g # GoldReward) /\ bag' = BagAfter(t)
      /\ UNCHANGED <<loggedIn, weapon, armor, selected, oldList, emptySale>>
  BY DEF OwnKill, Key, KillPackets, selections, UpdateQuestProgress, QuestsAfterKill
<1> HIDE DEF e, g
<1>3. /\ s \in Seq(Packet) /\ v \in Views /\ v.uid = Shown.uid
      /\ r.player \in PlayerData /\ r.player.gold = player.gold + g
      /\ Shows(v, r.player) /\ ExpReal(v, r.player)
      /\ v.player.gold = Shown.player.gold + GoldReward
      /\ SameItems(Shown, v) /\ v.listed = Shown.listed /\ QuestsReal(v, QuestsAfterKill, oldList)
  BY <1>1, KillIsTold
<1> HIDE DEF r, s, v
<1>4. Types /\ quests \in [Quests -> Progress] /\ bag \in [Slots -> MaybeItem]
  BY <1>2, Before DEF IInv, TypeOK
<1>5. /\ t \in Seq(Packet) /\ BagAfter(t) \in [Slots -> MaybeItem]
      /\ w \in Views /\ OnlyBag(v, w, bag, BagAfter(t))
  BY <1>3, <1>4, GivenIsTold
<1> HIDE DEF t, w
<1>6. s \o t \in Seq(Packet) /\ After(Shown, s \o t) = w
  BY <1>3, <1>5, Before, FoldConcat, ConcatProperties DEF v, w
<1>7. Types'
  <2>1. extraGold' \in BOOLEAN
    BY <1>2
  <2>2. quests' \in [Quests -> Progress]
    BY <1>2, <1>4, QuestsAfterKillType
  <2> QED BY <1>2, <1>3, <1>4, <1>5, <2>1, <2>2 DEF Types
<1>8. w.uid = v.uid /\ w.player = v.player /\ w.listed = v.listed /\ w.quests = v.quests
  BY <1>5 DEF OnlyBag, SameQuests
<1>9. GoldReal(w, player', extraGold', emptySale')
  <2>1. ~extraGold' => ~extraGold /\ g = GoldReward
    BY <1>2
  <2>2. w.uid = Shown.uid /\ w.player.gold = Shown.player.gold + GoldReward
    BY <1>3, <1>8
  <2>3. GoldReal(w, r.player, extraGold', emptySale)
    BY <1>1, <1>3, <2>1, <2>2, KillGold
  <2> QED BY <1>2, <2>3
<1>10. Shows(w, player') /\ ExpReal(w, player')
  BY <1>2, <1>3, <1>8 DEF Shows, ExpReal
<1>11. ItemsReal(w, bag', weapon', armor', selected')
  <2>1. selected < 2 => v.bag = bag /\ v.weapon = weapon /\ v.armor = armor
    BY <1>3, Before DEF ItemsReal, SameItems
  <2> QED BY <1>2, <1>5, <2>1 DEF ItemsReal, OnlyBag
<1>12. QuestsReal(w, quests', oldList')
  BY <1>2, <1>3, <1>8 DEF QuestsReal
<1> QED BY <1>2, <1>6, <1>7, <1>9, <1>10, <1>11, <1>12, SentKeeps

\* SC_CHAR_INFO puts the gold right.
LEMMA InformedGold ==
  ASSUME NEW w, NEW p \in PlayerData, w.uid = Me => w.player.gold = p.gold
  PROVE  \A extra, empty : GoldReal(w, p, extra, empty)
<1>1. p.gold \in Nat
  BY DEF PlayerData
<1> QED BY <1>1 DEF GoldReal

\* A potion is drunk.
LEMMA ItemUseKeeps == ASSUME IInv, NEW i \in Slots, OnItemUse(i) PROVE IInv'
<1> DEFINE p == Healed(player, bag[i])
           a == SlotUpdate(i, NoItem)
           b == CharInfo(p)
           v == Handled(Shown, a)
           w == Handled(v, b)
<1>1. /\ view.state = "InGame" /\ bag[i] \in Items /\ player' = p /\ bag' = [bag EXCEPT ![i] = NoItem]
      /\ Send(<<a, b>>) /\ extraGold' = FALSE /\ emptySale' = FALSE
      /\ UNCHANGED <<loggedIn, weapon, armor, quests, selected, oldList>>
  BY DEF OnItemUse, Key, selections
<1>2. Types /\ NoItem \in MaybeItem
  BY <1>1, Before DEF MaybeItem
<1>3. p \in PlayerData /\ p.level = player.level /\ p.maxHp = player.maxHp /\ p.atk = player.atk /\ p.def = player.def
  <2> DEFINE x == (player.hp + ItemData[bag[i]].hp) % UINT16
             h == Min({x, player.maxHp})
  <2>1. player \in PlayerData /\ player.hp \in Nat /\ player.maxHp \in Nat
    BY <1>2 DEF Types, PlayerData
  <2>2. ItemData[bag[i]].hp \in Nat /\ UINT16 \in Nat \ {0}
    BY <1>1, PlayerAssumption
  <2>3. x \in Nat
    BY <2>1, <2>2
  <2>4. p = [player EXCEPT !.hp = h]
    BY DEF Healed
  <2> HIDE DEF x
  <2>5. h \in {x, player.maxHp}
    <3> DEFINE S == {x, player.maxHp}
    <3>1. S \subseteq Nat /\ S # {}
      BY <2>1, <2>3
    <3> HIDE DEF S
    <3>2. \E m \in S : \A k \in S : m <= k
      BY <3>1, R!LeastNat
    <3>3. Min(S) \in S
      BY <3>2 DEF Min
    <3> QED BY <3>3 DEF S
  <2>6. h \in Nat
    BY <2>1, <2>3, <2>5
  <2> HIDE DEF h, p
  <2> QED BY <2>1, <2>4, <2>6 DEF PlayerData
<1> HIDE DEF p
<1>4. /\ a \in Packet /\ v \in Views /\ v.player = Shown.player /\ SameQuests(Shown, v)
      /\ v.bag = [Shown.bag EXCEPT ![i] = NoItem] /\ v.weapon = Shown.weapon /\ v.armor = Shown.armor
  BY <1>2, Before, SlotShown
<1> HIDE DEF a, v
<1>5. /\ b \in Packet /\ w \in Views /\ ExpReal(w, p)
      /\ w.uid = Me => /\ w.player.gold = p.gold /\ w.player.level = p.level
                       /\ w.player.hp = p.hp /\ w.player.maxHp = p.maxHp
      /\ w.player.atk = v.player.atk /\ w.player.def = v.player.def
      /\ SameItems(v, w) /\ SameQuests(v, w)
  BY <1>3, <1>4, CharInfoShown
<1> HIDE DEF b, w
<1>6. <<a, b>> \in Seq(Packet) /\ After(Shown, <<a, b>>) = w
  BY <1>4, <1>5, Before, AfterTwo DEF v, w
<1>7. Shows(w, p)
  BY <1>3, <1>4, <1>5, Before DEF Shows
<1>8. GoldReal(w, p, FALSE, FALSE)
  BY <1>3, <1>5, InformedGold
<1>9. Types'
  <2>1. bag' \in [Slots -> MaybeItem]
    BY <1>1, <1>2 DEF Types
  <2> QED BY <1>1, <1>2, <1>3, <2>1 DEF Types
<1>10. /\ ItemsReal(w, bag', weapon', armor', selected') /\ QuestsReal(w, quests', oldList')
  BY <1>1, <1>4, <1>5, Before DEF ItemsReal, QuestsReal, SameItems, SameQuests
<1>11. Shows(w, player') /\ ExpReal(w, player') /\ GoldReal(w, player', extraGold', emptySale')
  BY <1>1, <1>5, <1>7, <1>8
<1> QED BY <1>1, <1>6, <1>9, <1>10, <1>11, SentKeeps

\* What equipping does, whatever the slot of the body: the player differs in
\* attack and defence alone.
LEMMA EquipFacts ==
  ASSUME IInv, NEW i \in Slots, OnItemEquip(i)
  PROVE  /\ player' \in PlayerData /\ weapon' \in MaybeItem /\ armor' \in MaybeItem
         /\ player'.level = player.level /\ player'.hp = player.hp /\ player'.maxHp = player.maxHp
         /\ \E old \in MaybeItem : bag' = [bag EXCEPT ![i] = old]
<1>1. Types /\ bag[i] \in Items
  BY Before DEF OnItemEquip, Key
<1> DEFINE item == ItemData[bag[i]]
<1>2. item.atk \in Nat /\ item.def \in Nat /\ 15 + item.atk \in Nat /\ 5 + item.def \in Nat
  <2>1. item \in [type : ItemTypes, atk : Nat, def : Nat, hp : Nat, price : Nat]
    BY <1>1, PlayerAssumption
  <2> HIDE DEF item
  <2>2. item.atk \in Nat /\ item.def \in Nat
    BY <2>1
  <2> QED BY <2>2
<1>3. \/ /\ weapon' = bag[i] /\ bag' = [bag EXCEPT ![i] = weapon]
         /\ player' = [player EXCEPT !.atk = 15 + item.atk] /\ UNCHANGED armor
      \/ /\ armor' = bag[i] /\ bag' = [bag EXCEPT ![i] = armor]
         /\ player' = [player EXCEPT !.def = 5 + item.def] /\ UNCHANGED weapon
  BY DEF OnItemEquip
<1> HIDE DEF item
<1>4. /\ player' \in PlayerData
      /\ player'.level = player.level /\ player'.hp = player.hp /\ player'.maxHp = player.maxHp
  BY <1>1, <1>2, <1>3 DEF Types, PlayerData
<1>5. /\ weapon' \in MaybeItem /\ armor' \in MaybeItem
      /\ \E old \in MaybeItem : bag' = [bag EXCEPT ![i] = old]
  BY <1>1, <1>3 DEF Types, MaybeItem
<1> QED BY <1>4, <1>5

\* An item is put on.
LEMMA ItemEquipKeeps == ASSUME IInv, NEW i \in Slots, OnItemEquip(i) PROVE IInv'
<1>1. /\ view.state = "InGame"
      /\ Send(<<EquipResult(player', weapon', armor'), SlotUpdate(i, bag'[i]), CharInfo(player')>>)
      /\ extraGold' = FALSE /\ emptySale' = FALSE
      /\ UNCHANGED <<loggedIn, quests, selected, oldList>>
  BY DEF OnItemEquip, Key, selections
<1>2. /\ player' \in PlayerData /\ weapon' \in MaybeItem /\ armor' \in MaybeItem
      /\ player'.level = player.level /\ player'.hp = player.hp /\ player'.maxHp = player.maxHp
  BY EquipFacts
<1>3. PICK old \in MaybeItem : bag' = [bag EXCEPT ![i] = old]
  BY EquipFacts
<1>4. Types
  BY <1>1, Before
<1>5. bag \in [Slots -> MaybeItem] /\ bag'[i] = old /\ bag' \in [Slots -> MaybeItem]
  BY <1>3, <1>4 DEF Types
<1> DEFINE p == player'
           x == weapon'
           y == armor'
           a == EquipResult(p, x, y)
           b == SlotUpdate(i, old)
           c == CharInfo(p)
           u == Handled(Shown, a)
           v == Handled(u, b)
           w == Handled(v, c)
<1>6. Send(<<a, b, c>>)
  BY <1>1, <1>5
<1>7. p \in PlayerData /\ x \in MaybeItem /\ y \in MaybeItem
  BY <1>2
<1> HIDE DEF p, x, y
<1>8. /\ a \in Packet /\ u \in Views /\ u.player.atk = p.atk /\ u.player.def = p.def
      /\ u.bag = Shown.bag /\ u.weapon = x /\ u.armor = y /\ SameQuests(Shown, u)
  BY <1>7, Before, EquipShown
<1> HIDE DEF a, u
<1>9. /\ b \in Packet /\ v \in Views /\ v.player = u.player /\ SameQuests(u, v)
      /\ v.bag = [u.bag EXCEPT ![i] = old] /\ v.weapon = u.weapon /\ v.armor = u.armor
  BY <1>8, SlotShown
<1> HIDE DEF b, v
<1>10. /\ c \in Packet /\ w \in Views /\ ExpReal(w, p)
       /\ w.uid = Me => /\ w.player.gold = p.gold /\ w.player.level = p.level
                        /\ w.player.hp = p.hp /\ w.player.maxHp = p.maxHp
       /\ w.player.atk = v.player.atk /\ w.player.def = v.player.def
       /\ SameItems(v, w) /\ SameQuests(v, w)
  BY <1>7, <1>9, CharInfoShown
<1> HIDE DEF c, w
<1>11. <<a, b, c>> \in Seq(Packet) /\ After(Shown, <<a, b, c>>) = w
  BY <1>8, <1>9, <1>10, Before, AfterThree DEF u, v, w
<1>12. Shows(w, player') /\ ExpReal(w, player') /\ GoldReal(w, player', extraGold', emptySale')
  <2>1. Shows(w, p) /\ GoldReal(w, p, FALSE, FALSE)
    BY <1>7, <1>8, <1>9, <1>10, InformedGold DEF Shows
  <2> QED BY <1>1, <1>10, <2>1 DEF p
<1>13. Types'
  BY <1>1, <1>2, <1>4, <1>5 DEF Types
<1>14. ItemsReal(w, bag', weapon', armor', selected')
  <2>1. w.weapon = x /\ w.armor = y /\ w.bag = [Shown.bag EXCEPT ![i] = old]
    BY <1>8, <1>9, <1>10 DEF SameItems
  <2> QED BY <1>1, <1>3, <2>1, Before DEF ItemsReal, x, y
<1>15. QuestsReal(w, quests', oldList')
  BY <1>1, <1>8, <1>9, <1>10, Before DEF QuestsReal, SameQuests
<1> QED BY <1>6, <1>11, <1>12, <1>13, <1>14, <1>15, SentKeeps

\* A slot changes and the shop tells the gold: a purchase or a sale.
LEMMA TradeKeeps ==
  ASSUME IInv, view.state = "InGame", NEW i \in Slots, NEW item \in MaybeItem, NEW gold \in Nat,
         player' = [player EXCEPT !.gold = gold], bag' = [bag EXCEPT ![i] = item],
         Send(<<SlotUpdate(i, item), ShopResult(gold)>>),
         extraGold' = FALSE, emptySale' = FALSE,
         UNCHANGED <<loggedIn, weapon, armor, quests, selected, oldList>>
  PROVE  IInv'
<1> DEFINE p == [player EXCEPT !.gold = gold]
           a == SlotUpdate(i, item)
           b == ShopResult(gold)
           v == Handled(Shown, a)
           w == Handled(v, b)
<1>1. Types
  BY Before
<1>2. /\ p \in PlayerData /\ p.gold = gold /\ p.exp = player.exp
      /\ p.level = player.level /\ p.hp = player.hp /\ p.maxHp = player.maxHp
      /\ p.atk = player.atk /\ p.def = player.def
  BY <1>1 DEF Types, PlayerData
<1>3. player' = p
  OBVIOUS
<1> HIDE DEF p
<1>4. /\ a \in Packet /\ v \in Views /\ v.uid = Shown.uid /\ v.player = Shown.player /\ SameQuests(Shown, v)
      /\ v.bag = [Shown.bag EXCEPT ![i] = item] /\ v.weapon = Shown.weapon /\ v.armor = Shown.armor
  BY Before, SlotShown
<1>5. Shows(v, p)
  BY <1>2, <1>4, Before DEF Shows
<1>6. Send(<<a, b>>)
  OBVIOUS
<1> HIDE DEF a, v
<1>7. /\ b \in Packet /\ w \in Views /\ w.uid = v.uid /\ Shows(w, p) /\ SameExp(v, w)
      /\ w.player.gold = gold /\ SameItems(v, w) /\ SameQuests(v, w)
  BY <1>4, <1>5, ShopShown
<1> HIDE DEF b, w
<1>8. <<a, b>> \in Seq(Packet) /\ After(Shown, <<a, b>>) = w
  BY <1>4, <1>7, Before, AfterTwo DEF v, w
<1>9. ExpReal(w, p)
  BY <1>2, <1>4, <1>7, Before DEF ExpReal, SameExp
<1>10. GoldReal(w, p, FALSE, FALSE)
  BY <1>2, <1>7, InformedGold
<1>11. Types'
  <2>1. bag' \in [Slots -> MaybeItem]
    BY <1>1 DEF Types
  <2> QED BY <1>1, <1>2, <1>3, <2>1 DEF Types
<1>12. /\ ItemsReal(w, bag', weapon', armor', selected') /\ QuestsReal(w, quests', oldList')
  BY <1>4, <1>7, Before DEF ItemsReal, QuestsReal, SameItems, SameQuests
<1>13. Shows(w, player') /\ ExpReal(w, player') /\ GoldReal(w, player', extraGold', emptySale')
  BY <1>3, <1>7, <1>9, <1>10
<1> QED BY <1>6, <1>8, <1>11, <1>12, <1>13, SentKeeps

\* The shop tells a gold and nothing else happens: a purchase that is refused, or
\* a sale of an empty slot.
LEMMA RefusalKeeps ==
  ASSUME IInv, view.state = "InGame", NEW gold \in Nat, Send(<<ShopResult(gold)>>),
         ~emptySale' => gold = player.gold, extraGold' = FALSE, emptySale' \in BOOLEAN,
         UNCHANGED <<loggedIn, player, bag, weapon, armor, quests, selected, oldList>>
  PROVE  IInv'
<1> DEFINE b == ShopResult(gold)
           w == Handled(Shown, b)
<1>1. Types
  BY Before
<1>2. Send(<<b>>)
  OBVIOUS
<1>3. /\ b \in Packet /\ w \in Views /\ w.uid = Shown.uid /\ Shows(w, player) /\ SameExp(Shown, w)
      /\ w.player.gold = gold /\ SameItems(Shown, w) /\ SameQuests(Shown, w)
  BY Before, ShopShown
<1> HIDE DEF b, w
<1>4. <<b>> \in Seq(Packet) /\ After(Shown, <<b>>) = w
  BY <1>3, Before, FoldOne DEF w
<1>5. ExpReal(w, player)
  BY <1>3, Before DEF ExpReal, SameExp
<1>6. GoldReal(w, player, FALSE, emptySale')
  BY <1>2, <1>3, Before DEF GoldReal
<1>7. Types'
  BY <1>1 DEF Types
<1>8. /\ ItemsReal(w, bag', weapon', armor', selected') /\ QuestsReal(w, quests', oldList')
  BY <1>3, Before DEF ItemsReal, QuestsReal, SameItems, SameQuests
<1>9. Shows(w, player') /\ ExpReal(w, player') /\ GoldReal(w, player', extraGold', emptySale')
  BY <1>3, <1>5, <1>6
<1> QED BY <1>2, <1>4, <1>7, <1>8, <1>9, SentKeeps

\* A sale.
LEMMA ShopSellKeeps == ASSUME IInv, NEW i \in Slots, OnShopSell(i) PROVE IInv'
<1>1. view.state = "InGame" /\ UNCHANGED <<loggedIn, weapon, armor, quests, selected, oldList>>
  BY DEF OnShopSell, Key, selections
<1>2. Types /\ player.gold \in Nat /\ NoItem \in MaybeItem
  BY <1>1, Before DEF MaybeItem
<1>3. CASE bag[i] = NoItem
  <2>1. UNCHANGED <<player, bag>> /\ Send(<<ShopResult(0)>>) /\ emptySale' = TRUE /\ extraGold' = FALSE
    BY <1>3 DEF OnShopSell
  <2> QED BY <1>1, <2>1, RefusalKeeps
<1>4. CASE bag[i] # NoItem
  <2> DEFINE gold == player.gold + ItemData[bag[i]].price \div 5
  <2>1. bag[i] \in Items
    BY <1>2, <1>4 DEF Types, MaybeItem
  <2>2. ItemData[bag[i]].price \in Nat
    BY <2>1, PlayerAssumption
  <2>3. gold \in Nat
    BY <1>2, <2>2, ShareBound
  <2>4. /\ player' = [player EXCEPT !.gold = gold] /\ bag' = [bag EXCEPT ![i] = NoItem]
        /\ Send(<<SlotUpdate(i, NoItem), ShopResult(player'.gold)>>)
        /\ emptySale' = FALSE /\ extraGold' = FALSE
    BY <1>4 DEF OnShopSell
  <2> HIDE DEF gold
  <2>5. player'.gold = gold
    BY <1>2, <2>4 DEF Types, PlayerData
  <2>6. Send(<<SlotUpdate(i, NoItem), ShopResult(gold)>>)
    BY <2>4, <2>5
  <2> QED BY <1>1, <1>2, <2>3, <2>4, <2>6, TradeKeeps
<1> QED BY <1>3, <1>4

\* A purchase.
LEMMA ShopBuyKeeps == ASSUME IInv, NEW item \in Items, OnShopBuy(item) PROVE IInv'
<1> DEFINE i == FindEmptySlot
<1>1. /\ view.state = "InGame" /\ UNCHANGED <<loggedIn, weapon, armor, quests, selected, oldList>>
      /\ extraGold' = FALSE /\ emptySale' = FALSE
  BY DEF OnShopBuy, Key, selections
<1>2. Types /\ player.gold \in Nat /\ item \in MaybeItem
  BY <1>1, Before DEF MaybeItem
<1>3. CASE CanPay(item) /\ i # MAX_INVENTORY
  <2> DEFINE gold == player.gold - ItemData[item].price
  <2>1. i \in Slots
    BY <1>3, EmptySlotType
  <2>2. ItemData[item].price \in Nat /\ player.gold >= ItemData[item].price
    BY <1>3, PlayerAssumption DEF CanPay
  <2>3. gold \in Nat
    BY <1>2, <2>2
  <2>4. /\ player' = [player EXCEPT !.gold = gold] /\ bag' = [bag EXCEPT ![i] = item]
        /\ Send(<<SlotUpdate(i, item), ShopResult(player'.gold)>>)
    BY <1>3 DEF OnShopBuy
  <2> HIDE DEF gold, i
  <2>5. player'.gold = gold
    BY <1>2, <2>4 DEF Types, PlayerData
  <2>6. Send(<<SlotUpdate(i, item), ShopResult(gold)>>)
    BY <2>4, <2>5
  <2> QED BY <1>1, <1>2, <2>1, <2>3, <2>4, <2>6, TradeKeeps
<1>4. CASE ~(CanPay(item) /\ i # MAX_INVENTORY)
  <2>1. UNCHANGED <<player, bag>> /\ Send(<<ShopResult(player.gold)>>)
    BY <1>4 DEF OnShopBuy
  <2> QED BY <1>1, <1>2, <2>1, RefusalKeeps
<1> QED BY <1>3, <1>4

\* The list of quests.
LEMMA QuestListKeeps == ASSUME IInv, OnQuestList PROVE IInv'
<1> DEFINE b == QuestList(quests)
           w == Handled(Shown, b)
<1>1. /\ view.state = "InGame" /\ Send(<<b>>) /\ oldList' = FALSE
      /\ UNCHANGED <<loggedIn, player, bag, weapon, armor, quests, selected, extraGold, emptySale>>
  BY DEF OnQuestList, Key, inventory
<1>2. Types /\ quests \in [Quests -> Progress]
  BY <1>1, Before DEF Types
<1>3. b \in Packet /\ w \in Views /\ w.uid = Shown.uid /\ w.player = Shown.player /\ SameItems(Shown, w) /\ w.quests = quests
  BY <1>2, Before, QuestListShown
<1> HIDE DEF b, w
<1>4. <<b>> \in Seq(Packet) /\ After(Shown, <<b>>) = w
  BY <1>3, Before, FoldOne DEF w
<1>5. Types'
  BY <1>1, <1>2 DEF Types
<1>6. Shows(w, player') /\ ExpReal(w, player') /\ GoldReal(w, player', extraGold', emptySale')
  BY <1>1, <1>3, Before DEF Shows, ExpReal, GoldReal
<1>7. ItemsReal(w, bag', weapon', armor', selected') /\ QuestsReal(w, quests', oldList')
  BY <1>1, <1>3, Before DEF ItemsReal, QuestsReal, SameItems
<1> QED BY <1>1, <1>4, <1>5, <1>6, <1>7, SentKeeps

\* A quest is accepted.
LEMMA QuestAcceptKeeps == ASSUME IInv, NEW q \in Quests, OnQuestAccept(q) PROVE IInv'
<1> DEFINE b == QuestAcceptResult(q)
           w == Handled(Shown, b)
           new == [status |-> 1, progress |-> 0]
<1>1. /\ view.state = "InGame" /\ Send(<<b>>) /\ quests' = [quests EXCEPT ![q] = new]
      /\ UNCHANGED <<loggedIn, player, bag, weapon, armor, selected, oldList, extraGold, emptySale>>
  BY DEF OnQuestAccept, Key, inventory, history, selections
<1>2. Types /\ quests \in [Quests -> Progress]
  BY <1>1, Before DEF Types
<1>3. /\ b \in Packet /\ w \in Views /\ w.uid = Shown.uid /\ w.player = Shown.player /\ SameItems(Shown, w)
      /\ w.listed = Shown.listed
      /\ Shown.listed => w.quests = [Shown.quests EXCEPT ![q] = new]
  BY Before, AcceptShown
<1>4. new \in Progress
  BY DEF Progress
<1> HIDE DEF b, w, new
<1>5. <<b>> \in Seq(Packet) /\ After(Shown, <<b>>) = w
  BY <1>3, Before, FoldOne DEF w
<1>6. Types'
  <2>1. quests' \in [Quests -> Progress]
    BY <1>1, <1>2, <1>4
  <2> QED BY <1>1, <1>2, <2>1 DEF Types
<1>7. Shows(w, player') /\ ExpReal(w, player') /\ GoldReal(w, player', extraGold', emptySale')
  BY <1>1, <1>3, Before DEF Shows, ExpReal, GoldReal
<1>8. ItemsReal(w, bag', weapon', armor', selected') /\ QuestsReal(w, quests', oldList')
  BY <1>1, <1>3, Before DEF ItemsReal, QuestsReal, SameItems
<1> QED BY <1>1, <1>5, <1>6, <1>7, <1>8, SentKeeps

\* A quest is turned in: the item of the reward, the payment, SC_CHAR_INFO, the
\* result.
LEMMA QuestCompleteKeeps == ASSUME IInv, NEW q \in Quests, OnQuestComplete(q) PROVE IInv'
<1> DEFINE e == QuestData[q].rewardExp
           g == QuestData[q].rewardGold
           t == Given(QuestData[q].rewardItem)
           r == Paid(player, e, g)
           c == CharInfo(r.player)
           d == QuestReward(q)
           a == After(Shown, t)
           b == After(a, r.packets)
           u == Handled(b, c)
           w == Handled(u, d)
           three == [quests[q] EXCEPT !.status = 3]
<1>1. /\ view.state = "InGame" /\ player' = r.player /\ bag' = BagAfter(t)
      /\ Send(t \o r.packets \o <<c, d>>)
      /\ quests' = [quests EXCEPT ![q] = three]
      /\ extraGold' = FALSE /\ emptySale' = FALSE
      /\ UNCHANGED <<loggedIn, weapon, armor, selected, oldList>>
  BY DEF OnQuestComplete, Key, selections
<1>2. e \in Nat /\ g \in Nat /\ QuestData[q].rewardItem \in MaybeItem
  <2> DEFINE x == QuestData[q]
  <2>1. x \in [target : Nat \ {0}, rewardGold : Nat, rewardExp : Nat, rewardItem : MaybeItem]
    BY PlayerAssumption
  <2> HIDE DEF x
  <2>2. x.rewardExp \in Nat /\ x.rewardGold \in Nat /\ x.rewardItem \in MaybeItem
    BY <2>1
  <2> QED BY <2>2 DEF x
<1>3. /\ Types /\ quests \in [Quests -> Progress] /\ bag \in [Slots -> MaybeItem]
      /\ player \in PlayerData
  BY <1>1, Before DEF Types
<1> HIDE DEF e, g
<1>4. /\ t \in Seq(Packet) /\ BagAfter(t) \in [Slots -> MaybeItem]
      /\ a \in Views /\ OnlyBag(Shown, a, bag, BagAfter(t))
  BY <1>2, <1>3, Before, GivenIsTold
<1> HIDE DEF t, a
<1>5. Shows(a, player)
  BY <1>4, Before DEF OnlyBag, Shows
<1>6. PaymentIsTold(player, r, g)
  BY <1>2, <1>3, PaidIsTold
<1> HIDE DEF r
<1>7. /\ r \in Outcome /\ b \in Views /\ Shows(b, r.player) /\ SameItems(a, b) /\ SameQuests(a, b)
  BY <1>4, <1>5, <1>6 DEF PaymentIsTold
<1>8. r.packets \in Seq(Packet) /\ r.player \in PlayerData
  BY <1>7 DEF Outcome
<1> HIDE DEF b
<1>9. /\ c \in Packet /\ u \in Views /\ ExpReal(u, r.player)
      /\ u.uid = Me => /\ u.player.gold = r.player.gold /\ u.player.level = r.player.level
                       /\ u.player.hp = r.player.hp /\ u.player.maxHp = r.player.maxHp
      /\ u.player.atk = b.player.atk /\ u.player.def = b.player.def
      /\ SameItems(b, u) /\ SameQuests(b, u)
  BY <1>7, <1>8, CharInfoShown
<1> HIDE DEF c, u
<1>10. /\ d \in Packet /\ w \in Views /\ w.uid = u.uid /\ w.player = u.player /\ SameItems(u, w) /\ w.listed = u.listed
       /\ u.listed => w.quests = [u.quests EXCEPT ![q] = [u.quests[q] EXCEPT !.status = 3]]
  BY <1>9, RewardShown
<1> HIDE DEF d, w
<1>11. t \o r.packets \o <<c, d>> \in Seq(Packet) /\ After(Shown, t \o r.packets \o <<c, d>>) = w
  <2> DEFINE k == t \o r.packets
             l == <<c, d>>
  <2>1. k \in Seq(Packet)
    BY <1>4, <1>8, ConcatProperties
  <2>2. l \in Seq(Packet) /\ After(b, l) = w
    BY <1>7, <1>9, <1>10, AfterTwo DEF u, w
  <2>3. Shown \in Views
    BY Before
  <2>4. After(Shown, k) = b
    BY <1>4, <1>8, <2>3, FoldConcat DEF a, b
  <2> HIDE DEF k, l
  <2>5. k \o l \in Seq(Packet) /\ After(Shown, k \o l) = w
    BY <2>1, <2>2, <2>3, <2>4, FoldConcat, ConcatProperties
  <2> QED BY <2>5 DEF k, l
<1>12. Types'
  <2>1. three \in Progress
    <3>1. quests[q] \in Progress
      BY <1>3
    <3> QED BY <3>1 DEF Progress
  <2> HIDE DEF three
  <2>2. quests' \in [Quests -> Progress]
    BY <1>1, <1>3, <2>1
  <2> QED BY <1>1, <1>3, <1>4, <1>8, <2>2 DEF Types
<1>13. Shows(w, player') /\ ExpReal(w, player') /\ GoldReal(w, player', extraGold', emptySale')
  <2>1. Shows(w, r.player) /\ ExpReal(w, r.player)
    BY <1>7, <1>9, <1>10 DEF Shows, ExpReal
  <2>2. GoldReal(w, r.player, FALSE, FALSE)
    BY <1>8, <1>9, <1>10, InformedGold
  <2> QED BY <1>1, <2>1, <2>2
<1>14. ItemsReal(w, bag', weapon', armor', selected')
  <2>1. w.bag = a.bag /\ w.weapon = Shown.weapon /\ w.armor = Shown.armor
    BY <1>4, <1>7, <1>9, <1>10 DEF SameItems, OnlyBag
  <2>2. Shown.bag = bag => a.bag = bag'
    BY <1>1, <1>4 DEF OnlyBag
  <2> QED BY <1>1, <2>1, <2>2, Before DEF ItemsReal
<1>15. QuestsReal(w, quests', oldList')
  <2>1. w.listed = Shown.listed /\ u.listed = Shown.listed /\ u.quests = Shown.quests
    BY <1>4, <1>7, <1>9, <1>10 DEF SameQuests, OnlyBag
  <2>2. Shown.listed /\ ~oldList => Shown.quests = quests
    BY Before DEF QuestsReal
  <2> QED BY <1>1, <1>10, <2>1, <2>2 DEF QuestsReal
<1> QED BY <1>1, <1>11, <1>12, <1>13, <1>14, <1>15, SentKeeps

\* The player that is loaded.
LEMMA LoadStatsFacts ==
  ASSUME NEW p \in PlayerData, NEW c \in Characters, NEW r, r = LoadStats(p, c)
  PROVE  /\ r \in PlayerData
         /\ c.weapon = NoItem => r.atk = p.atk
         /\ c.armor = NoItem => r.def = p.def
         /\ c.bag \in [Slots -> MaybeItem] /\ c.weapon \in MaybeItem /\ c.armor \in MaybeItem
         /\ c.quests \in [Quests -> Progress]
<1>1. c \in [gold : Nat, bag : [Slots -> MaybeItem], weapon : MaybeItem, armor : MaybeItem,
            quests : [Quests -> Progress]]
  BY PlayerAssumption
<1>2. /\ c.gold \in Nat /\ c.bag \in [Slots -> MaybeItem] /\ c.weapon \in MaybeItem /\ c.armor \in MaybeItem
      /\ c.quests \in [Quests -> Progress]
  BY <1>1
<1> DEFINE a == IF c.weapon # NoItem THEN 15 + ItemData[c.weapon].atk ELSE p.atk
           d == IF c.armor # NoItem THEN 5 + ItemData[c.armor].def ELSE p.def
<1>3. p.atk \in Nat /\ p.def \in Nat
  BY DEF PlayerData
<1>4. \A i \in Items : ItemData[i].atk \in Nat /\ ItemData[i].def \in Nat
  <2> TAKE i \in Items
  <2> DEFINE x == ItemData[i]
  <2>1. x \in [type : ItemTypes, atk : Nat, def : Nat, hp : Nat, price : Nat]
    BY PlayerAssumption
  <2> HIDE DEF x
  <2>2. x.atk \in Nat /\ x.def \in Nat
    BY <2>1
  <2> QED BY <2>2 DEF x
<1>5. a \in Nat /\ d \in Nat
  BY <1>2, <1>3, <1>4 DEF MaybeItem
<1>6. r = [p EXCEPT !.level = 1, !.exp = 0, !.gold = c.gold, !.atk = a, !.def = d]
  BY DEF LoadStats
<1>7. (c.weapon = NoItem => a = p.atk) /\ (c.armor = NoItem => d = p.def)
  OBVIOUS
<1> HIDE DEF a, d
<1>8. r \in PlayerData /\ r.atk = a /\ r.def = d
  <2> DEFINE l == 1
             e == 0
             g == c.gold
             x == [p EXCEPT !.level = l, !.exp = e, !.gold = g]
  <2>1. x \in PlayerData
    <3>1. l \in Nat \ {0} /\ e \in Nat /\ g \in Nat
      BY <1>2
    <3> HIDE DEF l, e, g
    <3> QED BY <3>1 DEF PlayerData
  <2>2. r = [x EXCEPT !.atk = a, !.def = d]
    BY <1>6
  <2> HIDE DEF x
  <2> QED BY <1>5, <2>1, <2>2 DEF PlayerData
<1> QED BY <1>2, <1>7, <1>8

\* A character is selected.  Attack and defence are told only if there is
\* something to wear; if there is not, they are those of before.
LEMMA CharSelectKeeps ==
  ASSUME IInv, NEW c \in Characters, NEW there \in SUBSET Others, OnCharSelect(c, there) PROVE IInv'
<1> DEFINE r == LoadStats(player, c)
           p == [r EXCEPT !.atk = player.atk, !.def = player.def]
           a == CharInfo(p)
           b == InventoryList(c.bag)
           e == EquipSent(c, r)
           o == SetToSeq({OtherInfo(x) : x \in there})
           k == Handled(Shown, a)
           u == After(k, o)
           v == Handled(u, b)
           w == After(v, e)
<1>1. player' = r
  BY DEF OnCharSelect
<1>2. /\ view.state = "CharSelect"
      /\ bag' = c.bag /\ weapon' = c.weapon /\ armor' = c.armor /\ quests' = c.quests
      /\ loggedIn' = TRUE /\ Send(<<a>> \o o \o <<b>> \o e)
      /\ selected' = selected + 1 /\ oldList' = loggedIn /\ extraGold' = FALSE /\ emptySale' = FALSE
  BY <1>1 DEF OnCharSelect, ListKey
<1>3. player \in PlayerData /\ selected \in Nat /\ loggedIn \in BOOLEAN
  BY DEF IInv, TypeOK
<1>4. /\ r \in PlayerData
      /\ c.weapon = NoItem => r.atk = player.atk
      /\ c.armor = NoItem => r.def = player.def
      /\ c.bag \in [Slots -> MaybeItem] /\ c.weapon \in MaybeItem /\ c.armor \in MaybeItem
      /\ c.quests \in [Quests -> Progress]
  BY <1>3, LoadStatsFacts
<1> HIDE DEF r
<1>5. /\ p \in PlayerData /\ p.level = r.level /\ p.hp = r.hp /\ p.maxHp = r.maxHp
      /\ p.exp = r.exp /\ p.gold = r.gold
  <2>1. player.atk \in Nat /\ player.def \in Nat
    BY <1>3 DEF PlayerData
  <2> QED BY <1>4, <2>1 DEF PlayerData
<1> HIDE DEF p
<1>6. /\ a \in Packet /\ k \in Views /\ ExpReal(k, p)
      /\ k.uid = Me => /\ k.player.gold = p.gold /\ k.player.level = p.level
                       /\ k.player.hp = p.hp /\ k.player.maxHp = p.maxHp
      /\ k.player.atk = Shown.player.atk /\ k.player.def = Shown.player.def
      /\ SameItems(Shown, k) /\ SameQuests(Shown, k)
  BY <1>5, Before, CharInfoShown
<1> HIDE DEF a, k
<1>7. o \in Seq(Packet) /\ u \in Views /\ Reminded(k, u)
  BY <1>6, OthersShown
<1> HIDE DEF o, u
<1>8. /\ ExpReal(u, p)
      /\ u.uid = Me => /\ u.player.gold = p.gold /\ u.player.level = p.level
                       /\ u.player.hp = p.hp /\ u.player.maxHp = p.maxHp
      /\ u.player.atk = Shown.player.atk /\ u.player.def = Shown.player.def
      /\ SameItems(Shown, u) /\ SameQuests(Shown, u)
  BY <1>6, <1>7 DEF Reminded, ExpReal, SameItems, SameQuests
<1>9. /\ b \in Packet /\ v \in Views /\ v.uid = u.uid /\ v.player = u.player /\ SameQuests(u, v)
      /\ u.bag = NoItems => v.bag = c.bag
      /\ v.weapon = u.weapon /\ v.armor = u.armor
  BY <1>4, <1>7, BagShown
<1> HIDE DEF b, v
<1>10. v.player.atk = player.atk /\ v.player.def = player.def
  BY <1>8, <1>9, Before DEF Shows
<1>11. /\ e \in Seq(Packet) /\ w \in Views /\ w.uid = v.uid /\ Shows(w, r) /\ SameExp(v, w) /\ SameGold(v, w)
       /\ w.bag = v.bag /\ SameQuests(v, w)
       /\ v.weapon = NoItem /\ v.armor = NoItem => w.weapon = c.weapon /\ w.armor = c.armor
  <2>1. CASE c.weapon = NoItem /\ c.armor = NoItem
    <3>1. e = <<>> /\ w = v
      BY <1>9, <2>1, FoldEmpty DEF EquipSent
    <3>2. r.atk = player.atk /\ r.def = player.def
      BY <1>4, <2>1
    <3>3. Shows(v, r)
      BY <1>5, <1>8, <1>9, <1>10, <3>2 DEF Shows
    <3> QED BY <1>9, <2>1, <3>1, <3>3, EmptySeq DEF SameExp, SameGold, SameQuests
  <2>2. CASE ~(c.weapon = NoItem /\ c.armor = NoItem)
    <3> DEFINE d == EquipResult(r, c.weapon, c.armor)
               z == Handled(v, d)
    <3>1. e = <<d>>
      BY <2>2 DEF EquipSent
    <3>2. /\ d \in Packet /\ z \in Views /\ z.uid = v.uid /\ SameExp(v, z) /\ SameGold(v, z)
          /\ z.player.level = v.player.level /\ z.player.hp = v.player.hp
          /\ z.player.maxHp = v.player.maxHp
          /\ z.player.atk = r.atk /\ z.player.def = r.def
          /\ z.bag = v.bag /\ z.weapon = c.weapon /\ z.armor = c.armor
          /\ SameQuests(v, z)
      BY <1>4, <1>9, EquipShown
    <3> HIDE DEF d, z
    <3>3. <<d>> \in Seq(Packet) /\ w = z
      BY <1>9, <3>1, <3>2, FoldOne DEF z
    <3>4. Shows(z, r)
      BY <1>5, <1>8, <1>9, <3>2 DEF Shows
    <3> QED BY <3>1, <3>2, <3>3, <3>4
  <2> QED BY <2>1, <2>2
<1> HIDE DEF e, w
<1>12. /\ <<a>> \o o \o <<b>> \o e \in Seq(Packet)
       /\ After(Shown, <<a>> \o o \o <<b>> \o e) = w
  <2> DEFINE s1 == <<a>>
             s2 == <<b>>
             s3 == s1 \o o
             s4 == s3 \o s2
  <2>1. s1 \in Seq(Packet) /\ After(Shown, s1) = k /\ Shown \in Views
    BY <1>6, Before, FoldOne DEF k
  <2>2. s2 \in Seq(Packet) /\ After(u, s2) = v
    BY <1>9, <1>7, FoldOne DEF v
  <2> HIDE DEF s1, s2
  <2>3. s3 \in Seq(Packet) /\ After(Shown, s3) = u
    BY <1>7, <2>1, FoldConcat, ConcatProperties DEF u
  <2> HIDE DEF s3
  <2>4. s4 \in Seq(Packet) /\ After(Shown, s4) = v
    BY <2>1, <2>2, <2>3, FoldConcat, ConcatProperties
  <2> HIDE DEF s4
  <2>5. s4 \o e \in Seq(Packet) /\ After(Shown, s4 \o e) = w
    BY <1>11, <2>1, <2>4, FoldConcat, ConcatProperties DEF w
  <2> QED BY <2>5 DEF s1, s2, s3, s4
<1>13. ExpReal(w, r)
  BY <1>5, <1>8, <1>9, <1>11 DEF ExpReal, SameExp
<1>14. GoldReal(w, r, FALSE, FALSE)
  <2>1. w.uid = Me => w.player.gold = r.gold
    BY <1>5, <1>8, <1>9, <1>11 DEF SameGold
  <2> QED BY <1>4, <2>1, InformedGold
<1>15. Types'
  <2>1. selected' \in Nat /\ selected' > 0
    BY <1>2, <1>3
  <2>2. oldList' \in BOOLEAN /\ extraGold' \in BOOLEAN /\ emptySale' \in BOOLEAN
    BY <1>2, <1>3
  <2> QED BY <1>1, <1>2, <1>4, <2>1, <2>2 DEF Types
<1>16. QuestsReal(w, quests', oldList')
  <2>1. ~loggedIn => ~Shown.listed
    BY DEF IInv, Entering
  <2> QED BY <1>2, <1>8, <1>9, <1>11, <2>1 DEF QuestsReal, SameQuests
<1>17. ItemsReal(w, bag', weapon', armor', selected')
  <2>1. SUFFICES ASSUME selected' < 2 PROVE w.bag = c.bag /\ w.weapon = c.weapon /\ w.armor = c.armor
    BY <1>2 DEF ItemsReal
  <2>2. selected = 0 /\ ~loggedIn
    BY <1>2, <1>3, <2>1 DEF IInv, Entering
  <2>3. bag = NoItems /\ weapon = NoItem /\ armor = NoItem
    BY <2>2 DEF IInv, Entering
  <2>4. Shown.bag = NoItems /\ Shown.weapon = NoItem /\ Shown.armor = NoItem
    BY <2>2, <2>3, Before DEF ItemsReal
  <2>5. u.bag = NoItems /\ u.weapon = NoItem /\ u.armor = NoItem
    BY <1>8, <2>4 DEF SameItems
  <2> QED BY <1>9, <1>11, <2>5
<1>18. Shows(w, player') /\ ExpReal(w, player') /\ GoldReal(w, player', extraGold', emptySale')
  BY <1>1, <1>2, <1>11, <1>13, <1>14
<1> QED BY <1>2, <1>12, <1>15, <1>16, <1>17, <1>18, SentKeeps

-----------------------------------------------------------------------------
(* The theorems. *)

\* Every handler of the server, and the client, preserve the invariant.
LEMMA StepKeeps == IInv /\ [Next]_vars => IInv'
<1> SUFFICES ASSUME IInv, [Next]_vars PROVE IInv'
  OBVIOUS
<1>1. ASSUME NEW c \in Characters, NEW there \in SUBSET Others, OnCharSelect(c, there) PROVE IInv'
  BY <1>1, CharSelectKeeps
<1>2. ASSUME NEW n \in {1, Members}, NEW drop \in MaybeItem, OwnKill(n, drop) PROVE IInv'
  BY <1>2, OwnKillKeeps
<1>3. CASE SharedKill
  BY <1>3, SharedKillKeeps
<1>4. CASE OtherKill
  BY <1>4, OtherKillKeeps
<1>5. CASE OnAttendanceCheck
  BY <1>5, AttendanceKeeps
<1>6. ASSUME NEW i \in Slots, OnItemUse(i) \/ OnItemEquip(i) \/ OnShopSell(i) PROVE IInv'
  BY <1>6, ItemUseKeeps, ItemEquipKeeps, ShopSellKeeps
<1>7. ASSUME NEW item \in Items, OnShopBuy(item) PROVE IInv'
  BY <1>7, ShopBuyKeeps
<1>8. CASE OnQuestList
  BY <1>8, QuestListKeeps
<1>9. ASSUME NEW q \in Quests, OnQuestAccept(q) \/ OnQuestComplete(q) PROVE IInv'
  BY <1>9, QuestAcceptKeeps, QuestCompleteKeeps
<1>10. CASE Receive
  BY <1>10, ReceiveKeeps
<1>11. CASE OnCharCreate
  BY <1>11, CharCreateKeeps
<1>12. ASSUME NEW o \in Others, OtherMoves(o) PROVE IInv'
  BY <1>12, OtherMovesKeeps
<1>13. CASE UNCHANGED vars
  <2>1. UNCHANGED <<loggedIn, player, bag, weapon, armor, quests, queue, view,
                    selected, oldList, extraGold, emptySale>>
    BY <1>13 DEF vars, inventory, history, selections
  <2>2. Shown' = Shown
    BY <2>1 DEF Shown
  <2>3. TypeOK' /\ Entering'
    BY <2>1, <2>2 DEF IInv, TypeOK, Entering
  <2> QED BY <2>1, <2>2, <2>3 DEF IInv, StatsFollow, ItemsFollow, QuestsFollow,
                                  ExpBelowFullIsReal, GoldShown, KnowsItself
<1> QED BY <1>1, <1>2, <1>3, <1>4, <1>5, <1>6, <1>7, <1>8, <1>9, <1>10, <1>11, <1>12, <1>13 DEF Next

\* The invariant holds throughout.
LEMMA Invariance == Spec => []IInv
  BY InitIInv, StepKeeps, PTL DEF Spec

\* The player, what it carries and its quests are shown as the server has them
\* once the packets under way have been handled: PlayerFollows of the handlers of
\* the client, for every table of items and quests, every bag, every progress that
\* was saved, any number of other players told and of packets under way, and any
\* number of lists and selections in between.  Level and hit points are excepted
\* while the client takes another player for its own, items after a second
\* selection, and quests until the character selected last asks for its own.
THEOREM ClientShowsPlayer == Spec => []PlayerFollows
<1>1. IInv => PlayerFollows
  BY DEF IInv, PlayerFollows
<1> QED BY <1>1, Invariance, PTL

\* The exp that the client shows below a full bar is the player's, although
\* SC_EXP_UPDATE is sent before the level-ups: ExpBelowFullIsReal, of a client
\* that does not take another player for its own.
THEOREM ExpShownIsReal == Spec => []ExpBelowFullIsReal
<1>1. IInv => ExpBelowFullIsReal
  BY DEF IInv
<1> QED BY <1>1, Invariance, PTL

\* The gold that the client shows is never too little and, unless it counted gold
\* that the player did not get, exact (apart from a sale of an empty slot, and from
\* a client that takes another player for its own): GoldShown, whatever the
\* rewards, prices and numbers of members.
THEOREM GoldShownIsReal == Spec => []GoldShown
<1>1. IInv => GoldShown
  BY DEF IInv
<1> QED BY <1>1, Invariance, PTL

-----------------------------------------------------------------------------
(* Hit points, attack and defence on the server. *)

\* The hit points of the player and those of any one item together fit the
\* uint16_t to which OnItemUse converts their sum.
HpFits == \A i \in Items : player.maxHp + ItemData[i].hp < UINT16

\* p is at its maximum, and at least as strong as its weapon and armor make it.
Sound(p, w, a) ==
    /\ p.hp = p.maxHp
    /\ w # NoItem => p.atk >= 15 + ItemData[w].atk
    /\ a # NoItem => p.def >= 5 + ItemData[a].def

\* r is no weaker than p, and at its maximum if p is.
NoWeaker(p, r) ==
    /\ p.hp = p.maxHp => r.hp = r.maxHp
    /\ r.atk >= p.atk /\ r.def >= p.def

\* What an item adds.
LEMMA ItemNumbers ==
  ASSUME NEW i \in Items PROVE ItemData[i].atk \in Nat /\ ItemData[i].def \in Nat /\ ItemData[i].hp \in Nat
<1> DEFINE x == ItemData[i]
<1>1. x \in [type : ItemTypes, atk : Nat, def : Nat, hp : Nat, price : Nat]
  BY PlayerAssumption
<1> HIDE DEF x
<1>2. x.atk \in Nat /\ x.def \in Nat /\ x.hp \in Nat
  BY <1>1
<1> QED BY <1>2 DEF x

\* Who is no weaker is sound with the same weapon and armor.
LEMMA NoWeakerIsSound ==
  ASSUME NEW p \in PlayerData, NEW r \in PlayerData, NEW w \in MaybeItem, NEW a \in MaybeItem,
         NoWeaker(p, r), Sound(p, w, a)
  PROVE  Sound(r, w, a)
<1>1. p.atk \in Nat /\ p.def \in Nat /\ r.atk \in Nat /\ r.def \in Nat
  BY DEF PlayerData
<1>2. ASSUME w # NoItem PROVE r.atk >= 15 + ItemData[w].atk
  <2> DEFINE x == ItemData[w].atk
  <2>1. x \in Nat
    BY <1>2, ItemNumbers DEF MaybeItem
  <2>2. p.atk >= 15 + x /\ r.atk >= p.atk
    BY <1>2 DEF Sound, NoWeaker
  <2> HIDE DEF x
  <2>3. r.atk >= 15 + x
    BY <1>1, <2>1, <2>2
  <2> QED BY <2>3 DEF x
<1>3. ASSUME a # NoItem PROVE r.def >= 5 + ItemData[a].def
  <2> DEFINE x == ItemData[a].def
  <2>1. x \in Nat
    BY <1>3, ItemNumbers DEF MaybeItem
  <2>2. p.def >= 5 + x /\ r.def >= p.def
    BY <1>3 DEF Sound, NoWeaker
  <2> HIDE DEF x
  <2>3. r.def >= 5 + x
    BY <1>1, <2>1, <2>2
  <2> QED BY <2>3 DEF x
<1> QED BY <1>2, <1>3 DEF Sound, NoWeaker

\* A round of CheckLevelUp.
LEMMA LevelUpNoWeaker ==
  ASSUME NEW p \in PlayerData PROVE NoWeaker(p, LevelUp(p))
<1>1. p.maxHp \in Nat /\ p.atk \in Nat /\ p.def \in Nat
  BY DEF PlayerData
<1> DEFINE l == p.level + 1
           e == p.exp - p.maxExp
           m == (p.level + 1) * ExpPerLevel
           h == p.maxHp + HpPerLevel
           a == p.atk + AtkPerLevel
           d == p.def + DefPerLevel
<1>2. a >= p.atk /\ d >= p.def
  BY <1>1, PlayerAssumption
<1>3. LevelUp(p) = [p EXCEPT !.level = l, !.exp = e, !.maxExp = m, !.maxHp = h, !.hp = h,
                             !.atk = a, !.def = d]
  BY DEF LevelUp
<1> HIDE DEF l, e, m, h, a, d
<1>4. LevelUp(p).hp = h /\ LevelUp(p).maxHp = h /\ LevelUp(p).atk = a /\ LevelUp(p).def = d
  BY <1>3 DEF PlayerData
<1> QED BY <1>2, <1>4 DEF NoWeaker

\* However many levels are gained: a player with the least exp for which it fails
\* would have to gain one.
LEMMA LevelsNoWeaker == \A p \in PlayerData : NoWeaker(p, CheckLevelUp[p].player)
<1> DEFINE Bad == {p \in PlayerData : ~NoWeaker(p, CheckLevelUp[p].player)}
           mu == [p \in PlayerData |-> p.exp]
<1> SUFFICES ASSUME Bad # {} PROVE FALSE
  OBVIOUS
<1>1. PICK p \in Bad : \A q \in Bad : mu[p] <= mu[q]
  <2>1. mu \in [PlayerData -> Nat] /\ Bad \subseteq PlayerData
    BY DEF PlayerData
  <2> HIDE DEF mu, Bad
  <2> QED BY <2>1, R!LeastMeasure
<1>2. p \in PlayerData /\ p.exp \in Nat /\ p.atk \in Nat /\ p.def \in Nat
      /\ ~NoWeaker(p, CheckLevelUp[p].player)
  BY DEF PlayerData
<1>3. CASE p.exp < p.maxExp
  <2>1. CheckLevelUp[p].player = p
    <3>1. CheckLevelUp[p] = NoLevel(p)
      BY <1>2, <1>3, CheckLevelUpIsLoop
    <3> QED BY <3>1 DEF NoLevel
  <2> QED BY <1>2, <2>1 DEF NoWeaker
<1>4. CASE ~(p.exp < p.maxExp)
  <2> DEFINE q == LevelUp(p)
             rest == CheckLevelUp[q]
             r == rest.player
  <2>1. q \in PlayerData /\ q.exp \in Nat /\ q.exp < p.exp
    BY <1>2, <1>4, LevelUpFacts DEF PlayerData
  <2>2. NoWeaker(p, q)
    BY <1>2, LevelUpNoWeaker
  <2>3. NoWeaker(q, r)
    <3>1. mu[p] = p.exp /\ mu[q] = q.exp /\ ~(p.exp <= q.exp)
      BY <1>2, <2>1
    <3> HIDE DEF q, mu
    <3> QED BY <1>1, <2>1, <3>1
  <2>4. rest \in Outcome /\ r \in PlayerData
    <3>1. LoopIsTold(q)
      BY <2>1, LevelUpsAreTold
    <3>2. rest \in Outcome
      BY <3>1 DEF LoopIsTold
    <3> QED BY <3>2 DEF Outcome
  <2>5. CheckLevelUp[p].player = r
    <3>1. CheckLevelUp[p] = OneLevel(p, rest)
      BY <1>2, <1>4, CheckLevelUpIsLoop
    <3> QED BY <1>2, <1>4, <2>4, <3>1, OneLevelType
  <2> HIDE DEF q, r
  <2>6. q.atk \in Nat /\ q.def \in Nat /\ r.atk \in Nat /\ r.def \in Nat
    BY <2>1, <2>4 DEF PlayerData
  <2>7. NoWeaker(p, r)
    BY <1>2, <2>2, <2>3, <2>6 DEF NoWeaker
  <2> QED BY <1>2, <2>5, <2>7
<1> QED BY <1>3, <1>4

\* A payment of exp and gold.
LEMMA PaidNoWeaker ==
  ASSUME NEW p \in PlayerData, NEW exp \in Nat, NEW gold \in Nat
  PROVE  /\ Paid(p, exp, gold).player \in PlayerData
         /\ NoWeaker(p, Paid(p, exp, gold).player)
<1> DEFINE q == [p EXCEPT !.exp = p.exp + exp, !.gold = p.gold + gold]
           c == CheckLevelUp[q]
           s == <<ExpUpdate(q)>> \o c.packets
           r == Paid(p, exp, gold)
<1>1. q \in PlayerData /\ q.hp = p.hp /\ q.maxHp = p.maxHp /\ q.atk = p.atk /\ q.def = p.def
  <2>1. p.exp + exp \in Nat /\ p.gold + gold \in Nat
    BY DEF PlayerData
  <2> QED BY <2>1 DEF PlayerData
<1>2. r = [c EXCEPT !.packets = s]
  BY DEF Paid
<1> HIDE DEF q, s
<1>3. c \in Outcome /\ NoWeaker(q, c.player)
  BY <1>1, LevelUpsAreTold, LevelsNoWeaker DEF LoopIsTold
<1> HIDE DEF c
<1>4. r.player = c.player /\ c.player \in PlayerData
  BY <1>2, <1>3 DEF Outcome
<1> QED BY <1>1, <1>3, <1>4 DEF NoWeaker

\* The character that is loaded: what it wears counts in full, and hit points are
\* left at their maximum.
LEMMA SelectSound ==
  ASSUME TypeOK, Sound(player, weapon, armor), NEW c \in Characters, NEW there, OnCharSelect(c, there)
  PROVE  Sound(player', weapon', armor')
<1>1. player' = LoadStats(player, c) /\ weapon' = c.weapon /\ armor' = c.armor /\ player \in PlayerData
  BY DEF OnCharSelect, TypeOK
<1> DEFINE g == c.gold
           a == IF c.weapon # NoItem THEN 15 + ItemData[c.weapon].atk ELSE player.atk
           d == IF c.armor # NoItem THEN 5 + ItemData[c.armor].def ELSE player.def
<1>2. player' = [player EXCEPT !.level = 1, !.exp = 0, !.gold = g, !.atk = a, !.def = d]
  BY <1>1 DEF LoadStats
<1>3. c.weapon \in MaybeItem /\ c.armor \in MaybeItem
  BY <1>1, LoadStatsFacts
<1>4. /\ c.weapon # NoItem => a >= 15 + ItemData[c.weapon].atk
      /\ c.armor # NoItem => d >= 5 + ItemData[c.armor].def
  BY <1>3, ItemNumbers DEF MaybeItem
<1> HIDE DEF a, d, g
<1>5. player'.hp = player.hp /\ player'.maxHp = player.maxHp /\ player'.atk = a /\ player'.def = d
  BY <1>1, <1>2 DEF PlayerData
<1> QED BY <1>1, <1>4, <1>5 DEF Sound

\* A potion: the sum is not cut off by the conversion, so it is at least the
\* maximum, and the maximum is what is left of it.
LEMMA UseSound ==
  ASSUME TypeOK, HpFits, Sound(player, weapon, armor), NEW i \in Slots, OnItemUse(i)
  PROVE  Sound(player', weapon', armor')
<1>1. /\ bag[i] \in Items /\ player' = Healed(player, bag[i]) /\ UNCHANGED <<weapon, armor>>
      /\ player \in PlayerData
  BY DEF OnItemUse, TypeOK
<1> DEFINE k == ItemData[bag[i]].hp
           x == (player.hp + k) % UINT16
           h == Min({x, player.maxHp})
<1>2. player.hp \in Nat /\ player.maxHp \in Nat /\ k \in Nat /\ UINT16 \in Nat \ {0}
  BY <1>1, ItemNumbers, PlayerAssumption DEF PlayerData
<1>3. player.hp = player.maxHp /\ player.maxHp + k < UINT16
  BY <1>1 DEF Sound, HpFits
<1>4. player' = [player EXCEPT !.hp = h]
  BY <1>1 DEF Healed
<1> HIDE DEF k
<1>5. x = player.maxHp + k
  BY <1>2, <1>3
<1> HIDE DEF x
<1>6. h = player.maxHp
  <2> DEFINE S == {x, player.maxHp}
             m == player.maxHp
  <2>1. m \in S /\ \A y \in S : m <= y
    BY <1>2, <1>5
  <2>2. S \subseteq Nat
    BY <1>2, <1>5
  <2> HIDE DEF S, m
  <2>3. Min(S) = m
    <3> DEFINE n == Min(S)
    <3>1. n \in S /\ \A y \in S : n <= y
      BY <2>1 DEF Min
    <3> HIDE DEF n
    <3>2. m \in Nat /\ n \in Nat /\ m <= n /\ n <= m
      BY <2>1, <2>2, <3>1
    <3>3. n = m
      BY <3>2
    <3> QED BY <3>3 DEF n
  <2> QED BY <2>3 DEF S, m
<1> HIDE DEF h
<1>7. player'.hp = h /\ player'.maxHp = player.maxHp /\ player'.atk = player.atk /\ player'.def = player.def
  BY <1>1, <1>4 DEF PlayerData
<1> QED BY <1>1, <1>6, <1>7 DEF Sound

\* An exchange of weapon or armor.
LEMMA EquipSound ==
  ASSUME TypeOK, Sound(player, weapon, armor), NEW i \in Slots, OnItemEquip(i)
  PROVE  Sound(player', weapon', armor')
<1>1. player \in PlayerData /\ bag[i] \in Items
  BY DEF OnItemEquip, TypeOK
<1> DEFINE a == 15 + ItemData[bag[i]].atk
           d == 5 + ItemData[bag[i]].def
<1>2. a \in Nat /\ d \in Nat
  BY <1>1, ItemNumbers
<1>3. CASE weapon' = bag[i] /\ player' = [player EXCEPT !.atk = a] /\ UNCHANGED armor
  <2>1. a >= 15 + ItemData[weapon'].atk
    BY <1>2, <1>3
  <2> HIDE DEF a
  <2>2. player'.hp = player.hp /\ player'.maxHp = player.maxHp /\ player'.atk = a /\ player'.def = player.def
    BY <1>1, <1>3 DEF PlayerData
  <2> QED BY <1>3, <2>1, <2>2 DEF Sound
<1>4. CASE armor' = bag[i] /\ player' = [player EXCEPT !.def = d] /\ UNCHANGED weapon
  <2>1. d >= 5 + ItemData[armor'].def
    BY <1>2, <1>4
  <2> HIDE DEF d
  <2>2. player'.hp = player.hp /\ player'.maxHp = player.maxHp /\ player'.atk = player.atk /\ player'.def = d
    BY <1>1, <1>4 DEF PlayerData
  <2> QED BY <1>4, <2>1, <2>2 DEF Sound
<1> QED BY <1>3, <1>4 DEF OnItemEquip

\* Gold does not matter.
LEMMA GoldSound ==
  ASSUME NEW p \in PlayerData, NEW g \in Nat, NEW w, NEW a, Sound(p, w, a)
  PROVE  Sound([p EXCEPT !.gold = g], w, a)
<1> DEFINE r == [p EXCEPT !.gold = g]
<1>1. r.hp = p.hp /\ r.maxHp = p.maxHp /\ r.atk = p.atk /\ r.def = p.def
  BY DEF PlayerData
<1> HIDE DEF r
<1>2. Sound(r, w, a)
  BY <1>1 DEF Sound
<1> QED BY <1>2 DEF r

\* Every step keeps the player sound.
LEMMA StepSound ==
  ASSUME IInv, HpFits, Sound(player, weapon, armor), [Next]_vars
  PROVE  Sound(player', weapon', armor')
<1>1. TypeOK /\ player \in PlayerData /\ weapon \in MaybeItem /\ armor \in MaybeItem /\ player.gold \in Nat
  BY DEF IInv, TypeOK, PlayerData
<1>2. ASSUME NEW e \in Nat, NEW g \in Nat, player' = Paid(player, e, g).player, UNCHANGED <<weapon, armor>>
      PROVE  Sound(player', weapon', armor')
  BY <1>1, <1>2, PaidNoWeaker, NoWeakerIsSound
<1>3. ASSUME NEW c \in Characters, NEW there, OnCharSelect(c, there) PROVE Sound(player', weapon', armor')
  BY <1>1, <1>3, SelectSound
<1>4. ASSUME NEW n \in {1, Members}, NEW drop \in MaybeItem, OwnKill(n, drop)
      PROVE  Sound(player', weapon', armor')
  <2> DEFINE e == ExpReward \div n
             g == GoldReward \div n
  <2>1. e \in Nat /\ g \in Nat
    BY ShareFacts
  <2>2. player' = Paid(player, e, g).player /\ UNCHANGED <<weapon, armor>>
    BY <1>4 DEF OwnKill
  <2> HIDE DEF e, g
  <2> QED BY <1>2, <2>1, <2>2
<1>5. CASE SharedKill
  <2> DEFINE e == ExpReward \div Members
             g == GoldReward \div Members
  <2>1. e \in Nat /\ g \in Nat
    BY ShareFacts
  <2>2. player' = Paid(player, e, g).player /\ UNCHANGED <<weapon, armor>>
    BY <1>5 DEF SharedKill, inventory
  <2> HIDE DEF e, g
  <2> QED BY <1>2, <2>1, <2>2
<1>6. ASSUME UNCHANGED <<player, weapon, armor>> PROVE Sound(player', weapon', armor')
  BY <1>6 DEF Sound
<1>7. CASE OnCharCreate \/ OtherKill \/ OnAttendanceCheck \/ OnQuestList \/ Receive \/ UNCHANGED vars
  BY <1>6, <1>7 DEF OnCharCreate, OtherKill, OnAttendanceCheck, OnQuestList, Receive, vars, inventory
<1>8. ASSUME NEW i \in Slots, OnItemUse(i) \/ OnItemEquip(i) PROVE Sound(player', weapon', armor')
  BY <1>1, <1>8, UseSound, EquipSound
<1>9. ASSUME NEW i \in Slots, OnShopSell(i) PROVE Sound(player', weapon', armor')
  <2>1. CASE bag[i] = NoItem
    BY <1>6, <1>9, <2>1 DEF OnShopSell
  <2>2. CASE bag[i] # NoItem
    <3> DEFINE k == ItemData[bag[i]].price \div 5
               g == player.gold + k
    <3>1. player' = [player EXCEPT !.gold = g] /\ UNCHANGED <<weapon, armor>>
      BY <1>9, <2>2 DEF OnShopSell
    <3>2. g \in Nat
      <4>1. bag[i] \in Items
        BY <1>1, <2>2 DEF TypeOK, MaybeItem
      <4>2. ItemData[bag[i]].price \in Nat
        BY <4>1, PlayerAssumption
      <4> QED BY <1>1, <4>2
    <3> HIDE DEF g
    <3> QED BY <1>1, <3>1, <3>2, GoldSound
  <2> QED BY <2>1, <2>2
<1>10. ASSUME NEW item \in Items, OnShopBuy(item) PROVE Sound(player', weapon', armor')
  <2>1. CASE ~(CanPay(item) /\ FindEmptySlot # MAX_INVENTORY)
    BY <1>6, <1>10, <2>1 DEF OnShopBuy
  <2>2. CASE CanPay(item) /\ FindEmptySlot # MAX_INVENTORY
    <3> DEFINE g == player.gold - ItemData[item].price
    <3>1. player' = [player EXCEPT !.gold = g] /\ UNCHANGED <<weapon, armor>>
      BY <1>10, <2>2 DEF OnShopBuy
    <3>2. g \in Nat
      <4>1. ItemData[item].price \in Nat
        BY PlayerAssumption
      <4> QED BY <1>1, <2>2, <4>1 DEF CanPay
    <3> HIDE DEF g
    <3> QED BY <1>1, <3>1, <3>2, GoldSound
  <2> QED BY <2>1, <2>2
<1>11. ASSUME NEW q \in Quests, OnQuestAccept(q) PROVE Sound(player', weapon', armor')
  BY <1>6, <1>11 DEF OnQuestAccept, inventory
<1>12. ASSUME NEW q \in Quests, OnQuestComplete(q) PROVE Sound(player', weapon', armor')
  <2> DEFINE x == QuestData[q]
  <2>1. x \in [target : Nat \ {0}, rewardGold : Nat, rewardExp : Nat, rewardItem : MaybeItem]
    BY PlayerAssumption
  <2>2. player' = Paid(player, x.rewardExp, x.rewardGold).player /\ UNCHANGED <<weapon, armor>>
    BY <1>12 DEF OnQuestComplete
  <2> HIDE DEF x
  <2>3. x.rewardExp \in Nat /\ x.rewardGold \in Nat
    BY <2>1
  <2> QED BY <1>2, <2>2, <2>3
<1>13. ASSUME NEW o \in Others, OtherMoves(o) PROVE Sound(player', weapon', armor')
  BY <1>6, <1>13 DEF OtherMoves, inventory
<1> QED BY <1>3, <1>4, <1>5, <1>7, <1>8, <1>9, <1>10, <1>11, <1>12, <1>13 DEF Next

\* As long as hit points fit their type, the player is never away from its
\* maximum, and weapon and armor count in full, whatever was gained, drunk, loaded
\* or exchanged, and in whichever order: StatsSound.  Without the condition it
\* does not hold, see the README.
THEOREM StatsStaySound == Spec /\ []HpFits => []StatsSound
<1> DEFINE S == Sound(player, weapon, armor)
<1>1. Init => S
  BY DEF Init, Sound, NewPlayer
<1>2. IInv /\ HpFits /\ S /\ [Next]_vars => S'
  BY StepSound
<1>3. IInv /\ S => StatsSound
  BY DEF IInv, Sound, StatsSound
<1> HIDE DEF S
<1> QED BY <1>1, <1>2, <1>3, Invariance, PTL DEF Spec
=============================================================================
