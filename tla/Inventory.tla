------------------------------ MODULE Inventory ------------------------------
(***************************************************************************)
(* Items: the bag and the equipment of each session (g_inventories), the   *)
(* tables inventory and equipment behind them, and the handlers that move  *)
(* items between the two.  Handlers write through to the database and go   *)
(* on whatever the outcome.                                                *)
(*                                                                         *)
(* Gold is left out: whether a player can pay for an item is a             *)
(* nondeterministic choice, so OnShopBuy may succeed for any item.  What   *)
(* an item does to hp, atk and def is left out too.                        *)
(***************************************************************************)
EXTENDS Sessions, FiniteSets

CONSTANTS
    MAX_INVENTORY,                  \* slots of a bag
    Weapons, Armors, Consumables,   \* the item templates (items.json), by type
    DropTids,                       \* the templates of the drop table
    RewardTids,                     \* the templates quests reward
    NoTid,                          \* itemTid 0: an empty slot
    MaxItemUid                      \* bound: rows ever inserted into inventory

Tids == Weapons \cup Armors \cup Consumables

ASSUME InventoryAssumption ==
    /\ MAX_INVENTORY \in Nat /\ MaxItemUid \in Nat
    /\ NoTid \notin Tids
    /\ Weapons \cap Armors = {} /\ Weapons \cap Consumables = {}
    /\ Armors \cap Consumables = {}
    /\ DropTids \subseteq Tids /\ RewardTids \subseteq Tids

VARIABLES
    slots,          \* Inventory::slots of each session
    equipped,       \* weaponUid/weaponTid and armorUid/armorTid of each session
    items,          \* table inventory: the rows, by ItemUid
    equipment,      \* table equipment: ItemUid by CharUid and Slot, NoUid if no row
    nextItemUid     \* the auto-increment key of table inventory

itemVars == <<slots, equipped, items, equipment, nextItemUid>>
vars == <<sessions, nextSessionId, charUid, name,
          slots, equipped, items, equipment, nextItemUid>>

Slot == 0..(MAX_INVENTORY - 1)
EqSlot == {0, 1}                    \* 0 = weapon, 1 = armor
ItemUid == 1..MaxItemUid
NoUid == 0

InvSlot == [itemUid : ItemUid \cup {NoUid}, itemTid : Tids \cup {NoTid}]
Empty == [itemUid |-> NoUid, itemTid |-> NoTid]
Row == [owner : MaybeChar, itemTid : Tids, deleted : BOOLEAN]
EmptyBag == [i \in Slot |-> Empty]
NoGear == [k \in EqSlot |-> Empty]

Init ==
    /\ SessionInit
    /\ slots = [s \in SessionId |-> EmptyBag]
    /\ equipped = [s \in SessionId |-> NoGear]
    /\ items = [u \in {} |-> 0]
    /\ equipment = [c \in MaybeChar |-> [k \in EqSlot |-> NoUid]]
    /\ nextItemUid = 1

-----------------------------------------------------------------------------
(* spInventoryLoad and LoadInventory. *)

\* Result set 1: the character's rows that are not deleted, by ItemUid.
Owned(c) == {u \in DOMAIN items : items[u].owner = c /\ ~items[u].deleted}
AsSlot(u) == [itemUid |-> u, itemTid |-> items[u].itemTid]
Rank(u, c) == Cardinality({v \in Owned(c) : v < u})
LoadedSlots(c) ==
    [i \in Slot |->
        IF i < Cardinality(Owned(c))
        THEN AsSlot(CHOOSE u \in Owned(c) : Rank(u, c) = i)
        ELSE Empty]

\* Result set 2: the character's equipment, joined with inventory whether or
\* not the row is deleted.
LoadedGear(c) ==
    [k \in EqSlot |->
        IF equipment[c][k] \in DOMAIN items THEN AsSlot(equipment[c][k]) ELSE Empty]

\* What the load reads on top of bag and gear.  A row that cannot be fetched
\* ends its result set, a second result set that does not come leaves the gear
\* alone, and what was read so far stays: the load is a success all the same.
ReadInto(s, c, answered, bag, gear) ==
    \E n \in 0..Cardinality(Owned(c)), K \in SUBSET {k \in EqSlot : LoadedGear(c)[k] # Empty} :
        /\ ~answered => n = 0 /\ K = {}
        /\ slots' = [slots EXCEPT ![s] =
              [i \in Slot |-> IF i < n THEN LoadedSlots(c)[i] ELSE bag[i]]]
        /\ equipped' = [equipped EXCEPT ![s] =
              [k \in EqSlot |-> IF k \in K THEN LoadedGear(c)[k] ELSE gear[k]]]

\* Mutant: the memset is missing, and what is not read keeps its old contents.
LoadWithoutMemset(s, c, answered) == ReadInto(s, c, answered, slots[s], equipped[s])
LoadInventory(s, c, answered) == ReadInto(s, c, answered, EmptyBag, NoGear)

OnCharSelect(s, c) ==
    /\ SelectChar(s, c)
    /\ \E answered \in {Answered(o) : o \in DBOutcomes} : LoadInventory(s, c, answered)
    /\ UNCHANGED <<items, equipment, nextItemUid>>

-----------------------------------------------------------------------------
(* Gaining an item: the shop, a drop, a quest reward. *)

IsEmptySlot(s, i) == slots[s][i].itemTid = NoTid
FindEmptySlot(s, i) == IsEmptySlot(s, i) /\ \A j \in Slot : j < i => ~IsEmptySlot(s, j)

\* spInventoryAdd, once for each time it took effect.  Without an answer the
\* uid stays 0.
Inserts(o) == IF o = "twice" THEN 2 ELSE IF Executed(o) THEN 1 ELSE 0
NewUid(o) == IF Answered(o) THEN nextItemUid + Inserts(o) - 1 ELSE NoUid
AddItemToDB(c, t, o) ==
    /\ nextItemUid + Inserts(o) <= MaxItemUid + 1
    /\ items' = [u \in 1..(nextItemUid + Inserts(o) - 1) |->
                    IF u < nextItemUid THEN items[u]
                    ELSE [owner |-> c, itemTid |-> t, deleted |-> FALSE]]
    /\ nextItemUid' = nextItemUid + Inserts(o)

GiveItem(s, t) ==
    /\ s \in sessions
    /\ \E i \in Slot, o \in DBOutcomes :
          /\ FindEmptySlot(s, i)
          /\ AddItemToDB(charUid[s], t, o)
          /\ slots' = [slots EXCEPT ![s][i] = [itemUid |-> NewUid(o), itemTid |-> t]]
    /\ UNCHANGED <<sessionVars, equipped, equipment>>

OnShopBuy(s) == \E t \in Tids : GiveItem(s, t)
ItemDrop(s) == \E t \in DropTids : GiveItem(s, t)
QuestItem(s) == \E t \in RewardTids : GiveItem(s, t)

-----------------------------------------------------------------------------
(* Losing an item: using it up or selling it. *)

\* spInventoryRemove: soft delete, and out of the equipment table.
RemoveItemFromDB(u, o) ==
    /\ items' = IF Executed(o) /\ u \in DOMAIN items
                THEN [items EXCEPT ![u].deleted = TRUE] ELSE items
    /\ equipment' = [c \in MaybeChar |-> [k \in EqSlot |->
                        IF Executed(o) /\ equipment[c][k] = u THEN NoUid ELSE equipment[c][k]]]

TakeItem(s, i) ==
    /\ s \in sessions
    /\ ~IsEmptySlot(s, i)
    /\ \E o \in DBOutcomes : RemoveItemFromDB(slots[s][i].itemUid, o)
    /\ slots' = [slots EXCEPT ![s][i] = Empty]
    /\ UNCHANGED <<sessionVars, equipped, nextItemUid>>

OnItemUse(s, i) == slots[s][i].itemTid \in Consumables /\ TakeItem(s, i)
OnShopSell(s, i) == TakeItem(s, i)

-----------------------------------------------------------------------------
(* Equipping: the item in the bag and the item in the hand change places. *)

AlwaysWeaponSlot(t) == 0            \* mutant: armor goes to the weapon's slot
eqSlot(t) == IF t \in Weapons THEN 0 ELSE 1

ClearedSlot(s, i, k) == Empty       \* mutant: what was equipped is thrown away
OldItem(s, i, k) == equipped[s][k]

\* spEquipItem: one row for each character and slot.  A row with the uid 0, of
\* an item whose insert was never answered, joins with no row of inventory:
\* it counts as none (NoUid).
EquipItemDB(c, k, u, o) ==
    equipment' = IF Executed(o) THEN [equipment EXCEPT ![c][k] = u] ELSE equipment

OnItemEquip(s, i) ==
    LET new == slots[s][i]
        k == eqSlot(new.itemTid)
    IN  /\ s \in sessions
        /\ new.itemTid \in Weapons \cup Armors
        /\ equipped' = [equipped EXCEPT ![s][k] = new]
        /\ slots' = [slots EXCEPT ![s][i] = OldItem(s, i, k)]
        /\ \E o \in DBOutcomes : EquipItemDB(charUid[s], k, new.itemUid, o)
        /\ UNCHANGED <<sessionVars, items, nextItemUid>>

-----------------------------------------------------------------------------
DoAccept == AddSession /\ UNCHANGED itemVars

\* OnPlayerDisconnect erases the session's inventory.  An entry that is not
\* there and one just created by operator[] are both empty.
OnDisconnect(s) ==
    /\ s \in sessions
    /\ RemoveSession(s)
    /\ slots' = [slots EXCEPT ![s] = EmptyBag]
    /\ equipped' = [equipped EXCEPT ![s] = NoGear]
    /\ UNCHANGED <<items, equipment, nextItemUid>>

Next ==
    \/ DoAccept
    \/ \E s \in SessionId :
          \/ \E c \in CharUids : OnCharSelect(s, c)
          \/ OnShopBuy(s)
          \/ ItemDrop(s)
          \/ QuestItem(s)
          \/ \E i \in Slot : OnItemUse(s, i) \/ OnShopSell(s, i) \/ OnItemEquip(s, i)
          \/ OnDisconnect(s)

Spec == Init /\ [][Next]_vars

-----------------------------------------------------------------------------
\* What each variable holds.
TypeOK ==
    /\ SessionTypeOK
    /\ slots \in [SessionId -> [Slot -> InvSlot]]
    /\ equipped \in [SessionId -> [EqSlot -> InvSlot]]
    /\ nextItemUid \in 1..(MaxItemUid + 1)
    /\ items \in [1..(nextItemUid - 1) -> Row]
    /\ equipment \in [MaybeChar -> [EqSlot -> ItemUid \cup {NoUid}]]

InHand(s) == {slots[s][i] : i \in Slot} \cup {equipped[s][k] : k \in EqSlot}
Held(s) == {x.itemUid : x \in InHand(s)} \ {NoUid}

\* What a session holds under a uid is that row of its own character: nothing
\* of a character played before on the same connection stays behind, however
\* the statements of OnCharSelect end.  (Types included.)
HeldIsOwn ==
    /\ TypeOK
    /\ \A s \in SessionId : \A x \in InHand(s) : x.itemUid # NoUid =>
          /\ x.itemUid \in DOMAIN items
          /\ items[x.itemUid].owner = charUid[s]
          /\ items[x.itemUid].itemTid = x.itemTid

\* The equipment table, written from what the session holds, gives each
\* character weapons of its own in slot 0 and armor of its own in slot 1.
EquipmentSound ==
    \A c \in MaybeChar : \A k \in EqSlot : equipment[c][k] # NoUid =>
        LET u == equipment[c][k]
        IN  /\ u \in DOMAIN items
            /\ items[u].owner = c
            /\ items[u].itemTid \in (IF k = 0 THEN Weapons ELSE Armors)

\* A session that goes on playing its character loses hold of an item only when
\* its row is deleted, when it gives the item up itself (the row survives a
\* failed statement), or at a new load that ended before it came to the row of
\* the item: it failed, it was cut off, or the bag was full.  No exchange of
\* equipment loses one, however full the bag is.
GivenUp(s, u) == \E i \in Slot : slots[s][i].itemUid = u /\ slots'[s][i] = Empty
LoadStopped(s, u) ==
    /\ \A i \in Slot : i >= Rank(u, charUid[s]) => slots'[s][i] = Empty
    /\ OnCharSelect(s, charUid[s])
NothingSlipsAway ==
    [][\A s \in sessions \cap sessions' : charUid'[s] = charUid[s] =>
          \A u \in Held(s) \ Held(s)' :
             \/ items'[u].deleted
             \/ GivenUp(s, u)
             \/ LoadStopped(s, u)]_vars

\* "Remove item (soft delete)": an item that was used up or sold is in nobody's
\* bag and in nobody's hand.
RemovedIsGone ==
    \A s \in SessionId : \A u \in Held(s) : ~items[u].deleted
=============================================================================
