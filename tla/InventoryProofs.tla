--------------------------- MODULE InventoryProofs ---------------------------
(***************************************************************************)
(* Proofs about bags, equipment and the tables behind them, for any number *)
(* of sessions, characters, templates and slots and for every outcome of   *)
(* the database calls.                                                     *)
(***************************************************************************)
EXTENDS Inventory, FiniteSetTheorems, TLAPS

\* What x claims to be is one of the rows, and it is character c's.
Own(x, c, rows) ==
    x.itemUid # NoUid =>
        /\ x.itemUid \in DOMAIN rows
        /\ rows[x.itemUid].owner = c
        /\ rows[x.itemUid].itemTid = x.itemTid

\* HeldIsOwn without the types, slot by slot.
AllOwn ==
    \A s \in SessionId :
        /\ \A i \in Slot : Own(slots[s][i], charUid[s], items)
        /\ \A k \in EqSlot : Own(equipped[s][k], charUid[s], items)

IInv == TypeOK /\ AllOwn /\ EquipmentSound

\* No handler changes whose an item is or what it is: rows are added and marked
\* deleted, nothing else.
RowsStay ==
    \A u \in DOMAIN items :
        /\ u \in DOMAIN items'
        /\ items'[u].owner = items[u].owner
        /\ items'[u].itemTid = items[u].itemTid

-----------------------------------------------------------------------------
(* spInventoryLoad: the rank of a row among those of its character is the  *)
(* slot it is loaded to.                                                   *)

\* A character has finitely many rows.
LEMMA OwnedFinite ==
  ASSUME TypeOK, NEW c
  PROVE  /\ IsFiniteSet(Owned(c)) /\ Cardinality(Owned(c)) \in Nat
         /\ Owned(c) \subseteq Nat
<1>1. DOMAIN items = 1..(nextItemUid - 1) /\ nextItemUid - 1 \in Int
  BY DEF TypeOK
<1>2. IsFiniteSet(DOMAIN items)
  BY <1>1, FS_Interval
<1>3. Owned(c) \in SUBSET DOMAIN items
  BY DEF Owned
<1> QED BY <1>1, <1>2, <1>3, FS_Subset, FS_CardinalityType

\* Ranks count from 0 without a gap and without a repetition.
LEMMA RankIsBijection ==
  ASSUME TypeOK, NEW c
  PROVE  /\ \A u \in Owned(c) : Rank(u, c) \in 0..(Cardinality(Owned(c)) - 1)
         /\ \A u, v \in Owned(c) : Rank(u, c) = Rank(v, c) => u = v
         /\ \A i \in 0..(Cardinality(Owned(c)) - 1) : \E u \in Owned(c) : Rank(u, c) = i
<1> DEFINE S == Owned(c)
           n == Cardinality(S)
           Below(u) == {v \in S : v < u}
           f == [u \in S |-> Rank(u, c)]
<1>1. IsFiniteSet(S) /\ n \in Nat /\ S \subseteq Nat
  BY OwnedFinite
<1>2. \A u \in S : IsFiniteSet(Below(u)) /\ Cardinality(Below(u)) \in Nat
  BY <1>1, FS_Subset, FS_CardinalityType
<1>3. ASSUME NEW u \in S PROVE Rank(u, c) \in 0..(n - 1)
  <2>1. IsFiniteSet(S \ {u}) /\ Cardinality(S \ {u}) = n - 1
    BY <1>1, FS_RemoveElement
  <2>2. Below(u) \in SUBSET (S \ {u})
    BY <1>1
  <2>3. Cardinality(Below(u)) <= n - 1
    BY <2>1, <2>2, FS_Subset
  <2> QED BY <1>1, <1>2, <2>3 DEF Rank
<1>4. ASSUME NEW u \in S, NEW v \in S, u < v PROVE Rank(u, c) # Rank(v, c)
  <2>1. Below(u) \in SUBSET Below(v)
    BY <1>1, <1>4
  <2>2. u \in Below(v) /\ u \notin Below(u)
    BY <1>1, <1>4
  <2>3. Cardinality(Below(v)) # Cardinality(Below(u))
    BY <1>2, <2>1, <2>2, FS_Subset
  <2> QED BY <2>3 DEF Rank
<1>5. \A u, v \in S : Rank(u, c) = Rank(v, c) => u = v
  BY <1>1, <1>4
<1>6. f \in Injection(S, 0..(n - 1))
  <2>1. f \in [S -> 0..(n - 1)]
    BY <1>3
  <2> HIDE DEF S, n
  <2> QED BY <1>5, <2>1 DEF Injection, IsInjective
<1>7. IsFiniteSet(0..(n - 1)) /\ Cardinality(0..(n - 1)) = n
  BY <1>1, FS_Interval
<1>8. f \in Surjection(S, 0..(n - 1))
  <2> HIDE DEF f, n
  <2> QED BY <1>6, <1>7, FS_Injection DEF n
<1>9. ASSUME NEW i \in 0..(n - 1) PROVE \E u \in S : Rank(u, c) = i
  <2>1. PICK u \in S : f[u] = i
    <3> HIDE DEF f, S, n
    <3> QED BY <1>8, <1>9 DEF Surjection
  <2> QED BY <2>1
<1> QED BY <1>3, <1>5, <1>9

\* A slot in use holds one of the character's rows, and a row whose rank is a
\* slot is in that slot.
LEMMA LoadedSlotsFacts ==
  ASSUME TypeOK, NEW c
  PROVE  /\ \A i \in Slot : i < Cardinality(Owned(c)) =>
              \E u \in Owned(c) : Rank(u, c) = i /\ LoadedSlots(c)[i] = AsSlot(u)
         /\ \A i \in Slot : ~(i < Cardinality(Owned(c))) => LoadedSlots(c)[i] = Empty
         /\ \A u \in Owned(c) : Rank(u, c) \in Slot =>
              LoadedSlots(c)[Rank(u, c)] = AsSlot(u)
<1> DEFINE n == Cardinality(Owned(c))
<1>1. n \in Nat
  BY OwnedFinite
<1>2. ASSUME NEW i \in Slot, i < n
      PROVE  \E u \in Owned(c) : Rank(u, c) = i /\ LoadedSlots(c)[i] = AsSlot(u)
  <2>1. i \in 0..(n - 1)
    BY <1>1, <1>2, InventoryAssumption DEF Slot
  <2>2. \E u \in Owned(c) : Rank(u, c) = i
    BY <2>1, RankIsBijection
  <2>3. LoadedSlots(c)[i] = AsSlot(CHOOSE u \in Owned(c) : Rank(u, c) = i)
    BY <1>2 DEF LoadedSlots
  <2> QED BY <2>2, <2>3
<1>3. ASSUME NEW i \in Slot, ~(i < n) PROVE LoadedSlots(c)[i] = Empty
  BY <1>3 DEF LoadedSlots
<1>4. ASSUME NEW u \in Owned(c), Rank(u, c) \in Slot
      PROVE  LoadedSlots(c)[Rank(u, c)] = AsSlot(u)
  <2>1. Rank(u, c) \in 0..(n - 1)
    BY RankIsBijection
  <2>2. Rank(u, c) < n
    BY <1>1, <2>1
  <2>3. PICK v \in Owned(c) : Rank(v, c) = Rank(u, c)
                              /\ LoadedSlots(c)[Rank(u, c)] = AsSlot(v)
    BY <1>2, <1>4, <2>2
  <2>4. v = u
    BY <2>3, RankIsBijection
  <2> QED BY <2>2, <2>3, <2>4
<1> QED BY <1>2, <1>3, <1>4

\* An item read from its row is well typed and belongs to the row's owner.
LEMMA AsSlotFacts ==
  ASSUME TypeOK, NEW u \in DOMAIN items
  PROVE  /\ AsSlot(u) \in InvSlot
         /\ \A c : items[u].owner = c => Own(AsSlot(u), c, items)
<1>1. u \in ItemUid /\ items[u] \in Row
  BY InventoryAssumption DEF TypeOK, ItemUid
<1> QED BY <1>1 DEF AsSlot, InvSlot, Own, Row

\* An empty slot claims nothing.
LEMMA EmptyFacts ==
  Empty \in InvSlot /\ \A c, rows : Own(Empty, c, rows)
  BY DEF Empty, InvSlot, Own, NoUid

\* The rows of a character are its own.
LEMMA LoadedIsOwn ==
  ASSUME IInv, NEW c \in MaybeChar
  PROVE  /\ LoadedSlots(c) \in [Slot -> InvSlot]
         /\ LoadedGear(c) \in [EqSlot -> InvSlot]
         /\ \A i \in Slot : Own(LoadedSlots(c)[i], c, items)
         /\ \A k \in EqSlot : Own(LoadedGear(c)[k], c, items)
<1>1. TypeOK
  BY DEF IInv
<1>2. ASSUME NEW i \in Slot
      PROVE  LoadedSlots(c)[i] \in InvSlot /\ Own(LoadedSlots(c)[i], c, items)
  <2>1. CASE i < Cardinality(Owned(c))
    <3>1. PICK u \in Owned(c) : LoadedSlots(c)[i] = AsSlot(u)
      BY <1>1, <2>1, LoadedSlotsFacts
    <3>2. u \in DOMAIN items /\ items[u].owner = c
      BY DEF Owned
    <3> QED BY <1>1, <3>1, <3>2, AsSlotFacts
  <2>2. CASE ~(i < Cardinality(Owned(c)))
    BY <1>1, <2>2, LoadedSlotsFacts, EmptyFacts
  <2> QED BY <2>1, <2>2
<1>3. ASSUME NEW k \in EqSlot
      PROVE  LoadedGear(c)[k] \in InvSlot /\ Own(LoadedGear(c)[k], c, items)
  <2>1. CASE equipment[c][k] \in DOMAIN items
    <3>1. equipment[c][k] # NoUid
      BY <1>1, <2>1 DEF TypeOK, NoUid
    <3>2. items[equipment[c][k]].owner = c
      BY <3>1 DEF IInv, EquipmentSound
    <3>3. LoadedGear(c)[k] = AsSlot(equipment[c][k])
      BY <2>1 DEF LoadedGear
    <3> QED BY <1>1, <2>1, <3>2, <3>3, AsSlotFacts
  <2>2. CASE equipment[c][k] \notin DOMAIN items
    BY <2>2, EmptyFacts DEF LoadedGear
  <2> QED BY <2>1, <2>2
<1>4. /\ LoadedSlots(c) = [i \in Slot |-> LoadedSlots(c)[i]]
      /\ LoadedGear(c) = [k \in EqSlot |-> LoadedGear(c)[k]]
  BY DEF LoadedSlots, LoadedGear
<1> QED BY <1>2, <1>3, <1>4

\* What LoadInventory leaves in the bag and in the hands is the character's,
\* however far it read.
LEMMA ReadIsOwn ==
  ASSUME IInv, NEW s \in SessionId, NEW c \in MaybeChar, NEW answered,
         LoadInventory(s, c, answered)
  PROVE  \E b \in [Slot -> InvSlot], g \in [EqSlot -> InvSlot] :
            /\ slots' = [slots EXCEPT ![s] = b]
            /\ equipped' = [equipped EXCEPT ![s] = g]
            /\ \A i \in Slot : Own(b[i], c, items)
            /\ \A k \in EqSlot : Own(g[k], c, items)
<1>1. PICK n \in 0..Cardinality(Owned(c)), K \in SUBSET {k \in EqSlot : LoadedGear(c)[k] # Empty} :
        /\ slots' = [slots EXCEPT ![s] =
              [i \in Slot |-> IF i < n THEN LoadedSlots(c)[i] ELSE EmptyBag[i]]]
        /\ equipped' = [equipped EXCEPT ![s] =
              [k \in EqSlot |-> IF k \in K THEN LoadedGear(c)[k] ELSE NoGear[k]]]
  BY DEF LoadInventory, ReadInto
<1> DEFINE b == [i \in Slot |-> IF i < n THEN LoadedSlots(c)[i] ELSE EmptyBag[i]]
           g == [k \in EqSlot |-> IF k \in K THEN LoadedGear(c)[k] ELSE NoGear[k]]
<1>2. b \in [Slot -> InvSlot] /\ g \in [EqSlot -> InvSlot]
  BY LoadedIsOwn, EmptyFacts DEF EmptyBag, NoGear
<1>3. /\ \A i \in Slot : Own(b[i], c, items)
      /\ \A k \in EqSlot : Own(g[k], c, items)
  BY LoadedIsOwn, EmptyFacts DEF EmptyBag, NoGear
<1>4. slots' = [slots EXCEPT ![s] = b] /\ equipped' = [equipped EXCEPT ![s] = g]
  BY <1>1
<1> HIDE DEF b, g
<1> QED BY <1>2, <1>3, <1>4

-----------------------------------------------------------------------------
(* What the changes of the tables keep. *)

\* Who owned an item owns it still.
LEMMA OwnStays ==
  ASSUME RowsStay, NEW x, NEW c, Own(x, c, items) PROVE Own(x, c, items')
  BY DEF RowsStay, Own

\* Rows that stay keep the equipment table sound where it is not written.
LEMMA EquipmentStays ==
  ASSUME IInv, RowsStay, UNCHANGED equipment PROVE EquipmentSound'
  BY DEF IInv, EquipmentSound, RowsStay

\* spInventoryAdd appends rows of the caller's character; the uid it answers with
\* is one of them.
LEMMA AddItem ==
  ASSUME TypeOK, NEW c \in MaybeChar, NEW t \in Tids, NEW o \in DBOutcomes,
         AddItemToDB(c, t, o)
  PROVE  /\ RowsStay
         /\ nextItemUid' \in 1..(MaxItemUid + 1)
         /\ items' \in [1..(nextItemUid' - 1) -> Row]
         /\ [itemUid |-> NewUid(o), itemTid |-> t] \in InvSlot
         /\ Own([itemUid |-> NewUid(o), itemTid |-> t], c, items')
<1> DEFINE n == nextItemUid
           m == Inserts(o)
           row == [owner |-> c, itemTid |-> t, deleted |-> FALSE]
<1>1. m \in {0, 1, 2} /\ (Answered(o) => m \in {1, 2})
  BY SessionAssumption DEF Inserts, Executed, Answered
<1>2. n \in Nat /\ n >= 1 /\ MaxItemUid \in Nat /\ n + m <= MaxItemUid + 1
  BY InventoryAssumption DEF TypeOK, AddItemToDB
<1>3. items' = [u \in 1..(n + m - 1) |-> IF u < n THEN items[u] ELSE row] /\ nextItemUid' = n + m
  BY DEF AddItemToDB
<1>4. row \in Row
  BY DEF Row
<1>5. items \in [1..(n - 1) -> Row]
  BY DEF TypeOK
<1> HIDE DEF row, m, n
<1>6. DOMAIN items' = 1..(n + m - 1) /\ \A u \in 1..(n - 1) : items'[u] = items[u]
  BY <1>1, <1>2, <1>3
<1>7. RowsStay
  BY <1>1, <1>2, <1>5, <1>6 DEF RowsStay
<1>8. nextItemUid' \in 1..(MaxItemUid + 1) /\ nextItemUid' - 1 = n + m - 1
  BY <1>1, <1>2, <1>3
<1>9. items' \in [1..(n + m - 1) -> Row]
  BY <1>1, <1>2, <1>3, <1>4, <1>5
<1>10. NewUid(o) = IF Answered(o) THEN n + m - 1 ELSE NoUid
  BY DEF NewUid, n, m
<1>11. [itemUid |-> NewUid(o), itemTid |-> t] \in InvSlot
  BY <1>1, <1>2, <1>10 DEF InvSlot, ItemUid
<1>12. Answered(o) => /\ n + m - 1 \in DOMAIN items'
                      /\ items'[n + m - 1] = row
  BY <1>1, <1>2, <1>3, <1>6
<1>13. row.owner = c /\ row.itemTid = t
  BY DEF row
<1>14. Own([itemUid |-> NewUid(o), itemTid |-> t], c, items')
  <2> SUFFICES ASSUME NewUid(o) # NoUid
               PROVE  /\ NewUid(o) \in DOMAIN items'
                      /\ items'[NewUid(o)].owner = c
                      /\ items'[NewUid(o)].itemTid = t
    BY DEF Own
  <2> QED BY <1>10, <1>12, <1>13
<1> QED BY <1>7, <1>8, <1>9, <1>11, <1>14

\* spInventoryRemove marks the row and clears entries of the equipment table.
LEMMA RemoveItem ==
  ASSUME IInv, NEW u, NEW o \in DBOutcomes, RemoveItemFromDB(u, o)
  PROVE  /\ RowsStay
         /\ items' \in [1..(nextItemUid - 1) -> Row]
         /\ equipment' \in [MaybeChar -> [EqSlot -> ItemUid \cup {NoUid}]]
         /\ EquipmentSound'
<1>1. items' = items \/ (u \in DOMAIN items /\ items' = [items EXCEPT ![u].deleted = TRUE])
  BY DEF RemoveItemFromDB
<1>2. items \in [1..(nextItemUid - 1) -> Row]
  BY DEF IInv, TypeOK
<1>3. RowsStay /\ items' \in [1..(nextItemUid - 1) -> Row]
  <2>1. CASE items' = items
    BY <1>2, <2>1 DEF RowsStay
  <2>2. CASE u \in DOMAIN items /\ items' = [items EXCEPT ![u].deleted = TRUE]
    <3> DEFINE x == [items[u] EXCEPT !.deleted = TRUE]
    <3>1. items[u] \in Row
      BY <1>2, <2>2
    <3>2. x \in Row /\ x.owner = items[u].owner /\ x.itemTid = items[u].itemTid
      BY <3>1 DEF Row
    <3>3. items' = [items EXCEPT ![u] = x]
      BY <2>2
    <3> HIDE DEF x
    <3> QED BY <1>2, <2>2, <3>2, <3>3 DEF RowsStay
  <2> QED BY <1>1, <2>1, <2>2
<1>4. \A c \in MaybeChar : \A k \in EqSlot : equipment'[c][k] \in {NoUid, equipment[c][k]}
  BY DEF RemoveItemFromDB
<1>5. equipment' \in [MaybeChar -> [EqSlot -> ItemUid \cup {NoUid}]]
  BY DEF RemoveItemFromDB, IInv, TypeOK
<1>6. EquipmentSound'
  BY <1>3, <1>4 DEF IInv, EquipmentSound, RowsStay
<1> QED BY <1>3, <1>5, <1>6

-----------------------------------------------------------------------------
\* The bags and the tables are empty at first.
LEMMA InitEstablishes == Init => IInv
<1> SUFFICES ASSUME Init PROVE IInv
  OBVIOUS
<1>1. EmptyBag \in [Slot -> InvSlot] /\ NoGear \in [EqSlot -> InvSlot]
  BY EmptyFacts DEF EmptyBag, NoGear
<1>2. 1..(1 - 1) = {}
  OBVIOUS
<1>3. TypeOK
  BY <1>1, <1>2, SessionAssumption, InventoryAssumption
     DEF Init, SessionInit, TypeOK, SessionTypeOK, SessionId, MaybeChar
<1>4. AllOwn
  BY EmptyFacts DEF Init, AllOwn, EmptyBag, NoGear
<1>5. EquipmentSound
  BY DEF Init, EquipmentSound
<1> QED BY <1>3, <1>4, <1>5 DEF IInv

\* A step that touches no row, no bag and no character keeps what is held.
LEMMA OthersKeep ==
  ASSUME IInv, RowsStay, NEW s \in SessionId,
         slots'[s] = slots[s], equipped'[s] = equipped[s], charUid'[s] = charUid[s]
  PROVE  /\ \A i \in Slot : Own(slots'[s][i], charUid'[s], items')
         /\ \A k \in EqSlot : Own(equipped'[s][k], charUid'[s], items')
  BY OwnStays DEF IInv, AllOwn

\* An item is gained: it goes to an empty slot, with the uid the database gave.
LEMMA GiveItemStep ==
  ASSUME IInv, NEW s \in SessionId, NEW t \in Tids, GiveItem(s, t) PROVE IInv'
<1> DEFINE c == charUid[s]
<1>t. TypeOK
  BY DEF IInv
<1>1. PICK i \in Slot, o \in DBOutcomes :
        /\ AddItemToDB(c, t, o)
        /\ slots' = [slots EXCEPT ![s][i] = [itemUid |-> NewUid(o), itemTid |-> t]]
  BY DEF GiveItem
<1> DEFINE x == [itemUid |-> NewUid(o), itemTid |-> t]
<1>2. UNCHANGED <<sessions, nextSessionId, charUid, name, equipped, equipment>>
  BY DEF GiveItem, sessionVars
<1>3. c \in MaybeChar
  BY <1>t DEF TypeOK, SessionTypeOK
<1>4. /\ RowsStay /\ nextItemUid' \in 1..(MaxItemUid + 1)
      /\ items' \in [1..(nextItemUid' - 1) -> Row]
      /\ x \in InvSlot /\ Own(x, c, items')
  BY <1>t, <1>1, <1>3, AddItem
<1>5. slots' = [slots EXCEPT ![s][i] = x]
  BY <1>1
<1> HIDE DEF x, c
<1>6. TypeOK'
  <2>1. slots' \in [SessionId -> [Slot -> InvSlot]]
    BY <1>t, <1>4, <1>5 DEF TypeOK
  <2> QED BY <1>t, <1>2, <1>4, <2>1 DEF TypeOK, SessionTypeOK
<1>7. AllOwn'
  <2>1. ASSUME NEW r \in SessionId
        PROVE  /\ \A j \in Slot : Own(slots'[r][j], charUid'[r], items')
               /\ \A k \in EqSlot : Own(equipped'[r][k], charUid'[r], items')
    <3>1. CASE r = s
      <4>1. ASSUME NEW j \in Slot PROVE slots'[s][j] = IF j = i THEN x ELSE slots[s][j]
        BY <1>t, <1>5 DEF TypeOK
      <4>2. \A j \in Slot : Own(slots'[s][j], c, items')
        BY <1>4, <4>1, OwnStays DEF IInv, AllOwn, c
      <4>3. \A k \in EqSlot : Own(equipped'[s][k], c, items')
        BY <1>2, <1>4, OwnStays DEF IInv, AllOwn, c
      <4> QED BY <1>2, <3>1, <4>2, <4>3 DEF c
    <3>2. CASE r # s
      <4>1. slots'[r] = slots[r]
        BY <1>t, <1>5, <3>2 DEF TypeOK
      <4> QED BY <1>2, <1>4, <4>1, OthersKeep
    <3> QED BY <3>1, <3>2
  <2> QED BY <2>1 DEF AllOwn
<1> QED BY <1>2, <1>4, <1>6, <1>7, EquipmentStays DEF IInv

\* An item is used up or sold: its slot is emptied.
LEMMA TakeItemStep ==
  ASSUME IInv, NEW s \in SessionId, NEW i \in Slot, TakeItem(s, i) PROVE IInv'
<1>t. TypeOK
  BY DEF IInv
<1>1. PICK o \in DBOutcomes : RemoveItemFromDB(slots[s][i].itemUid, o)
  BY DEF TakeItem
<1>2. /\ slots' = [slots EXCEPT ![s][i] = Empty]
      /\ UNCHANGED <<sessions, nextSessionId, charUid, name, equipped, nextItemUid>>
  BY DEF TakeItem, sessionVars
<1>3. /\ RowsStay /\ items' \in [1..(nextItemUid - 1) -> Row]
      /\ equipment' \in [MaybeChar -> [EqSlot -> ItemUid \cup {NoUid}]]
      /\ EquipmentSound'
  BY <1>1, RemoveItem
<1>4. TypeOK'
  <2>1. slots' \in [SessionId -> [Slot -> InvSlot]]
    BY <1>t, <1>2, EmptyFacts DEF TypeOK
  <2> QED BY <1>t, <1>2, <1>3, <2>1 DEF TypeOK, SessionTypeOK
<1>5. AllOwn'
  <2>1. ASSUME NEW r \in SessionId
        PROVE  /\ \A j \in Slot : Own(slots'[r][j], charUid'[r], items')
               /\ \A k \in EqSlot : Own(equipped'[r][k], charUid'[r], items')
    <3>1. ASSUME NEW j \in Slot PROVE slots'[r][j] \in {slots[r][j], Empty}
      BY <1>t, <1>2 DEF TypeOK
    <3>2. \A j \in Slot : Own(slots'[r][j], charUid[r], items')
      BY <1>3, <3>1, OwnStays, EmptyFacts DEF IInv, AllOwn
    <3>3. \A k \in EqSlot : Own(equipped'[r][k], charUid[r], items')
      BY <1>2, <1>3, OwnStays DEF IInv, AllOwn
    <3> QED BY <1>2, <3>2, <3>3
  <2> QED BY <2>1 DEF AllOwn
<1> QED BY <1>3, <1>4, <1>5 DEF IInv

\* The item in the bag and the one in the hand change places, and the equipment
\* table is told of the first, whatever comes of it.
LEMMA EquipStep ==
  ASSUME IInv, NEW s \in SessionId, NEW i \in Slot, OnItemEquip(s, i) PROVE IInv'
<1> DEFINE c == charUid[s]
           new == slots[s][i]
           k == eqSlot(new.itemTid)
           old == equipped[s][k]
<1>t. TypeOK
  BY DEF IInv
<1>1. /\ equipped' = [equipped EXCEPT ![s][k] = new]
      /\ slots' = [slots EXCEPT ![s][i] = old]
      /\ equipment' = equipment \/ equipment' = [equipment EXCEPT ![c][k] = new.itemUid]
      /\ UNCHANGED <<sessions, nextSessionId, charUid, name, items, nextItemUid>>
      /\ new.itemTid \in Weapons \cup Armors
  BY DEF OnItemEquip, OldItem, EquipItemDB, sessionVars
<1>2. c \in MaybeChar /\ k \in EqSlot /\ new \in InvSlot /\ old \in InvSlot
  BY <1>t DEF TypeOK, SessionTypeOK, eqSlot, EqSlot
<1>3. /\ new.itemUid \in ItemUid \cup {NoUid}
      /\ new.itemTid \in (IF k = 0 THEN Weapons ELSE Armors)
  BY <1>1, <1>2, InventoryAssumption DEF InvSlot, eqSlot
<1>4. RowsStay
  BY <1>1 DEF RowsStay
<1>5. Own(new, c, items') /\ Own(old, c, items')
  BY <1>1, <1>2 DEF IInv, AllOwn
<1>6. Own(new, c, items)
  BY DEF IInv, AllOwn
<1> HIDE DEF c, new, k, old
<1>7. TypeOK'
  <2>1. slots' \in [SessionId -> [Slot -> InvSlot]]
    BY <1>t, <1>1, <1>2 DEF TypeOK
  <2>2. equipped' \in [SessionId -> [EqSlot -> InvSlot]]
    BY <1>t, <1>1, <1>2 DEF TypeOK
  <2>3. equipment' \in [MaybeChar -> [EqSlot -> ItemUid \cup {NoUid}]]
    BY <1>t, <1>1, <1>2, <1>3 DEF TypeOK
  <2> QED BY <1>t, <1>1, <2>1, <2>2, <2>3 DEF TypeOK, SessionTypeOK
<1>8. AllOwn'
  <2>1. ASSUME NEW r \in SessionId
        PROVE  /\ \A j \in Slot : Own(slots'[r][j], charUid'[r], items')
               /\ \A l \in EqSlot : Own(equipped'[r][l], charUid'[r], items')
    <3>1. CASE r = s
      <4>1. /\ \A j \in Slot : slots'[s][j] \in {slots[s][j], old}
            /\ \A l \in EqSlot : equipped'[s][l] \in {equipped[s][l], new}
        BY <1>t, <1>1, <1>2 DEF TypeOK
      <4>2. /\ \A j \in Slot : Own(slots[s][j], c, items')
            /\ \A l \in EqSlot : Own(equipped[s][l], c, items')
        BY <1>4, OwnStays DEF IInv, AllOwn, c
      <4> QED BY <1>1, <1>5, <3>1, <4>1, <4>2 DEF c
    <3>2. CASE r # s
      <4>1. slots'[r] = slots[r] /\ equipped'[r] = equipped[r]
        BY <1>t, <1>1, <3>2 DEF TypeOK
      <4> QED BY <1>1, <1>4, <4>1, OthersKeep
    <3> QED BY <3>1, <3>2
  <2> QED BY <2>1 DEF AllOwn
<1>9. EquipmentSound'
  <2>1. CASE equipment' = equipment
    BY <1>4, <2>1, EquipmentStays
  <2>2. CASE equipment' = [equipment EXCEPT ![c][k] = new.itemUid]
    <3> SUFFICES ASSUME NEW d \in MaybeChar, NEW l \in EqSlot, equipment'[d][l] # NoUid
                 PROVE  /\ equipment'[d][l] \in DOMAIN items
                        /\ items[equipment'[d][l]].owner = d
                        /\ items[equipment'[d][l]].itemTid \in (IF l = 0 THEN Weapons ELSE Armors)
      BY <1>1 DEF EquipmentSound
    <3>1. CASE d = c /\ l = k
      <4>1. equipment'[d][l] = new.itemUid
        BY <1>t, <1>2, <2>2, <3>1 DEF TypeOK
      <4>2. /\ new.itemUid \in DOMAIN items /\ items[new.itemUid].owner = c
            /\ items[new.itemUid].itemTid = new.itemTid
        BY <1>6, <4>1 DEF Own
      <4> QED BY <1>3, <3>1, <4>1, <4>2
    <3>2. CASE ~(d = c /\ l = k)
      <4>1. equipment'[d][l] = equipment[d][l]
        BY <1>t, <1>2, <2>2, <3>2 DEF TypeOK
      <4> QED BY <4>1 DEF IInv, EquipmentSound
    <3> QED BY <3>1, <3>2
  <2> QED BY <1>1, <2>1, <2>2
<1> QED BY <1>7, <1>8, <1>9 DEF IInv

\* The bag of a session is replaced as a whole, with what belongs to its new
\* character (or to no one).
LEMMA ReplaceStep ==
  ASSUME IInv, NEW s \in SessionId, NEW c \in MaybeChar,
         NEW bag \in [Slot -> InvSlot], NEW gear \in [EqSlot -> InvSlot],
         \A i \in Slot : Own(bag[i], c, items),
         \A k \in EqSlot : Own(gear[k], c, items),
         SessionTypeOK', charUid' = [charUid EXCEPT ![s] = c],
         slots' = [slots EXCEPT ![s] = bag], equipped' = [equipped EXCEPT ![s] = gear],
         UNCHANGED <<items, equipment, nextItemUid>>
  PROVE  IInv'
<1>1. TypeOK /\ RowsStay
  BY DEF IInv, RowsStay
<1>2. TypeOK'
  BY <1>1 DEF TypeOK
<1>3. AllOwn'
  <2>1. ASSUME NEW r \in SessionId
        PROVE  /\ \A j \in Slot : Own(slots'[r][j], charUid'[r], items')
               /\ \A l \in EqSlot : Own(equipped'[r][l], charUid'[r], items')
    <3>1. CASE r = s
      <4>1. slots'[r] = bag /\ equipped'[r] = gear /\ charUid'[r] = c /\ items' = items
        BY <1>1, <3>1 DEF TypeOK, SessionTypeOK
      <4> QED BY <4>1
    <3>2. CASE r # s
      <4>1. slots'[r] = slots[r] /\ equipped'[r] = equipped[r] /\ charUid'[r] = charUid[r]
        BY <1>1, <3>2 DEF TypeOK, SessionTypeOK
      <4> QED BY <1>1, <4>1, OthersKeep
    <3> QED BY <3>1, <3>2
  <2> QED BY <2>1 DEF AllOwn
<1> QED BY <1>1, <1>2, <1>3, EquipmentStays DEF IInv

\* Every step keeps the invariant.
LEMMA StepPreserves == IInv /\ [Next]_vars => IInv'
<1> SUFFICES ASSUME IInv, [Next]_vars PROVE IInv'
  OBVIOUS
<1>t. TypeOK /\ SessionTypeOK
  BY DEF IInv, TypeOK
<1>e. /\ EmptyBag \in [Slot -> InvSlot] /\ NoGear \in [EqSlot -> InvSlot]
      /\ \A i \in Slot : \A c : Own(EmptyBag[i], c, items)
      /\ \A k \in EqSlot : \A c : Own(NoGear[k], c, items)
  BY EmptyFacts DEF EmptyBag, NoGear
<1>1. CASE DoAccept
  <2>1. UNCHANGED <<charUid, itemVars>> /\ SessionTypeOK'
    BY <1>1, <1>t, SessionAssumption DEF DoAccept, AddSession, SessionTypeOK, SessionId
  <2> QED BY <1>t, <2>1 DEF IInv, TypeOK, AllOwn, EquipmentSound, itemVars
<1>2. ASSUME NEW s \in SessionId, NEW c \in CharUids, OnCharSelect(s, c) PROVE IInv'
  <2>1. PICK answered : LoadInventory(s, c, answered)
    BY <1>2 DEF OnCharSelect
  <2>2. /\ charUid' = [charUid EXCEPT ![s] = c] /\ c \in MaybeChar
        /\ SessionTypeOK' /\ UNCHANGED <<items, equipment, nextItemUid>>
    BY <1>2, <1>t DEF OnCharSelect, SelectChar, SessionTypeOK, MaybeChar
  <2>3. PICK b \in [Slot -> InvSlot], g \in [EqSlot -> InvSlot] :
            /\ slots' = [slots EXCEPT ![s] = b]
            /\ equipped' = [equipped EXCEPT ![s] = g]
            /\ \A i \in Slot : Own(b[i], c, items)
            /\ \A k \in EqSlot : Own(g[k], c, items)
    BY <2>1, <2>2, ReadIsOwn
  <2> QED BY <2>2, <2>3, ReplaceStep
<1>3. ASSUME NEW s \in SessionId, OnShopBuy(s) \/ ItemDrop(s) \/ QuestItem(s) PROVE IInv'
  BY <1>3, GiveItemStep, InventoryAssumption DEF OnShopBuy, ItemDrop, QuestItem
<1>4. ASSUME NEW s \in SessionId, NEW i \in Slot, OnItemUse(s, i) \/ OnShopSell(s, i)
      PROVE  IInv'
  BY <1>4, TakeItemStep DEF OnItemUse, OnShopSell
<1>5. ASSUME NEW s \in SessionId, NEW i \in Slot, OnItemEquip(s, i) PROVE IInv'
  BY <1>5, EquipStep
<1>6. ASSUME NEW s \in SessionId, OnDisconnect(s) PROVE IInv'
  <2>1. /\ charUid' = [charUid EXCEPT ![s] = NoChar] /\ NoChar \in MaybeChar
        /\ slots' = [slots EXCEPT ![s] = EmptyBag]
        /\ equipped' = [equipped EXCEPT ![s] = NoGear]
        /\ SessionTypeOK' /\ UNCHANGED <<items, equipment, nextItemUid>>
    BY <1>6, <1>t DEF OnDisconnect, RemoveSession, SessionTypeOK, MaybeChar
  <2> QED BY <1>e, <2>1, ReplaceStep
<1>7. CASE UNCHANGED vars
  <2>1. UNCHANGED <<charUid, itemVars>> /\ SessionTypeOK'
    BY <1>7, <1>t DEF vars, itemVars, SessionTypeOK
  <2> QED BY <1>t, <2>1 DEF IInv, TypeOK, AllOwn, EquipmentSound, itemVars
<1> QED BY <1>1, <1>2, <1>3, <1>4, <1>5, <1>6, <1>7 DEF Next

\* The invariant holds throughout.
LEMMA Invariance == Spec => []IInv
  BY InitEstablishes, StepPreserves, PTL DEF Spec

-----------------------------------------------------------------------------
\* What a session holds under a uid is a row of the character it plays, of the
\* template it shows: after every order of logins, purchases, drops, sales and
\* exchanges on any number of sessions, and whatever the database answered.
THEOREM HeldIsOwned == Spec => []HeldIsOwn
<1>1. IInv => HeldIsOwn
  BY DEF IInv, AllOwn, HeldIsOwn, InHand, Own
<1> QED BY <1>1, Invariance, PTL

\* The table equipment names weapons in slot 0 and armor in slot 1, of the
\* character they are listed for.
THEOREM EquipmentIsSound == Spec => []EquipmentSound
<1>1. IInv => EquipmentSound
  BY DEF IInv
<1> QED BY <1>1, Invariance, PTL

-----------------------------------------------------------------------------
(* What a session held and holds no longer. *)

\* A uid is held in a slot of the bag or in a hand.
LEMMA HeldWhere ==
  ASSUME NEW s, NEW u
  PROVE  /\ u \in Held(s) <=>
              /\ u # NoUid
              /\ (\E i \in Slot : slots[s][i].itemUid = u)
                   \/ (\E k \in EqSlot : equipped[s][k].itemUid = u)
         /\ u \in Held(s)' <=>
              /\ u # NoUid
              /\ (\E i \in Slot : slots'[s][i].itemUid = u)
                   \/ (\E k \in EqSlot : equipped'[s][k].itemUid = u)
  BY DEF Held, InHand

\* What NothingSlipsAway says of one session and one uid.
Accounted(s, u) ==
    \/ items'[u].deleted
    \/ GivenUp(s, u)
    \/ LoadStopped(s, u)

\* A new load of the same character brings every row it came to: one that is
\* not deleted and not in the bag lies behind the last one read.
LEMMA LoadAccounts ==
  ASSUME IInv, NEW s \in SessionId, OnCharSelect(s, charUid[s]),
         NEW u \in Held(s), u \notin Held(s)', charUid[s] \in CharUids
  PROVE  Accounted(s, u)
<1> DEFINE c == charUid[s]
<1>t. TypeOK
  BY DEF IInv
<1>1. u # NoUid /\ u \in DOMAIN items /\ items[u].owner = c
  BY HeldWhere DEF IInv, AllOwn, Own
<1>2. UNCHANGED items
  BY DEF OnCharSelect
<1>3. CASE items[u].deleted
  BY <1>2, <1>3 DEF Accounted
<1>4. CASE ~items[u].deleted
  <2>1. u \in Owned(c)
    BY <1>1, <1>4 DEF Owned
  <2>2. PICK n \in 0..Cardinality(Owned(c)) :
          slots' = [slots EXCEPT ![s] =
              [i \in Slot |-> IF i < n THEN LoadedSlots(c)[i] ELSE EmptyBag[i]]]
    BY DEF OnCharSelect, LoadInventory, ReadInto
  <2>3. /\ Rank(u, c) \in Nat /\ n \in Nat
        /\ \A i \in Slot : slots'[s][i] = IF i < n THEN LoadedSlots(c)[i] ELSE Empty
    BY <1>t, <2>1, <2>2, RankIsBijection, OwnedFinite DEF TypeOK, EmptyBag
  <2>4. CASE Rank(u, c) < n /\ Rank(u, c) \in Slot
    <3>1. slots'[s][Rank(u, c)] = AsSlot(u)
      BY <1>t, <2>1, <2>3, <2>4, LoadedSlotsFacts
    <3>2. slots'[s][Rank(u, c)].itemUid = u
      BY <3>1 DEF AsSlot
    <3> QED BY <1>1, <2>4, <3>2, HeldWhere
  <2>5. CASE ~(Rank(u, c) < n /\ Rank(u, c) \in Slot)
    <3>1. \A i \in Slot : i >= Rank(u, c) => ~(i < n)
      BY <2>3, <2>5, InventoryAssumption DEF Slot
    <3>2. LoadStopped(s, u)
      BY <2>3, <3>1 DEF LoadStopped
    <3> QED BY <3>2 DEF Accounted
  <2> QED BY <2>4, <2>5
<1> QED BY <1>3, <1>4

\* An item gained takes a slot that held nothing: a slot without a template has
\* no uid either.
LEMMA GiveAccounts ==
  ASSUME IInv, NEW s \in SessionId, NEW r \in SessionId, NEW t \in Tids, GiveItem(r, t),
         NEW u \in Held(s)
  PROVE  u \in Held(s)'
<1>t. TypeOK
  BY DEF IInv
<1>e. PICK i \in Slot : \E x :
        /\ slots[r][i].itemTid = NoTid
        /\ slots' = [slots EXCEPT ![r][i] = x]
        /\ equipped' = equipped
  BY DEF GiveItem, FindEmptySlot, IsEmptySlot
<1>1. PICK x :
        /\ slots[r][i].itemTid = NoTid
        /\ slots' = [slots EXCEPT ![r][i] = x]
        /\ equipped' = equipped
  BY <1>e
<1>2. slots[r][i].itemUid = NoUid
  <2> SUFFICES ASSUME slots[r][i].itemUid # NoUid PROVE FALSE
    OBVIOUS
  <2>1. /\ slots[r][i].itemUid \in DOMAIN items
        /\ items[slots[r][i].itemUid].itemTid = NoTid
    BY <1>1 DEF IInv, AllOwn, Own
  <2>2. items[slots[r][i].itemUid] \in Row
    BY <1>t, <2>1 DEF TypeOK
  <2> QED BY <2>1, <2>2, InventoryAssumption DEF Row
<1>3. \A j \in Slot : slots[s][j].itemUid = u /\ u # NoUid => slots'[s][j] = slots[s][j]
  BY <1>t, <1>1, <1>2 DEF TypeOK
<1> QED BY <1>1, <1>3, HeldWhere

\* What is used up or sold is the item of one slot.
LEMMA TakeAccounts ==
  ASSUME IInv, NEW s \in SessionId, NEW r \in SessionId, NEW i \in Slot, TakeItem(r, i),
         NEW u \in Held(s), u \notin Held(s)'
  PROVE  GivenUp(s, u)
<1>t. TypeOK
  BY DEF IInv
<1>1. slots' = [slots EXCEPT ![r][i] = Empty] /\ equipped' = equipped
  BY DEF TakeItem
<1>2. PICK j \in Slot : slots[s][j].itemUid = u /\ slots'[s][j] # slots[s][j]
  BY <1>1, HeldWhere
<1>3. slots'[s][j] = Empty
  BY <1>t, <1>1, <1>2 DEF TypeOK
<1> QED BY <1>2, <1>3 DEF GivenUp

\* An exchange keeps both items.
LEMMA EquipAccounts ==
  ASSUME IInv, NEW s \in SessionId, NEW r \in SessionId, NEW i \in Slot, OnItemEquip(r, i),
         NEW u \in Held(s)
  PROVE  u \in Held(s)'
<1> DEFINE k == eqSlot(slots[r][i].itemTid)
<1>t. TypeOK
  BY DEF IInv
<1>1. /\ equipped' = [equipped EXCEPT ![r][k] = slots[r][i]]
      /\ slots' = [slots EXCEPT ![r][i] = equipped[r][k]]
  BY DEF OnItemEquip, OldItem
<1>2. k \in EqSlot
  BY DEF eqSlot, EqSlot
<1> HIDE DEF k
<1>3. /\ equipped'[r][k] = slots[r][i]
      /\ slots'[r][i] = equipped[r][k]
      /\ \A j \in Slot : s # r \/ j # i => slots'[s][j] = slots[s][j]
      /\ \A l \in EqSlot : s # r \/ l # k => equipped'[s][l] = equipped[s][l]
  BY <1>t, <1>1, <1>2 DEF TypeOK
<1> QED BY <1>2, <1>3, HeldWhere

\* No step loses an item on the way: what a session goes on playing without is
\* deleted, given up, or was beyond what a load could bring.
LEMMA StepAccounts ==
  ASSUME IInv, [Next]_vars, NEW s \in sessions \cap sessions', charUid'[s] = charUid[s],
         NEW u \in Held(s), u \notin Held(s)'
  PROVE  Accounted(s, u)
<1>t. TypeOK /\ SessionTypeOK /\ s \in SessionId
  BY DEF IInv, TypeOK, SessionTypeOK
<1>0. UNCHANGED <<slots, equipped>> => FALSE
  BY HeldWhere
<1>1. CASE DoAccept \/ UNCHANGED vars
  BY <1>0, <1>1 DEF DoAccept, itemVars, vars
<1>2. ASSUME NEW r \in SessionId, NEW c \in CharUids, OnCharSelect(r, c)
      PROVE  Accounted(s, u)
  <2>2. r = s
    <3> SUFFICES ASSUME r # s PROVE FALSE
      OBVIOUS
    <3>1. \E b, g : /\ slots' = [slots EXCEPT ![r] = b]
                    /\ equipped' = [equipped EXCEPT ![r] = g]
      BY <1>2 DEF OnCharSelect, LoadInventory, ReadInto
    <3>2. slots'[s] = slots[s] /\ equipped'[s] = equipped[s]
      BY <1>t, <3>1 DEF TypeOK
    <3> QED BY <3>2, HeldWhere
  <2>3. c = charUid[s]
    BY <1>t, <1>2, <2>2 DEF OnCharSelect, SelectChar, SessionTypeOK
  <2> QED BY <1>t, <1>2, <2>2, <2>3, LoadAccounts
<1>3. ASSUME NEW r \in SessionId, OnShopBuy(r) \/ ItemDrop(r) \/ QuestItem(r)
      PROVE  Accounted(s, u)
  BY <1>t, <1>3, GiveAccounts, InventoryAssumption DEF OnShopBuy, ItemDrop, QuestItem
<1>4. ASSUME NEW r \in SessionId, NEW i \in Slot, OnItemUse(r, i) \/ OnShopSell(r, i)
      PROVE  Accounted(s, u)
  BY <1>t, <1>4, TakeAccounts DEF OnItemUse, OnShopSell, Accounted
<1>5. ASSUME NEW r \in SessionId, NEW i \in Slot, OnItemEquip(r, i) PROVE Accounted(s, u)
  BY <1>t, <1>5, EquipAccounts
<1>6. ASSUME NEW r \in SessionId, OnDisconnect(r) PROVE Accounted(s, u)
  <2>1. r # s
    BY <1>6 DEF OnDisconnect, RemoveSession
  <2>2. slots'[s] = slots[s] /\ equipped'[s] = equipped[s]
    BY <1>t, <1>6, <2>1 DEF OnDisconnect, TypeOK
  <2> QED BY <2>2, HeldWhere
<1> QED BY <1>1, <1>2, <1>3, <1>4, <1>5, <1>6 DEF Next

\* The exchange of equipment, a full bag and the events of other sessions lose
\* no item of a session, and a load of its own only those it did not come to.
THEOREM ItemsDoNotSlipAway == Spec => NothingSlipsAway
<1> DEFINE Kept ==
      \A s \in sessions \cap sessions' : charUid'[s] = charUid[s] =>
          \A u \in Held(s) \ Held(s)' : Accounted(s, u)
<1>1. IInv /\ [Next]_vars => [Kept]_vars
  BY StepAccounts
<1>2. [Kept]_vars =>
        [\A s \in sessions \cap sessions' : charUid'[s] = charUid[s] =>
          \A u \in Held(s) \ Held(s)' :
             \/ items'[u].deleted
             \/ GivenUp(s, u)
             \/ LoadStopped(s, u)]_vars
  BY DEF Accounted
<1> HIDE DEF Kept
<1> QED BY <1>1, <1>2, Invariance, PTL DEF Spec, NothingSlipsAway
=============================================================================
