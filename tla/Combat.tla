-------------------------------- MODULE Combat --------------------------------
(***************************************************************************)
(* Combat on top of the party system: the NPCs, OnAttack from the hit to   *)
(* the respawn, and what a kill or a quest pays to the players.            *)
(*                                                                         *)
(* A handler here is a handler of Party together with what it does to the  *)
(* NPCs and to PlayerData.  Positions are left out: whether the target is  *)
(* in reach is a nondeterministic choice, and an attack that finds no      *)
(* target changes nothing.  Attack and defence are left out too: a hit     *)
(* costs any damage of 1 at least.  The dropped item is Inventory's        *)
(* NPC drop, and what UpdateQuestProgress does with a credit is Quest's.   *)
(***************************************************************************)
EXTENDS Party, Functions

CONSTANTS
    MAX_NPC,
    NpcMaxHp,       \* hp and maxHp of a spawned NPC
    ExpReward,      \* NPC::expReward
    GoldReward,     \* NPC::goldReward
    ExpPerLevel,    \* maxExp is the level times this
    QuestExp,       \* rewardExp and rewardGold of a quest
    QuestGold,
    MaxNpcUid,      \* bound: NPCs spawned in a run of the server
    MaxQuestGold    \* bound: the gold a quest may bring a player to

ASSUME CombatAssumption ==
    /\ {ExpReward, GoldReward, QuestExp, QuestGold, MaxQuestGold} \subseteq Nat
    /\ {MAX_NPC, NpcMaxHp, ExpPerLevel} \subseteq Nat \ {0}
    /\ MaxNpcUid \in Nat /\ MaxNpcUid >= MAX_NPC

VARIABLES
    npcs,           \* npcs[MAX_NPC]
    nextNpcUid,
    player,         \* level, exp, maxExp and gold of PlayerData
    questKills      \* history: calls of UpdateQuestProgress for each session

combatVars == <<npcs, nextNpcUid, player, questKills>>
allVars == <<sessions, nextSessionId, charUid, name,
             parties, playerParty, pendingInvites, nextPartyId,
             npcs, nextNpcUid, player, questKills>>

NpcIndex == 1..MAX_NPC
NPC == [uid : 1..MaxNpcUid, hp : 0..NpcMaxHp, alive : BOOLEAN]
PlayerData == [level : Nat \ {0}, exp : Nat, maxExp : Nat \ {0}, gold : Nat]

\* PlayerData of a session just accepted.
NewPlayer == [level |-> 1, exp |-> 0, maxExp |-> ExpPerLevel, gold |-> 0]
NewNpc(uid) == [uid |-> uid, hp |-> NpcMaxHp, alive |-> TRUE]

CombatInit ==
    /\ Init
    /\ npcs = [i \in NpcIndex |-> NewNpc(i)]
    /\ nextNpcUid = MAX_NPC + 1
    /\ player = [s \in SessionId |-> NewPlayer]
    /\ questKills = [s \in SessionId |-> 0]

-----------------------------------------------------------------------------
\* One round of the loop of CheckLevelUp.
LevelUp(p) == [p EXCEPT !.level = @ + 1,
                        !.exp = @ - p.maxExp,
                        !.maxExp = (p.level + 1) * ExpPerLevel]

CheckLevelUp[p \in PlayerData] ==
    IF p.exp < p.maxExp THEN p ELSE CheckLevelUp[LevelUp(p)]

PaidOneLevel(p, exp, gold) ==           \* mutant: if instead of while
    LET q == [p EXCEPT !.exp = @ + exp, !.gold = @ + gold]
    IN  IF q.exp < q.maxExp THEN q ELSE LevelUp(q)

\* Exp and gold are added, then the level is brought up to date.  Paying twice
\* and paying the double at once come to the same.
Paid(p, exp, gold) == CheckLevelUp[[p EXCEPT !.exp = @ + exp, !.gold = @ + gold]]

\* The members vector that shares the kill of s, and the entries of it that
\* are paid to t: a session that has gone gets nothing, its share is lost.
Sharing(s) == IF playerParty[s] = NoParty THEN push_back({}, s) ELSE parties[playerParty[s]]
Entries(s, t) == IF t \in sessions THEN Cardinality(Copies(Sharing(s), t)) ELSE 0

ShareUndivided(s, reward) == reward     \* mutant: everyone gets all of it
Share(s, reward) == reward \div Cardinality(Sharing(s))

\* The others are credited once for each entry, the killer once in the end.
CreditKillerTwice(s, t) ==              \* mutant: the killer in the loop as well
    IF t = s THEN 2 ELSE Entries(s, t)
Credits(s, t) == IF t = s THEN 1 ELSE Entries(s, t)

\* SpawnNPC in the first place of all that is not alive.
KeepUid == nextNpcUid                   \* mutant: nextNpcUid is not advanced
UidAfterSpawn == nextNpcUid + 1
SpawnUidReused(all, i) == all[i].uid    \* mutant: the NPC comes back as itself
SpawnUid(all, i) == nextNpcUid
SpawnNPC(all) ==
    LET dead == {i \in NpcIndex : ~all[i].alive}
        i == CHOOSE i \in dead : \A j \in dead : i <= j
    IN  /\ npcs' = [all EXCEPT ![i] = NewNpc(SpawnUid(all, i))]
        /\ nextNpcUid' = UidAfterSpawn

HpAfter(hp, damage) == IF hp > damage THEN hp - damage ELSE 0

Target(i, uid) == npcs[i].alive /\ npcs[i].uid = uid

\* A hit the NPC survives.
AttackHit(s, uid) ==
    /\ s \in sessions
    /\ \E i \in NpcIndex, damage \in 1..NpcMaxHp :
          /\ Target(i, uid)
          /\ HpAfter(npcs[i].hp, damage) # 0
          /\ npcs' = [npcs EXCEPT ![i].hp = HpAfter(@, damage)]
    /\ UNCHANGED <<sessionVars, partyVars, nextNpcUid, player, questKills>>

\* A hit that kills it: everyone in the party is paid and credited, and a new
\* NPC takes its place before the handler returns.
AttackKill(s, uid) ==
    /\ s \in sessions
    /\ nextNpcUid <= MaxNpcUid
    /\ \E i \in NpcIndex, damage \in 1..NpcMaxHp :
          /\ Target(i, uid)
          /\ HpAfter(npcs[i].hp, damage) = 0
          /\ SpawnNPC([npcs EXCEPT ![i].hp = 0, ![i].alive = FALSE])
    /\ player' = [t \in SessionId |->
                     Paid(player[t], Entries(s, t) * Share(s, ExpReward),
                                     Entries(s, t) * Share(s, GoldReward))]
    /\ questKills' = [t \in SessionId |-> questKills[t] + Credits(s, t)]
    /\ UNCHANGED <<sessionVars, partyVars>>

OnAttack(s, uid) == AttackHit(s, uid) \/ AttackKill(s, uid)

\* The reward of OnQuestComplete; when it is due is Quest's matter.
PayQuest(s) ==
    /\ s \in sessions
    /\ player[s].gold + QuestGold <= MaxQuestGold
    /\ player' = [player EXCEPT ![s] = Paid(@, QuestExp, QuestGold)]
    /\ UNCHANGED <<sessionVars, partyVars, npcs, nextNpcUid, questKills>>

\* Level, exp and gold are read from the database, where nothing ever writes
\* level and exp and only the attendance reward (Account) changes the gold;
\* maxExp keeps the value it had.
LoadCharacter(s) ==
    /\ player' = [player EXCEPT ![s].level = 1, ![s].exp = 0, ![s].gold = 0]
    /\ UNCHANGED <<npcs, nextNpcUid, questKills>>

ForgetPlayer(s) ==
    /\ player' = [player EXCEPT ![s] = NewPlayer]
    /\ questKills' = [questKills EXCEPT ![s] = 0]
    /\ UNCHANGED <<npcs, nextNpcUid>>

PartyHandler(s) ==
    \/ \E n \in MaybeChar : OnPartyInvite(s, n)
    \/ OnPartyAccept(s)
    \/ OnPartyLeave(s)

CombatNext ==
    \/ DoAccept /\ UNCHANGED combatVars
    \/ \E s \in SessionId :
          \/ \E c \in CharUids : OnCharSelect(s, c) /\ LoadCharacter(s)
          \/ PartyHandler(s) /\ UNCHANGED combatVars
          \/ \E uid \in 1..MaxNpcUid : OnAttack(s, uid)
          \/ PayQuest(s)
          \/ OnDisconnect(s) /\ ForgetPlayer(s)

CombatSpec == CombatInit /\ [][CombatNext]_allVars

-----------------------------------------------------------------------------
\* The variables hold what they are declared for, hp in particular.
CombatTypeOK ==
    /\ TypeOK
    /\ npcs \in [NpcIndex -> NPC]
    /\ nextNpcUid \in 1..(MaxNpcUid + 1)
    /\ player \in [SessionId -> PlayerData]
    /\ questKills \in [SessionId -> Nat]

\* Between handlers every NPC is alive with hp left, and no two have the same
\* uid, by which OnAttack and the clients find them: the one SpawnNPC at the
\* end of a kill is enough.
EveryNpcStands ==
    /\ \A i \in NpcIndex : npcs[i].alive /\ npcs[i].hp > 0
    /\ \A i, j \in NpcIndex : npcs[i].uid = npcs[j].uid => i = j

\* An NPC is paid for once: its hp only falls, and what takes its place is an
\* NPC nobody has seen before, so a CS_ATTACK under way to the old one misses.
KilledForGood ==
    [][\A i \in NpcIndex :
          npcs'[i].uid # npcs[i].uid \/ npcs'[i].hp > npcs[i].hp =>
             npcs'[i].uid >= nextNpcUid]_allVars

\* CheckLevelUp leaves nothing to do: between handlers a player's exp is below
\* maxExp, whatever a kill, a share or a quest has added to it and although
\* OnCharSelect sets level and exp without setting maxExp.  (Types included.)
ExpBelowMax ==
    /\ CombatTypeOK
    /\ \A s \in SessionId : player[s].exp < player[s].maxExp

GoldOf(p) == SumFunction([s \in SessionId |-> p[s].gold])
IsKill == nextNpcUid' # nextNpcUid

\* Sharing pays out no more than the NPC was worth, however the party was put
\* together: a session listed twice is counted twice in the division too.
NoMintedGold ==
    [][IsKill => GoldOf(player') <= GoldOf(player) + GoldReward]_allVars

\* As long as every session is in one party, a kill credits and pays exactly
\* the killer, or exactly the sessions mapped to its party, all of them once
\* and the same.
FairShare ==
    [][IsKill /\ OnePartyEach =>
          LET credited == {t \in SessionId : questKills'[t] # questKills[t]}
              gain(t) == player'[t].gold - player[t].gold
          IN  /\ \E s \in sessions :
                    credited = IF playerParty[s] = NoParty THEN {s}
                               ELSE {t \in SessionId : playerParty[t] = playerParty[s]}
              /\ \A t \in credited :
                    /\ questKills'[t] = questKills[t] + 1
                    /\ gain(t) = GoldReward \div Cardinality(credited)
              /\ \A t \in SessionId \ credited : player'[t] = player[t]]_allVars
=============================================================================
