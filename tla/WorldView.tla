------------------------------- MODULE WorldView -------------------------------
(***************************************************************************)
(* The world of the server, NPCs and players on the map, and the picture   *)
(* of it that each client builds from the packets it gets.                 *)
(*                                                                         *)
(* The packets to a client are a FIFO queue, which PacketStream shows the  *)
(* connection to be.  A key takes effect on the server at once: a request  *)
(* that is under way for a while is the same as a client that is so much   *)
(* behind with its own queue, since all it looks at is its picture.  Keys  *)
(* and packets are handled by two threads of the client, one packet or one *)
(* key a step.  One axis of the map stands for both; NPCs have no place,   *)
(* and whether the nearest one is in reach is a nondeterministic choice.   *)
(* Packets that do not change the picture are left out, as are selections  *)
(* and creations that the database refuses, which only send a message.     *)
(***************************************************************************)
EXTENDS Naturals, SequencesExt, FiniteSetsExt

CONSTANTS
    Accounts,       \* account uids, which name players in packets
    NoAccount,      \* account uid 0: not logged in
    MAP_SIZE,
    StartPlaces,    \* where OnCharSelect may put a player
    MAX_NPC,
    NpcMaxHp,
    MaxSession,     \* bound: connections
    MaxNpcUid,      \* bound: NPCs spawned
    MaxQueue        \* bound: packets under way to a client before the next key

ASSUME WorldAssumption ==
    /\ {MAP_SIZE, MAX_NPC, NpcMaxHp} \subseteq Nat \ {0}
    /\ StartPlaces \subseteq 0..(MAP_SIZE - 1)
    /\ {MaxSession, MaxNpcUid, MaxQueue} \subseteq Nat /\ MaxNpcUid >= MAX_NPC
    /\ NoAccount \notin Accounts

VARIABLES
    sessions,       \* the sessions of the server, ids of 1 and more
    nextSessionId,
    accountUid, loggedIn, pos,      \* PlayerData of each session
    npcs,           \* the living NPCs: hp by uid; 0 is none
    nextNpcUid,
    queue,          \* packets under way to the client of each session
    view,           \* the picture of the client of each session
    relisted,       \* history: a character was created after one was selected
    shared          \* history: accounts that had two sessions at a time

serverVars == <<sessions, nextSessionId, accountUid, loggedIn, pos, npcs, nextNpcUid>>
vars == <<serverVars, queue, view, relisted, shared>>

SessionId == 1..MaxSession
NpcUid == 1..MaxNpcUid
Place == 0..(MAP_SIZE - 1)
Nowhere == MAP_SIZE             \* a player that is not in the picture

Views == [state : {"Login", "CharSelect", "InGame"}, uid : Accounts \cup {NoAccount},
          pos : Place, npcs : [NpcUid -> 0..NpcMaxHp],
          others : [Accounts -> Place \cup {Nowhere}]]
NewView == [state |-> "Login", uid |-> NoAccount, pos |-> 0,
            npcs |-> [u \in NpcUid |-> 0], others |-> [a \in Accounts |-> Nowhere]]

Packet ==
    [type : {"SC_CHAR_LIST"}]
    \cup [type : {"SC_CHAR_INFO"}, uid : Accounts, pos : Place]
    \cup [type : {"SC_CHAR_LEAVE"}, uid : Accounts]
    \cup [type : {"SC_MOVE_RESULT"}, pos : Place]
    \cup [type : {"SC_NPC_SPAWN", "SC_ATTACK_RESULT"}, uid : NpcUid, hp : 0..NpcMaxHp]
    \cup [type : {"SC_NPC_DEATH"}, uid : NpcUid]

Init ==
    /\ sessions = {} /\ nextSessionId = 1
    /\ accountUid = [s \in SessionId |-> NoAccount]
    /\ loggedIn = [s \in SessionId |-> FALSE]
    /\ pos = [s \in SessionId |-> 0]
    /\ npcs = [u \in NpcUid |-> IF u <= MAX_NPC THEN NpcMaxHp ELSE 0]
    /\ nextNpcUid = MAX_NPC + 1
    /\ queue = [s \in SessionId |-> <<>>]
    /\ view = [s \in SessionId |-> NewView]
    /\ relisted = [s \in SessionId |-> FALSE]
    /\ shared = {}

-----------------------------------------------------------------------------
(* Sending.  q is the queues before. *)

CharInfo(a, x) == [type |-> "SC_CHAR_INFO", uid |-> a, pos |-> x]
CharLeave(a) == [type |-> "SC_CHAR_LEAVE", uid |-> a]
NpcSpawn(u, hp) == [type |-> "SC_NPC_SPAWN", uid |-> u, hp |-> hp]
NpcDeath(u) == [type |-> "SC_NPC_DEATH", uid |-> u]
AttackResult(u, hp) == [type |-> "SC_ATTACK_RESULT", uid |-> u, hp |-> hp]
MoveResult(x) == [type |-> "SC_MOVE_RESULT", pos |-> x]

Send(q, s, packets) == [q EXCEPT ![s] = @ \o packets]

\* Only sessions with a character in the game are told.
Broadcast(q, packets) ==
    [s \in SessionId |-> IF s \in sessions /\ loggedIn[s] THEN q[s] \o packets ELSE q[s]]
BroadcastExcept(q, s, packets) == [Broadcast(q, packets) EXCEPT ![s] = q[s]]

Others(s) == {t \in sessions : t # s /\ loggedIn[t]}
Alive == {u \in NpcUid : npcs[u] > 0}

SendAllNPCs == SetToSeq({NpcSpawn(u, npcs[u]) : u \in Alive})
CharInfoOfOthers(s) == [i \in 1..Cardinality(Others(s)) |->
                           LET t == SetToSeq(Others(s))[i] IN CharInfo(accountUid[t], pos[t])]

\* Mutant: the newcomer is told of the others and not they of it.
OthersOnly(q, s, x) == Send(q, s, CharInfoOfOthers(s))
SendOtherPlayers(q, s, x) ==
    BroadcastExcept(Send(q, s, CharInfoOfOthers(s)), s, <<CharInfo(accountUid[s], x)>>)

\* The keys of the client wait until it has caught up somewhat.
Ready(s, state) ==
    /\ s \in sessions
    /\ view[s].state = state
    /\ \A t \in SessionId : Len(queue[t]) <= MaxQueue

-----------------------------------------------------------------------------
(* A client starts, logs in and is sent the list of its characters. *)
Login(a) ==
    /\ nextSessionId \in SessionId
    /\ sessions' = sessions \cup {nextSessionId}
    /\ nextSessionId' = nextSessionId + 1
    /\ accountUid' = [accountUid EXCEPT ![nextSessionId] = a]
    /\ queue' = Send(queue, nextSessionId, <<[type |-> "SC_CHAR_LIST"]>>)
    /\ shared' = IF \E s \in sessions : accountUid[s] = a THEN shared \cup {a} ELSE shared
    /\ UNCHANGED <<loggedIn, pos, npcs, nextNpcUid, view, relisted>>

\* OnCharCreate sends the list again, in whatever state the session is.
OnCharCreate(s) ==
    /\ Ready(s, "CharSelect")
    /\ queue' = Send(queue, s, <<[type |-> "SC_CHAR_LIST"]>>)
    /\ relisted' = [relisted EXCEPT ![s] = @ \/ loggedIn[s]]
    /\ UNCHANGED <<serverVars, view, shared>>

OnCharSelect(s) ==
    /\ Ready(s, "CharSelect")
    /\ loggedIn' = [loggedIn EXCEPT ![s] = TRUE]
    /\ \E x \in StartPlaces :
          /\ pos' = [pos EXCEPT ![s] = x]
          /\ queue' = SendOtherPlayers(Send(queue, s, <<CharInfo(accountUid[s], x)>> \o SendAllNPCs), s, x)
    /\ UNCHANGED <<sessions, nextSessionId, accountUid, npcs, nextNpcUid, view, relisted, shared>>

\* OnMove.  The place that is sent is the one the player has afterwards.
OnMap(x) == x < MAP_SIZE
Stepped(x, dir) ==
    IF dir = "up" THEN (IF OnMap(x + 1) THEN x + 1 ELSE x)
                  ELSE (IF x > 0 THEN x - 1 ELSE x)
OnMove(s, dir) ==
    /\ Ready(s, "InGame")
    /\ LET x == Stepped(pos[s], dir) IN
       /\ pos' = [pos EXCEPT ![s] = x]
       /\ queue' = BroadcastExcept(Send(queue, s, <<MoveResult(x)>>), s,
                                   <<CharInfo(accountUid[s], x)>>)
    /\ UNCHANGED <<sessions, nextSessionId, accountUid, loggedIn, npcs, nextNpcUid, view, relisted, shared>>

Shown(v) == {u \in NpcUid : v.npcs[u] > 0}

\* OnAttack on one of the NPCs in the picture that is alive and in reach: a hit
\* it survives is told to the attacker alone.
AttackHit(s, u, damage) ==
    /\ Ready(s, "InGame")
    /\ u \in Shown(view[s]) \cap Alive
    /\ damage < npcs[u]
    /\ npcs' = [npcs EXCEPT ![u] = @ - damage]
    /\ queue' = Send(queue, s, <<AttackResult(u, npcs[u] - damage)>>)
    /\ UNCHANGED <<sessions, nextSessionId, accountUid, loggedIn, pos, nextNpcUid, view, relisted, shared>>

KillerAlone(q, s, packets) == Send(q, s, packets)   \* mutant: only the killer is told
TellOfKill(q, s, packets) == Broadcast(q, packets)
\* The last hit: SC_NPC_DEATH and the SC_NPC_SPAWN of SpawnNPC to everyone.
AttackKill(s, u) ==
    /\ Ready(s, "InGame")
    /\ u \in Shown(view[s]) \cap Alive
    /\ nextNpcUid \in NpcUid
    /\ npcs' = [npcs EXCEPT ![u] = 0, ![nextNpcUid] = NpcMaxHp]
    /\ nextNpcUid' = nextNpcUid + 1
    /\ queue' = TellOfKill(Send(queue, s, <<AttackResult(u, 0)>>), s,
                           <<NpcDeath(u), NpcSpawn(nextNpcUid, NpcMaxHp)>>)
    /\ UNCHANGED <<sessions, nextSessionId, accountUid, loggedIn, pos, view, relisted, shared>>

\* The client has gone, by a key or by a lost connection, and the server notices:
\* the others are told of the account.  Until then the session is as it was.
OnDisconnect(s) ==
    /\ s \in sessions
    /\ sessions' = sessions \ {s}
    /\ accountUid' = [accountUid EXCEPT ![s] = NoAccount]
    /\ loggedIn' = [loggedIn EXCEPT ![s] = FALSE]
    /\ pos' = [pos EXCEPT ![s] = 0]
    /\ queue' = [(IF loggedIn[s] THEN BroadcastExcept(queue, s, <<CharLeave(accountUid[s])>>)
                                 ELSE queue) EXCEPT ![s] = <<>>]
    /\ view' = [view EXCEPT ![s] = NewView]
    /\ relisted' = [relisted EXCEPT ![s] = FALSE]
    /\ UNCHANGED <<nextSessionId, npcs, nextNpcUid, shared>>

-----------------------------------------------------------------------------
(* The handlers of the client: the picture v after packet p. *)

OnCharList(v) == [v EXCEPT !.state = "CharSelect"]

\* Whoever the first SC_CHAR_INFO after a list is about is taken for the player.
OnCharInfo(v, p) ==
    IF v.state = "CharSelect" THEN [v EXCEPT !.state = "InGame", !.uid = p.uid, !.pos = p.pos]
    ELSE IF p.uid = v.uid THEN [v EXCEPT !.pos = p.pos]
    ELSE [v EXCEPT !.others[p.uid] = p.pos]

OnMoveResult(v, p) == [v EXCEPT !.pos = p.pos]
OnCharLeave(v, p) == [v EXCEPT !.others[p.uid] = Nowhere]
OnNpcSpawn(v, p) == [v EXCEPT !.npcs[p.uid] = p.hp]
OnNpcDeath(v, p) == [v EXCEPT !.npcs[p.uid] = 0]
OnAttackResult(v, p) ==
    IF v.npcs[p.uid] > 0 THEN [v EXCEPT !.npcs[p.uid] = p.hp] ELSE v

Handled(v, p) ==
    CASE p.type = "SC_CHAR_LIST"     -> OnCharList(v)
      [] p.type = "SC_CHAR_INFO"     -> OnCharInfo(v, p)
      [] p.type = "SC_CHAR_LEAVE"    -> OnCharLeave(v, p)
      [] p.type = "SC_MOVE_RESULT"   -> OnMoveResult(v, p)
      [] p.type = "SC_NPC_SPAWN"     -> OnNpcSpawn(v, p)
      [] p.type = "SC_NPC_DEATH"     -> OnNpcDeath(v, p)
      [] p.type = "SC_ATTACK_RESULT" -> OnAttackResult(v, p)

Receive(s) ==
    /\ s \in sessions /\ queue[s] # <<>>
    /\ view' = [view EXCEPT ![s] = Handled(@, Head(queue[s]))]
    /\ queue' = [queue EXCEPT ![s] = Tail(@)]
    /\ UNCHANGED <<serverVars, relisted, shared>>

Next ==
    \/ \E a \in Accounts : Login(a)
    \/ \E s \in SessionId :
          \/ OnCharCreate(s) \/ OnCharSelect(s)
          \/ \E dir \in {"up", "down"} : OnMove(s, dir)
          \/ \E u \in NpcUid : AttackKill(s, u) \/ \E damage \in 1..NpcMaxHp : AttackHit(s, u, damage)
          \/ OnDisconnect(s)
          \/ Receive(s)

Spec == Init /\ [][Next]_vars

-----------------------------------------------------------------------------
\* What each variable holds.
TypeOK ==
    /\ sessions \subseteq SessionId /\ nextSessionId \in 1..(MaxSession + 1)
    /\ accountUid \in [SessionId -> Accounts \cup {NoAccount}]
    /\ loggedIn \in [SessionId -> BOOLEAN]
    /\ pos \in [SessionId -> Place]
    /\ npcs \in [NpcUid -> 0..NpcMaxHp] /\ nextNpcUid \in 1..(MaxNpcUid + 1)
    /\ queue \in [SessionId -> Seq(Packet)]
    /\ view \in [SessionId -> Views]
    /\ relisted \in [SessionId -> BOOLEAN]
    /\ shared \subseteq Accounts

\* The picture of a client once it has handled what is under way to it.
CaughtUp(s) == FoldLeft(Handled, view[s], queue[s])
InWorld == {s \in sessions : loggedIn[s]}

\* Every client in the game has exactly the living NPCs in its picture, none
\* that is dead and none too few, whenever it entered and whoever killed: a
\* packet overtaken by a selection would leave a ghost or a gap.  A hit is told
\* to the attacker alone, so the hp shown are those of the NPC or more.  (Types
\* included.)
NpcsFollow ==
    /\ TypeOK
    /\ \A s \in InWorld :
          LET v == CaughtUp(s) IN
          /\ Shown(v) = Alive
          /\ \A u \in Alive : v.npcs[u] >= npcs[u]

\* A client takes another player for its own only if it created a character
\* after it had selected one: the list sent with the creation brings it back to
\* the selection, and the next SC_CHAR_INFO, whosever it is, into the game.
KnowsItself(s) ==
    ~relisted[s] => CaughtUp(s).state = "InGame" /\ CaughtUp(s).uid = accountUid[s]

\* Every client sees itself and the others where the server has them, and nobody
\* who has left.  Two sessions on one account are one player to the clients, and
\* the end of one removes the other from their pictures.
SeesPlayers(s) ==
    ~relisted[s] /\ accountUid[s] \notin shared =>
       LET v == CaughtUp(s) IN
       /\ v.pos = pos[s]
       /\ \A a \in Accounts \ (shared \cup {accountUid[s]}) :
             v.others[a] = IF \E t \in InWorld : accountUid[t] = a
                           THEN pos[CHOOSE t \in InWorld : accountUid[t] = a]
                           ELSE Nowhere

\* So a client in the game knows which player it is and sees all of them where
\* they are, except for the two cases named.
PlayersFollow == \A s \in InWorld : KnowsItself(s) /\ SeesPlayers(s)
=============================================================================
