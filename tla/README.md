# TLA+ models of the MMORPG simulator

Models of the game server in `src/GameServer`, of the stored procedures in
`src/scripts` it calls, of the connection to the clients and of what the client
in `src/GameClient` makes of it, and machine-checked proofs of every invariant and
every step property that the models are checked for. Line numbers below refer to `src/GameServer/main.cpp` unless another file is named.
`PROJECT.json` maps every definition to the lines it models.

## 1. The system

One server process, one MySQL (Aurora) database, many console clients over TCP.
The `io_context` of the server is run by the main thread alone. A completion
handler (an accepted connection, one packet of one session, the end of one
session) therefore runs to its end before the next one starts, including its
database calls, which block. Concurrency is the interleaving of *handlers* of
different sessions; what goes wrong goes wrong between handlers, or because a
statement inside a handler fails, is repeated, or is the last thing the process
does before it ends.

| Component | State | Operations | Correct when |
|---|---|---|---|
| Sessions (`TcpServer`, `SessionManager`, `Session`) | open sessions, `nextSessionId_`, `PlayerData` per session | `DoAccept`, `OnCharSelect`, `OnDisconnect` | what belongs to a session ends with it |
| Party | `g_parties`, `g_playerParty`, `g_pendingInvites`, `nextPartyId` | invite, accept, leave, disconnect | the map and the vectors agree, sizes are within bounds, membership needs an invitation |
| Combat | `npcs`, `nextNpcUid`, level, exp and gold of `PlayerData` | `OnAttack`, `SpawnNPC`, `CheckLevelUp` | an NPC is paid for once, to the right players, and replaced |
| Inventory, equipment, shop | `g_inventories`; tables `inventory`, `equipment` | load, buy, drop, reward, use, sell, equip | items are held by their owner and do not slip away |
| Quests | `g_questProgress`; table `quest_progress` | load, accept, count, complete, save | progress is kept, rewarded once, never goes back |
| Accounts, characters, attendance | `accountUid`; tables `account`, `character`, `attendance` | `OnLogin`, `OnCharCreate`, `OnCharSelect`, `OnAttendanceCheck` | names are unique, rewards are booked once a day, a login ends in its own account |
| Database connection (`DBConnection`) | ODBC handles, `connected_` | `Connect`, `ExecuteProc`, `CheckFailoverState`, `Reconnect` | a call returns, uses valid handles, and does what it says |
| Packet stream and dispatch (`Session.cpp`, `PacketHandler`) | receive buffer, pending writes | framing, dispatch, `Send` | every packet is delivered whole and in order |
| Movement, chat | positions | `OnMove`, `OnChat` | a player stays on the map and is seen where it is |
| Client (`src/GameClient`) | the picture built from packets | receive thread, input loop | the picture follows the server |
| Data loading, protocol generator, build files | items and quests | at start, or outside the system | |

How they interact: every handler goes through the session table; `OnCharSelect`
loads inventory and quests; `OnAttack` reads the party tables and calls quest
counting and the drop for every member; `OnQuestComplete` pays exp, gold and an
item; all tables are reached through the one `dbConn.ExecuteProc`, whose result
no handler looks at; `OnDisconnect` calls `OnPlayerDisconnect`, which clears
what the components keep for the session. The server never sends its state as a
whole: a client has a picture of the world, of its player and of its party that
each packet changes a little, and its keys act on that picture.

What is hard in this code: checks made at one packet and relied on at a later
one (invitations); the same character on two sessions; a second
`CS_CHAR_SELECT` or `CS_LOGIN` on one connection; statements that fail without
being noticed or that a retry executes twice; a crash between two saves; a
connection that is never restored; overlapping writes and packets split by TCP;
a client that acts on a picture some packets old. `PROJECT.json` lists these hazards with
their lines and the properties that watch over them.

## 2. Modules

| Module | Models | Built on |
|---|---|---|
| `Sessions` | the session table, character selection, the outcomes of a statement | |
| `Party` | the party system | `Sessions` |
| `Combat` | attack, kill, reward, level-up, respawn, composed with the party handlers | `Party` |
| `Inventory` | items in bag, hand and tables | `Sessions` |
| `InventoryProofs` | theorems about `Inventory` | `Inventory` |
| `Quest` | quest progress in memory and table, crashes | `Sessions` |
| `QuestProofs` | theorems about `Quest` | `Quest` |
| `Account` | login, characters, attendance | `Sessions` |
| `DBConnection` | `ExecuteProc` with retry, failover and reconnection | |
| `DBCall` | what a call of `ExecuteProc` is to a handler: four outcomes (abstract) | |
| `AccountProofs` | theorems about `Account` and `DBConnection` | `Account`, `DBConnection` |
| `PacketFifo` | what one direction of a connection promises (abstract) | |
| `PacketStream` | `Session` and `TcpClient` over TCP: writes, framing, the end of a connection | implements `PacketFifo` twice |
| `PacketStreamProofs` | theorems about `PacketStream` | `PacketStream`, `Recursion` |
| `WorldView` | NPCs and players on the map, and each client's picture of them | |
| `WorldViewProofs` | theorems about `WorldView` | `WorldView`, `Recursion` |
| `PlayerView` | one player: `PlayerData`, bag, equipment, quests, and what its client shows | |
| `PlayerViewProofs` | theorems about `PlayerView` | `PlayerView`, `Recursion` |
| `PartyView` | the party handlers with the clients | `Party` |
| `PartyProofs` | theorems about `Party`, `PartyView` and `Combat`, which share the party handlers | `PartyView`, `Combat`, `Recursion` |
| `Recursion` | lemmas: when a definition by recursion is what it says, and the laws of folds; each proof module instantiates it | |
| `MCParty`, `MCCombat`, `MCInventory`, `MCQuest`, `MCAccount`, `MCDBConnection`, `MCPacketStream`, `MCWorldView`, `MCPlayerView`, `MCPartyView` | instances for TLC: symmetry sets, bounds and constants that a `.cfg` cannot write | |

Conventions. One action per handler, named after it; an early return that
changes nothing is the absence of a step. Packets a client may send at any time
are enabled whenever the session exists: only broadcasts look at `loggedIn`, no
handler refuses a packet for it, so all of them are possible before a character
is selected, with charUid 0 (`NoChar`). Operators whose comment says *mutant* are not part of a
model: each is a plausible slip in the definition that follows it, and the
check of a property is trusted only because the mutant breaks it.

### Sessions

`sessions`, `nextSessionId`, `charUid` and `name` stand for the session table
and `PlayerData`. `charUid` and `name` are set by different statements of
`OnCharSelect`, so a failed one leaves the old name with the new character.
`DBOutcomes` are the ways a call of `ExecuteProc` can end for the handler that
made it: `"ok"`, `"failed"` (no effect), `"lost"` (effect, no answer), `"twice"`
(effect, answer lost, executed again by the retry). That a call has no other
outcome is a refinement: `DBConnection` implements `DBCall` (run
`db_connection`). There a statement may take effect more than twice, and more
than once without an answer; the procedures find their row the second time, so
this makes a difference for `spInventoryAdd` only, which would leave further
rows like the one `"twice"` leaves. `DuplicateLogin = FALSE` restricts players to one
session per character, which the code does not enforce.

### Party

`parties` holds the members vectors. No handler looks at their order, but a
session *can* occur twice, so a vector is a set of pairs (session, copy).
`playerParty` and `pendingInvites` are the two maps; an absent entry is
`NoParty` or `INVALID_SESSION`. `OnPartyInvite` resolves a name as `ForEach`
does (the last session with the name wins). `OnPartyAccept` is
`PartyInviteDropped` (declined, or inviter gone) or `PartyJoin` (founding or
joining). `RemoveFromParty` disbands a party left with one member or none and
erases that member's map entry whatever it names. `SendPartyUpdate` and the
notifications only send.

### Combat

Extends the party handlers with what they do to `PlayerData`, so kills are
shared in every party the party module can produce, also in one that lists a
session twice. Positions, hp, atk and def are left out: reach is a
nondeterministic choice and a hit costs any damage of at least 1. `questKills`
counts the calls of `UpdateQuestProgress` for each session. A kill, the shares,
the credits and the respawn are one action, as in `OnAttack`.

### Inventory

`slots` and `equipped` are `g_inventories`; `items` and `equipment` are the
tables. `LoadInventory` is modelled with both result sets of `spInventoryLoad`,
the second one joined without regard to `IsDeleted`, and with the stop at
`MAX_INVENTORY` rows. It may break off anywhere (`ReadInto`): a row that cannot be
fetched ends its result set, a second result set that does not come leaves the
hands empty, and what was read so far is kept (232-248), the load being a success
for `ExecuteProc`. `AddItemToDB` yields uid 0 when no answer was read, and
two rows when it was repeated. Equipping an item of uid 0 writes a row with
ItemUid 0 (814); it joins with no row of `inventory`, so `equipment` has it as
`NoUid`, like no row. Whether the player can pay is a nondeterministic choice.

### Quest

`quest` is the map of each session, `dbQuest` the table. Every save may fail on
its own. `Crash` ends the process between two handlers or inside one: after any
subset of the saves of `UpdateQuestProgress`, or between the save of
`OnQuestComplete` and the payment. `rewards` is a history variable. Each
credit of a kill is a step of its own, which allows more interleavings than the
code has.

### Account

`ChannelId` is the conversion of the text typed by the player: two texts may
give one number. `spAccountLogin` numbers an account with its channel;
`spCharacterCreate` refuses a name in use, and the outcome `"twice"` really
executes it twice: the second execution finds the name taken, changes nothing, and
the client is told "Create failed" (570) about the character the first one made.
`spAttendanceCheck` books day and
gold in one transaction. `told` sums what `SC_ATTENDANCE_RESULT` announced, and
`channel` is the channel each session named in its last `CS_LOGIN`; both are
history variables. `Midnight` is `CURDATE()` moving on.

### DBConnection

One call of `ExecuteProc` at a time, `pc` says where it is: `execute` (the retry
loop), `reconnect` (the loop in `CheckFailoverState`), and within a round of the
latter `connecting` and `allocating`. `dbUp` and `linkUp` are
the environment and change at any moment. `Failover` (08S02), `ReadOnly`
(HY000/1836) and `ConnectionLost` (08S01) are the three states the code tells
apart; `OtherError` is every other one, and none at all (`DBConnection.cpp:149-152`),
of which it is not known whether the statement took effect. `ReconnectAlloc`,
`ReconnectLink` and `ReconnectOk` are the three calls of `Reconnect`, each of which
may fail and frees what the ones before it allocated; the database may go down
between any two. `effects` counts how often the statement took effect in this call,
and `rowRead` says whether its row was fetched: a `SQLFetch` that fails in
`processResult` leaves the handler without an answer while `ExecuteProc` returns 0
(205-212). `Calls` maps it to `DBCall`: a call is under way while `pc` is in a loop,
and its outcome follows from `effects`, `rowRead` and `result`.

### PacketStream

One connection. A byte knows its packet and its place in it, so a framing error
shows as a packet that is none. `writes` holds the posted operations of
`async_write`; one that went through in part posts its rest again (`rests`),
behind what was posted meanwhile: that is how asio composes a write, and why
`Send` may mix two packets. `RecvLoop` and `DoRead` take any number of bytes
that fits and cut off whole packets (`Framed`). `TcpClient::Send` makes two calls
of `send` on a non-blocking socket and ignores their results, so what finds no
room is missing. `link` is the connection: `"closed"` shows at both ends,
`"silent"` at none until TCP gives up on unacknowledged bytes. The lengths are
those of packets the programs send, which are between a header and
`MAX_PACKET_SIZE`. A garbled stream is not followed further: what its bytes mean
depends on payloads.

`PacketFifo` says what handlers may rely on: packets arrive whole, in order, each
once, and, while the connection is whole, eventually. `sent` and `delivered` are
mapped to the histories of both ends, `state` to `downState` or `upState`, which
record the two ways to garble a stream and the cut.

### WorldView, PlayerView, PartyView

In all three, the packets to a client are a FIFO queue, which `PacketStream`
shows them to be, and the client takes them one by one; between any two of them
the main thread may act on a key. A key takes effect on the server at once: a
request that is under way for a while cannot be told from a client that is that
much behind with its queue. Properties of a picture are stated for the moment
when the packets under way have been handled (`CaughtUp`, `Shown`: a fold of the
client's handlers over the queue), so they hold at *every* moment, and not only
when nothing is under way. Which menu is open is left out.

`WorldView` has several sessions and several accounts, also two sessions on one.
One axis stands for both, and NPCs have no place; an attack picks any NPC in the
picture. `PlayerView` has one session and everything that changes its numbers:
kills of its own, shared ones and those of others, levels, potions, equipment,
shop, attendance and quests. A selection loads bag, equipment and the quests that
were saved (`LoadQuestProgress`, 314-332), and the client, which is not told of
the latter, goes on showing its list of quests until it asks for another one.
Other players are part of the environment: the client is sent `SC_CHAR_INFO` of
them when it enters and when they move (`OtherMoves`). A creation sends
`SC_CHAR_LIST`, also after a selection that is still under way; the list brings the
client back to the selection, and the next `SC_CHAR_INFO`, whosever it is, is taken
for the player's, with its level, hit points, exp and gold
(`GameClient/main.cpp:220-264`). The database works there; its failures are the
matter of `Inventory`, `Quest` and `Account`. `PartyView` extends the handlers of
`Party`, unchanged, with what they send and with the keys P, Y and N.

History variables mark what the code cannot keep in step: `relisted` and
`shared` (`WorldView`), `selected`, `oldList`, `extraGold`, `emptySale` (`PlayerView`),
`hurried` and `mixed` (`PartyView`). A property names the case it excludes, so
each of them says that this is the *only* way for picture and server to differ.

## 3. Runs

Deadlock checking is switched off where a run may end because a bound is used
up (sessions, uids, days, packets); it is on for quests and the database
connection.

### Passing runs

Every run checks a type invariant: by itself in `party` and `quest`, elsewhere as a conjunct of the property whose comment
says "Types included".

| Run | Bounds | Distinct states |
|---|---|---|
| `party` | 4 sessions, 2 characters, `MAX_PARTY` 3, 2 party ids | 1.05 million |
| `combat` | 3 sessions, 1 party id, 2 NPC places, 3 uids, a quest worth 300 exp | 0.96 million |
| `inventory` | 2 sessions, 1 character and charUid 0, 1 slot, 2 rows | 0.73 million |
| `quest` | 2 sessions, 1 character, 2 quests of 2 kills | small |
| `account` | 2 sessions, 2 characters, 2 names, 3 texts for 2 accounts, 2 days | 0.82 million |
| `db_connection` | `MAX_RETRIES` 5, as in the code | 8 700 |
| `stream` | 2 packets each way, of 2 and 3 bytes with a header of 2, buffers of 4 | 0.31 million |
| `world_view` | 2 accounts, 3 sessions, a map of 2 places, 1 NPC at a time, 2 in all | 1.75 million |
| `player_view` | 3 items, 1 slot, 1 quest worth two levels, 1 other player, 2 selections | 2.74 million |
| `party_view` | 3 sessions, `MAX_PARTY` 3, 2 party ids | 1.17 million |

- **party**: `MappedIsMember` (the map never dangles: `OnPartyInvite` and
  `OnAttack` index `g_parties` with it unchecked, and `OnAttack` divides by the
  size found there), `PartySize`, `EndedHoldsNothing`,
  `DisbandedStaysDisbanded`, `JoinByInvitation`, and
  `OnlyLateAcceptBreaksOneParty`: accepting while in a party is the *only* way
  to be listed twice. Four sessions are enough for two parties at once, a full
  party with one more invitee, and a late accept in either direction; the
  second party id is needed for the latter.
- **combat**: `EveryNpcStands`, `KilledForGood`, `ExpBelowMax` (the quest is
  worth several levels, and `maxExp` is not reset by `OnCharSelect`),
  `NoMintedGold` for every party that can come about, and `FairShare` as long as
  every session is in one party. With one party id a session can still come to be
  listed twice in that party.
- **inventory**: `HeldIsOwn` (nothing of the character played before stays
  behind, however the load ends), `EquipmentSound`, `NothingSlipsAway`: an item that
  a session held and holds no longer was deleted, given up, or not come to by the
  load of an `OnCharSelect` of the same character. Nothing else is excused, however
  full the bag. Two rows and one slot give a full bag, an exchange of two live
  items, a repeated insert and more rows than slots.
  `"lost"` is left out of the outcomes to keep the run short: it combines the
  orphan row of `"twice"` with the uid 0 of `"failed"`. `NameLoaded` stops at
  states where name and charUid differ, which no action of the module reads.
- **quest**: `WriteThrough`, `PaidOnce`, `StatusForward` and
  `StatusMatchesProgress`, with one session per character and a database that
  works, over disconnects and crashes inside handlers. The first three do not
  hold without these assumptions, see below; the last one does. All four are
  proved, the first three from the assumptions.
- **account**: `NamesUnique`, `FallbackIsOwnAccount` (the account of a session is
  the one that the channel it named has, or will have when a later login makes it,
  and that of no other channel, also if it was let in without an answer),
  `OnlyLoginSeparates`, `AttendancePaidOnce` (which includes that no character is
  told of gold it was not given), under every outcome of every statement. `FewBookings` stops a run after the third day
  booked.
- **db_connection**: `HandlesWhenConnected`, `TroubleFreeIsExact` (a call that
  met no failover, no lost connection and no `OtherError` took effect once if it
  returns 0 and not at all if it returns -1), the liveness property `CallReturns`, and the refinement `FourOutcomes`.
- **stream**: that `PacketStream` implements `PacketFifo` in each direction, in
  two parts: `FifoBothWays` is its safety, `NoneIsLeftWaiting` its liveness (a
  packet that is whole in the buffer does not wait for the bytes of another one);
  `AlwaysRoom` (a full receive buffer would make `async_read_some` complete at
  once for ever); `NoZombie`: a session whose write
  failed, or that has something to send to a silent client, does not stay. A
  header of two bytes can be split, two short packets fill the server's buffer,
  and two packets each way are enough for every pair of writes to overlap.
- **world_view**: `NpcsFollow` and `PlayersFollow` (a client knows which player it
  is, `KnowsItself`, and sees all of them where they are, `SeesPlayers`). Three
  sessions give a killer, a watcher and a newcomer, or two sessions of one
  account beside another player. A creation after a selection (`relisted`) is not
  reached here, since a selection alone sends more packets than `MaxQueue`, and a
  larger bound makes the run too long; the theorem `ClientsSeeThePlayers` holds for
  every bound, and `player_view` reaches the case.
- **player_view**: `PlayerFollows`; its parts are `StatsFollow` (level and hit
  points unless another player is taken for the own one, attack and defence
  always), `ItemsFollow` (unless a second character was selected on the connection:
  `SC_INVENTORY_LIST` does not clear slots, `GameClient/main.cpp:423`) and
  `QuestsFollow` (from the first list on, unless that list is of the character
  selected before). `GoldShown` and `ExpBelowFullIsReal` say when the client shows
  something else than the server has: gold it counted and the player did not get,
  the sale of an empty slot, exp shown as a full bar, and (`KnowsItself`) as long as
  it takes another player for its own. `StatsSound` (hit points stay at their
  maximum, weapon and armor count in full) is about the server alone. Each exception
  is reached: two selections of a new character and of one that returns with a quest
  under way, in any order, lists of characters while the answer to a selection
  is under way, and another player taken for the own one and put right again. The
  quest is worth two levels, the bag can be full and the gold too little. One slot
  makes the bag full at once; that an item comes into the right one of several is
  left to the theorem, which holds for any number.
  `MaxListQueue` 2 lets a creation follow a selection whose first packets are not
  handled yet; `MaxSelected` bounds the selections, `MaxLevel`, `MaxHp` and `MaxGold`
  say up to where a player still kills. A quest is completed once for each
  selection and needs no bound.
- **party_view**: `PartyFollows` (`PartyShown` and `InviteShown`), and `JoinsWhomItSaw`, the
  answer to an invitation that another one has overwritten. Three sessions give a
  party that shrinks to two and one that is disbanded, and two inviters.
  `ListedOnce` stops where a session came to be listed twice.

Fairness. `ConnSpec` of `DBConnection` assumes weak fairness of the steps of
`ExecuteProc` only: the thread that runs it keeps running, and both loops are
bounded. The database owes nothing: `CallReturns` holds though it may go down
and stay down. `BusySpec` adds weak fairness of `Connect` and of new calls,
because it is used to show that a connection is *not* restored although the
server goes on calling. `Fairness` of `PacketStream` is weak fairness of what a
running program and TCP do by themselves: posted writes go through while the
connection is up and fail when it is closed (the `io_context` runs), the receive
loops take bytes that are there, a started `TcpClient::Send` makes its second
call, TCP gives up on bytes that nobody acknowledges, and a closed connection is
reported to both ends. Nobody has to send, and a connection may end at any time
or never. The other modules state no liveness property; their components react
to packets that nobody has to send.

### Disagreements between the code and what is said about it

Each is a run that TLC must find violated; `PROJECT.json` quotes the lines.

- `inventory_removed_is_gone`: `spInventoryLoad` returns an equipped item in
  both result sets. After the next login it is in the bag and in the hand, and
  it stays in the hand when the other one is sold.
- `db_failover_survived`: after five failed reconnections `connected_` stays
  false, and `ExecuteProc` returns at its first test for good.

Met while modelling, without a run of their own: `OnPartyAccept` (1262) does not
repeat the test "Already in a party", so a session invited twice is listed in
two parties; `OnlyLateAcceptBreaksOneParty` says that this is the only way. After
a `spQuestLoad` that failed (319) a completed quest can be accepted again.
`CS_ATTENDANCE_CHECK` without a character is answered with a reward nobody gets
(691). `SET time_zone` is executed after a failover only (`DBConnection.cpp:157`),
neither by `Connect` nor by `Reconnect`, so the day of `CURDATE()` depends on
history. `CS_PARTY_ACCEPT` names no inviter: an answer that crosses a second
invitation counts for that one. The client adds the whole reward of every kill to
the gold it shows (`GameClient/main.cpp:316`), and the sale of an empty slot sets
it to 0 (946). A creation after a selection brings a client back to the selection,
where the next `SC_CHAR_INFO`, whosever it is, becomes its own
(`GameClient/main.cpp:254`); after a second selection on one connection items and
quests of the first character stay on the screen until something overwrites them
(423). `ExecuteProc` never returns the documented 1 (`DBConnection.h:18`).
A session listed twice in its party is credited two quest kills for one NPC. Two sessions on one character overwrite
each other's quest rows. More than `MAX_INVENTORY` undeleted rows are cut off at
login. A retried `spCharacterCreate` tells the client "Create failed" about a
character it has made. Level, exp and the gold of kills, quests and sales are
never written to the database. The attendance gold does not reach
`PlayerData::gold`. `SQL_RESET_PARAMS` leaves columns bound.

## 4. Proofs

TLAPS checks these for every value of the constants, from the assumptions named
in the modules (`SessionAssumption`, `PartyAssumption`: at least two places in a
party, `QuestAssumption`: at least one kill per quest, `CombatAssumption`,
`InventoryAssumption`, `AccountAssumption`, `RetryAssumption`,
`PlayerAssumption`: finitely many quests, natural numbers in the tables of items
and quests; `WorldAssumption`: the bound on NPC uids leaves room for the first
`MAX_NPC`; `PartyViewAssumption`; `PacketAssumption`: packets are at least a
header long and at most `MAX_PACKET_SIZE`, which fits the buffers). The bounds of the runs are among these constants, so the theorems
hold however large they are.

| Theorem | States | Module |
|---|---|---|
| `PartyTypeCorrect`, `MapNeverDangles`, `PartySizeBounded`, `EndedSessionsForgotten`, `NoRevival`, `MembershipByInvitation`, `OnlyLateAccept` | `TypeOK`, `MappedIsMember`, `PartySize`, `EndedHoldsNothing`, `DisbandedStaysDisbanded`, `JoinByInvitation`, `OnlyLateAcceptBreaksOneParty` | `PartyProofs` |
| `NpcsStand`, `NoSecondLife`, `ExpStaysBelowMax`, `KillsAreSharedFairly`, `KillsMintNoGold` | `EveryNpcStands`, `KilledForGood`, `ExpBelowMax`, `FairShare`, `NoMintedGold` | `PartyProofs` |
| `ClientsFollowParty`, `YesMeansTheInviterShown` | `PartyFollows`, `JoinsWhomItSaw` | `PartyProofs` |
| `HeldIsOwned`, `EquipmentIsSound`, `ItemsDoNotSlipAway` | `HeldIsOwn`, `EquipmentSound`, `NothingSlipsAway` | `InventoryProofs` |
| `QuestTypeCorrect`, `StatusAgrees` | `TypeOK`, `StatusMatchesProgress` | `QuestProofs` |
| `MemoryIsSaved`, `QuestPaidOnce`, `QuestStatusForward` (assume `Orderly`) | `WriteThrough`, `PaidOnce`, `StatusForward` | `QuestProofs` |
| `AccountNamesUnique`, `LoginFallback`, `AttendancePaid`, `LoginSeparates` | `NamesUnique`, `FallbackIsOwnAccount`, `AttendancePaidOnce`, `OnlyLoginSeparates` | `AccountProofs` |
| `HandlesValid`, `ExactWithoutTrouble`, `ImplementsCall` | `HandlesWhenConnected`, `TroubleFreeIsExact`, `FourOutcomes` | `AccountProofs` |
| `ClientShowsPlayer`, `ExpShownIsReal`, `GoldShownIsReal` | `PlayerFollows`, `ExpBelowFullIsReal`, `GoldShown` | `PlayerViewProofs` |
| `StatsStaySound` (assumes `HpFits`) | `StatsSound` | `PlayerViewProofs` |
| `ClientsSeeTheNpcs`, `ClientsSeeThePlayers` | `NpcsFollow`, `PlayersFollow` | `WorldViewProofs` |
| `ReadsHaveRoom`, `PacketsInOrder` | `AlwaysRoom`, `FifoBothWays` | `PacketStreamProofs` |

**PartyProofs, the party system.** The first seven follow from one inductive invariant
`IInv = TypeOK /\ MapInv /\ VectorInv /\ EndedHoldsNothing /\ InviteInv`.
`MappedIsMember` alone is not inductive: founding a party must not overwrite an
existing one, so `MapInv` and `VectorInv` add that every id in use is below
`nextPartyId`; `push_back` adds an entry only if the copies of a session are
numbered without a gap (`WellNumbered`), which the size bound needs; and nobody
is invited by itself (`InviteInv`), without which a party could be founded with
one session listed twice. `RemoveFromParty`, used by leaving and by
disconnecting, has its effect stated once in `RemoveFromPartyFacts`: the party
it shortens keeps two members or is emptied, and then the last member's map
entry is gone, which names this party or one that still lists it. The two
theorems about steps (`MembershipByInvitation`, `OnlyLateAccept`) use the
invariant in the state before the step.

**QuestProofs.** `QuestTypeCorrect` and `StatusAgrees` hold for every set of
outcomes and with or without two sessions on a character. Neither is inductive
without the other: the progress stays within `0..Target` because a quest that
still counts has fewer than `Target` kills. `Sound` says both about the map of
one session or the rows of one character; a save of any part of sound progress
leaves the table sound (`SaveKeepsSound`), which covers failed saves and crashes
alike.

The other three assume `Orderly`: one session per character, and statements that
take effect and are answered, if need be by the retry. The code enforces neither
(section 3 says what happens without them); the run `quest` satisfies both, and
disconnects and crashes inside handlers remain. Their invariant `OInv` adds that
a character is on one session, that memory and table agree, and that a quest
that was paid for is `Completed` in the *table*. The last is the point of
`OnQuestComplete` saving before it pays: a crash in between costs the reward but
never pays it twice. That the table moves forward is shown of the same step,
because it is what keeps a paid quest completed.

**PartyProofs, combat.** For the NPCs, `EveryNpcStands` is strengthened by "every uid
was given out already" (`NpcInv`), which makes the uid of a respawned NPC new.
The NPC that was hit is the only dead one (`KillReplacesNpc`), so the loop that
looks for a dead place finds that one. For the players, `CheckLevelUp` is shown
to be its loop (`CheckLevelUpIsLoop`: each round leaves less exp), and the loop
to end below `maxExp` with the gold untouched (`CheckLevelUpFacts`). A handler
of the server is a step of the party system (`PartyStep`), so the invariant of
the party system is at hand: it gives the division in `OnAttack` its divisor
(`SharingFacts`). `FairShare` assumes every session to be in one party and uses
that its members then have one entry each (`SharesInParty`); `NoMintedGold` does
not, and rests on `SumBound`: what all sessions together gain is at most one
share for each *entry* of the vector, counted by cardinality, so a session that
is listed twice takes two shares but creates none.

**InventoryProofs.** `HeldIsOwn` and `EquipmentSound` are inductive together:
the equipment table is written from what the session holds, and the hands are
loaded from the table. The lemmas about `spInventoryLoad` say that the rank of a
row among those of its character is the slot it is loaded to, so no two rows
meet in a slot and none is left out while there is room. A load that breaks off
has read the rows below some rank, so an item it lost has a rank at which the new
bag is empty, or none that fits the bag (`LoadStopped`). This is what
`NothingSlipsAway` needs of a second selection of the same character; an exchange
of equipment is shown to keep both items, with no regard to how many rows there are.

**AccountProofs.** `NamesUnique` needs that AUTO_INCREMENT has not reached a
character (`Unused`); `FallbackIsOwnAccount` relates the account of a session to the channel it named,
and needs that no account has another
uid than its channel (`OwnChannel`), also one made by a login nobody answered, and
that a session has its channel for its account (`InChannel`), whichever branch of
`OnLogin` it came by.
For `AttendancePaidOnce`, `BookedDay` relates one booking to the cardinality of
the days attended: a retry that finds the day booked adds neither a day nor
gold.

**AccountProofs, the connection.** `HandleInv` adds that `connected_` is false throughout a
reconnection, which frees the handles before it knows whether there will be new
ones, and which handles there are at each of its three steps; `EffectInv` bounds the effects by the rounds and says that a round of a
call without trouble that is followed by another one had no effect.
`ImplementsCall` is the refinement: the initial state maps to that of `DBCall`,
the steps that begin a call map to `Call` or `Refuse`, those that return to
`Answer` or `NoAnswer`, an execution whose answer is lost to `ExecuteUnheard`,
and the rest of the two loops to a stutter; `EffectInv` provides what is known of
`effects` when the call returns. Fairness is not used.

**PlayerViewProofs.** The properties speak of `Shown`, a fold of the client's
handlers over the packets under way. The proof turns the fold into a run of the
client (`FoldIsRun`), derives that it distributes over concatenation
(`FoldConcat`), and with it needs to look only at the packets a handler *sends*:
packets that the client takes leave `Shown` alone (`ReceiveKeepsShown`), packets
that are sent are applied to it (`SentShown`). Two handlers send sequences
without a bound: the `SC_LEVEL_UP`s of a payment (`LevelUpsAreTold`, by the least
exp for which it would fail) and one `SC_QUEST_PROGRESS` for each quest that
counts, in any order (`ProgressIsTold`). The players told of at a selection are a
set of any size, sent in any order (`OthersShown`): they leave alone what a client
shows that knows its player afterwards. The invariant adds `Entering` to the
properties: before the first selection the client shows what it starts with and
has no list of quests, and nothing but lists of characters is under way, which is
why a `SC_INVENTORY_LIST` that names the occupied slots only is enough then, and why
the `SC_CHAR_INFO` of a first selection is taken for the player's. What a client
shows that takes another player for its own is constrained only by attack and
defence, which no `SC_CHAR_INFO` carries; a packet about the player itself puts level
and hit points right again. After a second selection nothing is claimed of the items,
and of the quests only from the next list on.

`StatsSound` is about the server alone. A player after level-ups is no weaker than
before (`LevelsNoWeaker`, by the least exp for which it would fail), and whoever is
no weaker is sound with the same weapon and armor (`NoWeakerIsSound`). The theorem
assumes `HpFits`: what a potion adds to the maximum of hit points fits the
`uint16_t` to which `OnItemUse` converts the sum, without which the player would
be left with what remains of it.

**PartyProofs, the clients.** `PartyView` adds queues and pictures to the party
handlers, so each of its steps is one of `Party` or leaves the party tables alone,
and the invariant of the party system carries over. `VInv` adds that `mixed` is set as
soon as a session is listed twice (`MixedInv`), so that otherwise the party a
session is mapped to is the only one that lists it; and that a session that is not there has an
empty queue and a fresh picture (`IdleInv`), which is what makes the first packet
to a new connection the first it handles. The fold over the queue is handled as in
`PlayerViewProofs`, for every session at once. `JoinsWhomItSaw` follows from
`InviteShown` before the step: with no later invitation under way the fold leaves
the invitation on the screen as it is.

**WorldViewProofs.** `WInv` says for every session in the game that the fold over
its queue yields the NPCs (`NpcsSeen`) and the players (`PlayersSeen`) of the server.
`NpcInv` (uids at or above `nextNpcUid` are unused) makes the NPC of a respawn new
to every picture; `SessionsInv` relates accounts to sessions: an account that is
not shared has one session, so a packet that names the account means that session;
`OutInv` says that a session outside the game is sent nothing but lists of
characters, so what a newcomer is sent applies to an empty picture. The broadcasts
are functions over the sessions; their effect on a picture is stated once for each
kind of packet, and the list of the NPCs or players that stand is a sequence of
any length, in any order, whose effect is derived packet by packet
(`FoldInduction`).

**PacketStreamProofs.** The bytes that have left the sender and not yet a framing
loop, in TCP and in the buffer, are consecutive bytes of the packets sent, from the
first byte of the first packet not handled (`InOrder`). That the next write goes on
where they end is a matter of what is left to write: there is one piece of each
packet that is not written, and only the packet that is due may have lost its
front (`Pending`). A write of another piece is exactly one that overtakes, and
garbles the stream. `Framed`, as a recursion, is justified by `RecursionExists`;
applied to bytes in order it cuts off the next packets, whole, and leaves bytes in
order (by the shortest buffer for which it would fail), fewer than a packet, which
is why a read always has room. The same invariant serves both directions; upwards
what is left to write is the payload of the last `TcpClient::Send`. Then a read
maps to `Deliver` of `PacketFifo` or to a stutter, and `FifoBothWays` follows.

**Recursion.** A recursive definition says nothing until a function is shown to
satisfy its equation, and the library's theorems on this take operators as
parameters, which the provers cannot instantiate. `RecursionExists` justifies
the recursion of functions once: a measure that decreases, approximations on the
arguments below a measure, and least counterexamples (`LeastNat`) in place of
induction. The loops of `CheckLevelUp`, `Framed`, the sums over sessions and
`FoldLeft` are instances. For the last one it also derives the laws of folds (the
empty queue, one packet, a concatenation, the first packet taken, a relation or an
invariant that every packet keeps), with the
handler, the pictures and the packets as its parameters.

Only model-checked:

- `CallReturns`, `NoZombie` and `NoneIsLeftWaiting`: liveness under fairness is
  out of the prover's reach.
- `RemovedIsGone` and `FailoverSurvived`, which the code violates.

Neither proved nor reached by a run: that `StatsSound` fails without `HpFits`. A
selection puts the level back and leaves `maxHp`, so with enough selections hit
points and a potion together pass `uint16_t` and wrap around; this takes more
than 3 200 levels on one connection.

Numbers are natural numbers in the models, except for the conversion at
`Healed`. The theorems therefore speak of players whose numbers fit the types
of `PlayerData`: `maxHp`, the smallest of them that only grows, fits a
`uint16_t` for the first 3 271 levels gained on a connection.

## 5. Not modelled

- `OnChat`, `OnShopOpen`, `SendAttendanceInfo`, `OnHeartbeat`:
  they only send, and no state of a client that matters depends on it. Of
  `SendCharList` the list itself is left out; that it brings the client back to the
  selection is in `WorldView` and `PlayerView`.
- Drawing, text input, the chat log, and which menu is open in the client: I/O.
  A late `SC_QUEST_LIST` opens the quest menu again; no request it can lead to is
  one the player could not make anyway.
- A procedure that fails after its first result set was sent, such as an UPDATE
  after the SELECT that answers: a call is answered as a whole or not at all, up to
  the rows of `spInventoryLoad`.
- Places of NPCs and the damage formula: reach and damage are nondeterministic.
- The memory of `DBConnection`'s bound columns: below the level of the models.
- `LoadItems` and `LoadQuests`: run once at the start; what they load is
  constants here.
- `generate_protocol.py` and the batch files: outside the running system.

## 6. State of the project

Modelled and checked: every component but data loading and the tools around the
system. Proved: every invariant and every step property that a passing run
checks, and the safety of both refinements. What could follow:

1. `WorldView`, `PlayerView` and `PartyView` on top of `PacketFifo` instead of a
   queue each, which would make the composition with `PacketStream` formal.
2. The garbled stream: what a client makes of bytes out of step.
3. The time zone of `CURDATE()` in `Account`, as `DBConnection` leaves it.

## 7. Running

    tlc -config MCParty.cfg MCParty        # likewise for the other runs
    tlapm PartyProofs.tla
    tlapm QuestProofs.tla                  # likewise for the other proofs
