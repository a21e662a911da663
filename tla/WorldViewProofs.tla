--------------------------- MODULE WorldViewProofs ---------------------------
(***************************************************************************)
(* Proofs about WorldView, for any number of accounts, sessions, NPCs and  *)
(* packets under way: what a client shows once it has caught up (CaughtUp) *)
(* is the world of the server.                                             *)
(*                                                                         *)
(* CaughtUp is a fold over the queue, whose laws are those of Recursion: a *)
(* packet that a client handles leaves it as it is, and packets that are   *)
(* sent are handled after those under way.  So it remains to look, for     *)
(* each handler of the server, at the packets it sends to each session and *)
(* at what they make of a picture; SendAllNPCs and SendOtherPlayers send   *)
(* sequences of any length, in the order of a hash map.                    *)
(***************************************************************************)
EXTENDS WorldView, FiniteSetTheorems, SequenceTheorems, TLAPS

\* The folds of the handlers of the client.
R == INSTANCE Recursion WITH Handle <- Handled, Picture <- Views, Packets <- Packet

\* The queues, with all that may be in them.
Queues == [SessionId -> Seq(Packet)]

-----------------------------------------------------------------------------
(* What each packet does to a picture. *)

\* w shows the players and the player itself as v does.
SamePlayers(v, w) == w.state = v.state /\ w.uid = v.uid /\ w.pos = v.pos /\ w.others = v.others

\* The packets that are about NPCs, and the others.
IsNpcPacket(p) == p.type \in {"SC_NPC_SPAWN", "SC_NPC_DEATH", "SC_ATTACK_RESULT"}

\* The kinds of packets.
LEMMA PacketTypes ==
  ASSUME NEW p \in Packet
  PROVE  \/ p.type = "SC_CHAR_LIST"
         \/ p.type = "SC_CHAR_INFO" /\ p.uid \in Accounts /\ p.pos \in Place
         \/ p.type = "SC_CHAR_LEAVE" /\ p.uid \in Accounts
         \/ p.type = "SC_MOVE_RESULT" /\ p.pos \in Place
         \/ p.type \in {"SC_NPC_SPAWN", "SC_ATTACK_RESULT"} /\ p.uid \in NpcUid /\ p.hp \in 0..NpcMaxHp
         \/ p.type = "SC_NPC_DEATH" /\ p.uid \in NpcUid
  BY DEF Packet

\* The fields of a picture.
LEMMA ViewFields ==
  ASSUME NEW v \in Views
  PROVE  /\ v.state \in {"Login", "CharSelect", "InGame"} /\ v.uid \in Accounts \cup {NoAccount}
         /\ v.pos \in Place /\ v.npcs \in [NpcUid -> 0..NpcMaxHp]
         /\ v.others \in [Accounts -> Place \cup {Nowhere}]
  BY DEF Views

\* SC_CHAR_LIST.
LEMMA ListTold ==
  ASSUME NEW v \in Views, NEW p, p.type = "SC_CHAR_LIST", NEW w, w = Handled(v, p)
  PROVE  /\ w \in Views /\ w.state = "CharSelect" /\ w.npcs = v.npcs
         /\ w.uid = v.uid /\ w.pos = v.pos /\ w.others = v.others
<1>1. w = [v EXCEPT !.state = "CharSelect"]
  BY DEF Handled, OnCharList
<1> QED BY <1>1 DEF Views

\* SC_CHAR_INFO, the first after a list.
LEMMA FirstInfoTold ==
  ASSUME NEW v \in Views, NEW p \in Packet, p.type = "SC_CHAR_INFO", NEW w, w = Handled(v, p),
         v.state = "CharSelect"
  PROVE  /\ w \in Views /\ w.state = "InGame" /\ w.uid = p.uid /\ w.pos = p.pos
         /\ w.npcs = v.npcs /\ w.others = v.others
<1>1. w = [v EXCEPT !.state = "InGame", !.uid = p.uid, !.pos = p.pos]
  BY DEF Handled, OnCharInfo
<1>2. p.uid \in Accounts /\ p.pos \in Place
  BY PacketTypes
<1> QED BY <1>1, <1>2 DEF Views

\* SC_CHAR_INFO of the player itself.
LEMMA OwnInfoTold ==
  ASSUME NEW v \in Views, NEW p \in Packet, p.type = "SC_CHAR_INFO", NEW w, w = Handled(v, p),
         v.state # "CharSelect", p.uid = v.uid
  PROVE  /\ w \in Views /\ w.state = v.state /\ w.uid = v.uid /\ w.pos = p.pos
         /\ w.npcs = v.npcs /\ w.others = v.others
<1>1. w = [v EXCEPT !.pos = p.pos]
  BY DEF Handled, OnCharInfo
<1>2. p.uid \in Accounts /\ p.pos \in Place
  BY PacketTypes
<1> QED BY <1>1, <1>2 DEF Views

\* SC_CHAR_INFO of another player.
LEMMA OtherInfoTold ==
  ASSUME NEW v \in Views, NEW p \in Packet, p.type = "SC_CHAR_INFO", NEW w, w = Handled(v, p),
         v.state # "CharSelect", p.uid # v.uid
  PROVE  /\ w \in Views /\ w.state = v.state /\ w.uid = v.uid /\ w.pos = v.pos /\ w.npcs = v.npcs
         /\ w.others[p.uid] = p.pos
         /\ \A a \in Accounts : a # p.uid => w.others[a] = v.others[a]
<1> DEFINE o == [v.others EXCEPT ![p.uid] = p.pos]
<1>1. w = [v EXCEPT !.others = o]
  BY DEF Handled, OnCharInfo
<1>2. p.uid \in Accounts /\ p.pos \in Place
  BY PacketTypes
<1>3. /\ o \in [Accounts -> Place \cup {Nowhere}]
      /\ o[p.uid] = p.pos
      /\ \A a \in Accounts : a # p.uid => o[a] = v.others[a]
  BY <1>2, ViewFields
<1> HIDE DEF o
<1> QED BY <1>1, <1>3 DEF Views

\* SC_CHAR_LEAVE.
LEMMA LeaveTold ==
  ASSUME NEW v \in Views, NEW p \in Packet, p.type = "SC_CHAR_LEAVE", NEW w, w = Handled(v, p)
  PROVE  /\ w \in Views /\ w.state = v.state /\ w.uid = v.uid /\ w.pos = v.pos /\ w.npcs = v.npcs
         /\ w.others[p.uid] = Nowhere
         /\ \A a \in Accounts : a # p.uid => w.others[a] = v.others[a]
<1> DEFINE o == [v.others EXCEPT ![p.uid] = Nowhere]
<1>1. w = [v EXCEPT !.others = o]
  BY DEF Handled, OnCharLeave
<1>2. p.uid \in Accounts
  BY PacketTypes
<1>3. /\ o \in [Accounts -> Place \cup {Nowhere}]
      /\ o[p.uid] = Nowhere
      /\ \A a \in Accounts : a # p.uid => o[a] = v.others[a]
  BY <1>2, ViewFields
<1> HIDE DEF o
<1> QED BY <1>1, <1>3 DEF Views

\* SC_MOVE_RESULT.
LEMMA MoveTold ==
  ASSUME NEW v \in Views, NEW p \in Packet, p.type = "SC_MOVE_RESULT", NEW w, w = Handled(v, p)
  PROVE  /\ w \in Views /\ w.state = v.state /\ w.uid = v.uid /\ w.pos = p.pos
         /\ w.npcs = v.npcs /\ w.others = v.others
<1>1. w = [v EXCEPT !.pos = p.pos]
  BY DEF Handled, OnMoveResult
<1>2. p.pos \in Place
  BY PacketTypes
<1> QED BY <1>1, <1>2 DEF Views

\* The hp a picture shows of the NPC a packet is about, afterwards.
HpTold(v, p) ==
    CASE p.type = "SC_NPC_SPAWN"     -> p.hp
      [] p.type = "SC_NPC_DEATH"     -> 0
      [] p.type = "SC_ATTACK_RESULT" -> IF v.npcs[p.uid] > 0 THEN p.hp ELSE v.npcs[p.uid]

\* The packets about NPCs: the hp of one NPC changes and nothing else does.
LEMMA NpcTold ==
  ASSUME NEW v \in Views, NEW p \in Packet, IsNpcPacket(p), NEW w, w = Handled(v, p)
  PROVE  /\ w \in Views /\ SamePlayers(v, w) /\ p.uid \in NpcUid
         /\ w.npcs[p.uid] = HpTold(v, p)
         /\ \A u \in NpcUid : u # p.uid => w.npcs[u] = v.npcs[u]
<1> DEFINE n == [v.npcs EXCEPT ![p.uid] = HpTold(v, p)]
<1>0. p.uid \in NpcUid /\ v.npcs \in [NpcUid -> 0..NpcMaxHp]
  BY PacketTypes, ViewFields DEF IsNpcPacket
<1>1. HpTold(v, p) \in 0..NpcMaxHp
  <2>1. 0 \in 0..NpcMaxHp
    BY WorldAssumption
  <2>2. v.npcs[p.uid] \in 0..NpcMaxHp
    BY <1>0
  <2> QED BY <2>1, <2>2, PacketTypes DEF HpTold, IsNpcPacket
<1>2. /\ n \in [NpcUid -> 0..NpcMaxHp] /\ n[p.uid] = HpTold(v, p)
      /\ \A u \in NpcUid : u # p.uid => n[u] = v.npcs[u]
  BY <1>0, <1>1
<1>3. w = [v EXCEPT !.npcs = n]
  <2>1. CASE p.type = "SC_NPC_SPAWN"
    BY <2>1 DEF Handled, OnNpcSpawn, HpTold
  <2>2. CASE p.type = "SC_NPC_DEATH"
    BY <2>2 DEF Handled, OnNpcDeath, HpTold
  <2>3. CASE p.type = "SC_ATTACK_RESULT" /\ v.npcs[p.uid] > 0
    BY <2>3 DEF Handled, OnAttackResult, HpTold
  <2>4. CASE p.type = "SC_ATTACK_RESULT" /\ ~(v.npcs[p.uid] > 0)
    <3>1. w = v /\ HpTold(v, p) = v.npcs[p.uid]
      BY <2>4 DEF Handled, OnAttackResult, HpTold
    <3>2. n = v.npcs
      BY <1>0, <3>1
    <3> HIDE DEF n
    <3> QED BY <3>1, <3>2 DEF Views
  <2> QED BY <2>1, <2>2, <2>3, <2>4 DEF IsNpcPacket
<1> HIDE DEF n
<1> QED BY <1>0, <1>2, <1>3 DEF Views, SamePlayers

\* A packet that is not about NPCs leaves them as they are.
LEMMA NotNpcTold ==
  ASSUME NEW v \in Views, NEW p \in Packet, ~IsNpcPacket(p)
  PROVE  Handled(v, p) \in Views /\ Handled(v, p).npcs = v.npcs
<1>1. CASE p.type = "SC_CHAR_LIST"
  BY <1>1, ListTold
<1>2. CASE p.type = "SC_CHAR_INFO"
  BY <1>2, FirstInfoTold, OwnInfoTold, OtherInfoTold
<1>3. CASE p.type = "SC_CHAR_LEAVE"
  BY <1>3, LeaveTold
<1>4. CASE p.type = "SC_MOVE_RESULT"
  BY <1>4, MoveTold
<1> QED BY <1>1, <1>2, <1>3, <1>4, PacketTypes DEF IsNpcPacket

\* The handlers are as the lemmas about folds need them.
LEMMA HandlersFit == R!Handles
  BY NpcTold, NotNpcTold DEF R!Handles

\* What a client shows once it has caught up is what those lemmas speak of.
LEMMA CaughtUpIsFold == \A s : CaughtUp(s) = R!After(view[s], queue[s])
  BY DEF CaughtUp, R!After, FoldLeft, R!FoldLeft, MapThenFoldSet, R!MapThenFoldSet, Max, R!Max

\* What it shows after a step.
Later(s) == R!After(view'[s], queue'[s])

\* Likewise.
LEMMA CaughtUpNext == \A s : CaughtUp(s)' = Later(s)
  BY DEF Later, CaughtUp, R!After, FoldLeft, R!FoldLeft, MapThenFoldSet, R!MapThenFoldSet, Max, R!Max

-----------------------------------------------------------------------------
(* The sequences that OnCharSelect sends. *)

\* NPCs and sessions are finitely many.
LEMMA Finite == IsFiniteSet(NpcUid) /\ IsFiniteSet(SessionId)
<1>1. 1 \in Int /\ MaxNpcUid \in Int /\ MaxSession \in Int
  BY WorldAssumption
<1> QED BY <1>1, FS_Interval DEF NpcUid, SessionId

\* SetToSeq lists every element of a finite set.
LEMMA SetToSeqFacts ==
  ASSUME NEW S, IsFiniteSet(S), NEW s, s = SetToSeq(S)
  PROVE  /\ s \in Seq(S) /\ Len(s) = Cardinality(S)
         /\ \A k \in 1..Len(s) : s[k] \in S
         /\ \A x \in S : \E k \in 1..Len(s) : s[k] = x
<1> DEFINE n == Cardinality(S)
<1>1. n \in Nat /\ ExistsBijection(1..n, S)
  BY FS_CardinalityType
<1>2. \E f \in [1..n -> S] : IsInjective(f)
  <2> HIDE DEF n
  <2> QED BY <1>1 DEF ExistsBijection, Bijection, Injection
<1>3. s \in [1..n -> S] /\ IsInjective(s)
  BY <1>2 DEF SetToSeq
<1>4. s \in Surjection(1..n, S)
  <2>1. s \in Injection(1..n, S)
    BY <1>3 DEF Injection
  <2>2. Cardinality(1..n) = n
    BY <1>1, FS_Interval
  <2> QED BY <2>1, <2>2, FS_Injection
<1> HIDE DEF n
<1>5. s \in Seq(S) /\ Len(s) = n
  BY <1>1, <1>3
<1>6. \A x \in S : \E k \in 1..n : s[k] = x
  BY <1>4 DEF Surjection
<1> QED BY <1>3, <1>5, <1>6 DEF n

\* SendAllNPCs: one packet for each living NPC.
LEMMA AllNpcsFacts ==
  ASSUME npcs \in [NpcUid -> 0..NpcMaxHp], NEW s, s = SendAllNPCs
  PROVE  /\ s \in Seq(Packet)
         /\ \A k \in 1..Len(s) : \E u \in Alive : s[k] = NpcSpawn(u, npcs[u])
         /\ \A u \in Alive : \E k \in 1..Len(s) : s[k] = NpcSpawn(u, npcs[u])
<1> DEFINE pk == [u \in Alive |-> NpcSpawn(u, npcs[u])]
           S == {NpcSpawn(u, npcs[u]) : u \in Alive}
<1>1. IsFiniteSet(S)
  <2>1. IsFiniteSet(Alive)
    BY Finite, FS_Subset DEF Alive
  <2>2. pk \in Surjection(Alive, S)
    BY DEF Surjection
  <2> HIDE DEF pk, S
  <2> QED BY <2>1, <2>2, FS_Surjection
<1>2. S \subseteq Packet
  BY DEF Alive, NpcSpawn, Packet
<1>3. s = SetToSeq(S)
  BY DEF SendAllNPCs
<1>4. \A x : x \in S <=> \E u \in Alive : x = NpcSpawn(u, npcs[u])
  OBVIOUS
<1> HIDE DEF S, pk
<1>5. /\ s \in Seq(S)
      /\ \A k \in 1..Len(s) : s[k] \in S
      /\ \A x \in S : \E k \in 1..Len(s) : s[k] = x
  BY <1>1, <1>3, SetToSeqFacts
<1>6. s \in Seq(Packet)
  BY <1>2, <1>5, SeqMonotonic
<1> QED BY <1>4, <1>5, <1>6

\* Whatever their order, they bring a picture without dead NPCs up to date.
LEMMA AllNpcsTold ==
  ASSUME npcs \in [NpcUid -> 0..NpcMaxHp], NEW v \in Views,
         \A u \in NpcUid : npcs[u] = 0 => v.npcs[u] = 0,
         NEW w, w = R!After(v, SendAllNPCs)
  PROVE  w \in Views /\ SamePlayers(v, w) /\ w.npcs = npcs
<1> DEFINE s == SendAllNPCs
           Told(k, u) == \E j \in 1..k : s[j] = NpcSpawn(u, npcs[u])
           I == {z \in Nat \X Views :
                   /\ SamePlayers(v, z[2])
                   /\ \A u \in NpcUid : z[2].npcs[u] = IF u \in Alive /\ Told(z[1], u) THEN npcs[u] ELSE v.npcs[u]}
<1>1. /\ s \in Seq(Packet)
      /\ \A k \in 1..Len(s) : \E u \in Alive : s[k] = NpcSpawn(u, npcs[u])
      /\ \A u \in Alive : Told(Len(s), u)
  BY AllNpcsFacts
<1> HIDE DEF s
<1>2. <<0, v>> \in I
  BY DEF SamePlayers
<1>3. ASSUME NEW k \in 1..Len(s), NEW x \in Views, <<k - 1, x>> \in I
      PROVE  <<k, Handled(x, s[k])>> \in I
  <2> DEFINE p == s[k]
             y == Handled(x, p)
  <2>1. PICK u \in Alive : p = NpcSpawn(u, npcs[u])
    BY <1>1
  <2>2. p \in Packet /\ IsNpcPacket(p) /\ p.uid = u /\ HpTold(x, p) = npcs[u]
    BY <1>1, <2>1 DEF IsNpcPacket, NpcSpawn, HpTold
  <2>3. /\ y \in Views /\ SamePlayers(x, y) /\ y.npcs[u] = npcs[u]
        /\ \A t \in NpcUid : t # u => y.npcs[t] = x.npcs[t]
    BY <2>2, NpcTold
  <2>4. /\ SamePlayers(v, x)
        /\ \A t \in NpcUid : x.npcs[t] = IF t \in Alive /\ Told(k - 1, t) THEN npcs[t] ELSE v.npcs[t]
    BY <1>3
  <2>5. \A t \in NpcUid : Told(k, t) <=> Told(k - 1, t) \/ p = NpcSpawn(t, npcs[t])
    BY <1>1
  <2>6. \A t \in NpcUid : p = NpcSpawn(t, npcs[t]) <=> t = u
    BY <2>1 DEF NpcSpawn
  <2> HIDE DEF y, p, Told
  <2>7. \A t \in NpcUid : y.npcs[t] = IF t \in Alive /\ Told(k, t) THEN npcs[t] ELSE v.npcs[t]
    BY <2>3, <2>4, <2>5, <2>6
  <2>8. SamePlayers(v, y) /\ k \in Nat
    BY <2>3, <2>4 DEF SamePlayers
  <2> QED BY <2>3, <2>7, <2>8 DEF y, p
<1>4. <<Len(s), w>> \in I
  <2> HIDE DEF I
  <2>1. w = R!After(v, s)
    BY DEF s
  <2> QED BY <1>1, <1>2, <1>3, <2>1, HandlersFit, R!FoldInduction
<1>5. /\ w \in Views /\ SamePlayers(v, w)
      /\ \A u \in NpcUid : w.npcs[u] = IF u \in Alive /\ Told(Len(s), u) THEN npcs[u] ELSE v.npcs[u]
  BY <1>4
<1> HIDE DEF I, Told
<1>6. \A u \in NpcUid : w.npcs[u] = npcs[u]
  <2> SUFFICES ASSUME NEW u \in NpcUid PROVE w.npcs[u] = npcs[u]
    OBVIOUS
  <2>1. CASE u \in Alive
    BY <1>1, <1>5, <2>1
  <2>2. CASE u \notin Alive
    <3>1. npcs[u] = 0
      BY <2>2 DEF Alive
    <3> QED BY <1>5, <2>2, <3>1
  <2> QED BY <2>1, <2>2
<1>7. w.npcs = npcs
  <2>1. w.npcs \in [NpcUid -> 0..NpcMaxHp]
    BY <1>5, ViewFields
  <2> QED BY <1>6, <2>1
<1> QED BY <1>5, <1>7

\* SC_CHAR_INFO of every other player in the game, for a newcomer.
LEMMA OthersFacts ==
  ASSUME sessions \subseteq SessionId, pos \in [SessionId -> Place],
         \A t \in sessions : accountUid[t] \in Accounts,
         NEW me \in SessionId, NEW s, s = CharInfoOfOthers(me)
  PROVE  /\ s \in Seq(Packet)
         /\ \A k \in 1..Len(s) : \E t \in Others(me) : s[k] = CharInfo(accountUid[t], pos[t])
         /\ \A t \in Others(me) : \E k \in 1..Len(s) : s[k] = CharInfo(accountUid[t], pos[t])
<1> DEFINE S == Others(me)
           n == Cardinality(S)
           ts == SetToSeq(S)
<1>1. IsFiniteSet(S) /\ S \subseteq sessions
  <2>1. S \subseteq sessions /\ S \subseteq SessionId
    BY DEF Others
  <2> QED BY <2>1, Finite, FS_Subset
<1>2. s = [i \in 1..n |-> CharInfo(accountUid[ts[i]], pos[ts[i]])]
  BY DEF CharInfoOfOthers
<1> HIDE DEF S
<1>3. /\ Len(ts) = n
      /\ \A k \in 1..Len(ts) : ts[k] \in S
      /\ \A x \in S : \E k \in 1..Len(ts) : ts[k] = x
  BY <1>1, SetToSeqFacts
<1>4. n \in Nat
  BY <1>1, FS_CardinalityType
<1> HIDE DEF ts, n
<1>5. \A t \in S : CharInfo(accountUid[t], pos[t]) \in Packet
  BY <1>1 DEF CharInfo, Packet
<1>6. s \in Seq(Packet) /\ Len(s) = n
  BY <1>2, <1>3, <1>4, <1>5
<1> QED BY <1>2, <1>3, <1>6 DEF S

\* They leave the NPCs alone, and the newcomer sees everybody who can be told
\* from it, where they are.
LEMMA OthersTold ==
  ASSUME sessions \subseteq SessionId, pos \in [SessionId -> Place],
         \A t \in sessions : accountUid[t] \in Accounts,
         \A t \in sessions, u \in sessions : t # u /\ accountUid[t] = accountUid[u] => accountUid[t] \in shared,
         NEW me \in SessionId, NEW v \in Views,
         NEW w, w = R!After(v, CharInfoOfOthers(me))
  PROVE  /\ w \in Views /\ w.npcs = v.npcs
         /\ v.state = "InGame" => w.state = "InGame" /\ w.uid = v.uid
         /\ v.state = "InGame" /\ (\A t \in Others(me) : accountUid[t] # v.uid) =>
              /\ w.pos = v.pos
              /\ \A t \in Others(me) : accountUid[t] \notin shared => w.others[accountUid[t]] = pos[t]
              /\ \A a \in Accounts : (\A t \in Others(me) : accountUid[t] # a) => w.others[a] = v.others[a]
<1> DEFINE s == CharInfoOfOthers(me)
           O == Others(me)
           At(j, t) == s[j] = CharInfo(accountUid[t], pos[t])
           In == v.state = "InGame"
           Alone == In /\ \A t \in O : accountUid[t] # v.uid
           Good(k, x) ==
             /\ x.npcs = v.npcs
             /\ In => x.state = "InGame" /\ x.uid = v.uid
             /\ Alone =>
                  /\ x.pos = v.pos
                  /\ \A t \in O : accountUid[t] \notin shared /\ (\E j \in 1..k : At(j, t)) =>
                        x.others[accountUid[t]] = pos[t]
                  /\ \A a \in Accounts : (\A t \in O : accountUid[t] # a) => x.others[a] = v.others[a]
           I == {z \in Nat \X Views : Good(z[1], z[2])}
<1>1. /\ s \in Seq(Packet)
      /\ \A k \in 1..Len(s) : \E t \in O : At(k, t)
      /\ \A t \in O : \E k \in 1..Len(s) : At(k, t)
  BY OthersFacts
<1>2. O \subseteq sessions
  BY DEF Others
<1> HIDE DEF s, O
<1>3. <<0, v>> \in I
  OBVIOUS
<1>4. ASSUME NEW k \in 1..Len(s), NEW x \in Views, Good(k - 1, x)
      PROVE  Handled(x, s[k]) \in Views /\ Good(k, Handled(x, s[k]))
  <2> DEFINE p == s[k]
             y == Handled(x, p)
  <2>1. PICK t \in O : At(k, t)
    BY <1>1
  <2>2. p \in Packet /\ p.type = "SC_CHAR_INFO" /\ p.uid = accountUid[t] /\ p.pos = pos[t] /\ ~IsNpcPacket(p)
    BY <1>1, <2>1 DEF CharInfo, IsNpcPacket
  <2>3. y \in Views /\ y.npcs = x.npcs
    BY <2>2, NotNpcTold
  <2>4. In => /\ y.state = x.state /\ y.uid = x.uid
              /\ p.uid # x.uid => /\ y.pos = x.pos
                                  /\ y.others[p.uid] = p.pos
                                  /\ \A a \in Accounts : a # p.uid => y.others[a] = x.others[a]
    <3>1. In => x.state # "CharSelect"
      BY <1>4
    <3> QED BY <2>2, <3>1, OwnInfoTold, OtherInfoTold
  <2>5. ASSUME NEW u \in O
        PROVE  /\ u \in sessions /\ t \in sessions /\ accountUid[u] \in Accounts
               /\ accountUid[u] = accountUid[t] /\ accountUid[u] \notin shared => u = t
    BY <1>2, <2>1
  <2>6. ASSUME NEW u \in O, \E j \in 1..k : At(j, u)
        PROVE  (\E j \in 1..(k - 1) : At(j, u)) \/ At(k, u)
    BY <1>1, <2>6
  <2>7. ASSUME NEW u, At(k, u) PROVE accountUid[u] = accountUid[t] /\ pos[u] = pos[t]
    BY <2>1, <2>7 DEF CharInfo
  <2> HIDE DEF y, p, At
  <2>8. ASSUME Alone
        PROVE  /\ y.pos = v.pos
               /\ \A u \in O : accountUid[u] \notin shared /\ (\E j \in 1..k : At(j, u)) =>
                     y.others[accountUid[u]] = pos[u]
               /\ \A a \in Accounts : (\A u \in O : accountUid[u] # a) => y.others[a] = v.others[a]
    <3>1. p.uid # x.uid
      BY <1>4, <2>1, <2>2, <2>8
    <3>2. ASSUME NEW u \in O, accountUid[u] \notin shared, \E j \in 1..k : At(j, u)
          PROVE  y.others[accountUid[u]] = pos[u]
      <4>1. CASE accountUid[u] = accountUid[t]
        BY <2>2, <2>4, <2>5, <2>8, <3>1, <3>2, <4>1
      <4>2. CASE accountUid[u] # accountUid[t]
        <5>1. \E j \in 1..(k - 1) : At(j, u)
          BY <2>6, <2>7, <3>2, <4>2
        <5>2. x.others[accountUid[u]] = pos[u]
          BY <1>4, <2>8, <3>2, <5>1
        <5> QED BY <2>2, <2>4, <2>5, <2>8, <3>1, <4>2, <5>2
      <4> QED BY <4>1, <4>2
    <3>3. ASSUME NEW a \in Accounts, \A u \in O : accountUid[u] # a
          PROVE  y.others[a] = v.others[a]
      <4>1. x.others[a] = v.others[a] /\ a # p.uid
        BY <1>4, <2>1, <2>2, <2>8, <3>3
      <4> QED BY <2>4, <2>8, <3>1, <4>1
    <3>4. y.pos = v.pos
      BY <1>4, <2>4, <2>8, <3>1
    <3> QED BY <3>2, <3>3, <3>4
  <2>9. Good(k, y)
    BY <1>4, <2>3, <2>4, <2>8
  <2> QED BY <2>3, <2>9 DEF y, p
<1> HIDE DEF Good
<1>5. \A k \in 1..Len(s), x \in Views : <<k - 1, x>> \in I => <<k, Handled(x, s[k])>> \in I
  <2> SUFFICES ASSUME NEW k \in 1..Len(s), NEW x \in Views, <<k - 1, x>> \in I
               PROVE  <<k, Handled(x, s[k])>> \in I
    OBVIOUS
  <2>1. Good(k - 1, x) /\ k \in Nat
    OBVIOUS
  <2>2. Handled(x, s[k]) \in Views /\ Good(k, Handled(x, s[k]))
    BY <1>4, <2>1
  <2> QED BY <2>1, <2>2
<1>6. <<Len(s), w>> \in I
  <2> HIDE DEF I
  <2>1. w = R!After(v, s)
    BY DEF s
  <2> QED BY <1>1, <1>3, <1>5, <2>1, HandlersFit, R!FoldInduction
<1>7. w \in Views /\ Good(Len(s), w)
  BY <1>6
<1> QED BY <1>1, <1>7 DEF Good, O

-----------------------------------------------------------------------------
(* Sending. *)

\* Appending packets is associative.
LEMMA PacketsAssociative ==
  ASSUME NEW s \in Seq(Packet), NEW t \in Seq(Packet), NEW u \in Seq(Packet)
  PROVE  (s \o t) \o u = s \o (t \o u)
  BY ConcatAssociative

\* Packets to one session.
LEMMA SendFacts ==
  ASSUME NEW q \in Queues, NEW s \in SessionId, NEW ps \in Seq(Packet)
  PROVE  /\ Send(q, s, ps) \in Queues /\ Send(q, s, ps)[s] = q[s] \o ps
         /\ \A t \in SessionId : t # s => Send(q, s, ps)[t] = q[t]
<1>1. q[s] \in Seq(Packet) /\ q[s] \o ps \in Seq(Packet)
  BY ConcatProperties DEF Queues
<1> QED BY <1>1 DEF Send, Queues

\* Packets to everyone in the game.
LEMMA BroadcastFacts ==
  ASSUME NEW q \in Queues, NEW ps \in Seq(Packet)
  PROVE  /\ Broadcast(q, ps) \in Queues
         /\ \A t \in SessionId : Broadcast(q, ps)[t] = IF t \in InWorld THEN q[t] \o ps ELSE q[t]
<1>1. \A t \in SessionId : q[t] \in Seq(Packet) /\ q[t] \o ps \in Seq(Packet)
  BY ConcatProperties DEF Queues
<1>2. Broadcast(q, ps) = [t \in SessionId |-> IF t \in InWorld THEN q[t] \o ps ELSE q[t]]
  BY DEF Broadcast, InWorld
<1> QED BY <1>1, <1>2 DEF Queues

\* Packets to everyone else in the game.
LEMMA BroadcastExceptFacts ==
  ASSUME NEW q \in Queues, NEW s \in SessionId, NEW ps \in Seq(Packet)
  PROVE  /\ BroadcastExcept(q, s, ps) \in Queues
         /\ \A t \in SessionId :
               BroadcastExcept(q, s, ps)[t] = IF t \in InWorld /\ t # s THEN q[t] \o ps ELSE q[t]
<1> DEFINE b == Broadcast(q, ps)
<1>1. /\ b \in Queues
      /\ \A t \in SessionId : b[t] = IF t \in InWorld THEN q[t] \o ps ELSE q[t]
  BY BroadcastFacts
<1>2. BroadcastExcept(q, s, ps) = [b EXCEPT ![s] = q[s]]
  BY DEF BroadcastExcept
<1> HIDE DEF b
<1> QED BY <1>1, <1>2 DEF Queues

\* The packets of the server have their types.
LEMMA PacketKinds ==
  /\ [type |-> "SC_CHAR_LIST"] \in Packet
  /\ \A a \in Accounts, x \in Place :
        /\ CharInfo(a, x) \in Packet /\ CharInfo(a, x).type = "SC_CHAR_INFO"
        /\ CharInfo(a, x).uid = a /\ CharInfo(a, x).pos = x
  /\ \A a \in Accounts :
        CharLeave(a) \in Packet /\ CharLeave(a).type = "SC_CHAR_LEAVE" /\ CharLeave(a).uid = a
  /\ \A x \in Place :
        MoveResult(x) \in Packet /\ MoveResult(x).type = "SC_MOVE_RESULT" /\ MoveResult(x).pos = x
  /\ \A u \in NpcUid, h \in 0..NpcMaxHp :
        /\ NpcSpawn(u, h) \in Packet /\ NpcSpawn(u, h).type = "SC_NPC_SPAWN"
        /\ NpcSpawn(u, h).uid = u /\ NpcSpawn(u, h).hp = h
        /\ AttackResult(u, h) \in Packet /\ AttackResult(u, h).type = "SC_ATTACK_RESULT"
        /\ AttackResult(u, h).uid = u /\ AttackResult(u, h).hp = h
  /\ \A u \in NpcUid :
        NpcDeath(u) \in Packet /\ NpcDeath(u).type = "SC_NPC_DEATH" /\ NpcDeath(u).uid = u
  BY DEF Packet, CharInfo, CharLeave, MoveResult, NpcSpawn, AttackResult, NpcDeath

-----------------------------------------------------------------------------
(* The inductive invariant. *)

\* The picture of a client that is shown the list of its characters.
SelectView == [NewView EXCEPT !.state = "CharSelect"]

\* Session ids are given out once, and only a shared account has two sessions.
SessionsInv ==
    /\ \A s \in sessions : s < nextSessionId /\ accountUid[s] \in Accounts
    /\ \A s \in sessions, t \in sessions :
          s # t /\ accountUid[s] = accountUid[t] => accountUid[s] \in shared

\* So are the uids of NPCs.
NpcInv == \A u \in NpcUid : u >= nextNpcUid => npcs[u] = 0

\* Nothing is under way to a session that is not there, and it is nowhere.
IdleInv == \A s \in SessionId \ sessions : ~loggedIn[s] /\ queue[s] = <<>> /\ view[s] = NewView

\* A session that is not in the game is sent lists of characters and nothing else.
OutInv ==
    \A s \in sessions : ~loggedIn[s] =>
        /\ CaughtUp(s) = SelectView /\ view[s] \in {NewView, SelectView}
        /\ \A p \in Range(queue[s]) : p.type = "SC_CHAR_LIST"

\* The picture v has the living NPCs of n, with their hp or more.
NpcFits(v, n) == \A u \in NpcUid : (v.npcs[u] > 0 <=> n[u] > 0) /\ v.npcs[u] >= n[u]
NpcsSeen == \A s \in InWorld : NpcFits(CaughtUp(s), npcs)

\* The picture v of s has the players of the server.
PlayerFits(s, v) ==
    ~relisted[s] =>
      /\ v.state = "InGame" /\ v.uid = accountUid[s]
      /\ accountUid[s] \notin shared =>
            /\ v.pos = pos[s]
            /\ \A t \in InWorld : t # s /\ accountUid[t] \notin shared => v.others[accountUid[t]] = pos[t]
            /\ \A a \in Accounts \ shared : (\A t \in InWorld : accountUid[t] # a) => v.others[a] = Nowhere
PlayersSeen == \A s \in InWorld : PlayerFits(s, CaughtUp(s))

\* The same of the players after a step.
PlayerFitsNext(s, v) ==
    ~relisted'[s] =>
      /\ v.state = "InGame" /\ v.uid = accountUid'[s]
      /\ accountUid'[s] \notin shared' =>
            /\ v.pos = pos'[s]
            /\ \A t \in InWorld' : t # s /\ accountUid'[t] \notin shared' => v.others[accountUid'[t]] = pos'[t]
            /\ \A a \in Accounts \ shared' : (\A t \in InWorld' : accountUid'[t] # a) => v.others[a] = Nowhere

WInv == TypeOK /\ SessionsInv /\ NpcInv /\ IdleInv /\ OutInv /\ NpcsSeen /\ PlayersSeen

\* Two ways to say the same.
LEMMA PlayersSeenNext == (\A s \in InWorld' : PlayerFitsNext(s, Later(s))) => PlayersSeen'
  BY CaughtUpNext DEF PlayersSeen, PlayerFits, PlayerFitsNext

\* The types of the variables, in the words of this module.
LEMMA Types ==
  ASSUME WInv
  PROVE  /\ sessions \subseteq SessionId /\ nextSessionId \in 1..(MaxSession + 1)
         /\ accountUid \in [SessionId -> Accounts \cup {NoAccount}]
         /\ loggedIn \in [SessionId -> BOOLEAN] /\ pos \in [SessionId -> Place]
         /\ npcs \in [NpcUid -> 0..NpcMaxHp] /\ nextNpcUid \in 1..(MaxNpcUid + 1)
         /\ queue \in Queues /\ view \in [SessionId -> Views]
         /\ relisted \in [SessionId -> BOOLEAN] /\ shared \subseteq Accounts
         /\ \A s \in SessionId : CaughtUp(s) \in Views
         /\ InWorld \subseteq sessions
         /\ \A s \in sessions : accountUid[s] \in Accounts
<1>1. queue \in Queues /\ view \in [SessionId -> Views]
  BY DEF WInv, TypeOK, Queues
<1>2. \A s \in SessionId : R!After(view[s], queue[s]) \in Views
  BY <1>1, HandlersFit, R!FoldType DEF Queues
<1> QED BY <1>1, <1>2, CaughtUpIsFold DEF WInv, TypeOK, SessionsInv, InWorld

\* Packets that are sent are handled after those under way.
LEMMA Sent ==
  ASSUME WInv, NEW t \in SessionId, NEW ps \in Seq(Packet),
         queue'[t] = queue[t] \o ps, view'[t] = view[t]
  PROVE  Later(t) = R!After(CaughtUp(t), ps) /\ Later(t) \in Views
<1>1. view[t] \in Views /\ queue[t] \in Seq(Packet) /\ CaughtUp(t) \in Views
  BY Types DEF Queues
<1>2. R!After(view[t], queue[t] \o ps) = R!After(R!After(view[t], queue[t]), ps)
  BY <1>1, HandlersFit, R!FoldConcat
<1>3. Later(t) = R!After(CaughtUp(t), ps)
  BY <1>2, CaughtUpIsFold DEF Later
<1> QED BY <1>1, <1>3, HandlersFit, R!FoldType

\* One packet.
LEMMA SentOne ==
  ASSUME WInv, NEW t \in SessionId, NEW p \in Packet,
         queue'[t] = queue[t] \o <<p>>, view'[t] = view[t]
  PROVE  Later(t) = Handled(CaughtUp(t), p)
<1>1. <<p>> \in Seq(Packet) /\ CaughtUp(t) \in Views
  BY Types
<1>2. R!After(CaughtUp(t), <<p>>) = Handled(CaughtUp(t), p)
  BY <1>1, HandlersFit, R!FoldOne
<1> QED BY <1>1, <1>2, Sent

\* No packet.
LEMMA NotSent ==
  ASSUME NEW t \in SessionId, queue'[t] = queue[t], view'[t] = view[t]
  PROVE  Later(t) = CaughtUp(t)
  BY CaughtUpIsFold DEF Later

\* A session that is shown the list is not in the game, or has not seen it yet.
LEMMA InGameIsInWorld ==
  ASSUME WInv, NEW s \in sessions, view[s].state = "InGame"
  PROVE  s \in InWorld
<1>1. SelectView.state = "CharSelect" /\ NewView.state = "Login"
  BY DEF SelectView, NewView
<1> QED BY <1>1 DEF WInv, OutInv, InWorld

\* A session whose server state and queue stay is out of the game as before.
LEMMA StaysOut ==
  ASSUME WInv, NEW s \in sessions, ~loggedIn[s], queue'[s] = queue[s], view'[s] = view[s]
  PROVE  /\ Later(s) = SelectView /\ view'[s] \in {NewView, SelectView}
         /\ \A p \in Range(queue'[s]) : p.type = "SC_CHAR_LIST"
<1>1. s \in SessionId
  BY Types
<1> QED BY <1>1, NotSent DEF WInv, OutInv

\* The picture of s is right after a step that changes nothing for the players.
LEMMA PlayersStay ==
  ASSUME NEW s \in InWorld, NEW v, NEW w, PlayerFits(s, v), SamePlayers(v, w),
         UNCHANGED relisted, shared \subseteq shared', InWorld' = InWorld,
         \A t \in InWorld : accountUid'[t] = accountUid[t] /\ pos'[t] = pos[t]
  PROVE  PlayerFitsNext(s, w)
<1>1. \A a \in Accounts \ shared' : a \in Accounts \ shared
  OBVIOUS
<1> QED BY <1>1 DEF PlayerFits, PlayerFitsNext, SamePlayers

\* The picture of s after SC_CHAR_INFO of t, which has entered the game or moved.
LEMMA PlaceIsTold ==
  ASSUME WInv, NEW s \in InWorld, NEW t \in sessions, s # t, NEW x \in Place,
         NEW w, w = Handled(CaughtUp(s), CharInfo(accountUid[t], x)),
         UNCHANGED <<sessions, accountUid, relisted, shared>>,
         InWorld' = InWorld \cup {t}, pos' = [pos EXCEPT ![t] = x]
  PROVE  PlayerFitsNext(s, w)
<1> DEFINE v == CaughtUp(s)
           a == accountUid[t]
           p == CharInfo(a, x)
<1>1. /\ v \in Views /\ a \in Accounts /\ p \in Packet /\ p.type = "SC_CHAR_INFO" /\ p.uid = a /\ p.pos = x
      /\ s \in sessions /\ s \in SessionId /\ t \in SessionId /\ InWorld \subseteq sessions
  BY Types, PacketKinds
<1>2. PlayerFits(s, v)
  BY DEF WInv, PlayersSeen
<1>3. w = Handled(v, p)
  OBVIOUS
<1>4. pos'[t] = x /\ \A u \in InWorld : u # t => pos'[u] = pos[u]
  BY <1>1, Types
<1>5. \A u \in sessions, r \in sessions : u # r /\ accountUid[u] = accountUid[r] => accountUid[u] \in shared
  BY DEF WInv, SessionsInv
<1> HIDE DEF v, p
<1>6. SUFFICES ASSUME ~relisted[s]
               PROVE  /\ w.state = "InGame" /\ w.uid = accountUid[s]
                      /\ accountUid[s] \notin shared =>
                            /\ w.pos = pos'[s]
                            /\ \A u \in InWorld' : u # s /\ accountUid[u] \notin shared =>
                                  w.others[accountUid[u]] = pos'[u]
                            /\ \A b \in Accounts \ shared : (\A u \in InWorld' : accountUid[u] # b) => w.others[b] = Nowhere
  BY DEF PlayerFitsNext
<1>7. v.state = "InGame" /\ v.uid = accountUid[s]
  BY <1>2, <1>6 DEF PlayerFits
<1>8. CASE a = accountUid[s]
  <2>1. accountUid[s] \in shared
    BY <1>1, <1>5, <1>8
  <2>2. w.state = v.state /\ w.uid = v.uid
    BY <1>1, <1>3, <1>7, <1>8, OwnInfoTold
  <2> QED BY <1>7, <2>1, <2>2
<1>9. CASE a # accountUid[s]
  <2>1. /\ w.state = v.state /\ w.uid = v.uid /\ w.pos = v.pos /\ w.others[a] = x
        /\ \A b \in Accounts : b # a => w.others[b] = v.others[b]
    BY <1>1, <1>3, <1>7, <1>9, OtherInfoTold
  <2>2. ASSUME accountUid[s] \notin shared
        PROVE  /\ w.pos = pos'[s]
               /\ \A u \in InWorld' : u # s /\ accountUid[u] \notin shared => w.others[accountUid[u]] = pos'[u]
               /\ \A b \in Accounts \ shared : (\A u \in InWorld' : accountUid[u] # b) => w.others[b] = Nowhere
    <3>1. /\ v.pos = pos[s]
          /\ \A u \in InWorld : u # s /\ accountUid[u] \notin shared => v.others[accountUid[u]] = pos[u]
          /\ \A b \in Accounts \ shared : (\A u \in InWorld : accountUid[u] # b) => v.others[b] = Nowhere
      BY <1>2, <1>6, <2>2 DEF PlayerFits
    <3>2. ASSUME NEW u \in InWorld', u # s, accountUid[u] \notin shared
          PROVE  w.others[accountUid[u]] = pos'[u]
      <4>1. CASE u = t
        BY <1>4, <2>1, <4>1
      <4>2. CASE u # t
        <5>1. u \in InWorld /\ u \in sessions /\ accountUid[u] \in Accounts /\ accountUid[u] # a
          BY <1>1, <1>5, <3>2, <4>2, Types
        <5> QED BY <1>4, <2>1, <3>1, <3>2, <4>2, <5>1
      <4> QED BY <4>1, <4>2
    <3>3. ASSUME NEW b \in Accounts \ shared, \A u \in InWorld' : accountUid[u] # b
          PROVE  w.others[b] = Nowhere
      <4>1. b # a /\ \A u \in InWorld : accountUid[u] # b
        BY <3>3
      <4> QED BY <2>1, <3>1, <4>1
    <3> QED BY <1>4, <2>1, <3>1, <3>2, <3>3
  <2> QED BY <1>7, <2>1, <2>2
<1> QED BY <1>8, <1>9

\* What has to be shown of a step.
LEMMA Collect ==
  ASSUME TypeOK', SessionsInv', NpcInv', IdleInv',
         \A s \in sessions' : ~loggedIn'[s] =>
            /\ Later(s) = SelectView /\ view'[s] \in {NewView, SelectView}
            /\ \A p \in Range(queue'[s]) : p.type = "SC_CHAR_LIST",
         \A s \in InWorld' : NpcFits(Later(s), npcs') /\ PlayerFitsNext(s, Later(s))
  PROVE  WInv'
<1>1. OutInv'
  BY CaughtUpNext DEF OutInv
<1>2. NpcsSeen'
  BY CaughtUpNext DEF NpcsSeen, NpcFits
<1> QED BY <1>1, <1>2, PlayersSeenNext DEF WInv

\* What is known of a client in the game.
LEMMA Seen ==
  ASSUME WInv, NEW s \in InWorld
  PROVE  /\ s \in sessions /\ s \in SessionId /\ loggedIn[s] /\ CaughtUp(s) \in Views
         /\ NpcFits(CaughtUp(s), npcs) /\ PlayerFits(s, CaughtUp(s))
  BY Types DEF WInv, NpcsSeen, PlayersSeen, InWorld

\* The pictures of a client that has just connected.
LEMMA SelectViewFacts ==
  /\ NewView \in Views /\ SelectView \in Views
  /\ SelectView.state = "CharSelect"
  /\ \A u \in NpcUid : SelectView.npcs[u] = 0
  /\ \A a \in Accounts : SelectView.others[a] = Nowhere
  /\ \A p \in Packet : p.type = "SC_CHAR_LIST" =>
        Handled(NewView, p) = SelectView /\ Handled(SelectView, p) = SelectView
<1>1. 0 \in Place /\ 0 \in 0..NpcMaxHp
  BY WorldAssumption DEF Place
<1>2. NewView \in Views
  BY <1>1 DEF NewView, Views
<1>3. SelectView = [state |-> "CharSelect", uid |-> NoAccount, pos |-> 0,
                    npcs |-> [u \in NpcUid |-> 0], others |-> [a \in Accounts |-> Nowhere]]
  BY DEF SelectView, NewView
<1>4. SelectView \in Views
  BY <1>1, <1>3 DEF Views
<1>5. \A p \in Packet : p.type = "SC_CHAR_LIST" =>
         Handled(NewView, p) = SelectView /\ Handled(SelectView, p) = SelectView
  BY <1>3 DEF Handled, OnCharList, SelectView, NewView
<1> QED BY <1>2, <1>3, <1>4, <1>5

\* A client starts and logs in.
LEMMA LoginStep ==
  ASSUME WInv, NEW a \in Accounts, Login(a)
  PROVE  WInv'
<1> DEFINE n == nextSessionId
           p == [type |-> "SC_CHAR_LIST"]
<1>1. /\ n \in SessionId /\ sessions' = sessions \cup {n} /\ nextSessionId' = n + 1
      /\ accountUid' = [accountUid EXCEPT ![n] = a]
      /\ queue' = Send(queue, n, <<p>>)
      /\ shared' = IF \E s \in sessions : accountUid[s] = a THEN shared \cup {a} ELSE shared
      /\ UNCHANGED <<loggedIn, pos, npcs, nextNpcUid, view, relisted>>
  BY DEF Login
<1>2. p \in Packet /\ p.type = "SC_CHAR_LIST" /\ <<p>> \in Seq(Packet)
  BY PacketKinds
<1> HIDE DEF p
<1>3. /\ queue' \in Queues /\ queue'[n] = queue[n] \o <<p>>
      /\ \A t \in SessionId : t # n => queue'[t] = queue[t]
  BY <1>1, <1>2, SendFacts, Types
<1>4. /\ n \notin sessions /\ ~loggedIn[n] /\ queue[n] = <<>> /\ view[n] = NewView
      /\ \A s \in sessions : s \in SessionId /\ s < n
  <2>1. \A s \in sessions : s \in SessionId /\ s < n
    BY Types DEF WInv, SessionsInv
  <2>2. n \notin sessions
    BY <1>1, <2>1 DEF SessionId
  <2> QED BY <1>1, <2>1, <2>2 DEF WInv, IdleInv
<1>5. TypeOK'
  <2>1. nextSessionId' \in 1..(MaxSession + 1)
    BY <1>1, WorldAssumption DEF SessionId
  <2> QED BY <1>1, <1>3, <2>1, Types DEF TypeOK, Queues
<1>6. accountUid'[n] = a /\ \A s \in SessionId : s # n => accountUid'[s] = accountUid[s]
  BY <1>1, Types
<1>7. SessionsInv'
  <2>1. ASSUME NEW s \in sessions' PROVE s < nextSessionId' /\ accountUid'[s] \in Accounts
    BY <1>1, <1>4, <1>6, Types DEF SessionId
  <2>2. ASSUME NEW s \in sessions', NEW t \in sessions', s # t, accountUid'[s] = accountUid'[t]
        PROVE  accountUid'[s] \in shared'
    <3>1. CASE s \in sessions /\ t \in sessions
      <4>1. accountUid[s] \in shared /\ accountUid'[s] = accountUid[s]
        BY <1>4, <1>6, <2>2, <3>1 DEF WInv, SessionsInv
      <4> QED BY <1>1, <4>1
    <3>2. CASE s = n
      BY <1>1, <1>4, <1>6, <2>2, <3>2
    <3>3. CASE t = n
      BY <1>1, <1>4, <1>6, <2>2, <3>3
    <3> QED BY <1>1, <3>1, <3>2, <3>3
  <2> QED BY <2>1, <2>2 DEF SessionsInv
<1>8. NpcInv'
  BY <1>1 DEF WInv, NpcInv
<1>9. IdleInv'
  BY <1>1, <1>3 DEF WInv, IdleInv
<1>10. InWorld' = InWorld
  BY <1>1, <1>4 DEF InWorld
<1>11. /\ Later(n) = SelectView /\ view'[n] = NewView
       /\ \A k \in Range(queue'[n]) : k.type = "SC_CHAR_LIST"
  <2>1. CaughtUp(n) = NewView
    BY <1>4, SelectViewFacts, HandlersFit, R!FoldEmpty, CaughtUpIsFold
  <2>2. Later(n) = Handled(CaughtUp(n), p)
    BY <1>1, <1>2, <1>3, SentOne
  <2>3. queue'[n] = <<p>>
    BY <1>2, <1>3, <1>4
  <2>4. Range(queue'[n]) = {p}
    BY <2>3 DEF Range
  <2> QED BY <1>1, <1>2, <1>4, <2>1, <2>2, <2>4, SelectViewFacts
<1>12. ASSUME NEW s \in sessions', ~loggedIn'[s]
       PROVE  /\ Later(s) = SelectView /\ view'[s] \in {NewView, SelectView}
              /\ \A k \in Range(queue'[s]) : k.type = "SC_CHAR_LIST"
  <2>1. CASE s = n
    BY <1>11, <2>1
  <2>2. CASE s # n
    BY <1>1, <1>3, <1>4, <1>12, <2>2, StaysOut
  <2> QED BY <2>1, <2>2
<1>13. ASSUME NEW s \in InWorld' PROVE NpcFits(Later(s), npcs') /\ PlayerFitsNext(s, Later(s))
  <2>1. s \in InWorld /\ s # n /\ s \in SessionId
    BY <1>4, <1>10, Seen
  <2>2. Later(s) = CaughtUp(s)
    BY <1>1, <1>3, <2>1, NotSent
  <2>3. PlayerFits(s, CaughtUp(s)) /\ NpcFits(CaughtUp(s), npcs)
    BY <2>1, Seen
  <2>4. \A t \in InWorld : accountUid'[t] = accountUid[t] /\ pos'[t] = pos[t]
    BY <1>1, <1>4, <1>6, Seen
  <2>5. UNCHANGED relisted /\ shared \subseteq shared'
    BY <1>1
  <2>6. SamePlayers(CaughtUp(s), Later(s))
    BY <2>2 DEF SamePlayers
  <2>7. PlayerFitsNext(s, Later(s))
    BY <1>10, <2>1, <2>3, <2>4, <2>5, <2>6, PlayersStay
  <2> QED BY <1>1, <2>2, <2>3, <2>7
<1> QED BY <1>5, <1>7, <1>8, <1>9, <1>12, <1>13, Collect

\* A character is created, the list is sent again.
LEMMA CreateStep ==
  ASSUME WInv, NEW s \in SessionId, OnCharCreate(s)
  PROVE  WInv'
<1> DEFINE p == [type |-> "SC_CHAR_LIST"]
<1>1. /\ s \in sessions /\ queue' = Send(queue, s, <<p>>)
      /\ relisted' = [relisted EXCEPT ![s] = @ \/ loggedIn[s]]
      /\ UNCHANGED <<serverVars, view, shared>>
  BY DEF OnCharCreate, Ready
<1>2. p \in Packet /\ p.type = "SC_CHAR_LIST" /\ <<p>> \in Seq(Packet) /\ ~IsNpcPacket(p)
  BY PacketKinds DEF IsNpcPacket
<1> HIDE DEF p
<1>3. /\ queue' \in Queues /\ queue'[s] = queue[s] \o <<p>>
      /\ \A t \in SessionId : t # s => queue'[t] = queue[t]
  BY <1>1, <1>2, SendFacts, Types
<1>4. UNCHANGED <<sessions, nextSessionId, accountUid, loggedIn, pos, npcs, nextNpcUid, view, shared>>
  BY <1>1 DEF serverVars
<1>5. /\ relisted' \in [SessionId -> BOOLEAN] /\ (loggedIn[s] => relisted'[s])
      /\ \A t \in SessionId : t # s => relisted'[t] = relisted[t]
  BY <1>1, Types
<1>6. TypeOK'
  BY <1>3, <1>4, <1>5, Types DEF TypeOK, Queues
<1>7. SessionsInv' /\ NpcInv'
  BY <1>4 DEF WInv, SessionsInv, NpcInv
<1>8. IdleInv'
  BY <1>1, <1>3, <1>4 DEF WInv, IdleInv
<1>9. InWorld' = InWorld
  BY <1>4 DEF InWorld
<1>10. Later(s) = Handled(CaughtUp(s), p)
  BY <1>2, <1>3, <1>4, SentOne
<1>11. ASSUME NEW t \in sessions', ~loggedIn'[t]
       PROVE  /\ Later(t) = SelectView /\ view'[t] \in {NewView, SelectView}
              /\ \A k \in Range(queue'[t]) : k.type = "SC_CHAR_LIST"
  <2>1. t \in sessions /\ ~loggedIn[t] /\ t \in SessionId
    BY <1>4, <1>11, Types
  <2>2. CASE t = s
    <3>1. /\ CaughtUp(s) = SelectView /\ view[s] \in {NewView, SelectView}
          /\ \A k \in Range(queue[s]) : k.type = "SC_CHAR_LIST"
      BY <2>1, <2>2 DEF WInv, OutInv
    <3>2. ASSUME NEW k \in Range(queue'[s]) PROVE k.type = "SC_CHAR_LIST"
      <4>1. queue[s] \in Seq(Packet)
        BY Types DEF Queues
      <4>2. k = p \/ k \in Range(queue[s])
        BY <1>2, <1>3, <4>1 DEF Range
      <4> QED BY <1>2, <3>1, <4>2
    <3> QED BY <1>2, <1>4, <1>10, <2>2, <3>1, <3>2, SelectViewFacts
  <2>3. CASE t # s
    BY <1>3, <1>4, <2>1, <2>3, StaysOut
  <2> QED BY <2>2, <2>3
<1>12. ASSUME NEW t \in InWorld' PROVE NpcFits(Later(t), npcs') /\ PlayerFitsNext(t, Later(t))
  <2>1. t \in InWorld /\ t \in SessionId /\ loggedIn[t] /\ CaughtUp(t) \in Views /\ NpcFits(CaughtUp(t), npcs)
        /\ PlayerFits(t, CaughtUp(t))
    BY <1>9, Seen
  <2>2. CASE t = s
    <3>1. Later(t).npcs = CaughtUp(t).npcs
      BY <1>2, <1>10, <2>1, <2>2, NotNpcTold
    <3>2. PlayerFitsNext(t, Later(t))
      BY <1>5, <2>1, <2>2 DEF PlayerFitsNext
    <3> QED BY <1>4, <2>1, <3>1, <3>2 DEF NpcFits
  <2>3. CASE t # s
    <3>1. Later(t) = CaughtUp(t)
      BY <1>3, <1>4, <2>1, <2>3, NotSent
    <3>2. PlayerFitsNext(t, Later(t))
      BY <1>4, <1>5, <1>9, <2>1, <2>3, <3>1 DEF PlayerFits, PlayerFitsNext
    <3> QED BY <1>4, <2>1, <3>1, <3>2
  <2> QED BY <2>2, <2>3
<1> QED BY <1>6, <1>7, <1>8, <1>11, <1>12, Collect

\* A character is selected, for the first time or again: the client is shown the
\* world, and the others are shown its player.
LEMMA SelectStep ==
  ASSUME WInv, NEW s \in SessionId, OnCharSelect(s)
  PROVE  WInv'
<1> DEFINE a == accountUid[s]
           v == CaughtUp(s)
<1>1. PICK x \in StartPlaces :
         /\ pos' = [pos EXCEPT ![s] = x]
         /\ queue' = SendOtherPlayers(Send(queue, s, <<CharInfo(a, x)>> \o SendAllNPCs), s, x)
  BY DEF OnCharSelect
<1>2. /\ s \in sessions /\ loggedIn' = [loggedIn EXCEPT ![s] = TRUE]
      /\ UNCHANGED <<sessions, nextSessionId, accountUid, npcs, nextNpcUid, view, relisted, shared>>
  BY DEF OnCharSelect, Ready
<1> DEFINE p == CharInfo(a, x)
           ns == SendAllNPCs
           os == CharInfoOfOthers(s)
           all == (<<p>> \o ns) \o os
<1>3. /\ x \in Place /\ a \in Accounts /\ v \in Views /\ p \in Packet
      /\ p.type = "SC_CHAR_INFO" /\ p.uid = a /\ p.pos = x /\ ~IsNpcPacket(p)
  <2>1. x \in Place
    BY WorldAssumption DEF Place
  <2> QED BY <1>2, <2>1, Types, PacketKinds DEF IsNpcPacket
<1>4. /\ \A t \in sessions : accountUid[t] \in Accounts
      /\ \A t \in sessions, u \in sessions : t # u /\ accountUid[t] = accountUid[u] => accountUid[t] \in shared
  BY DEF WInv, SessionsInv
<1>5. <<p>> \in Seq(Packet) /\ ns \in Seq(Packet) /\ os \in Seq(Packet)
  BY <1>3, <1>4, Types, AllNpcsFacts, OthersFacts
<1>6. queue' = BroadcastExcept(Send(Send(queue, s, <<p>> \o ns), s, os), s, <<p>>)
  BY <1>1 DEF SendOtherPlayers
<1> HIDE DEF p, ns, os
<1>7. <<p>> \o ns \in Seq(Packet) /\ all \in Seq(Packet)
  BY <1>5, ConcatProperties
<1>8. /\ queue' \in Queues /\ queue'[s] = queue[s] \o all
      /\ \A t \in SessionId : t # s => queue'[t] = IF t \in InWorld THEN queue[t] \o <<p>> ELSE queue[t]
  <2> DEFINE ps == <<p>> \o ns
             q1 == Send(queue, s, ps)
             q2 == Send(q1, s, os)
  <2>1. /\ q1 \in Queues /\ q1[s] = queue[s] \o ps /\ queue[s] \in Seq(Packet)
        /\ \A t \in SessionId : t # s => q1[t] = queue[t]
    BY <1>7, SendFacts, Types DEF Queues
  <2>2. ps \in Seq(Packet) /\ all = ps \o os /\ queue' = BroadcastExcept(q2, s, <<p>>)
    BY <1>6, <1>7
  <2> HIDE DEF q1, ps, all
  <2>3. /\ q2 \in Queues /\ q2[s] = q1[s] \o os
        /\ \A t \in SessionId : t # s => q2[t] = q1[t]
    BY <1>5, <2>1, SendFacts
  <2> HIDE DEF q2
  <2> DEFINE one == <<p>>
             q3 == BroadcastExcept(q2, s, one)
  <2>4. one \in Seq(Packet)
    BY <1>5
  <2>5. queue' = q3
    BY <2>2
  <2> HIDE DEF one
  <2>7. /\ q3 \in Queues
        /\ \A t \in SessionId : q3[t] = IF t \in InWorld /\ t # s THEN q2[t] \o one ELSE q2[t]
    BY <2>3, <2>4, BroadcastExceptFacts
  <2> HIDE DEF q3
  <2>6. (queue[s] \o ps) \o os = queue[s] \o (ps \o os)
    <3>1. queue[s] \in Seq(Packet) /\ ps \in Seq(Packet) /\ os \in Seq(Packet)
      BY <1>5, <2>1, <2>2
    <3> QED BY <3>1, PacketsAssociative
  <2> QED BY <2>1, <2>2, <2>3, <2>5, <2>6, <2>7 DEF one
<1>9. /\ pos' \in [SessionId -> Place] /\ pos'[s] = x /\ \A t \in SessionId : t # s => pos'[t] = pos[t]
      /\ loggedIn' \in [SessionId -> BOOLEAN] /\ loggedIn'[s]
      /\ \A t \in SessionId : t # s => loggedIn'[t] = loggedIn[t]
  BY <1>1, <1>2, <1>3, Types
<1>10. InWorld' = InWorld \cup {s}
  BY <1>2, <1>9, Types DEF InWorld
<1>11. TypeOK'
  BY <1>2, <1>8, <1>9, Types DEF TypeOK, Queues
<1>12. SessionsInv' /\ NpcInv'
  BY <1>2 DEF WInv, SessionsInv, NpcInv
<1>13. IdleInv'
  BY <1>2, <1>8, <1>9, Types DEF WInv, IdleInv
<1>14. ASSUME NEW t \in sessions', ~loggedIn'[t]
       PROVE  /\ Later(t) = SelectView /\ view'[t] \in {NewView, SelectView}
              /\ \A k \in Range(queue'[t]) : k.type = "SC_CHAR_LIST"
  <2>1. t # s /\ t \in sessions /\ t \in SessionId /\ ~loggedIn[t] /\ t \notin InWorld
    BY <1>2, <1>9, <1>14, Types DEF InWorld
  <2>2. queue'[t] = queue[t] /\ view'[t] = view[t]
    BY <1>2, <1>8, <2>1
  <2> QED BY <2>1, <2>2, StaysOut
\* The client that enters.
<1>15. NpcFits(Later(s), npcs') /\ PlayerFitsNext(s, Later(s))
  <2> DEFINE v1 == Handled(v, p)
             v2 == R!After(v1, ns)
             v3 == R!After(v2, os)
  <2>1. v1 \in Views /\ v1.npcs = v.npcs
    BY <1>3, NotNpcTold
  <2>2. \A u \in NpcUid : npcs[u] = 0 => v.npcs[u] = 0
    <3>1. CASE s \in InWorld
      <4>1. v.npcs \in [NpcUid -> 0..NpcMaxHp]
        BY <1>3, ViewFields
      <4>2. NpcFits(v, npcs)
        BY <3>1, Seen
      <4> HIDE DEF v
      <4> QED BY <4>1, <4>2 DEF NpcFits
    <3>2. CASE s \notin InWorld
      <4>1. v = SelectView
        BY <1>2, <3>2 DEF WInv, OutInv, InWorld
      <4> QED BY <4>1, SelectViewFacts
    <3> QED BY <3>1, <3>2
  <2>3. v2 \in Views /\ SamePlayers(v1, v2) /\ v2.npcs = npcs
    <3>1. \A u \in NpcUid : npcs[u] = 0 => v1.npcs[u] = 0
      BY <2>1, <2>2
    <3>2. npcs \in [NpcUid -> 0..NpcMaxHp]
      BY Types
    <3> HIDE DEF v1
    <3> QED BY <2>1, <3>1, <3>2, AllNpcsTold DEF ns
  <2>4. /\ v3 \in Views /\ v3.npcs = v2.npcs
        /\ v2.state = "InGame" => v3.state = "InGame" /\ v3.uid = v2.uid
        /\ v2.state = "InGame" /\ (\A t \in Others(s) : accountUid[t] # v2.uid) =>
              /\ v3.pos = v2.pos
              /\ \A t \in Others(s) : accountUid[t] \notin shared => v3.others[accountUid[t]] = pos[t]
              /\ \A b \in Accounts : (\A t \in Others(s) : accountUid[t] # b) => v3.others[b] = v2.others[b]
    <3>1. sessions \subseteq SessionId /\ pos \in [SessionId -> Place]
      BY Types
    <3> HIDE DEF v2
    <3> QED BY <1>4, <2>3, <3>1, OthersTold DEF os
  <2>5. Later(s) = v3
    <3>1. Later(s) = R!After(v, all)
      BY <1>2, <1>7, <1>8, Sent
    <3>2. R!After(v, <<p>> \o ns) = R!After(R!After(v, <<p>>), ns) /\ R!After(v, <<p>>) = v1
      BY <1>3, <1>5, HandlersFit, R!FoldConcat, R!FoldOne
    <3>3. R!After(v, (<<p>> \o ns) \o os) = R!After(R!After(v, <<p>> \o ns), os)
      BY <1>3, <1>5, <1>7, HandlersFit, R!FoldConcat
    <3> QED BY <3>1, <3>2, <3>3
  <2>6. ~relisted[s] =>
          /\ v1.state = "InGame" /\ v1.uid = a /\ v1.pos = x
          /\ a \notin shared => \A b \in Accounts \ shared : (\A t \in InWorld : accountUid[t] # b) => v1.others[b] = Nowhere
    <3>1. CASE s \in InWorld
      <4>1. PlayerFits(s, v)
        BY <3>1, Seen
      <4> HIDE DEF v
      <4>2. ~relisted[s] => v.state = "InGame" /\ v.uid = a
        BY <4>1 DEF PlayerFits
      <4>3. ~relisted[s] => v1.state = v.state /\ v1.uid = v.uid /\ v1.pos = x /\ v1.others = v.others
        BY <1>3, <4>2, OwnInfoTold
      <4>4. ~relisted[s] /\ a \notin shared =>
               \A b \in Accounts \ shared : (\A t \in InWorld : accountUid[t] # b) => v.others[b] = Nowhere
        BY <4>1 DEF PlayerFits
      <4> HIDE DEF v1
      <4> QED BY <4>2, <4>3, <4>4
    <3>2. CASE s \notin InWorld
      <4>1. v = SelectView
        BY <1>2, <3>2 DEF WInv, OutInv, InWorld
      <4>2. v.state = "CharSelect" /\ \A b \in Accounts : v.others[b] = Nowhere
        BY <4>1, SelectViewFacts
      <4>3. v1.state = "InGame" /\ v1.uid = a /\ v1.pos = x /\ v1.others = v.others
        BY <1>3, <4>2, FirstInfoTold
      <4> QED BY <4>2, <4>3
    <3> QED BY <3>1, <3>2
  <2> HIDE DEF v1, v2, v3
  <2>7. NpcFits(v3, npcs)
    <3>1. v3.npcs = npcs /\ npcs \in [NpcUid -> 0..NpcMaxHp]
      BY <2>3, <2>4, Types
    <3> QED BY <3>1 DEF NpcFits
  <2>8. PlayerFitsNext(s, v3)
    <3>1. SUFFICES ASSUME ~relisted[s]
                   PROVE  /\ v3.state = "InGame" /\ v3.uid = a
                          /\ a \notin shared =>
                               /\ v3.pos = pos'[s]
                               /\ \A t \in InWorld' : t # s /\ accountUid[t] \notin shared => v3.others[accountUid[t]] = pos'[t]
                               /\ \A b \in Accounts \ shared : (\A t \in InWorld' : accountUid[t] # b) => v3.others[b] = Nowhere
      BY <1>2 DEF PlayerFitsNext
    <3>2. /\ v2.state = "InGame" /\ v2.uid = a /\ v2.pos = x
          /\ a \notin shared => \A b \in Accounts \ shared : (\A t \in InWorld : accountUid[t] # b) => v2.others[b] = Nowhere
      BY <2>3, <2>6, <3>1 DEF SamePlayers
    <3>3. ASSUME a \notin shared
          PROVE  /\ v3.pos = pos'[s]
                 /\ \A t \in InWorld' : t # s /\ accountUid[t] \notin shared => v3.others[accountUid[t]] = pos'[t]
                 /\ \A b \in Accounts \ shared : (\A t \in InWorld' : accountUid[t] # b) => v3.others[b] = Nowhere
      <4>1. \A t \in Others(s) : accountUid[t] # v2.uid
        BY <1>2, <1>4, <3>2, <3>3 DEF Others
      <4>2. /\ v3.pos = x
            /\ \A t \in Others(s) : accountUid[t] \notin shared => v3.others[accountUid[t]] = pos[t]
            /\ \A b \in Accounts : (\A t \in Others(s) : accountUid[t] # b) => v3.others[b] = v2.others[b]
        BY <2>4, <3>2, <4>1
      <4>3. ASSUME NEW t \in InWorld', t # s, accountUid[t] \notin shared
            PROVE  v3.others[accountUid[t]] = pos'[t]
        <5>1. t \in Others(s) /\ t \in SessionId
          BY <1>10, <4>3, Types DEF Others, InWorld
        <5> QED BY <1>9, <4>2, <4>3, <5>1
      <4>4. ASSUME NEW b \in Accounts \ shared, \A t \in InWorld' : accountUid[t] # b
            PROVE  v3.others[b] = Nowhere
        <5>1. /\ \A t \in Others(s) : accountUid[t] # b
              /\ \A t \in InWorld : accountUid[t] # b
          BY <1>10, <4>4 DEF Others, InWorld
        <5> QED BY <3>2, <3>3, <4>2, <5>1
      <4> QED BY <1>9, <4>2, <4>3, <4>4
    <3> QED BY <2>4, <3>2, <3>3
  <2> QED BY <1>2, <2>5, <2>7, <2>8
\* The others.
<1>16. ASSUME NEW t \in InWorld, t # s PROVE NpcFits(Later(t), npcs') /\ PlayerFitsNext(t, Later(t))
  <2>1. t \in SessionId /\ CaughtUp(t) \in Views /\ NpcFits(CaughtUp(t), npcs)
    BY Seen
  <2>2. queue'[t] = queue[t] \o <<p>>
    BY <1>8, <1>16, <2>1
  <2>3. Later(t) = Handled(CaughtUp(t), p)
    BY <1>2, <1>3, <2>1, <2>2, SentOne
  <2>4. Later(t).npcs = CaughtUp(t).npcs
    BY <1>3, <2>1, <2>3, NotNpcTold
  <2>5. PlayerFitsNext(t, Later(t))
    <3>1. Later(t) = Handled(CaughtUp(t), CharInfo(accountUid[s], x))
      BY <2>3 DEF p
    <3>2. UNCHANGED <<sessions, accountUid, relisted, shared>>
      BY <1>2
    <3> QED BY <1>1, <1>2, <1>3, <1>10, <1>16, <3>1, <3>2, PlaceIsTold
  <2> QED BY <1>2, <2>1, <2>4, <2>5 DEF NpcFits
<1>17. ASSUME NEW t \in InWorld' PROVE NpcFits(Later(t), npcs') /\ PlayerFitsNext(t, Later(t))
  BY <1>10, <1>15, <1>16
<1> QED BY <1>11, <1>12, <1>13, <1>14, <1>17, Collect

\* A player moves: it is told, and so are the others.
LEMMA MoveStep ==
  ASSUME WInv, NEW s \in SessionId, NEW dir \in {"up", "down"}, OnMove(s, dir)
  PROVE  WInv'
<1> DEFINE a == accountUid[s]
           x == Stepped(pos[s], dir)
           r == MoveResult(x)
           p == CharInfo(a, x)
<1>1. /\ s \in sessions /\ view[s].state = "InGame"
      /\ pos' = [pos EXCEPT ![s] = x]
      /\ queue' = BroadcastExcept(Send(queue, s, <<r>>), s, <<p>>)
      /\ UNCHANGED <<sessions, nextSessionId, accountUid, loggedIn, npcs, nextNpcUid, view, relisted, shared>>
  BY DEF OnMove, Ready
<1>2. s \in InWorld /\ a \in Accounts
  BY <1>1, InGameIsInWorld, Types
<1>3. x \in Place
  <2>1. pos[s] \in Place
    BY Types
  <2> QED BY <2>1, WorldAssumption DEF Stepped, OnMap, Place
<1> HIDE DEF x
<1>4. /\ p \in Packet /\ p.type = "SC_CHAR_INFO" /\ p.uid = a /\ p.pos = x /\ ~IsNpcPacket(p)
      /\ r \in Packet /\ r.type = "SC_MOVE_RESULT" /\ r.pos = x
      /\ <<p>> \in Seq(Packet) /\ <<r>> \in Seq(Packet)
  BY <1>2, <1>3, PacketKinds DEF IsNpcPacket
<1> HIDE DEF r, p
<1>5. /\ queue' \in Queues /\ queue'[s] = queue[s] \o <<r>>
      /\ \A t \in SessionId : t # s => queue'[t] = IF t \in InWorld THEN queue[t] \o <<p>> ELSE queue[t]
  <2> DEFINE q1 == Send(queue, s, <<r>>)
  <2>1. /\ q1 \in Queues /\ q1[s] = queue[s] \o <<r>>
        /\ \A t \in SessionId : t # s => q1[t] = queue[t]
    BY <1>4, SendFacts, Types
  <2> HIDE DEF q1
  <2>2. /\ BroadcastExcept(q1, s, <<p>>) \in Queues
        /\ \A t \in SessionId :
              BroadcastExcept(q1, s, <<p>>)[t] = IF t \in InWorld /\ t # s THEN q1[t] \o <<p>> ELSE q1[t]
    BY <1>4, <2>1, BroadcastExceptFacts
  <2>3. queue' = BroadcastExcept(q1, s, <<p>>)
    BY <1>1 DEF q1
  <2> QED BY <2>1, <2>2, <2>3
<1>6. pos' \in [SessionId -> Place] /\ pos'[s] = x /\ \A t \in SessionId : t # s => pos'[t] = pos[t]
  BY <1>1, <1>3, Types
<1>7. InWorld' = InWorld
  BY <1>1 DEF InWorld
<1>8. TypeOK'
  BY <1>1, <1>5, <1>6, Types DEF TypeOK, Queues
<1>9. SessionsInv' /\ NpcInv'
  BY <1>1 DEF WInv, SessionsInv, NpcInv
<1>10. IdleInv'
  BY <1>1, <1>2, <1>5, Types DEF WInv, IdleInv
<1>11. ASSUME NEW t \in sessions', ~loggedIn'[t]
       PROVE  /\ Later(t) = SelectView /\ view'[t] \in {NewView, SelectView}
              /\ \A k \in Range(queue'[t]) : k.type = "SC_CHAR_LIST"
  <2>1. t # s /\ t \in sessions /\ t \in SessionId /\ ~loggedIn[t] /\ t \notin InWorld
    BY <1>1, <1>2, <1>11, Types DEF InWorld
  <2>2. queue'[t] = queue[t] /\ view'[t] = view[t]
    BY <1>1, <1>5, <2>1
  <2> QED BY <2>1, <2>2, StaysOut
<1>12. NpcFits(Later(s), npcs') /\ PlayerFitsNext(s, Later(s))
  <2> DEFINE v == CaughtUp(s)
             w == Later(s)
  <2>1. v \in Views /\ NpcFits(v, npcs) /\ PlayerFits(s, v)
    BY <1>2, Seen
  <2>2. w = Handled(v, r)
    BY <1>1, <1>4, <1>5, SentOne
  <2>3. /\ w.state = v.state /\ w.uid = v.uid /\ w.pos = x
        /\ w.npcs = v.npcs /\ w.others = v.others
    BY <1>4, <2>1, <2>2, MoveTold
  <2>4. \A t \in InWorld : t # s => pos'[t] = pos[t]
    BY <1>6, Seen
  <2> HIDE DEF v, w
  <2>5. PlayerFitsNext(s, w)
    BY <1>1, <1>6, <1>7, <2>1, <2>3, <2>4 DEF PlayerFits, PlayerFitsNext
  <2> QED BY <1>1, <2>1, <2>3, <2>5 DEF NpcFits, w
<1>13. ASSUME NEW t \in InWorld, t # s PROVE NpcFits(Later(t), npcs') /\ PlayerFitsNext(t, Later(t))
  <2>1. t \in SessionId /\ CaughtUp(t) \in Views /\ NpcFits(CaughtUp(t), npcs)
    BY Seen
  <2>2. queue'[t] = queue[t] \o <<p>>
    BY <1>5, <1>13, <2>1
  <2>3. Later(t) = Handled(CaughtUp(t), p)
    BY <1>1, <1>4, <2>1, <2>2, SentOne
  <2>4. Later(t).npcs = CaughtUp(t).npcs
    BY <1>4, <2>1, <2>3, NotNpcTold
  <2>5. PlayerFitsNext(t, Later(t))
    <3>1. Later(t) = Handled(CaughtUp(t), CharInfo(accountUid[s], x))
      BY <2>3 DEF p
    <3>2. UNCHANGED <<sessions, accountUid, relisted, shared>> /\ InWorld' = InWorld \cup {s}
      BY <1>1, <1>2, <1>7
    <3> QED BY <1>1, <1>3, <1>13, <3>1, <3>2, PlaceIsTold
  <2> QED BY <1>1, <2>1, <2>4, <2>5 DEF NpcFits
<1>14. ASSUME NEW t \in InWorld' PROVE NpcFits(Later(t), npcs') /\ PlayerFitsNext(t, Later(t))
  BY <1>7, <1>12, <1>13
<1> QED BY <1>8, <1>9, <1>10, <1>11, <1>14, Collect

\* A hit that the NPC survives: the attacker alone is told.
LEMMA HitStep ==
  ASSUME WInv, NEW s \in SessionId, NEW u \in NpcUid, NEW damage \in 1..NpcMaxHp, AttackHit(s, u, damage)
  PROVE  WInv'
<1> DEFINE h == npcs[u] - damage
           p == AttackResult(u, h)
<1>1. /\ s \in sessions /\ view[s].state = "InGame" /\ npcs[u] > 0 /\ damage < npcs[u]
      /\ npcs' = [npcs EXCEPT ![u] = h]
      /\ queue' = Send(queue, s, <<p>>)
      /\ UNCHANGED <<sessions, nextSessionId, accountUid, loggedIn, pos, nextNpcUid, view, relisted, shared>>
  BY DEF AttackHit, Ready, Alive
<1>2. s \in InWorld
  BY <1>1, InGameIsInWorld
<1>3. npcs[u] \in 0..NpcMaxHp /\ h \in 0..NpcMaxHp /\ 0 < h /\ h <= npcs[u]
  BY <1>1, Types, WorldAssumption
<1> HIDE DEF h
<1>4. p \in Packet /\ p.type = "SC_ATTACK_RESULT" /\ IsNpcPacket(p) /\ p.uid = u /\ p.hp = h /\ <<p>> \in Seq(Packet)
  BY <1>3, PacketKinds DEF IsNpcPacket
<1> HIDE DEF p
<1>5. /\ queue' \in Queues /\ queue'[s] = queue[s] \o <<p>>
      /\ \A t \in SessionId : t # s => queue'[t] = queue[t]
  BY <1>1, <1>4, SendFacts, Types
<1>6. /\ npcs' \in [NpcUid -> 0..NpcMaxHp] /\ npcs'[u] = h
      /\ \A n \in NpcUid : n # u => npcs'[n] = npcs[n]
  BY <1>1, <1>3, Types
<1>7. InWorld' = InWorld
  BY <1>1 DEF InWorld
<1>8. TypeOK'
  BY <1>1, <1>5, <1>6, Types DEF TypeOK, Queues
<1>9. SessionsInv' /\ NpcInv'
  <2>1. SessionsInv'
    BY <1>1 DEF WInv, SessionsInv
  <2>2. ~(u >= nextNpcUid)
    BY <1>1 DEF WInv, NpcInv
  <2> QED BY <1>1, <1>6, <2>1, <2>2 DEF WInv, NpcInv
<1>10. IdleInv'
  BY <1>1, <1>5 DEF WInv, IdleInv
<1>11. ASSUME NEW t \in sessions', ~loggedIn'[t]
       PROVE  /\ Later(t) = SelectView /\ view'[t] \in {NewView, SelectView}
              /\ \A k \in Range(queue'[t]) : k.type = "SC_CHAR_LIST"
  <2>1. t # s /\ t \in sessions /\ t \in SessionId /\ ~loggedIn[t]
    BY <1>1, <1>2, <1>11, Types DEF InWorld
  <2>2. queue'[t] = queue[t] /\ view'[t] = view[t]
    BY <1>1, <1>5, <2>1
  <2> QED BY <2>1, <2>2, StaysOut
<1>12. ASSUME NEW t \in InWorld PROVE NpcFits(Later(t), npcs') /\ PlayerFitsNext(t, Later(t))
  <2> DEFINE v == CaughtUp(t)
             w == Later(t)
  <2>1. t \in SessionId /\ v \in Views /\ NpcFits(v, npcs) /\ PlayerFits(t, v)
    BY Seen
  <2>2. v.npcs[u] > 0 /\ v.npcs[u] >= npcs[u] /\ v.npcs \in [NpcUid -> 0..NpcMaxHp] /\ npcs \in [NpcUid -> 0..NpcMaxHp]
    BY <1>1, <2>1, ViewFields, Types DEF NpcFits
  <2>3. /\ SamePlayers(v, w)
        /\ w.npcs[u] = IF t = s THEN h ELSE v.npcs[u]
        /\ \A n \in NpcUid : n # u => w.npcs[n] = v.npcs[n]
    <3>1. CASE t = s
      <4>1. w = Handled(v, p)
        BY <1>1, <1>4, <1>5, <3>1, SentOne
      <4>2. HpTold(v, p) = h
        BY <1>4, <2>2 DEF HpTold
      <4> HIDE DEF v, w
      <4> QED BY <1>4, <2>1, <3>1, <4>1, <4>2, NpcTold
    <3>2. CASE t # s
      <4>1. w = v
        BY <1>1, <1>5, <2>1, <3>2, NotSent
      <4> QED BY <3>2, <4>1 DEF SamePlayers
    <3> QED BY <3>1, <3>2
  <2> HIDE DEF v, w
  <2>4. NpcFits(w, npcs')
    <3> SUFFICES ASSUME NEW n \in NpcUid
                 PROVE  (w.npcs[n] > 0 <=> npcs'[n] > 0) /\ w.npcs[n] >= npcs'[n]
      BY DEF NpcFits
    <3>1. CASE n = u
      BY <1>3, <1>6, <2>2, <2>3, <3>1
    <3>2. CASE n # u
      BY <1>6, <2>1, <2>3, <3>2 DEF NpcFits
    <3> QED BY <3>1, <3>2
  <2>5. PlayerFitsNext(t, w)
    <3>1. UNCHANGED relisted /\ shared \subseteq shared' /\ \A r \in InWorld : accountUid'[r] = accountUid[r] /\ pos'[r] = pos[r]
      BY <1>1
    <3> QED BY <1>7, <2>1, <2>3, <3>1, PlayersStay
  <2> QED BY <2>4, <2>5 DEF w
<1> QED BY <1>7, <1>8, <1>9, <1>10, <1>11, <1>12, Collect

\* Two packets are one and one.
LEMMA TwoPackets ==
  ASSUME NEW p \in Packet, NEW r \in Packet
  PROVE  /\ <<p>> \in Seq(Packet) /\ <<r>> \in Seq(Packet) /\ <<p, r>> \in Seq(Packet)
         /\ <<p, r>> = <<p>> \o <<r>>
<1>1. <<p>> \in Seq(Packet) /\ <<r>> \in Seq(Packet) /\ <<p, r>> \in Seq(Packet)
  OBVIOUS
<1> DEFINE s == <<p>> \o <<r>>
           t == <<p, r>>
<1>2. s \in Seq(Packet) /\ Len(s) = 2 /\ s[1] = p /\ s[2] = r
  BY <1>1, ConcatProperties
<1>3. t \in Seq(Packet) /\ Len(t) = 2 /\ t[1] = p /\ t[2] = r
  BY <1>1
<1> HIDE DEF s, t
<1>4. \A i \in 1..Len(t) : t[i] = s[i]
  <2>1. \A i \in 1..2 : i = 1 \/ i = 2
    OBVIOUS
  <2> QED BY <1>2, <1>3, <2>1
<1>5. t = s
  BY <1>2, <1>3, <1>4, SeqEqual
<1> QED BY <1>1, <1>5 DEF s, t

\* What is left of a picture of the NPCs after a kill: u is gone and n is there.
LEMMA KillIsTold ==
  ASSUME NEW v \in Views, NEW u \in NpcUid, NEW n \in NpcUid, u # n, NpcMaxHp \in 0..NpcMaxHp,
         NEW w, w = R!After(v, <<NpcDeath(u), NpcSpawn(n, NpcMaxHp)>>)
  PROVE  /\ <<NpcDeath(u), NpcSpawn(n, NpcMaxHp)>> \in Seq(Packet)
         /\ w \in Views /\ SamePlayers(v, w)
         /\ w.npcs[u] = 0 /\ w.npcs[n] = NpcMaxHp
         /\ \A r \in NpcUid : r # u /\ r # n => w.npcs[r] = v.npcs[r]
<1> DEFINE p == NpcDeath(u)
           r == NpcSpawn(n, NpcMaxHp)
           v1 == Handled(v, p)
           v2 == Handled(v1, r)
<1>1. /\ p \in Packet /\ p.type = "SC_NPC_DEATH" /\ p.uid = u
      /\ r \in Packet /\ r.type = "SC_NPC_SPAWN" /\ r.uid = n /\ r.hp = NpcMaxHp
  BY PacketKinds
<1> HIDE DEF p, r
<1>2. IsNpcPacket(p) /\ IsNpcPacket(r) /\ HpTold(v, p) = 0 /\ HpTold(v1, r) = NpcMaxHp
  BY <1>1 DEF IsNpcPacket, HpTold
<1>3. /\ v1 \in Views /\ SamePlayers(v, v1) /\ v1.npcs[u] = 0
      /\ \A k \in NpcUid : k # u => v1.npcs[k] = v.npcs[k]
  BY <1>1, <1>2, NpcTold
<1> HIDE DEF v1
<1>4. /\ v2 \in Views /\ SamePlayers(v1, v2) /\ v2.npcs[n] = NpcMaxHp
      /\ \A k \in NpcUid : k # n => v2.npcs[k] = v1.npcs[k]
  BY <1>1, <1>2, <1>3, NpcTold
<1>5. <<p, r>> = <<p>> \o <<r>> /\ <<p>> \in Seq(Packet) /\ <<r>> \in Seq(Packet) /\ <<p, r>> \in Seq(Packet)
  BY <1>1, TwoPackets
<1>6. R!After(v, <<p, r>>) = v2
  <2>1. R!After(v, <<p>>) = v1
    BY <1>1, HandlersFit, R!FoldOne DEF v1
  <2>2. R!After(v1, <<r>>) = v2
    BY <1>1, <1>3, HandlersFit, R!FoldOne
  <2>3. R!After(v, <<p>> \o <<r>>) = R!After(R!After(v, <<p>>), <<r>>)
    BY <1>5, HandlersFit, R!FoldConcat
  <2> QED BY <1>5, <2>1, <2>2, <2>3
<1>7. w = v2
  BY <1>6 DEF p, r
<1>8. <<NpcDeath(u), NpcSpawn(n, NpcMaxHp)>> \in Seq(Packet)
  BY <1>5 DEF p, r
<1> HIDE DEF v2
<1> QED BY <1>3, <1>4, <1>7, <1>8 DEF SamePlayers

\* The last hit: everyone in the game is told of the dead and of the new NPC.
LEMMA KillStep ==
  ASSUME WInv, NEW s \in SessionId, NEW u \in NpcUid, AttackKill(s, u)
  PROVE  WInv'
<1> DEFINE n == nextNpcUid
           p == AttackResult(u, 0)
           ps == <<NpcDeath(u), NpcSpawn(n, NpcMaxHp)>>
<1>1. /\ s \in sessions /\ view[s].state = "InGame" /\ npcs[u] > 0 /\ n \in NpcUid
      /\ npcs' = [npcs EXCEPT ![u] = 0, ![n] = NpcMaxHp]
      /\ nextNpcUid' = n + 1
      /\ queue' = Broadcast(Send(queue, s, <<p>>), ps)
      /\ UNCHANGED <<sessions, nextSessionId, accountUid, loggedIn, pos, view, relisted, shared>>
  BY DEF AttackKill, Ready, Alive, TellOfKill
<1>2. s \in InWorld
  BY <1>1, InGameIsInWorld
<1>3. 0 \in 0..NpcMaxHp /\ NpcMaxHp \in 0..NpcMaxHp /\ NpcMaxHp > 0 /\ npcs[n] = 0 /\ u # n
  <2>1. npcs[n] = 0
    BY <1>1 DEF WInv, NpcInv, NpcUid
  <2> QED BY <1>1, <2>1, WorldAssumption
<1>4. p \in Packet /\ p.type = "SC_ATTACK_RESULT" /\ IsNpcPacket(p) /\ p.uid = u /\ <<p>> \in Seq(Packet)
  BY <1>3, PacketKinds DEF IsNpcPacket
<1>5. ps \in Seq(Packet)
  BY <1>1, <1>3, SelectViewFacts, KillIsTold
<1> HIDE DEF p
<1>6. /\ queue' \in Queues /\ queue'[s] = queue[s] \o (<<p>> \o ps)
      /\ \A t \in SessionId : t # s => queue'[t] = IF t \in InWorld THEN queue[t] \o ps ELSE queue[t]
  <2> DEFINE q1 == Send(queue, s, <<p>>)
             q2 == Broadcast(q1, ps)
  <2> HIDE DEF ps
  <2>1. /\ q1 \in Queues /\ q1[s] = queue[s] \o <<p>> /\ queue[s] \in Seq(Packet)
        /\ \A t \in SessionId : t # s => q1[t] = queue[t]
    BY <1>4, SendFacts, Types DEF Queues
  <2>2. queue' = q2
    BY <1>1 DEF ps
  <2> HIDE DEF q1
  <2>3. /\ q2 \in Queues
        /\ \A t \in SessionId : q2[t] = IF t \in InWorld THEN q1[t] \o ps ELSE q1[t]
    BY <1>5, <2>1, BroadcastFacts
  <2> HIDE DEF q2
  <2>4. (queue[s] \o <<p>>) \o ps = queue[s] \o (<<p>> \o ps)
    BY <1>4, <1>5, <2>1, PacketsAssociative
  <2> QED BY <1>2, <2>1, <2>2, <2>3, <2>4
<1>7. /\ npcs' \in [NpcUid -> 0..NpcMaxHp] /\ npcs'[u] = 0 /\ npcs'[n] = NpcMaxHp
      /\ \A r \in NpcUid : r # u /\ r # n => npcs'[r] = npcs[r]
  <2>1. npcs \in [NpcUid -> 0..NpcMaxHp]
    BY Types
  <2> QED BY <1>1, <1>3, <2>1
<1>8. InWorld' = InWorld
  BY <1>1 DEF InWorld
<1>9. TypeOK'
  <2>1. nextNpcUid' \in 1..(MaxNpcUid + 1)
    BY <1>1, WorldAssumption DEF NpcUid
  <2> QED BY <1>1, <1>6, <1>7, <2>1, Types DEF TypeOK, Queues
<1>10. SessionsInv' /\ NpcInv'
  <2>1. SessionsInv'
    BY <1>1 DEF WInv, SessionsInv
  <2>2. ASSUME NEW r \in NpcUid, r >= n + 1 PROVE npcs'[r] = 0
    <3>1. npcs[r] = 0 /\ r # n
      BY <1>1, <2>2 DEF WInv, NpcInv, NpcUid
    <3> QED BY <1>7, <3>1
  <2> QED BY <1>1, <2>1, <2>2 DEF NpcInv
<1>11. IdleInv'
  BY <1>1, <1>2, <1>6, Types DEF WInv, IdleInv
<1>12. ASSUME NEW t \in sessions', ~loggedIn'[t]
       PROVE  /\ Later(t) = SelectView /\ view'[t] \in {NewView, SelectView}
              /\ \A k \in Range(queue'[t]) : k.type = "SC_CHAR_LIST"
  <2>1. t # s /\ t \in sessions /\ t \in SessionId /\ ~loggedIn[t] /\ t \notin InWorld
    BY <1>1, <1>2, <1>12, Types DEF InWorld
  <2>2. queue'[t] = queue[t] /\ view'[t] = view[t]
    BY <1>1, <1>6, <2>1
  <2> QED BY <2>1, <2>2, StaysOut
<1>13. ASSUME NEW t \in InWorld PROVE NpcFits(Later(t), npcs') /\ PlayerFitsNext(t, Later(t))
  <2> DEFINE v == CaughtUp(t)
             v1 == IF t = s THEN Handled(v, p) ELSE v
             w == Later(t)
  <2>1. t \in SessionId /\ v \in Views /\ NpcFits(v, npcs) /\ PlayerFits(t, v)
    BY Seen
  <2>2. /\ v1 \in Views /\ SamePlayers(v, v1)
        /\ \A r \in NpcUid : r # u => v1.npcs[r] = v.npcs[r]
    <3> HIDE DEF v
    <3>1. CASE t = s
      BY <1>4, <2>1, <3>1, NpcTold
    <3>2. CASE t # s
      BY <2>1, <3>2 DEF SamePlayers
    <3> QED BY <3>1, <3>2
  <2>3. w = R!After(v1, ps)
    <3> HIDE DEF ps
    <3>1. CASE t = s
      <4>1. <<p>> \o ps \in Seq(Packet)
        BY <1>4, <1>5, ConcatProperties
      <4>2. w = R!After(v, <<p>> \o ps)
        BY <1>1, <1>6, <3>1, <4>1, Sent
      <4>3. R!After(v, <<p>> \o ps) = R!After(R!After(v, <<p>>), ps) /\ R!After(v, <<p>>) = Handled(v, p)
        BY <1>4, <1>5, <2>1, HandlersFit, R!FoldConcat, R!FoldOne
      <4> QED BY <3>1, <4>2, <4>3
    <3>2. CASE t # s
      <4>1. w = R!After(v, ps)
        BY <1>1, <1>5, <1>6, <2>1, <3>2, Sent
      <4> QED BY <3>2, <4>1
    <3> QED BY <3>1, <3>2
  <2> HIDE DEF v, v1, w
  <2>4. /\ SamePlayers(v1, w) /\ w.npcs[u] = 0 /\ w.npcs[n] = NpcMaxHp
        /\ \A r \in NpcUid : r # u /\ r # n => w.npcs[r] = v1.npcs[r]
    BY <1>1, <1>3, <2>2, <2>3, KillIsTold
  <2>5. NpcFits(w, npcs')
    <3> SUFFICES ASSUME NEW r \in NpcUid
                 PROVE  (w.npcs[r] > 0 <=> npcs'[r] > 0) /\ w.npcs[r] >= npcs'[r]
      BY DEF NpcFits
    <3>1. CASE r = u
      BY <1>7, <2>4, <3>1
    <3>2. CASE r = n
      BY <1>3, <1>7, <2>4, <3>2
    <3>3. CASE r # u /\ r # n
      BY <1>7, <2>1, <2>2, <2>4, <3>3 DEF NpcFits
    <3> QED BY <3>1, <3>2, <3>3
  <2>6. PlayerFitsNext(t, w)
    <3>1. UNCHANGED relisted /\ shared \subseteq shared' /\ \A r \in InWorld : accountUid'[r] = accountUid[r] /\ pos'[r] = pos[r]
      BY <1>1
    <3>2. SamePlayers(v, w)
      BY <2>2, <2>4 DEF SamePlayers
    <3> QED BY <1>8, <2>1, <3>1, <3>2, PlayersStay
  <2> QED BY <2>5, <2>6 DEF w
<1> QED BY <1>8, <1>9, <1>10, <1>11, <1>12, <1>13, Collect

\* The end of a session: the others are told that its account has left.
LEMMA DisconnectStep ==
  ASSUME WInv, NEW s \in SessionId, OnDisconnect(s)
  PROVE  WInv'
<1> DEFINE a == accountUid[s]
           p == CharLeave(a)
           told == IF loggedIn[s] THEN BroadcastExcept(queue, s, <<p>>) ELSE queue
<1>1. /\ s \in sessions /\ sessions' = sessions \ {s}
      /\ accountUid' = [accountUid EXCEPT ![s] = NoAccount]
      /\ loggedIn' = [loggedIn EXCEPT ![s] = FALSE]
      /\ pos' = [pos EXCEPT ![s] = 0]
      /\ queue' = [told EXCEPT ![s] = <<>>]
      /\ view' = [view EXCEPT ![s] = NewView]
      /\ relisted' = [relisted EXCEPT ![s] = FALSE]
      /\ UNCHANGED <<nextSessionId, npcs, nextNpcUid, shared>>
  BY DEF OnDisconnect
<1>2. /\ a \in Accounts /\ p \in Packet /\ p.type = "SC_CHAR_LEAVE" /\ p.uid = a /\ ~IsNpcPacket(p)
      /\ <<p>> \in Seq(Packet) /\ 0 \in Place
  <2>1. 0 \in Place
    BY WorldAssumption DEF Place
  <2> QED BY <1>1, <2>1, Types, PacketKinds DEF IsNpcPacket
<1> HIDE DEF p
<1>3. /\ told \in Queues
      /\ \A t \in SessionId : t # s =>
            told[t] = IF t \in InWorld /\ loggedIn[s] THEN queue[t] \o <<p>> ELSE queue[t]
  <2> DEFINE one == <<p>>
             q1 == BroadcastExcept(queue, s, one)
  <2>1. one \in Seq(Packet)
    BY <1>2
  <2>2. queue \in Queues
    BY Types
  <2>3. told = IF loggedIn[s] THEN q1 ELSE queue
    OBVIOUS
  <2> HIDE DEF one, told
  <2>4. /\ q1 \in Queues
        /\ \A t \in SessionId : q1[t] = IF t \in InWorld /\ t # s THEN queue[t] \o one ELSE queue[t]
    BY <2>1, <2>2, BroadcastExceptFacts
  <2> HIDE DEF q1
  <2>5. told \in Queues
    BY <2>2, <2>3, <2>4
  <2>6. \A t \in SessionId : t # s =>
           told[t] = IF t \in InWorld /\ loggedIn[s] THEN queue[t] \o one ELSE queue[t]
    BY <2>3, <2>4
  <2> QED BY <2>5, <2>6 DEF one
<1> HIDE DEF told
<1>4. /\ queue' \in Queues /\ queue'[s] = <<>>
      /\ \A t \in SessionId : t # s =>
            queue'[t] = IF t \in InWorld /\ loggedIn[s] THEN queue[t] \o <<p>> ELSE queue[t]
  <2>1. <<>> \in Seq(Packet)
    OBVIOUS
  <2> QED BY <1>1, <1>3, <2>1 DEF Queues
<1>5. /\ accountUid' \in [SessionId -> Accounts \cup {NoAccount}]
      /\ loggedIn' \in [SessionId -> BOOLEAN] /\ ~loggedIn'[s]
      /\ pos' \in [SessionId -> Place]
      /\ view' \in [SessionId -> Views] /\ view'[s] = NewView
      /\ relisted' \in [SessionId -> BOOLEAN]
  BY <1>1, <1>2, Types, SelectViewFacts
<1>6. \A t \in SessionId : t # s =>
         /\ accountUid'[t] = accountUid[t] /\ loggedIn'[t] = loggedIn[t] /\ pos'[t] = pos[t]
         /\ view'[t] = view[t] /\ relisted'[t] = relisted[t]
  BY <1>1, Types
<1>7. InWorld' = InWorld \ {s}
  BY <1>1, <1>5, <1>6, Types DEF InWorld
<1>8. TypeOK'
  BY <1>1, <1>4, <1>5, Types DEF TypeOK, Queues
<1>9. SessionsInv'
  BY <1>1, <1>6, Types DEF WInv, SessionsInv
<1>10. NpcInv'
  BY <1>1 DEF WInv, NpcInv
<1>11. IdleInv'
  <2> SUFFICES ASSUME NEW t \in SessionId \ sessions'
               PROVE  ~loggedIn'[t] /\ queue'[t] = <<>> /\ view'[t] = NewView
    BY DEF IdleInv
  <2>1. CASE t = s
    BY <1>4, <1>5, <2>1
  <2>2. CASE t # s
    <3>1. t \notin sessions /\ t \notin InWorld
      BY <1>1, <2>2 DEF InWorld
    <3> QED BY <1>4, <1>6, <2>2, <3>1 DEF WInv, IdleInv
  <2> QED BY <2>1, <2>2
<1>12. ASSUME NEW t \in sessions', ~loggedIn'[t]
       PROVE  /\ Later(t) = SelectView /\ view'[t] \in {NewView, SelectView}
              /\ \A k \in Range(queue'[t]) : k.type = "SC_CHAR_LIST"
  <2>1. t # s /\ t \in sessions /\ t \in SessionId
    BY <1>1, Types
  <2>2. ~loggedIn[t] /\ t \notin InWorld
    BY <1>6, <1>12, <2>1 DEF InWorld
  <2>3. queue'[t] = queue[t] /\ view'[t] = view[t]
    BY <1>4, <1>6, <2>1, <2>2
  <2> QED BY <2>1, <2>2, <2>3, StaysOut
<1>13. ASSUME NEW t \in InWorld' PROVE NpcFits(Later(t), npcs') /\ PlayerFitsNext(t, Later(t))
  <2> DEFINE v == CaughtUp(t)
             w == Later(t)
  <2>1. t \in InWorld /\ t # s
    BY <1>7
  <2>2. t \in sessions /\ t \in SessionId /\ v \in Views /\ NpcFits(v, npcs) /\ PlayerFits(t, v)
    BY <2>1, Seen
  <2>3. UNCHANGED <<npcs, shared>> /\ relisted'[t] = relisted[t] /\ accountUid'[t] = accountUid[t] /\ pos'[t] = pos[t]
    BY <1>1, <1>6, <2>1, <2>2
  <2>4. \A r \in InWorld' : r \in InWorld /\ r # s /\ accountUid'[r] = accountUid[r] /\ pos'[r] = pos[r]
    BY <1>6, <1>7, Seen
  <2>5. CASE ~loggedIn[s]
    <3>1. w = v
      BY <1>4, <1>6, <2>1, <2>2, <2>5, NotSent
    <3>2. InWorld' = InWorld
      BY <1>7, <2>5 DEF InWorld
    <3> HIDE DEF v, w
    <3>3. PlayerFitsNext(t, w)
      BY <2>2, <2>3, <2>4, <3>1, <3>2 DEF PlayerFits, PlayerFitsNext
    <3> QED BY <2>2, <2>3, <3>1, <3>3 DEF w
  <2>6. CASE loggedIn[s]
    <3>1. w = Handled(v, p)
      BY <1>2, <1>4, <1>6, <2>1, <2>2, <2>6, SentOne
    <3> HIDE DEF v, w
    <3>2. /\ w.state = v.state /\ w.uid = v.uid /\ w.pos = v.pos /\ w.npcs = v.npcs
          /\ w.others[a] = Nowhere
          /\ \A b \in Accounts : b # a => w.others[b] = v.others[b]
      BY <1>2, <2>2, <3>1, LeaveTold
    <3>3. s \in InWorld /\ \A r \in InWorld : r # s /\ accountUid[r] = a => a \in shared
      BY <1>1, <2>6, Types DEF InWorld, WInv, SessionsInv
    <3>4. PlayerFitsNext(t, w)
      <4>1. SUFFICES ASSUME ~relisted[t]
                     PROVE  /\ w.state = "InGame" /\ w.uid = accountUid[t]
                            /\ accountUid[t] \notin shared =>
                                 /\ w.pos = pos[t]
                                 /\ \A r \in InWorld' : r # t /\ accountUid[r] \notin shared => w.others[accountUid[r]] = pos[r]
                                 /\ \A b \in Accounts \ shared : (\A r \in InWorld' : accountUid[r] # b) => w.others[b] = Nowhere
        BY <2>3, <2>4 DEF PlayerFitsNext
      <4>2. v.state = "InGame" /\ v.uid = accountUid[t]
        BY <2>2, <4>1 DEF PlayerFits
      <4>3. ASSUME accountUid[t] \notin shared
            PROVE  /\ v.pos = pos[t]
                   /\ \A r \in InWorld : r # t /\ accountUid[r] \notin shared => v.others[accountUid[r]] = pos[r]
                   /\ \A b \in Accounts \ shared : (\A r \in InWorld : accountUid[r] # b) => v.others[b] = Nowhere
        BY <2>2, <4>1, <4>3 DEF PlayerFits
      <4>4. ASSUME accountUid[t] \notin shared, NEW r \in InWorld', r # t, accountUid[r] \notin shared
            PROVE  w.others[accountUid[r]] = pos[r]
        <5>1. accountUid[r] # a /\ accountUid[r] \in Accounts /\ r \in InWorld
          BY <2>4, <3>3, <4>4, Types
        <5> QED BY <3>2, <4>3, <4>4, <5>1
      <4>5. ASSUME accountUid[t] \notin shared, NEW b \in Accounts \ shared, \A r \in InWorld' : accountUid[r] # b
            PROVE  w.others[b] = Nowhere
        <5>1. CASE b = a
          BY <3>2, <5>1
        <5>2. CASE b # a
          <6>1. \A r \in InWorld : accountUid[r] # b
            BY <1>7, <4>5, <5>2
          <6> QED BY <3>2, <4>3, <4>5, <5>2, <6>1
        <5> QED BY <5>1, <5>2
      <4> QED BY <3>2, <4>2, <4>3, <4>4, <4>5
    <3>5. NpcFits(w, npcs')
      BY <2>2, <2>3, <3>2 DEF NpcFits
    <3> QED BY <3>4, <3>5 DEF w
  <2>7. loggedIn[s] \in BOOLEAN
    BY Types
  <2> QED BY <2>5, <2>6, <2>7
<1> QED BY <1>8, <1>9, <1>10, <1>11, <1>12, <1>13, Collect

\* A client handles the packet that is first: what it will show in the end stays.
LEMMA ReceiveStep ==
  ASSUME WInv, NEW s \in SessionId, Receive(s)
  PROVE  WInv'
<1> DEFINE p == Head(queue[s])
           new == Handled(view[s], p)
           rest == Tail(queue[s])
<1>1. /\ s \in sessions /\ queue[s] # <<>>
      /\ view' = [view EXCEPT ![s] = new] /\ queue' = [queue EXCEPT ![s] = rest]
      /\ UNCHANGED <<serverVars, relisted, shared>>
  BY DEF Receive
<1>2. UNCHANGED <<sessions, nextSessionId, accountUid, loggedIn, pos, npcs, nextNpcUid, relisted, shared>>
  BY <1>1 DEF serverVars
<1>3. queue[s] \in Seq(Packet) /\ view[s] \in Views
  BY Types DEF Queues
<1>4. /\ p \in Packet /\ rest \in Seq(Packet) /\ new \in Views
      /\ R!After(new, rest) = R!After(view[s], queue[s])
  BY <1>1, <1>3, HandlersFit, R!FoldFirst
<1>5. p \in Range(queue[s]) /\ \A k \in Range(rest) : k \in Range(queue[s])
  <2>1. Len(queue[s]) \in Nat /\ Len(queue[s]) >= 1 /\ p = queue[s][1]
    BY <1>1, <1>3
  <2>2. Len(rest) = Len(queue[s]) - 1 /\ \A i \in 1..Len(rest) : rest[i] = queue[s][i + 1]
    BY <1>1, <1>3
  <2>3. DOMAIN queue[s] = 1..Len(queue[s]) /\ DOMAIN rest = 1..Len(rest)
    BY <1>3, <1>4
  <2> HIDE DEF p, rest
  <2>4. p \in Range(queue[s])
    BY <2>1, <2>3 DEF Range
  <2>5. ASSUME NEW i \in 1..Len(rest) PROVE rest[i] \in Range(queue[s])
    <3>1. i + 1 \in 1..Len(queue[s])
      BY <2>1, <2>2
    <3> QED BY <2>2, <2>3, <3>1 DEF Range
  <2> QED BY <2>3, <2>4, <2>5 DEF Range
<1> HIDE DEF p, new, rest
<1>6. /\ view' \in [SessionId -> Views] /\ queue' \in Queues
      /\ view'[s] = new /\ queue'[s] = rest
      /\ \A t \in SessionId : t # s => view'[t] = view[t] /\ queue'[t] = queue[t]
  BY <1>1, <1>4, Types DEF Queues
<1>7. ASSUME NEW t \in SessionId PROVE Later(t) = CaughtUp(t)
  <2>1. CASE t = s
    BY <1>4, <1>6, <2>1, CaughtUpIsFold DEF Later
  <2>2. CASE t # s
    BY <1>6, <2>2, NotSent
  <2> QED BY <2>1, <2>2
<1>8. InWorld' = InWorld
  BY <1>2 DEF InWorld
<1>9. TypeOK'
  BY <1>2, <1>6, Types DEF TypeOK, Queues
<1>10. SessionsInv' /\ NpcInv'
  BY <1>2 DEF WInv, SessionsInv, NpcInv
<1>11. IdleInv'
  BY <1>1, <1>2, <1>6 DEF WInv, IdleInv
<1>12. ASSUME NEW t \in sessions', ~loggedIn'[t]
       PROVE  /\ Later(t) = SelectView /\ view'[t] \in {NewView, SelectView}
              /\ \A k \in Range(queue'[t]) : k.type = "SC_CHAR_LIST"
  <2>1. t \in sessions /\ t \in SessionId /\ ~loggedIn[t]
    BY <1>2, <1>12, Types
  <2>2. /\ Later(t) = SelectView /\ view[t] \in {NewView, SelectView}
        /\ \A k \in Range(queue[t]) : k.type = "SC_CHAR_LIST"
    BY <1>7, <2>1 DEF WInv, OutInv
  <2>3. CASE t = s
    <3>1. p.type = "SC_CHAR_LIST"
      BY <1>5, <2>2, <2>3
    <3>2. new = SelectView
      BY <1>4, <2>2, <2>3, <3>1, SelectViewFacts DEF new
    <3> QED BY <1>5, <1>6, <2>2, <2>3, <3>2
  <2>4. CASE t # s
    BY <1>6, <2>1, <2>2, <2>4
  <2> QED BY <2>3, <2>4
<1>13. ASSUME NEW t \in InWorld' PROVE NpcFits(Later(t), npcs') /\ PlayerFitsNext(t, Later(t))
  <2>1. t \in InWorld /\ t \in SessionId /\ NpcFits(CaughtUp(t), npcs) /\ PlayerFits(t, CaughtUp(t))
    BY <1>8, Seen
  <2>2. Later(t) = CaughtUp(t)
    BY <1>7, <2>1
  <2>3. UNCHANGED relisted /\ shared \subseteq shared' /\ \A r \in InWorld : accountUid'[r] = accountUid[r] /\ pos'[r] = pos[r]
    BY <1>2
  <2>4. SamePlayers(CaughtUp(t), Later(t))
    BY <2>2 DEF SamePlayers
  <2>5. PlayerFitsNext(t, Later(t))
    BY <1>8, <2>1, <2>3, <2>4, PlayersStay
  <2> QED BY <1>2, <2>1, <2>2, <2>5
<1> QED BY <1>9, <1>10, <1>11, <1>12, <1>13, Collect

\* Nobody is there when the server starts.
LEMMA InitWInv == Init => WInv
<1> SUFFICES ASSUME Init PROVE WInv
  OBVIOUS
<1>1. /\ sessions = {} /\ nextSessionId = 1
      /\ accountUid = [s \in SessionId |-> NoAccount]
      /\ loggedIn = [s \in SessionId |-> FALSE]
      /\ pos = [s \in SessionId |-> 0]
      /\ npcs = [u \in NpcUid |-> IF u <= MAX_NPC THEN NpcMaxHp ELSE 0]
      /\ nextNpcUid = MAX_NPC + 1
      /\ queue = [s \in SessionId |-> <<>>]
      /\ view = [s \in SessionId |-> NewView]
      /\ relisted = [s \in SessionId |-> FALSE]
      /\ shared = {}
  BY DEF Init
<1>2. TypeOK
  <2>1. 0 \in Place /\ 0 \in 0..NpcMaxHp /\ NpcMaxHp \in 0..NpcMaxHp /\ <<>> \in Seq(Packet)
        /\ 1 \in 1..(MaxSession + 1) /\ MAX_NPC + 1 \in 1..(MaxNpcUid + 1)
    BY WorldAssumption DEF Place
  <2>2. npcs \in [NpcUid -> 0..NpcMaxHp]
    BY <1>1, <2>1
  <2> QED BY <1>1, <2>1, <2>2, SelectViewFacts DEF TypeOK
<1>3. NpcInv
  BY <1>1, WorldAssumption DEF NpcInv, NpcUid
<1>4. SessionsInv /\ IdleInv /\ OutInv /\ NpcsSeen /\ PlayersSeen
  BY <1>1 DEF SessionsInv, IdleInv, OutInv, NpcsSeen, PlayersSeen, InWorld
<1> QED BY <1>2, <1>3, <1>4 DEF WInv

\* Every step of the server and of a client keeps the inductive invariant.
LEMMA NextWInv == WInv /\ [Next]_vars => WInv'
<1> SUFFICES ASSUME WInv, [Next]_vars PROVE WInv'
  OBVIOUS
<1>1. CASE UNCHANGED vars
  <2>1. UNCHANGED <<sessions, nextSessionId, accountUid, loggedIn, pos, npcs, nextNpcUid, queue, view, relisted, shared>>
    BY <1>1 DEF vars, serverVars
  <2>2. InWorld' = InWorld
    BY <2>1 DEF InWorld
  <2>3. \A s \in SessionId : Later(s) = CaughtUp(s)
    BY <2>1, NotSent
  <2>4. TypeOK' /\ SessionsInv' /\ NpcInv' /\ IdleInv'
    BY <2>1 DEF WInv, TypeOK, SessionsInv, NpcInv, IdleInv
  <2>5. ASSUME NEW s \in sessions', ~loggedIn'[s]
        PROVE  /\ Later(s) = SelectView /\ view'[s] \in {NewView, SelectView}
               /\ \A p \in Range(queue'[s]) : p.type = "SC_CHAR_LIST"
    BY <2>1, <2>5, StaysOut
  <2>6. ASSUME NEW s \in InWorld' PROVE NpcFits(Later(s), npcs') /\ PlayerFitsNext(s, Later(s))
    <3>1. s \in InWorld /\ s \in SessionId /\ NpcFits(CaughtUp(s), npcs) /\ PlayerFits(s, CaughtUp(s))
      BY <2>2, Seen
    <3>2. Later(s) = CaughtUp(s)
      BY <2>3, <3>1
    <3>3. SamePlayers(CaughtUp(s), Later(s))
      BY <3>2 DEF SamePlayers
    <3>4. UNCHANGED relisted /\ shared \subseteq shared' /\ \A r \in InWorld : accountUid'[r] = accountUid[r] /\ pos'[r] = pos[r]
      BY <2>1
    <3>5. PlayerFitsNext(s, Later(s))
      BY <2>2, <3>1, <3>3, <3>4, PlayersStay
    <3> QED BY <2>1, <3>1, <3>2, <3>5
  <2> QED BY <2>4, <2>5, <2>6, Collect
<1> QED
  BY <1>1, LoginStep, CreateStep, SelectStep, MoveStep, HitStep, KillStep, DisconnectStep, ReceiveStep
  DEF Next

\* The inductive invariant holds for as long as the server runs.
LEMMA WorldInvariant == Spec => []WInv
  BY InitWInv, NextWInv, PTL DEF Spec

-----------------------------------------------------------------------------
(* What a reader should know. *)

\* Whenever a client entered the game and whoever killed, SendAllNPCs and the
\* broadcasts of OnAttack leave it with exactly the living NPCs, and with no hp
\* too few, once it has handled what is under way to it.
THEOREM ClientsSeeTheNpcs == Spec => []NpcsFollow
<1>1. WInv => NpcsFollow
  <2> SUFFICES ASSUME WInv, NEW s \in InWorld
               PROVE  Shown(CaughtUp(s)) = Alive /\ \A u \in Alive : CaughtUp(s).npcs[u] >= npcs[u]
    BY DEF NpcsFollow, WInv
  <2>1. NpcFits(CaughtUp(s), npcs)
    BY Seen
  <2> QED BY <2>1 DEF NpcFits, Shown, Alive
<1> QED BY <1>1, WorldInvariant, PTL

\* A client that has not created a character after it selected one knows which
\* player it is and, unless an account was shared, sees every player in the game
\* where the server has it and nobody who has left.
THEOREM ClientsSeeThePlayers == Spec => []PlayersFollow
<1>1. WInv => PlayersFollow
  <2> SUFFICES ASSUME WInv, NEW s \in InWorld PROVE KnowsItself(s) /\ SeesPlayers(s)
    BY DEF PlayersFollow
  <2> DEFINE v == CaughtUp(s)
  <2>1. PlayerFits(s, v)
    BY Seen
  <2>2. KnowsItself(s)
    BY <2>1 DEF PlayerFits, KnowsItself
  <2>3. ASSUME ~relisted[s], accountUid[s] \notin shared, NEW a \in Accounts \ (shared \cup {accountUid[s]})
        PROVE  v.others[a] = IF \E t \in InWorld : accountUid[t] = a
                             THEN pos[CHOOSE t \in InWorld : accountUid[t] = a]
                             ELSE Nowhere
    <3>1. /\ \A t \in InWorld : t # s /\ accountUid[t] \notin shared => v.others[accountUid[t]] = pos[t]
          /\ (\A t \in InWorld : accountUid[t] # a) => v.others[a] = Nowhere
      BY <2>1, <2>3 DEF PlayerFits
    <3> HIDE DEF v
    <3>2. CASE \E t \in InWorld : accountUid[t] = a
      <4> DEFINE t == CHOOSE u \in InWorld : accountUid[u] = a
      <4>1. t \in InWorld /\ accountUid[t] = a
        BY <3>2
      <4> HIDE DEF t
      <4>2. v.others[a] = pos[t]
        BY <2>3, <3>1, <4>1
      <4> QED BY <3>2, <4>2 DEF t
    <3>3. CASE ~ \E t \in InWorld : accountUid[t] = a
      BY <3>1, <3>3
    <3> QED BY <3>2, <3>3
  <2>4. SeesPlayers(s)
    <3>1. ~relisted[s] /\ accountUid[s] \notin shared => v.pos = pos[s]
      BY <2>1 DEF PlayerFits
    <3> QED BY <2>3, <3>1 DEF SeesPlayers
  <2> QED BY <2>2, <2>4
<1> QED BY <1>1, WorldInvariant, PTL
=============================================================================
