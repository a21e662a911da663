---------------------------- MODULE AccountProofs ----------------------------
(***************************************************************************)
(* Proofs about accounts, characters and attendance, for any number of     *)
(* sessions, texts, names and days and for every outcome of the database   *)
(* calls: an unanswered login, a call that took effect twice, a character  *)
(* played on two sessions.  And about the calls themselves: the safety of  *)
(* ExecuteProc for every MAX_RETRIES, whether or not handles can be        *)
(* allocated, and however the database goes down and comes back.           *)
(***************************************************************************)
EXTENDS Account, DBConnection, FiniteSetTheorems, TLAPS

\* A name is given to one character.
Unique ==
    \A c, d \in CharUids : charName[c] = charName[d] /\ charName[c] # NoName => c = d

\* spAccountLogin makes no account but under its own ChannelId.
OwnChannel == \A ch \in ChannelIds : accounts[ch] \in {0, ch}

\* AUTO_INCREMENT has not given these CharUids away yet.
Unused == \A c \in CharUids : c >= nextCharUid => charName[c] = NoName

\* Who is played exists: a row of the table character is never removed.
PlayedExists == \A s \in SessionId : loggedIn(s) => charName[charUid[s]] # NoName

\* After a login the session is in the account numbered as its channel.
InChannel == \A s \in SessionId : channel[s] # 0 => accountUid[s] = channel[s]

IInv == /\ TypeOK /\ Unique /\ OwnChannel /\ Unused /\ PlayedExists /\ InChannel
        /\ AttendancePaidOnce

-----------------------------------------------------------------------------
(* What the stored procedures return. *)

\* An account is found or made under its ChannelId.
LEMMA FoundIsChannel ==
  ASSUME OwnChannel, NEW ch \in ChannelIds PROVE FoundOrMade(ch) = ch
  BY DEF OwnChannel, FoundOrMade, NewAccountUid

\* A table of characters with unique names and no row under an unused CharUid,
\* and one with the rows of another.
Sound(t) ==
    /\ t.owner \in [CharUids -> AccountUids]
    /\ t.charName \in [CharUids -> Names \cup {NoName}]
    /\ t.next \in Nat \ {0}
    /\ \A c, d \in CharUids :
          t.charName[c] = t.charName[d] /\ t.charName[c] # NoName => c = d
    /\ \A c \in CharUids : c >= t.next => t.charName[c] = NoName

RowsKept(t, u) ==
    \A c \in CharUids : t.charName[c] # NoName =>
        u.charName[c] = t.charName[c] /\ u.owner[c] = t.owner[c]

\* One execution of spCharacterCreate keeps a table sound and its rows as they
\* are.
LEMMA CreateOnce ==
  ASSUME NEW t, Sound(t), NEW a \in AccountUids, NEW n \in Names
  PROVE  Sound(spCharacterCreate(t, a, n)) /\ RowsKept(t, spCharacterCreate(t, a, n))
<1> DEFINE u == spCharacterCreate(t, a, n)
<1>1. CASE NameFree(t, a, n) /\ t.next \in CharUids
  <2>1. /\ u.owner = [t.owner EXCEPT ![t.next] = a]
        /\ u.charName = [t.charName EXCEPT ![t.next] = n]
        /\ u.next = t.next + 1
    BY <1>1 DEF spCharacterCreate
  <2>2. \A c \in CharUids : t.charName[c] # n
    BY <1>1 DEF NameFree
  <2>3. t.charName[t.next] = NoName
    BY <1>1, AccountAssumption DEF Sound
  <2> HIDE DEF u
  <2>4. Sound(u)
    <3>1. /\ u.owner \in [CharUids -> AccountUids]
          /\ u.charName \in [CharUids -> Names \cup {NoName}]
          /\ u.next \in Nat \ {0}
      <4>1. u.owner \in [CharUids -> AccountUids]
        BY <2>1 DEF Sound
      <4>2. u.charName \in [CharUids -> Names \cup {NoName}]
        BY <2>1 DEF Sound
      <4>3. u.next \in Nat \ {0}
        BY <2>1 DEF Sound
      <4> QED BY <4>1, <4>2, <4>3
    <3>2. \A c, d \in CharUids :
             u.charName[c] = u.charName[d] /\ u.charName[c] # NoName => c = d
      BY <2>1, <2>2 DEF Sound
    <3>3. \A c \in CharUids : c >= u.next => u.charName[c] = NoName
      BY <1>1, <2>1, AccountAssumption DEF Sound
    <3> QED BY <3>1, <3>2, <3>3 DEF Sound
  <2>5. RowsKept(t, u)
    BY <1>1, <2>1, <2>3 DEF RowsKept, Sound
  <2> QED BY <2>4, <2>5 DEF u
<1>2. CASE ~(NameFree(t, a, n) /\ t.next \in CharUids)
  <2>1. u = t
    BY <1>2 DEF spCharacterCreate
  <2> QED BY <2>1 DEF RowsKept
<1> QED BY <1>1, <1>2

\* However often the call took effect.
LEMMA CreateStep ==
  ASSUME TypeOK, Unique, Unused, NEW s \in SessionId, NEW n \in Names, OnCharCreate(s, n)
  PROVE  /\ owner' \in [CharUids -> AccountUids]
         /\ charName' \in [CharUids -> Names \cup {NoName}]
         /\ nextCharUid' \in Nat \ {0}
         /\ Unique' /\ Unused'
         /\ \A c \in CharUids : charName[c] # NoName =>
               charName'[c] = charName[c] /\ owner'[c] = owner[c]
<1> DEFINE create(t) == spCharacterCreate(t, accountUid[s], n)
           after == [owner |-> owner', charName |-> charName', next |-> nextCharUid']
<1>1. accountUid[s] \in AccountUids /\ Sound(Characters)
  BY DEF TypeOK, Unique, Unused, Sound, Characters
<1>2. Sound(create(Characters)) /\ RowsKept(Characters, create(Characters))
  BY <1>1, CreateOnce
<1>3. /\ Sound(create(create(Characters)))
      /\ RowsKept(create(Characters), create(create(Characters)))
  BY <1>1, <1>2, CreateOnce
<1>4. RowsKept(Characters, create(create(Characters)))
  BY <1>2, <1>3 DEF RowsKept
<1>5. \E o \in DBOutcomes :
        LET t == CASE o = "failed" -> Characters
                   [] o = "twice" -> create(create(Characters))
                   [] OTHER -> create(Characters)
        IN  owner' = t.owner /\ charName' = t.charName /\ nextCharUid' = t.next
  BY DEF OnCharCreate
<1>6. \E t \in {Characters, create(Characters), create(create(Characters))} :
        owner' = t.owner /\ charName' = t.charName /\ nextCharUid' = t.next
  <2> HIDE DEF create
  <2> QED BY <1>5
<1>7. RowsKept(Characters, Characters)
  BY DEF RowsKept
<1>8. PICK t : /\ owner' = t.owner /\ charName' = t.charName /\ nextCharUid' = t.next
               /\ Sound(t) /\ RowsKept(Characters, t)
  <2> HIDE DEF create
  <2> QED BY <1>1, <1>2, <1>3, <1>4, <1>6, <1>7
<1> QED BY <1>8 DEF Sound, RowsKept, Characters, Unique, Unused

\* What is announced is never more than what is booked.
LEMMA RewardTypes ==
  ASSUME NEW c, NEW o \in DBOutcomes
  PROVE  /\ GoldOfFirstRow(c, o) \in Nat
         /\ ToldOf(c, o) \in Nat
         /\ ToldOf(c, o) <= GoldOfFirstRow(c, o)
  BY AccountAssumption DEF GoldOfFirstRow, ToldOf

\* The days of a character are finitely many.
LEMMA DaysFinite ==
  ASSUME NEW c PROVE IsFiniteSet(DaysAttended(c)) /\ Cardinality(DaysAttended(c)) \in Nat
<1>1. IsFiniteSet(1..MaxDay)
  BY AccountAssumption, FS_Interval
<1>2. DaysAttended(c) \in SUBSET (1..MaxDay)
  BY DEF DaysAttended
<1> QED BY <1>1, <1>2, FS_Subset, FS_CardinalityType

\* The day that is booked for c adds one reward to the gold of c, if it was not
\* booked before, and nothing to anyone else.
LEMMA BookedDay ==
  ASSUME TypeOK, NEW c \in MaybeChar, NEW o \in DBOutcomes,
         attendance' = IF Executed(o) THEN attendance \cup {<<c, today>>} ELSE attendance
  PROVE  \A d \in CharUids :
            RewardGold * Cardinality(DaysAttended(d)') =
               RewardGold * Cardinality(DaysAttended(d))
                  + IF d = c THEN GoldOfFirstRow(c, o) ELSE 0
<1> SUFFICES ASSUME NEW d \in CharUids
             PROVE  RewardGold * Cardinality(DaysAttended(d)') =
                       RewardGold * Cardinality(DaysAttended(d))
                          + IF d = c THEN GoldOfFirstRow(c, o) ELSE 0
  OBVIOUS
<1>1. today \in 1..MaxDay /\ RewardGold \in Nat
  BY AccountAssumption DEF TypeOK
<1>2. Cardinality(DaysAttended(d)) \in Nat /\ IsFiniteSet(DaysAttended(d))
  BY DaysFinite
<1>3. CASE d = c /\ Executed(o)
  <2>1. DaysAttended(d)' = DaysAttended(d) \cup {today}
    BY <1>1, <1>3 DEF DaysAttended
  <2>2. today \in DaysAttended(d) <=> <<c, today>> \in attendance
    BY <1>1, <1>3 DEF DaysAttended
  <2>3. Cardinality(DaysAttended(d)') =
           IF today \in DaysAttended(d) THEN Cardinality(DaysAttended(d))
           ELSE Cardinality(DaysAttended(d)) + 1
    BY <1>2, <2>1, FS_AddElement
  <2> QED BY <1>1, <1>2, <1>3, <2>2, <2>3 DEF GoldOfFirstRow
<1>4. CASE ~(d = c /\ Executed(o))
  <2>1. DaysAttended(d)' = DaysAttended(d)
    BY <1>4 DEF DaysAttended
  <2>2. (IF d = c THEN GoldOfFirstRow(c, o) ELSE 0) = 0
    BY <1>4 DEF GoldOfFirstRow
  <2> QED BY <1>1, <1>2, <2>1, <2>2
<1> QED BY <1>3, <1>4

-----------------------------------------------------------------------------
\* The tables are empty at first.
LEMMA InitEstablishes == Init => IInv
<1> SUFFICES ASSUME Init PROVE IInv
  OBVIOUS
<1>1. TypeOK
  BY SessionAssumption, AccountAssumption
     DEF Init, SessionInit, TypeOK, SessionTypeOK, SessionId, MaybeChar, AccountUids
<1>2. AttendancePaidOnce
  <2>1. \A c \in CharUids : DaysAttended(c) = {}
    BY DEF Init, DaysAttended
  <2>2. RewardGold * Cardinality({}) = 0
    BY AccountAssumption, FS_EmptySet
  <2> QED BY <2>1, <2>2 DEF Init, AttendancePaidOnce, MaybeChar
<1>3. Unique /\ OwnChannel /\ Unused /\ PlayedExists /\ InChannel
  BY DEF Init, SessionInit, Unique, OwnChannel, Unused, PlayedExists, InChannel, loggedIn
<1> QED BY <1>1, <1>2, <1>3 DEF IInv

\* A step that leaves attendance and gold alone keeps the books.
LEMMA BooksUnchanged ==
  ASSUME AttendancePaidOnce, UNCHANGED <<attendance, dbGold, told>> PROVE AttendancePaidOnce'
  BY DEF AttendancePaidOnce, DaysAttended

\* Every request, whatever the database answers, preserves the invariant.
LEMMA StepPreserves == IInv /\ [Next]_vars => IInv'
<1> SUFFICES ASSUME IInv, [Next]_vars PROVE IInv'
  OBVIOUS
<1> USE DEF IInv
<1>1. CASE DoAccept
  <2>1. UNCHANGED <<charUid, name, loginVars, dbVars>>
        /\ sessions' = sessions \cup {nextSessionId} /\ nextSessionId \in SessionId
        /\ nextSessionId' = nextSessionId + 1
    BY <1>1 DEF DoAccept, AddSession
  <2>2. TypeOK'
    BY <2>1, SessionAssumption DEF TypeOK, SessionTypeOK, SessionId, loginVars, dbVars
  <2> QED BY <2>1, <2>2, BooksUnchanged
          DEF loginVars, dbVars, Unique, OwnChannel, Unused, PlayedExists, InChannel, loggedIn
<1>2. CASE Midnight
  <2>1. TypeOK'
    BY <1>2, AccountAssumption DEF Midnight, TypeOK, SessionTypeOK, sessionVars, loginVars
  <2> QED BY <1>2, <2>1, BooksUnchanged
          DEF Midnight, sessionVars, loginVars, Unique, OwnChannel, Unused, PlayedExists,
              InChannel, loggedIn
<1>3. ASSUME NEW s \in SessionId, NEW id \in LoginIds, OnLogin(s, id) PROVE IInv'
  <2> DEFINE ch == ChannelId[id]
  <2>1. ch \in ChannelIds /\ FoundOrMade(ch) = ch
    BY AccountAssumption, FoundIsChannel
  <2>2. /\ accounts' = [accounts EXCEPT ![ch] = ch] \/ accounts' = accounts
        /\ accountUid' = [accountUid EXCEPT ![s] = ch]
        /\ channel' = [channel EXCEPT ![s] = ch]
        /\ UNCHANGED <<sessionVars, owner, charName, nextCharUid, dbGold, attendance,
                       today, told>>
    BY <1>3, <2>1 DEF OnLogin, FallbackUid
  <2>3. TypeOK'
    BY <2>1, <2>2 DEF TypeOK, SessionTypeOK, sessionVars, AccountUids
  <2>4. OwnChannel' /\ InChannel'
    BY <2>1, <2>2 DEF OwnChannel, InChannel, TypeOK
  <2> QED BY <2>2, <2>3, <2>4, BooksUnchanged
          DEF sessionVars, Unique, Unused, PlayedExists, loggedIn
<1>4. ASSUME NEW s \in SessionId, NEW n \in Names, OnCharCreate(s, n) PROVE IInv'
  <2>1. UNCHANGED <<sessionVars, loginVars, accounts, dbGold, attendance, today, told>>
    BY <1>4 DEF OnCharCreate
  <2>2. TypeOK' /\ Unique' /\ Unused'
    BY <1>4, <2>1, CreateStep DEF TypeOK, SessionTypeOK, sessionVars, loginVars
  <2>3. PlayedExists'
    BY <1>4, <2>1, CreateStep
       DEF PlayedExists, TypeOK, SessionTypeOK, MaybeChar, sessionVars, loggedIn
  <2> QED BY <2>1, <2>2, <2>3, BooksUnchanged DEF OwnChannel, InChannel, loginVars
<1>5. ASSUME NEW s \in SessionId, NEW c \in CharUids, OnCharSelect(s, c) PROVE IInv'
  <2>1. /\ charName[c] # NoName /\ charUid' = [charUid EXCEPT ![s] = c]
        /\ name' = [name EXCEPT ![s] = c] \/ name' = name
        /\ UNCHANGED <<sessions, nextSessionId, loginVars, dbVars>>
    BY <1>5 DEF OnCharSelect, Owns, SelectChar
  <2>2. TypeOK'
    BY <2>1 DEF TypeOK, SessionTypeOK, MaybeChar, loginVars, dbVars
  <2>3. PlayedExists'
    BY <2>1 DEF PlayedExists, TypeOK, SessionTypeOK, dbVars, loggedIn
  <2> QED BY <2>1, <2>2, <2>3, BooksUnchanged
          DEF loginVars, dbVars, Unique, OwnChannel, Unused, InChannel
<1>6. ASSUME NEW s \in SessionId, OnAttendanceCheck(s) PROVE IInv'
  <2> DEFINE c == charUid[s]
  <2>1. PICK o \in DBOutcomes :
          /\ attendance' = IF Executed(o) THEN attendance \cup {<<c, today>>} ELSE attendance
          /\ dbGold' = IF loggedIn(s) THEN [dbGold EXCEPT ![c] = @ + GoldOfFirstRow(c, o)]
                       ELSE dbGold
          /\ told' = [told EXCEPT ![c] = @ + ToldOf(c, o)]
    BY <1>6 DEF OnAttendanceCheck
  <2>2. UNCHANGED <<sessionVars, loginVars, accounts, owner, charName, nextCharUid, today>>
    BY <1>6 DEF OnAttendanceCheck
  <2>3. c \in MaybeChar /\ (loggedIn(s) <=> c \in CharUids)
    BY SessionAssumption DEF TypeOK, SessionTypeOK, MaybeChar, loggedIn
  <2>4. /\ GoldOfFirstRow(c, o) \in Nat /\ ToldOf(c, o) \in Nat
        /\ ToldOf(c, o) <= GoldOfFirstRow(c, o)
    BY RewardTypes
  <2>5. TypeOK'
    <3>1. attendance' \subseteq MaybeChar \X (1..MaxDay)
      BY <2>1, <2>3 DEF TypeOK
    <3>2. dbGold' \in [CharUids -> Nat] /\ told' \in [MaybeChar -> Nat]
      BY <2>1, <2>3, <2>4 DEF TypeOK
    <3> QED BY <2>2, <3>1, <3>2 DEF TypeOK, SessionTypeOK, sessionVars, loginVars
  <2>6. AttendancePaidOnce'
    <3>1. \A d \in CharUids :
             RewardGold * Cardinality(DaysAttended(d)') =
               RewardGold * Cardinality(DaysAttended(d))
                  + IF d = c THEN GoldOfFirstRow(c, o) ELSE 0
      BY <2>1, <2>3, BookedDay
    <3>2. ASSUME NEW d \in CharUids
          PROVE  /\ dbGold'[d] = dbGold[d] + IF d = c THEN GoldOfFirstRow(c, o) ELSE 0
                 /\ told'[d] = told[d] + IF d = c THEN ToldOf(c, o) ELSE 0
                 /\ dbGold[d] \in Nat /\ told[d] \in Nat
      BY <2>1, <2>3, <2>4 DEF TypeOK, MaybeChar
    <3> HIDE DEF c
    <3> QED BY <2>4, <3>1, <3>2 DEF AttendancePaidOnce
  <2> QED BY <2>2, <2>5, <2>6
          DEF sessionVars, loginVars, Unique, OwnChannel, Unused, PlayedExists, InChannel, loggedIn
<1>7. ASSUME NEW s \in SessionId, OnDisconnect(s) PROVE IInv'
  <2>1. /\ sessions' = sessions \ {s}
        /\ charUid' = [charUid EXCEPT ![s] = NoChar]
        /\ name' = [name EXCEPT ![s] = NoChar]
        /\ accountUid' = [accountUid EXCEPT ![s] = 0]
        /\ channel' = [channel EXCEPT ![s] = 0]
        /\ UNCHANGED <<nextSessionId, dbVars>>
    BY <1>7 DEF OnDisconnect, RemoveSession
  <2>2. TypeOK'
    BY <2>1 DEF TypeOK, SessionTypeOK, MaybeChar, AccountUids, dbVars
  <2>3. PlayedExists'
    BY <2>1 DEF PlayedExists, TypeOK, SessionTypeOK, dbVars, loggedIn
  <2>4. InChannel'
    BY <2>1 DEF InChannel, TypeOK
  <2> QED BY <2>1, <2>2, <2>3, <2>4, BooksUnchanged DEF dbVars, Unique, OwnChannel, Unused
<1>8. CASE UNCHANGED vars
  <2>1. TypeOK'
    BY <1>8 DEF vars, TypeOK, SessionTypeOK
  <2> QED BY <1>8, <2>1, BooksUnchanged
          DEF vars, Unique, OwnChannel, Unused, PlayedExists, InChannel, loggedIn
<1> QED BY <1>1, <1>2, <1>3, <1>4, <1>5, <1>6, <1>7, <1>8 DEF Next

\* The invariant holds throughout.
LEMMA Invariance == Spec => []IInv
  BY InitEstablishes, StepPreserves, PTL DEF Spec

-----------------------------------------------------------------------------
\* A name finds at most one character, however often spCharacterCreate was
\* executed for one CS_CHAR_CREATE.
THEOREM AccountNamesUnique == Spec => []NamesUnique
<1>1. IInv => NamesUnique
  BY DEF IInv, Unique, NamesUnique
<1> QED BY <1>1, Invariance, PTL

\* A session is in the account of the channel it logged in with, and in no other
\* channel's, whether the database answered OnLogin or not.
THEOREM LoginFallback == Spec => []FallbackIsOwnAccount
<1>1. IInv => FallbackIsOwnAccount
  <2> SUFFICES ASSUME IInv, NEW s \in SessionId, channel[s] # 0
               PROVE  /\ accounts[channel[s]] \in {0, accountUid[s]}
                      /\ \A ch \in ChannelIds \ {channel[s]} : accounts[ch] # accountUid[s]
    BY DEF FallbackIsOwnAccount
  <2>1. channel[s] \in ChannelIds /\ accountUid[s] = channel[s]
    BY DEF IInv, TypeOK, AccountUids, InChannel
  <2> QED BY <2>1 DEF IInv, OwnChannel
<1> QED BY <1>1, Invariance, PTL

\* spAttendanceCheck pays one reward for each day attended, over any number of
\* sessions and retries, and announces no gold that was not paid.
THEOREM AttendancePaid == Spec => []AttendancePaidOnce
<1>1. IInv => AttendancePaidOnce
  BY DEF IInv
<1> QED BY <1>1, Invariance, PTL

\* Only a login separates a session from the account of its character: no other
\* handler, of this or of another session, gives the character it plays away.
THEOREM LoginSeparates == Spec => OnlyLoginSeparates
<1> DEFINE Kept == \A s \in SessionId :
          LET plays(cs, as) == cs[s] = NoChar \/ owner[cs[s]] = as[s]
          IN  plays(charUid, accountUid) /\ accountUid'[s] = accountUid[s] =>
                 charUid'[s] = NoChar \/ owner'[charUid'[s]] = accountUid'[s]
<1>1. ASSUME IInv, [Next]_vars PROVE Kept
  <2> SUFFICES ASSUME NEW s \in SessionId, accountUid'[s] = accountUid[s],
                      charUid[s] = NoChar \/ owner[charUid[s]] = accountUid[s],
                      charUid'[s] # NoChar
               PROVE  owner'[charUid'[s]] = accountUid'[s]
    OBVIOUS
  <2>1. ASSUME NEW t \in SessionId, NEW c \in CharUids, OnCharSelect(t, c)
        PROVE  owner'[charUid'[s]] = accountUid'[s]
    BY <1>1, <2>1 DEF OnCharSelect, Owns, SelectChar, dbVars, IInv, TypeOK, SessionTypeOK
  <2>2. ASSUME NEW t \in SessionId, NEW n \in Names, OnCharCreate(t, n)
        PROVE  owner'[charUid'[s]] = accountUid'[s]
    <3>1. charUid' = charUid
      BY <2>2 DEF OnCharCreate, sessionVars
    <3>2. charUid[s] \in CharUids /\ charName[charUid[s]] # NoName
      BY <1>1, <3>1 DEF IInv, TypeOK, SessionTypeOK, MaybeChar, PlayedExists, loggedIn
    <3> QED BY <1>1, <2>2, <3>1, <3>2, CreateStep DEF IInv
  <2>3. ASSUME NEW t \in SessionId, OnDisconnect(t)
        PROVE  owner'[charUid'[s]] = accountUid'[s]
    BY <1>1, <2>3 DEF OnDisconnect, RemoveSession, dbVars, IInv, TypeOK, SessionTypeOK
  <2>4. CASE UNCHANGED <<charUid, owner>>
    BY <2>4
  <2>5. DoAccept \/ Midnight \/ UNCHANGED vars \/ (\E t \in SessionId : OnAttendanceCheck(t))
          \/ (\E t \in SessionId, id \in LoginIds : OnLogin(t, id))
        => UNCHANGED <<charUid, owner>>
    BY DEF DoAccept, AddSession, Midnight, vars, dbVars, sessionVars, OnAttendanceCheck, OnLogin
  <2> QED BY <1>1, <2>1, <2>2, <2>3, <2>4, <2>5 DEF Next
<1>2. IInv /\ [Next]_vars => [Kept]_vars
  BY <1>1
<1>3. [Kept]_vars => [\A s \in SessionId :
          LET plays(cs, as) == cs[s] = NoChar \/ owner[cs[s]] = as[s]
          IN  plays(charUid, accountUid) /\ accountUid'[s] = accountUid[s] =>
                 charUid'[s] = NoChar \/ owner'[charUid'[s]] = accountUid'[s]]_vars
  OBVIOUS
<1> HIDE DEF Kept
<1> QED BY <1>2, <1>3, Invariance, PTL DEF Spec, OnlyLoginSeparates

-----------------------------------------------------------------------------
(* The database connection. *)

\* Which handles there are at each place of ExecuteProc: connected_ goes with
\* both, and a reconnection on its way has the connection handle alone.
HandleInv ==
    /\ connected => hDbc /\ hStmt
    /\ pc = "execute" => connected
    /\ pc \in {"start", "exited", "idle", "reconnect"} => (hStmt <=> hDbc)
    /\ pc \in {"connecting", "allocating"} => hDbc /\ ~hStmt
    /\ pc \in {"start", "exited"} \cup Reconnecting => ~connected

\* A round takes effect at most once, and not at all if it is followed by
\* another one in a call without trouble.
EffectInv ==
    /\ pc = "execute" => effects <= retries
    /\ pc \in Reconnecting => effects <= retries + 1 /\ retries < MAX_RETRIES
    /\ pc \in Reconnecting => trouble
    /\ pc \in {"connecting", "allocating"} => attempts < MAX_RETRIES
    /\ pc = "execute" /\ ~trouble => effects = 0
    /\ pc \in {"start", "exited"} => effects = 0 /\ result = "none"
    /\ pc = "idle" /\ ~trouble => effects = (IF result = "0" THEN 1 ELSE 0)

\* The two halves of ConnTypeOK, which call for different provers.
Flags ==
    /\ dbUp \in BOOLEAN /\ linkUp \in BOOLEAN
    /\ hDbc \in BOOLEAN /\ hStmt \in BOOLEAN
    /\ connected \in BOOLEAN /\ zoneSet \in BOOLEAN
    /\ trouble \in BOOLEAN /\ rowRead \in BOOLEAN
Counters ==
    /\ pc \in {"start", "exited", "idle", "execute"} \cup Reconnecting
    /\ retries \in 0..MAX_RETRIES /\ attempts \in 0..MAX_RETRIES
    /\ effects \in 0..MAX_RETRIES
    /\ result \in Results

ConnInv == ConnTypeOK /\ HandleInv /\ EffectInv

\* The process starts without handles and without a call.
LEMMA InitConnection == ConnInit => ConnInv
<1> SUFFICES ASSUME ConnInit PROVE ConnInv
  OBVIOUS
<1>1. ConnTypeOK
  <2>1. Flags
    BY DEF Flags, ConnInit
  <2>2. Counters
    BY RetryAssumption DEF Counters, Results, ConnInit
  <2> QED BY <2>1, <2>2 DEF ConnTypeOK, Flags, Counters
<1>2. HandleInv
  BY DEF HandleInv, ConnInit, Reconnecting
<1>3. EffectInv
  BY RetryAssumption DEF EffectInv, ConnInit, Reconnecting
<1> QED BY <1>1, <1>2, <1>3 DEF ConnInv

-----------------------------------------------------------------------------
(* One lemma for each part of ConnNext. *)

\* The environment touches the link only.
LEMMA EnvironmentStep == ASSUME ConnInv, DBDown \/ DBBack PROVE ConnInv'
<1> USE DEF Reconnecting
<1>1. ConnTypeOK'
  BY DEF ConnInv, ConnTypeOK, HandleInv, EffectInv, Results, DBDown, DBBack, handles
<1>2. HandleInv'
  BY DEF ConnInv, ConnTypeOK, HandleInv, DBDown, DBBack, handles
<1>3. EffectInv'
  BY DEF ConnInv, ConnTypeOK, EffectInv, DBDown, DBBack, handles
<1> QED BY <1>1, <1>2, <1>3 DEF ConnInv

\* Connect leaves both handles or none.
LEMMA ConnectStep == ASSUME ConnInv, Connect PROVE ConnInv'
<1> USE DEF Reconnecting
<1>1. CASE pc' = "idle" /\ hDbc' = TRUE /\ hStmt' = TRUE /\ connected' = TRUE /\ linkUp' = TRUE
  BY <1>1 DEF ConnInv, ConnTypeOK, HandleInv, EffectInv, Connect
<1>2. CASE pc' = "exited" /\ UNCHANGED <<linkUp, hDbc, hStmt, connected>>
  BY <1>2 DEF ConnInv, ConnTypeOK, HandleInv, EffectInv, Connect
<1> QED BY <1>1, <1>2 DEF Connect

\* A call starts its loop only with a connection and a statement handle.
LEMMA CallStep == ASSUME ConnInv, CallExecuteProc PROVE ConnInv'
<1> USE DEF Reconnecting
<1>1. CASE connected /\ hStmt
  <2>1. ConnTypeOK'
    <3>1. Flags'
      BY <1>1 DEF ConnInv, ConnTypeOK, Flags, CallExecuteProc, env, handles
    <3>2. Counters'
      BY <1>1, RetryAssumption DEF ConnInv, ConnTypeOK, EffectInv, Counters,
         Results, CallExecuteProc, env, handles
    <3> QED BY <3>1, <3>2 DEF ConnTypeOK, Flags, Counters
  <2>2. HandleInv'
    BY <1>1, RetryAssumption DEF ConnInv, ConnTypeOK, HandleInv, CallExecuteProc,
       env, handles
  <2>3. EffectInv'
    BY <1>1, RetryAssumption DEF ConnInv, ConnTypeOK, EffectInv, CallExecuteProc,
       env, handles
  <2> QED BY <2>1, <2>2, <2>3 DEF ConnInv
<1>2. CASE ~(connected /\ hStmt)
  <2>1. ConnTypeOK'
    <3>1. Flags'
      BY <1>2 DEF ConnInv, ConnTypeOK, Flags, CallExecuteProc, Return, env, handles
    <3>2. Counters'
      BY <1>2, RetryAssumption DEF ConnInv, ConnTypeOK, EffectInv, Counters,
         Results, CallExecuteProc, Return, env, handles
    <3> QED BY <3>1, <3>2 DEF ConnTypeOK, Flags, Counters
  <2>2. HandleInv'
    BY <1>2, RetryAssumption DEF ConnInv, ConnTypeOK, HandleInv, CallExecuteProc,
       Return, env, handles
  <2>3. EffectInv'
    BY <1>2, RetryAssumption DEF ConnInv, ConnTypeOK, EffectInv, CallExecuteProc,
       Return, env, handles
  <2> QED BY <2>1, <2>2, <2>3 DEF ConnInv
<1> QED BY <1>1, <1>2

\* The ways out of the loop of ExecuteProc.
LEMMA ReturnStep ==
  ASSUME ConnInv, GiveUp \/ ExecuteOk \/ ExecuteError \/ OtherError PROVE ConnInv'
<1> USE DEF Reconnecting
<1>1. CASE GiveUp
  BY <1>1, RetryAssumption DEF ConnInv, ConnTypeOK, HandleInv, EffectInv, GiveUp,
     Return, Results, env, handles
<1>2. CASE ExecuteOk
  BY <1>2, RetryAssumption DEF ConnInv, ConnTypeOK, HandleInv, EffectInv,
     ExecuteOk, OutOfRounds, Return, Results, env, handles
<1>3. CASE ExecuteError
  BY <1>3, RetryAssumption DEF ConnInv, ConnTypeOK, HandleInv, EffectInv,
     ExecuteError, Return, Results, env, handles
<1>4. CASE OtherError
  <2>1. ConnTypeOK'
    <3>1. Flags'
      BY <1>4 DEF ConnInv, ConnTypeOK, Flags, OtherError, Return, env, handles
    <3>2. Counters'
      BY <1>4, RetryAssumption DEF ConnInv, ConnTypeOK, EffectInv, Counters,
         Results, OtherError, OutOfRounds, Return, env, handles
    <3> QED BY <3>1, <3>2 DEF ConnTypeOK, Flags, Counters
  <2>2. HandleInv'
    BY <1>4 DEF ConnInv, ConnTypeOK, HandleInv, OtherError, Return, env, handles
  <2>3. EffectInv'
    BY <1>4, RetryAssumption DEF ConnInv, ConnTypeOK, EffectInv, OtherError, Return
  <2> QED BY <2>1, <2>2, <2>3 DEF ConnInv
<1> QED BY <1>1, <1>2, <1>3, <1>4

\* The ways round it: a failover, a read-only instance, a lost connection.
LEMMA RetryStep ==
  ASSUME ConnInv, Failover \/ ReadOnly \/ ConnectionLost PROVE ConnInv'
<1> USE DEF Reconnecting
<1>1. CASE Failover
  BY <1>1, RetryAssumption DEF ConnInv, ConnTypeOK, HandleInv, EffectInv, Failover,
     OutOfRounds, env
<1>2. CASE ReadOnly
  BY <1>2, RetryAssumption DEF ConnInv, ConnTypeOK, HandleInv, EffectInv, ReadOnly,
     OutOfRounds, env, handles
<1>3. CASE ConnectionLost
  <2>1. ConnTypeOK'
    <3>1. Flags'
      BY <1>3 DEF ConnInv, ConnTypeOK, Flags, ConnectionLost, NotConnected,
         OutOfRounds, env
    <3>2. Counters'
      BY <1>3, RetryAssumption DEF ConnInv, ConnTypeOK, EffectInv, Counters,
         Results, ConnectionLost, NotConnected, OutOfRounds, env
    <3> QED BY <3>1, <3>2 DEF ConnTypeOK, Flags, Counters
  <2>2. HandleInv'
    BY <1>3, RetryAssumption DEF ConnInv, ConnTypeOK, HandleInv, ConnectionLost,
       NotConnected, OutOfRounds, env
  <2>3. EffectInv'
    BY <1>3, RetryAssumption DEF ConnInv, ConnTypeOK, EffectInv, ConnectionLost,
       NotConnected, OutOfRounds, env
  <2> QED BY <2>1, <2>2, <2>3 DEF ConnInv
<1> QED BY <1>1, <1>2, <1>3

\* The loop of CheckFailoverState, and in it the steps of Reconnect.
LEMMA ReconnectStep ==
  ASSUME ConnInv,
         ReconnectAlloc \/ ReconnectLink \/ ReconnectOk \/ ReconnectNoStmt \/ ReconnectGiveUp
  PROVE  ConnInv'
<1> USE DEF Reconnecting
<1>1. CASE ReconnectAlloc
  <2>1. ConnTypeOK'
    <3>1. Flags'
      BY <1>1 DEF ConnInv, ConnTypeOK, HandleInv, Flags, ReconnectAlloc
    <3>2. Counters'
      BY <1>1, RetryAssumption DEF ConnInv, ConnTypeOK, EffectInv, Counters,
         Results, ReconnectAlloc
    <3> QED BY <3>1, <3>2 DEF ConnTypeOK, Flags, Counters
  <2>2. HandleInv'
    BY <1>1 DEF ConnInv, ConnTypeOK, HandleInv, ReconnectAlloc
  <2>3. EffectInv'
    BY <1>1, RetryAssumption DEF ConnInv, ConnTypeOK, EffectInv, ReconnectAlloc
  <2> QED BY <2>1, <2>2, <2>3 DEF ConnInv
<1>2. CASE ReconnectLink
  <2>1. ConnTypeOK'
    <3>1. Flags'
      BY <1>2 DEF ConnInv, ConnTypeOK, HandleInv, Flags, ReconnectLink
    <3>2. Counters'
      BY <1>2, RetryAssumption DEF ConnInv, ConnTypeOK, EffectInv, Counters,
         Results, ReconnectLink
    <3> QED BY <3>1, <3>2 DEF ConnTypeOK, Flags, Counters
  <2>2. HandleInv'
    BY <1>2 DEF ConnInv, ConnTypeOK, HandleInv, ReconnectLink
  <2>3. EffectInv'
    BY <1>2, RetryAssumption DEF ConnInv, ConnTypeOK, EffectInv, ReconnectLink
  <2> QED BY <2>1, <2>2, <2>3 DEF ConnInv
<1>3. CASE ReconnectOk
  <2>1. ConnTypeOK'
    <3>1. Flags'
      BY <1>3 DEF ConnInv, ConnTypeOK, HandleInv, Flags, ReconnectOk, NextRound, env
    <3>2. Counters'
      BY <1>3, RetryAssumption DEF ConnInv, ConnTypeOK, EffectInv, Counters,
         Results, ReconnectOk, NextRound, env
    <3> QED BY <3>1, <3>2 DEF ConnTypeOK, Flags, Counters
  <2>2. HandleInv'
    BY <1>3 DEF ConnInv, ConnTypeOK, HandleInv, ReconnectOk, NextRound, env
  <2>3. EffectInv'
    BY <1>3, RetryAssumption DEF ConnInv, ConnTypeOK, EffectInv, ReconnectOk, NextRound, env
  <2> QED BY <2>1, <2>2, <2>3 DEF ConnInv
<1>4. CASE ReconnectNoStmt
  <2>1. ConnTypeOK'
    <3>1. Flags'
      BY <1>4 DEF ConnInv, ConnTypeOK, HandleInv, Flags, ReconnectNoStmt
    <3>2. Counters'
      BY <1>4, RetryAssumption DEF ConnInv, ConnTypeOK, EffectInv, Counters,
         Results, ReconnectNoStmt
    <3> QED BY <3>1, <3>2 DEF ConnTypeOK, Flags, Counters
  <2>2. HandleInv'
    BY <1>4 DEF ConnInv, ConnTypeOK, HandleInv, ReconnectNoStmt
  <2>3. EffectInv'
    BY <1>4, RetryAssumption DEF ConnInv, ConnTypeOK, EffectInv, ReconnectNoStmt
  <2> QED BY <2>1, <2>2, <2>3 DEF ConnInv
<1>5. CASE ReconnectGiveUp
  BY <1>5, RetryAssumption DEF ConnInv, ConnTypeOK, HandleInv, EffectInv,
     ReconnectGiveUp, Return, Results, env, handles
<1> QED BY <1>1, <1>2, <1>3, <1>4, <1>5

\* Every step keeps the invariant.
LEMMA NextConnection == ConnInv /\ [ConnNext]_connVars => ConnInv'
<1>1. CASE UNCHANGED connVars
  BY <1>1 DEF ConnInv, ConnTypeOK, HandleInv, EffectInv, connVars, Reconnecting
<1> QED BY <1>1, EnvironmentStep, ConnectStep, CallStep, ReturnStep, RetryStep,
           ReconnectStep DEF ConnNext, Step

\* The invariant holds throughout, whatever fairness is assumed.
LEMMA ConnectionInvariance == ConnSpec => []ConnInv
<1> QED BY InitConnection, NextConnection, PTL DEF ConnSpec

-----------------------------------------------------------------------------
\* ExecuteProc never executes a statement on a null or freed handle, through any
\* sequence of lost connections and half-way failed reconnections; both of its
\* loops stay within MAX_RETRIES rounds.
THEOREM HandlesValid == ConnSpec => []HandlesWhenConnected
<1>1. ConnInv => HandlesWhenConnected
  BY DEF ConnInv, ConnTypeOK, HandleInv, HandlesWhenConnected, Reconnecting
<1> QED BY <1>1, ConnectionInvariance, PTL

\* A call that met no failover, lost connection or unknown error is exact: its result
\* says whether the statement took effect, and it took effect once at most.
THEOREM ExactWithoutTrouble == ConnSpec => []TroubleFreeIsExact
<1>1. ConnInv => TroubleFreeIsExact
  BY DEF ConnInv, EffectInv, TroubleFreeIsExact
<1> QED BY <1>1, ConnectionInvariance, PTL

-----------------------------------------------------------------------------
(* DBConnection implements DBCall. *)

\* Every step of the connection is a step of the call as the handlers see it, or
\* none: a round without effect, a reconnection, the environment.
LEMMA StepImplements == ConnInv /\ [ConnNext]_connVars => [Calls!Next]_(Calls!vars)
<1> SUFFICES ASSUME ConnInv, [ConnNext]_connVars PROVE [Calls!Next]_(Calls!vars)
  OBVIOUS
<1> USE DEF Calls!vars, Calls!Next, CallsExecuted, Outcome, Reconnecting
<1>1. CASE DBDown \/ DBBack \/ UNCHANGED connVars
  BY <1>1 DEF DBDown, DBBack, connVars
<1>2. CASE Connect
  BY <1>2 DEF Connect, ConnInv, EffectInv
<1>3. CASE CallExecuteProc
  <2>1. CASE connected /\ hStmt
    BY <1>3, <2>1 DEF CallExecuteProc, Calls!Call
  <2>2. CASE ~(connected /\ hStmt)
    BY <1>3, <2>2 DEF CallExecuteProc, Return, Calls!Refuse
  <2> QED BY <2>1, <2>2
<1>4. CASE GiveUp \/ ExecuteError \/ OtherError \/ ReconnectGiveUp
  <2>1. /\ pc \in {"execute", "reconnect"} /\ pc' = "idle"
        /\ result' = "-1" /\ effects' \in {effects, effects + 1}
    BY <1>4 DEF GiveUp, ExecuteError, OtherError, ReconnectGiveUp, Return
  <2>2. effects \in Nat
    BY RetryAssumption DEF ConnInv, ConnTypeOK
  <2>3. CallsExecuted' \in {CallsExecuted, Calls!OnceMore(CallsExecuted)}
    BY <2>1, <2>2 DEF Calls!OnceMore
  <2>4. Outcome' = IF CallsExecuted' = 0 THEN "failed" ELSE "lost"
    BY <2>1, <2>2
  <2>5. (pc \in {"execute"} \cup Reconnecting)' = FALSE
    BY <2>1
  <2> QED BY <2>1, <2>3, <2>4, <2>5 DEF Calls!NoAnswer
<1>5. CASE ExecuteOk
  <2>1. /\ pc = "execute" /\ pc' = "idle"
        /\ result' = "0" /\ effects' = effects + 1
    BY <1>5 DEF ExecuteOk, Return
  <2>2. effects \in Nat
    BY RetryAssumption DEF ConnInv, ConnTypeOK
  <2>3. CallsExecuted' = Calls!OnceMore(CallsExecuted)
    BY <2>1, <2>2 DEF Calls!OnceMore
  <2>4. (pc \in {"execute"} \cup Reconnecting)' = FALSE
    BY <2>1
  <2>5. CASE rowRead'
    <3>1. Outcome' = IF CallsExecuted = 0 THEN "ok" ELSE "twice"
      BY <2>1, <2>2, <2>5
    <3> QED BY <2>1, <2>3, <2>4, <3>1 DEF Calls!Answer
  <2>6. CASE ~rowRead'
    <3>1. Outcome' = IF CallsExecuted' = 0 THEN "failed" ELSE "lost"
      BY <2>1, <2>2, <2>6
    <3> QED BY <2>1, <2>3, <2>4, <3>1 DEF Calls!NoAnswer
  <2> QED BY <2>5, <2>6
<1>6. CASE Failover \/ ConnectionLost
  <2>1. /\ pc \in {"execute", "reconnect"} /\ pc' \in {"execute", "reconnect"}
        /\ effects' \in {effects, effects + 1}
    BY <1>6 DEF Failover, ConnectionLost
  <2>2. effects \in Nat
    BY RetryAssumption DEF ConnInv, ConnTypeOK
  <2>3. Outcome = "none" /\ Outcome' = "none"
    BY <2>1
  <2>4. (pc \in {"execute"} \cup Reconnecting)' = (pc \in {"execute"} \cup Reconnecting)
    BY <2>1
  <2>5. CASE effects' = effects
    BY <2>3, <2>4, <2>5
  <2>6. CASE effects' = effects + 1
    <3>1. CallsExecuted' = Calls!OnceMore(CallsExecuted)
      BY <2>2, <2>6 DEF Calls!OnceMore
    <3> HIDE DEF CallsExecuted, Outcome
    <3> QED BY <2>1, <2>3, <2>4, <3>1 DEF Calls!ExecuteUnheard
  <2> QED BY <2>1, <2>5, <2>6
<1>7. CASE ReadOnly \/ ReconnectAlloc \/ ReconnectLink \/ ReconnectOk \/ ReconnectNoStmt
  <2>1. /\ pc \in {"execute"} \cup Reconnecting /\ pc' \in {"execute"} \cup Reconnecting
        /\ UNCHANGED <<effects, result>>
    BY <1>7 DEF ReadOnly, ReconnectAlloc, ReconnectLink, ReconnectOk, ReconnectNoStmt
  <2> QED BY <2>1
<1> QED BY <1>1, <1>2, <1>3, <1>4, <1>5, <1>6, <1>7 DEF ConnNext, Step

\* ExecuteProc with all its retries, failovers and reconnections is, to the handler
\* that calls it, one of the four outcomes the other modules reckon with.
THEOREM ImplementsCall == ConnSpec => FourOutcomes
<1>1. ConnInit => Calls!Init
  BY DEF ConnInit, Calls!Init, CallsExecuted, Outcome, Reconnecting
<1> QED BY <1>1, ConnectionInvariance, StepImplements, PTL
           DEF ConnSpec, FourOutcomes, Calls!Spec
=============================================================================
