-------------------------------- MODULE Account --------------------------------
(***************************************************************************)
(* Accounts, characters and attendance: what OnLogin, OnCharCreate,        *)
(* OnCharSelect and OnAttendanceCheck do to PlayerData, and the stored     *)
(* procedures they call.  ExecuteProc repeats a statement whose answer was *)
(* lost, so every procedure may take effect twice in one call.             *)
(*                                                                         *)
(* The character list (at most 5 entries), SC_ATTENDANCE_INFO and the      *)
(* password, which nobody reads, are left out.                             *)
(***************************************************************************)
EXTENDS Sessions, FiniteSets

CONSTANTS
    LoginIds,       \* the texts a player may type as account id
    ChannelIds,     \* the numbers atoll or the hash make of them
    ChannelId,      \* that conversion: different texts may give one number
    Names,          \* character names
    NoName,
    RewardGold,     \* v_RewardGold
    MaxDay          \* bound: the days of a run

ASSUME AccountAssumption ==
    /\ CharUids \subseteq Nat \ {0}
    /\ ChannelIds \subseteq Nat \ {0}
    /\ ChannelId \in [LoginIds -> ChannelIds]
    /\ NoName \notin Names
    /\ RewardGold \in Nat \ {0}
    /\ MaxDay \in Nat \ {0}

VARIABLES
    accountUid,     \* PlayerData::accountUid, 0 before CS_LOGIN
    accounts,       \* table account: ChannelId -> AccountUid, 0 if no row
    owner,          \* table character: its AccountUid
    charName,       \*   and its CharName, NoName if no row
    nextCharUid,    \*   AUTO_INCREMENT
    dbGold,         \*   and its Gold
    attendance,     \* table attendance: pairs of CharUid and AttendDate
    today,          \* CURDATE()
    told,           \* history: the gold SC_ATTENDANCE_RESULT announced
    channel         \* history: the channel of the last CS_LOGIN, 0 before one

loginVars == <<accountUid, channel>>
dbVars == <<accounts, owner, charName, nextCharUid, dbGold, attendance, today, told>>
vars == <<sessions, nextSessionId, charUid, name, accountUid, accounts, owner,
          charName, nextCharUid, dbGold, attendance, today, told, channel>>

AccountUids == ChannelIds \cup {0}

Init ==
    /\ SessionInit
    /\ accountUid = [s \in SessionId |-> 0]
    /\ accounts = [ch \in ChannelIds |-> 0]
    /\ owner = [c \in CharUids |-> 0]
    /\ charName = [c \in CharUids |-> NoName]
    /\ nextCharUid = 1
    /\ dbGold = [c \in CharUids |-> 0]
    /\ attendance = {}
    /\ today = 1
    /\ told = [c \in MaybeChar |-> 0]
    /\ channel = [s \in SessionId |-> 0]

-----------------------------------------------------------------------------
(* The stored procedures. *)

\* spAccountLogin: a new account gets its ChannelId as AccountUid, so a second
\* execution finds what the first one made.
NewAccountUid(ch) == ch
FoundOrMade(ch) == IF accounts[ch] # 0 THEN accounts[ch] ELSE NewAccountUid(ch)

\* spCharacterCreate refuses a name that some character has, and leaves the
\* table as it is.
Characters == [owner |-> owner, charName |-> charName, next |-> nextCharUid]
NameFreeInAccount(t, a, n) ==       \* mutant: looks at the caller's account only
    \A c \in CharUids : t.owner[c] = a => t.charName[c] # n
NameFree(t, a, n) == \A c \in CharUids : t.charName[c] # n

spCharacterCreate(t, a, n) ==
    IF NameFree(t, a, n) /\ t.next \in CharUids
    THEN [owner |-> [t.owner EXCEPT ![t.next] = a],
          charName |-> [t.charName EXCEPT ![t.next] = n],
          next |-> t.next + 1]
    ELSE t

\* spAttendanceCheck books the day and the gold in one transaction, once a day.
GoldEveryTime(c, o) ==              \* mutant: the gold is added by a retry as well
    IF Executed(o) THEN (IF o = "twice" THEN 2 ELSE 1) * RewardGold ELSE 0
GoldOfFirstRow(c, o) ==
    IF Executed(o) /\ <<c, today>> \notin attendance THEN RewardGold ELSE 0

\* What the client is told: the row of the last execution, 0 if none was read.
\* The retry of an execution whose answer was lost finds the day booked.
ToldOf(c, o) == IF o = "ok" THEN GoldOfFirstRow(c, o) ELSE 0

-----------------------------------------------------------------------------
(* The handlers. *)

DoAccept == AddSession /\ UNCHANGED <<loginVars, dbVars>>

\* Without an answer the player is let in as well, under its ChannelId.
AccountKept(s, ch) == accountUid[s] \* mutant: it keeps the account it had
FallbackUid(s, ch) == ch
OnLogin(s, id) ==
    LET ch == ChannelId[id]
    IN  /\ s \in sessions
        /\ \E o \in DBOutcomes :
              /\ accounts' = IF Executed(o) THEN [accounts EXCEPT ![ch] = FoundOrMade(ch)]
                             ELSE accounts
              /\ accountUid' = [accountUid EXCEPT ![s] =
                                   IF Answered(o) THEN FoundOrMade(ch) ELSE FallbackUid(s, ch)]
        /\ channel' = [channel EXCEPT ![s] = ch]
        /\ UNCHANGED <<sessionVars, owner, charName, nextCharUid, dbGold, attendance,
                       today, told>>

\* A retry after a lost answer finds the name taken by its own first execution:
\* the table stays as that one left it, and the client is told "Create failed".
OnCharCreate(s, n) ==
    LET create(t) == spCharacterCreate(t, accountUid[s], n)
    IN  /\ s \in sessions
        /\ \E o \in DBOutcomes :
              LET t == CASE o = "failed" -> Characters
                         [] o = "twice" -> create(create(Characters))
                         [] OTHER -> create(Characters)
              IN  owner' = t.owner /\ charName' = t.charName /\ nextCharUid' = t.next
        /\ UNCHANGED <<sessionVars, loginVars, accounts, dbGold, attendance, today, told>>

\* spCharacterLogin looks for a character of the session's account.
OwnsAny(a, c) == charName[c] # NoName   \* mutant: of any account
Owns(a, c) == charName[c] # NoName /\ owner[c] = a

OnCharSelect(s, c) ==
    /\ Owns(accountUid[s], c)
    /\ \E o \in DBOutcomes : Answered(o)
    /\ SelectChar(s, c)
    /\ UNCHANGED <<loginVars, dbVars>>

\* A session without a character sends CharUid 0: the day is booked and the
\* reward announced, but the update of the gold finds no row.
OnAttendanceCheck(s) ==
    LET c == charUid[s]
    IN  /\ s \in sessions
        /\ \E o \in DBOutcomes :
              /\ attendance' = IF Executed(o) THEN attendance \cup {<<c, today>>} ELSE attendance
              /\ dbGold' = IF loggedIn(s) THEN [dbGold EXCEPT ![c] = @ + GoldOfFirstRow(c, o)]
                           ELSE dbGold
              /\ told' = [told EXCEPT ![c] = @ + ToldOf(c, o)]
        /\ UNCHANGED <<sessionVars, loginVars, accounts, owner, charName, nextCharUid, today>>

Midnight ==
    /\ today < MaxDay
    /\ today' = today + 1
    /\ UNCHANGED <<sessionVars, loginVars, accounts, owner, charName, nextCharUid,
                   dbGold, attendance, told>>

OnDisconnect(s) ==
    /\ s \in sessions
    /\ RemoveSession(s)
    /\ accountUid' = [accountUid EXCEPT ![s] = 0]
    /\ channel' = [channel EXCEPT ![s] = 0]
    /\ UNCHANGED dbVars

Next ==
    \/ DoAccept
    \/ Midnight
    \/ \E s \in SessionId :
          \/ \E id \in LoginIds : OnLogin(s, id)
          \/ \E n \in Names : OnCharCreate(s, n)
          \/ \E c \in CharUids : OnCharSelect(s, c)
          \/ OnAttendanceCheck(s)
          \/ OnDisconnect(s)

Spec == Init /\ [][Next]_vars

-----------------------------------------------------------------------------
\* What each variable holds.
TypeOK ==
    /\ SessionTypeOK
    /\ accountUid \in [SessionId -> AccountUids]
    /\ accounts \in [ChannelIds -> AccountUids]
    /\ owner \in [CharUids -> AccountUids]
    /\ charName \in [CharUids -> Names \cup {NoName}]
    /\ nextCharUid \in Nat \ {0}
    /\ dbGold \in [CharUids -> Nat]
    /\ attendance \subseteq MaybeChar \X (1..MaxDay)
    /\ today \in 1..MaxDay
    /\ told \in [MaybeChar -> Nat]
    /\ channel \in [SessionId -> AccountUids]

DaysAttended(c) == {d \in 1..MaxDay : <<c, d>> \in attendance}

\* The gold and the days are booked together: a character has been given one
\* reward for each day it attended, however often CS_ATTENDANCE_CHECK is sent,
\* from however many sessions, and however often ExecuteProc repeats the call.
\* And no character is told of gold it was not given.
AttendancePaidOnce ==
    \A c \in CharUids :
        /\ dbGold[c] = RewardGold * Cardinality(DaysAttended(c))
        /\ told[c] <= dbGold[c]

\* A name finds one character, whoever made it and over retries: OnChat and
\* OnPartyInvite look players up by name.  (Types included.)
NamesUnique ==
    /\ TypeOK
    /\ \A c, d \in CharUids :
          charName[c] = charName[d] /\ charName[c] # NoName => c = d

\* A session is in the account of the channel it logged in with last, whether
\* the database answered or not: the account its channel has, or will have when
\* it is made later by another login, and the account of no other channel.
FallbackIsOwnAccount ==
    \A s \in SessionId : channel[s] # 0 =>
        /\ accounts[channel[s]] \in {0, accountUid[s]}
        /\ \A ch \in ChannelIds \ {channel[s]} : accounts[ch] # accountUid[s]

\* A session that played a character of its account goes on to play one of its
\* account, unless it logs in to another account in between (which OnLogin
\* allows without giving up the character).
OnlyLoginSeparates ==
    [][\A s \in SessionId :
          LET plays(cs, as) == cs[s] = NoChar \/ owner[cs[s]] = as[s]
          IN  plays(charUid, accountUid) /\ accountUid'[s] = accountUid[s] =>
                 charUid'[s] = NoChar \/ owner'[charUid'[s]] = accountUid'[s]]_vars
=============================================================================
