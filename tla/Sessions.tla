------------------------------ MODULE Sessions ------------------------------
(***************************************************************************)
(* The sessions of the game server: which connections are open and which   *)
(* character plays on each.  The io_context is run by the main thread      *)
(* alone, so one completion handler at a time runs to its end: an accepted *)
(* connection, one packet of one session, or the end of one session.       *)
(*                                                                         *)
(* This module is the common ground of the component modules (Party,       *)
(* Inventory, Quest, Account).  It defines what DoAccept, OnCharSelect and *)
(* OnDisconnect do to the session table and to PlayerData; a component     *)
(* adds what the same handlers do to its own tables.                       *)
(***************************************************************************)
EXTENDS Naturals

CONSTANTS
    MaxSession,     \* bound: connections accepted in a run of the server
    CharUids,       \* the characters of the database
    NoChar,         \* charUid 0 and name "": no character selected yet
    DBOutcomes,     \* how a statement may end, see below
    DuplicateLogin  \* may a character be played on two sessions at a time?

ASSUME SessionAssumption ==
    /\ MaxSession \in Nat
    /\ NoChar \notin CharUids
    /\ DuplicateLogin \in BOOLEAN
    /\ DBOutcomes \subseteq {"ok", "failed", "lost", "twice"}

(***************************************************************************)
(* How dbConn.ExecuteProc may end.  No handler looks at the value it       *)
(* returns; what counts is how often the statement took effect and whether *)
(* its result set was read:                                                *)
(*   "ok"      once, and the result was read;                              *)
(*   "failed"  not at all: no connection, or an error of the statement;    *)
(*   "lost"    it took effect, but the connection broke before the answer  *)
(*             and could not be restored;                                  *)
(*   "twice"   likewise, but the retry of ExecuteProc succeeded.           *)
(* DBConnection is shown to implement them (DBCall).                       *)
(***************************************************************************)
Executed(o) == o # "failed"
Answered(o) == o \in {"ok", "twice"}

VARIABLES
    sessions,       \* the keys of SessionManager::sessions_
    nextSessionId,  \* TcpServer::nextSessionId_
    charUid,        \* PlayerData::charUid of each session; set with loggedIn
    name            \* PlayerData::name: the character whose name it carries

sessionVars == <<sessions, nextSessionId, charUid, name>>

\* Session ids count from 1; INVALID_SESSION is 0.
SessionId == 1..MaxSession
INVALID_SESSION == 0
MaybeChar == CharUids \cup {NoChar}

\* What each variable holds.
SessionTypeOK ==
    /\ sessions \subseteq SessionId
    /\ nextSessionId \in 1..(MaxSession + 1)
    /\ charUid \in [SessionId -> MaybeChar]
    /\ name \in [SessionId -> MaybeChar]

SessionInit ==
    /\ sessions = {}
    /\ nextSessionId = 1
    /\ charUid = [s \in SessionId |-> NoChar]
    /\ name = [s \in SessionId |-> NoChar]

\* PlayerData::loggedIn is set where charUid is set and nowhere else.
loggedIn(s) == charUid[s] # NoChar

\* The completion handler of async_accept: the next id, a fresh PlayerData.
AddSession ==
    /\ nextSessionId \in SessionId
    /\ sessions' = sessions \cup {nextSessionId}
    /\ nextSessionId' = nextSessionId + 1
    /\ UNCHANGED <<charUid, name>>

\* The end of a session: its entry, and with it its PlayerData, is gone.
RemoveSession(s) ==
    /\ sessions' = sessions \ {s}
    /\ charUid' = [charUid EXCEPT ![s] = NoChar]
    /\ name' = [name EXCEPT ![s] = NoChar]
    /\ UNCHANGED nextSessionId

\* spCharacterLogin found the character.  The name comes from a statement of
\* its own: when that one fails the player keeps the name it had.  Nothing in
\* the code keeps a character from being played twice; DuplicateLogin = FALSE
\* stands for players who do not.
SelectChar(s, c) ==
    /\ s \in sessions
    /\ DuplicateLogin \/ \A t \in sessions \ {s} : charUid[t] # c
    /\ charUid' = [charUid EXCEPT ![s] = c]
    /\ \E o \in DBOutcomes :
          name' = IF Answered(o) THEN [name EXCEPT ![s] = c] ELSE name
    /\ UNCHANGED <<sessions, nextSessionId>>

\* The process ends and is started again: no session survives.
ServerRestart ==
    /\ sessions' = {}
    /\ nextSessionId' = 1
    /\ charUid' = [s \in SessionId |-> NoChar]
    /\ name' = [s \in SessionId |-> NoChar]
=============================================================================
