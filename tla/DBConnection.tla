----------------------------- MODULE DBConnection -----------------------------
(***************************************************************************)
(* The database connection: Connect, ExecuteProc with its retries, and the *)
(* reconnection of CheckFailoverState.  The calling handler blocks the     *)
(* whole server until ExecuteProc returns, so there is one call at a time; *)
(* its ODBC calls are steps of their own because the database may go down  *)
(* and come back between them.                                             *)
(***************************************************************************)
EXTENDS Naturals

CONSTANTS
    MAX_RETRIES,    \* rounds of ExecuteProc, and attempts of a reconnection
    AllocMayFail    \* may SQLAllocHandle fail?

ASSUME RetryAssumption == MAX_RETRIES \in Nat \ {0} /\ AllocMayFail \in BOOLEAN

VARIABLES
    dbUp,           \* the database accepts connections (environment)
    linkUp,         \* the open connection works (environment)
    hDbc, hStmt,    \* hDbc_, hStmt_ are not null
    connected,      \* connected_
    zoneSet,        \* SET time_zone was executed on this connection
    pc,             \* where ExecuteProc is
    retries,        \* its loop counter
    attempts,       \* the loop counter of CheckFailoverState
    effects,        \* history: how often the statement took effect
    trouble,        \* history: an error in this call that left the effect open
    rowRead,        \* history: processResult has read the row of the answer
    result          \* what the last call returned, "none" before

connVars == <<dbUp, linkUp, hDbc, hStmt, connected, zoneSet, pc, retries, attempts,
             effects, trouble, rowRead, result>>
env == <<dbUp, linkUp>>
handles == <<hDbc, hStmt, connected, zoneSet>>

\* The 1 that DBConnection.h documents is returned on no path.
Results == {"none", "0", "-1"}

ConnInit ==
    /\ dbUp \in BOOLEAN /\ linkUp = FALSE
    /\ hDbc = FALSE /\ hStmt = FALSE /\ connected = FALSE /\ zoneSet = FALSE
    /\ pc = "start"
    /\ retries = 0 /\ attempts = 0 /\ effects = 0
    /\ trouble = FALSE /\ rowRead = FALSE
    /\ result = "none"

-----------------------------------------------------------------------------
(* The environment.  With the database every connection to it goes down. *)

DBDown ==
    /\ dbUp
    /\ dbUp' = FALSE /\ linkUp' = FALSE
    /\ UNCHANGED <<handles, pc, retries, attempts, effects, trouble, rowRead, result>>

DBBack ==
    /\ ~dbUp
    /\ dbUp' = TRUE
    /\ UNCHANGED <<linkUp, handles, pc, retries, attempts, effects, trouble, rowRead, result>>

-----------------------------------------------------------------------------
\* Connection and statement handles, or nothing at all: each failure frees what
\* was allocated before it, and main returns.  Nothing else runs yet.
Connect ==
    /\ pc = "start"
    /\ \/ /\ dbUp
          /\ linkUp' = TRUE
          /\ hDbc' = TRUE /\ hStmt' = TRUE /\ connected' = TRUE
          /\ pc' = "idle"
       \/ /\ ~dbUp \/ AllocMayFail
          /\ pc' = "exited"
          /\ UNCHANGED <<linkUp, hDbc, hStmt, connected>>
    /\ UNCHANGED <<dbUp, zoneSet, retries, attempts, effects, trouble, rowRead, result>>

Return(r) == pc' = "idle" /\ result' = r

\* A handler calls ExecuteProc.
CallExecuteProc ==
    /\ pc = "idle"
    /\ effects' = 0 /\ trouble' = FALSE /\ rowRead' = FALSE /\ retries' = 0
    /\ IF connected /\ hStmt
       THEN pc' = "execute" /\ UNCHANGED result
       ELSE Return("-1")
    /\ UNCHANGED <<env, handles, attempts>>

\* The loop of ExecuteProc goes round again, or gives up.
OutOfRounds == retries >= MAX_RETRIES
\* Mutant: after the loop the result of the last ODBC call is returned, SQL_SUCCESS.
GiveUpSaysOk ==
    /\ pc = "execute" /\ OutOfRounds
    /\ Return("0")
    /\ UNCHANGED <<env, handles, retries, attempts, effects, trouble, rowRead>>
GiveUp ==
    /\ pc = "execute" /\ OutOfRounds
    /\ Return("-1")
    /\ UNCHANGED <<env, handles, retries, attempts, effects, trouble, rowRead>>

\* Mutant: SQL_SUCCESS_WITH_INFO is taken for a failure and retried.
InfoIsRetried ==
    /\ pc = "execute" /\ ~OutOfRounds
    /\ linkUp
    /\ effects' = effects + 1
    /\ \/ Return("0") /\ rowRead' = TRUE /\ UNCHANGED retries
       \/ retries' = retries + 1 /\ UNCHANGED <<pc, rowRead, result>>
    /\ UNCHANGED <<env, handles, attempts, trouble>>
\* SQL_SUCCESS, with or without info.  A SQLFetch that fails in processResult
\* leaves the row unread; ExecuteProc returns 0 all the same.
ExecuteOk ==
    /\ pc = "execute" /\ ~OutOfRounds
    /\ linkUp
    /\ effects' = effects + 1
    /\ rowRead' \in BOOLEAN
    /\ Return("0")
    /\ UNCHANGED <<env, handles, retries, attempts, trouble>>

\* An error of the statement itself: it is rolled back and not retried.
ExecuteError ==
    /\ pc = "execute" /\ ~OutOfRounds
    /\ linkUp
    /\ Return("-1")
    /\ UNCHANGED <<env, handles, retries, attempts, effects, trouble, rowRead>>

\* Any other error, and one without a diagnostic record, as of a query that runs
\* into its timeout or a link that breaks unnoticed: it is not retried, and
\* connected_ stays set.  Whether the statement had taken effect is not known.
OtherError ==
    /\ pc = "execute" /\ ~OutOfRounds
    /\ trouble' = TRUE
    /\ effects' \in {effects, effects + 1}
    /\ Return("-1")
    /\ UNCHANGED <<env, handles, retries, attempts, rowRead>>

\* 08S02: the driver has failed over to another instance.  Whether the first
\* one had executed the statement is not known.
Failover ==
    /\ pc = "execute" /\ ~OutOfRounds
    /\ linkUp
    /\ zoneSet' = TRUE
    /\ trouble' = TRUE
    /\ effects' \in {effects, effects + 1}
    /\ retries' = retries + 1
    /\ UNCHANGED <<env, hDbc, hStmt, connected, pc, attempts, rowRead, result>>

\* HY000 with 1836: a read-only instance.  Nothing is changed there.
ReadOnly ==
    /\ pc = "execute" /\ ~OutOfRounds
    /\ linkUp
    /\ retries' = retries + 1
    /\ UNCHANGED <<env, handles, pc, attempts, effects, trouble, rowRead, result>>

StillConnected == connected             \* mutant: connected_ is not reset
NotConnected == FALSE
\* 08S01: the connection is lost, before or after the statement took effect.
ConnectionLost ==
    /\ pc = "execute" /\ ~OutOfRounds
    /\ ~linkUp
    /\ connected' = NotConnected
    /\ trouble' = TRUE
    /\ effects' \in {effects, effects + 1}
    /\ attempts' = 0
    /\ pc' = "reconnect"
    /\ UNCHANGED <<env, hDbc, hStmt, zoneSet, retries, rowRead, result>>

\* Reconnect, up to MAX_RETRIES times, in its three steps.  Both handles are
\* freed before the first one; connected_ is set by the last.
ReconnectAlloc ==
    /\ pc = "reconnect" /\ attempts < MAX_RETRIES
    /\ linkUp' = FALSE
    /\ hStmt' = FALSE
    /\ \/ hDbc' = TRUE /\ pc' = "connecting" /\ UNCHANGED attempts
       \/ AllocMayFail /\ hDbc' = FALSE /\ attempts' = attempts + 1 /\ UNCHANGED pc
    /\ UNCHANGED <<dbUp, connected, zoneSet, retries, effects, trouble, rowRead, result>>

\* SQLDriverConnectA.
ReconnectLink ==
    /\ pc = "connecting"
    /\ IF dbUp
       THEN linkUp' = TRUE /\ pc' = "allocating" /\ UNCHANGED <<hDbc, attempts>>
       ELSE hDbc' = FALSE /\ pc' = "reconnect" /\ attempts' = attempts + 1 /\ UNCHANGED linkUp
    /\ UNCHANGED <<dbUp, hStmt, connected, zoneSet, retries, effects, trouble, rowRead, result>>

SameRound == retries                    \* mutant: a reconnection is not counted
NextRound == retries + 1
ReconnectOk ==
    /\ pc = "allocating"
    /\ hStmt' = TRUE /\ connected' = TRUE /\ zoneSet' = FALSE
    /\ retries' = NextRound
    /\ pc' = "execute"
    /\ UNCHANGED <<env, hDbc, attempts, effects, trouble, rowRead, result>>

ReconnectNoStmt ==
    /\ pc = "allocating" /\ AllocMayFail
    /\ linkUp' = FALSE
    /\ hDbc' = FALSE
    /\ attempts' = attempts + 1
    /\ pc' = "reconnect"
    /\ UNCHANGED <<dbUp, hStmt, connected, zoneSet, retries, effects, trouble, rowRead, result>>

ReconnectGiveUp ==
    /\ pc = "reconnect" /\ attempts >= MAX_RETRIES
    /\ Return("-1")
    /\ UNCHANGED <<env, handles, retries, attempts, effects, trouble, rowRead>>

Step ==
    \/ GiveUp \/ ExecuteOk \/ ExecuteError \/ OtherError
    \/ Failover \/ ReadOnly \/ ConnectionLost
    \/ ReconnectAlloc \/ ReconnectLink \/ ReconnectOk \/ ReconnectNoStmt \/ ReconnectGiveUp

ConnNext == DBDown \/ DBBack \/ Connect \/ CallExecuteProc \/ Step

\* The thread that runs ExecuteProc keeps running.
ConnSpec == ConnInit /\ [][ConnNext]_connVars /\ WF_connVars(Step)

\* Moreover handlers keep calling, as players keep playing.
BusySpec == ConnSpec /\ WF_connVars(Connect) /\ WF_connVars(CallExecuteProc)

-----------------------------------------------------------------------------
Reconnecting == {"reconnect", "connecting", "allocating"}

\* What each variable holds: both loops stay within MAX_RETRIES rounds, and a
\* statement takes effect at most once in each round.
ConnTypeOK ==
    /\ dbUp \in BOOLEAN /\ linkUp \in BOOLEAN
    /\ hDbc \in BOOLEAN /\ hStmt \in BOOLEAN
    /\ connected \in BOOLEAN /\ zoneSet \in BOOLEAN
    /\ pc \in {"start", "exited", "idle", "execute"} \cup Reconnecting
    /\ retries \in 0..MAX_RETRIES /\ attempts \in 0..MAX_RETRIES
    /\ effects \in 0..MAX_RETRIES
    /\ trouble \in BOOLEAN /\ rowRead \in BOOLEAN
    /\ result \in Results

\* No statement is executed on a null or a freed handle: whoever sees connected_
\* finds both handles and no statement handle outlives its connection, wherever
\* in a reconnection it looks; and no connection handle is left behind without
\* its statement handle when a reconnection ends half way.  Types included.
HandlesWhenConnected ==
    /\ ConnTypeOK
    /\ connected => hDbc /\ hStmt
    /\ hStmt => hDbc
    /\ hDbc => hStmt \/ pc \in Reconnecting
    /\ pc = "execute" => hStmt /\ connected

\* A call that met no failover, no lost connection and no error of unknown kind
\* did what it says: once if it returns 0, not at all if it returns -1.
TroubleFreeIsExact ==
    pc = "idle" /\ ~trouble => effects = (IF result = "0" THEN 1 ELSE 0)

\* However the database behaves, the call that blocks the server returns.
CallReturns == pc = "execute" ~> pc = "idle"

\* "Aurora failover": once the database is back for good, so is the connection
\* of a server that runs.
FailoverSurvived == [](pc # "exited") /\ <>[]dbUp => <>[]connected

\* The call as the handlers of the other modules know it.
CallsExecuted == IF effects > 2 THEN 2 ELSE effects
Outcome ==
    IF pc \notin {"idle", "exited"} \/ result = "none" THEN "none"
    ELSE IF result = "0"
         THEN (IF ~rowRead THEN "lost" ELSE IF effects = 1 THEN "ok" ELSE "twice")
    ELSE (IF effects = 0 THEN "failed" ELSE "lost")
Calls == INSTANCE DBCall
           WITH calling <- pc \in {"execute"} \cup Reconnecting,
                executed <- CallsExecuted, outcome <- Outcome

\* Through all retries, failovers and reconnections, ExecuteProc ends in one of the
\* outcomes that the handlers' modules reckon with: it never reports success for
\* a statement that did not take effect, or for an execution other than its last.
FourOutcomes == Calls!Spec
=============================================================================
