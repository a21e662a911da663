-------------------------------- MODULE Quest --------------------------------
(***************************************************************************)
(* Quests: the progress of each session (g_questProgress), the table       *)
(* quest_progress behind it, and the handlers that accept a quest, count   *)
(* kills and pay the reward.  Every change in memory is followed by a save *)
(* whose outcome nobody looks at.                                          *)
(*                                                                         *)
(* Whether the player stands next to the quest NPC is a nondeterministic   *)
(* choice.  OnAttack credits the killer and its party one by one; here     *)
(* each credit is a step of its own, which allows more interleavings than  *)
(* the code has.  What the reward is made of is left out: rewards counts,  *)
(* as a history variable, how often it was paid.                           *)
(***************************************************************************)
EXTENDS Sessions

CONSTANTS
    Quests,         \* the quests of quests.json
    Target,         \* kills a quest asks for
    MaxRewards      \* bound: payments counted for a character and quest

ASSUME QuestAssumption ==
    /\ Target \in Nat \ {0}
    /\ MaxRewards \in Nat

VARIABLES
    quest,          \* g_questProgress: status and progress, by session and quest
    dbQuest,        \* table quest_progress, by CharUid and QuestId
    rewards         \* history: how often a character was paid for a quest

questVars == <<quest, dbQuest, rewards>>
vars == <<sessions, nextSessionId, charUid, name, quest, dbQuest, rewards>>

Available == 0
Accepted == 1
Completable == 2
Completed == 3

QuestProgress == [status : {Available, Accepted, Completable, Completed},
                  progress : 0..Target]

\* No entry in the map, or no row in the table.
NoProgress == [status |-> Available, progress |-> 0]
NoQuests == [q \in Quests |-> NoProgress]

Init ==
    /\ SessionInit
    /\ quest = [s \in SessionId |-> NoQuests]
    /\ dbQuest = [c \in MaybeChar |-> NoQuests]
    /\ rewards = [c \in MaybeChar |-> [q \in Quests |-> 0]]

-----------------------------------------------------------------------------
\* The table after SaveQuestProgress wrote p for the quests saved.
SaveQuestProgress(c, saved, p) ==
    [dbQuest EXCEPT ![c] = [q \in Quests |-> IF q \in saved THEN p[q] ELSE @[q]]]

\* The quests of qs whose save took effect.
SavedOf(qs, o) == {q \in qs : Executed(o[q])}

ClearAfterLoad(s, c, o) == quest' = [quest EXCEPT ![s] = NoQuests]  \* mutant
LoadQuestProgress(s, c, o) ==
    quest' = [quest EXCEPT ![s] = IF Answered(o) THEN dbQuest[c] ELSE NoQuests]

OnCharSelect(s, c) ==
    /\ SelectChar(s, c)
    /\ \E o \in DBOutcomes : LoadQuestProgress(s, c, o)
    /\ UNCHANGED <<dbQuest, rewards>>

OnQuestAccept(s, q) ==
    LET new == [quest[s] EXCEPT ![q] = [status |-> Accepted, progress |-> 0]]
    IN  /\ s \in sessions
        /\ quest[s][q].status = Available
        /\ quest' = [quest EXCEPT ![s] = new]
        /\ \E o \in [{q} -> DBOutcomes] :
              dbQuest' = SaveQuestProgress(charUid[s], SavedOf({q}, o), new)
        /\ UNCHANGED <<sessionVars, rewards>>

\* One kill for every accepted quest of the session.
OneKillLate(p) ==                   \* mutant: > instead of >=
    [status |-> IF p.progress + 1 > Target THEN Completable ELSE Accepted,
     progress |-> p.progress + 1]
OneKill(p) ==
    [status |-> IF p.progress + 1 >= Target THEN Completable ELSE Accepted,
     progress |-> p.progress + 1]

Counting(s) == {q \in Quests : quest[s][q].status = Accepted}
Counted(s) == [q \in Quests |-> IF q \in Counting(s) THEN OneKill(quest[s][q]) ELSE quest[s][q]]

SaveBeforeCount(s) == quest[s]      \* mutant: what is saved is one kill old
Saved(s) == Counted(s)

UpdateQuestProgress(s) ==
    /\ s \in sessions
    /\ Counting(s) # {}
    /\ quest' = [quest EXCEPT ![s] = Counted(s)]
    /\ \E o \in [Counting(s) -> DBOutcomes] :
          dbQuest' = SaveQuestProgress(charUid[s], SavedOf(Counting(s), o), Saved(s))
    /\ UNCHANGED <<sessionVars, rewards>>

\* The status is set and saved, then the reward is paid.
CompleteUnsaved(s, q) == {}         \* mutant: the new status is not saved
CompleteSaves(s, q) == {q}
ToComplete(s, q) ==
    /\ s \in sessions
    /\ quest[s][q].status = Completable
    /\ rewards[charUid[s]][q] < MaxRewards
Done(s, q) == [quest[s] EXCEPT ![q].status = Completed]

OnQuestComplete(s, q) ==
    /\ ToComplete(s, q)
    /\ quest' = [quest EXCEPT ![s] = Done(s, q)]
    /\ \E o \in [{q} -> DBOutcomes] :
          dbQuest' = SaveQuestProgress(charUid[s], SavedOf(CompleteSaves(s, q), o), Done(s, q))
    /\ rewards' = [rewards EXCEPT ![charUid[s]][q] = @ + 1]
    /\ UNCHANGED sessionVars

-----------------------------------------------------------------------------
DoAccept == AddSession /\ UNCHANGED questVars

OnDisconnect(s) ==
    /\ s \in sessions
    /\ RemoveSession(s)
    /\ quest' = [quest EXCEPT ![s] = NoQuests]
    /\ UNCHANGED <<dbQuest, rewards>>

\* The server process ends between two handlers, or inside one: after some of
\* the saves of UpdateQuestProgress, or between the save of OnQuestComplete and
\* the payment.
Crash ==
    /\ ServerRestart
    /\ quest' = [s \in SessionId |-> NoQuests]
    /\ UNCHANGED rewards
    /\ \/ UNCHANGED dbQuest
       \/ \E s \in sessions : \E some \in SUBSET Counting(s) :
             dbQuest' = SaveQuestProgress(charUid[s], some, Saved(s))
       \/ \E s \in sessions, q \in Quests :
             /\ ToComplete(s, q)
             /\ dbQuest' = SaveQuestProgress(charUid[s], CompleteSaves(s, q), Done(s, q))

Next ==
    \/ DoAccept
    \/ \E s \in SessionId :
          \/ \E c \in CharUids : OnCharSelect(s, c)
          \/ \E q \in Quests : OnQuestAccept(s, q) \/ OnQuestComplete(s, q)
          \/ UpdateQuestProgress(s)
          \/ OnDisconnect(s)
    \/ Crash

Spec == Init /\ [][Next]_vars

-----------------------------------------------------------------------------
\* What each variable holds.
TypeOK ==
    /\ SessionTypeOK
    /\ quest \in [SessionId -> [Quests -> QuestProgress]]
    /\ dbQuest \in [MaybeChar -> [Quests -> QuestProgress]]
    /\ rewards \in [MaybeChar -> [Quests -> 0..MaxRewards]]

Consistent(p) ==
    CASE p.status = Available -> p.progress = 0
      [] p.status = Accepted -> p.progress < Target
      [] OTHER -> p.progress = Target

\* Status and progress agree, in memory and in the table: a quest is Completable
\* with the last kill and not before, and no kill is counted after it.  This
\* needs neither a database that works nor one session for a character:
\* QuestProofs has the theorem for all outcomes of the loads and saves.
StatusMatchesProgress ==
    /\ \A s \in SessionId : \A q \in Quests : Consistent(quest[s][q])
    /\ \A c \in MaybeChar : \A q \in Quests : Consistent(dbQuest[c][q])

\* With one session for a character and no failed statement, what the session
\* has is what the next login would load.
WriteThrough ==
    \A s \in sessions : loggedIn(s) => dbQuest[charUid[s]] = quest[s]

\* Under the same conditions a character is paid for a quest once, through
\* disconnects and crashes in the middle of a handler.
PaidOnce ==
    \A c \in CharUids : \A q \in Quests : rewards[c][q] <= 1

\* Available -> Accepted -> Completable -> Completed: the status in the table
\* never goes back.
StatusForward ==
    [][\A c \in CharUids : \A q \in Quests :
          dbQuest'[c][q].status >= dbQuest[c][q].status]_vars
=============================================================================
