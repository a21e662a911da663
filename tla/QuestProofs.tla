----------------------------- MODULE QuestProofs -----------------------------
(***************************************************************************)
(* Type correctness of the quest module and the agreement of status and    *)
(* progress, for any number of sessions, characters and quests, for every  *)
(* outcome of every load and save, with or without two sessions on one     *)
(* character, and over crashes inside the handlers.                        *)
(*                                                                         *)
(* Neither fact is inductive without the other: a kill keeps the progress  *)
(* within 0..Target only because an Accepted quest has less than Target    *)
(* kills.                                                                  *)
(***************************************************************************)
EXTENDS Quest, TLAPS

\* What the map of one session, or the rows of one character, may contain.
Sound(f) == f \in [Quests -> QuestProgress] /\ \A q \in Quests : Consistent(f[q])

\* The inductive invariant: TypeOK and StatusMatchesProgress, by session and by
\* character.
IInv ==
    /\ SessionTypeOK
    /\ quest \in [SessionId -> [Quests -> QuestProgress]]
    /\ dbQuest \in [MaybeChar -> [Quests -> QuestProgress]]
    /\ \A s \in SessionId : Sound(quest[s])
    /\ \A c \in MaybeChar : Sound(dbQuest[c])
    /\ rewards \in [MaybeChar -> [Quests -> 0..MaxRewards]]

-----------------------------------------------------------------------------
\* A session or a character without progress is sound.
LEMMA NoQuestsSound == Sound(NoQuests)
  BY QuestAssumption DEF Sound, NoQuests, NoProgress, QuestProgress, Consistent,
     Available, Accepted, Completable, Completed

\* SaveQuestProgress writes sound progress for any part of the quests: the rows
\* of every character stay sound.
LEMMA SaveKeepsSound ==
  ASSUME IInv, NEW c \in MaybeChar, NEW saved, NEW p, Sound(p)
  PROVE  /\ SaveQuestProgress(c, saved, p) \in [MaybeChar -> [Quests -> QuestProgress]]
         /\ \A d \in MaybeChar : Sound(SaveQuestProgress(c, saved, p)[d])
<1> DEFINE row == [q \in Quests |-> IF q \in saved THEN p[q] ELSE dbQuest[c][q]]
<1>1. SaveQuestProgress(c, saved, p) = [dbQuest EXCEPT ![c] = row]
  BY DEF SaveQuestProgress
<1>2. Sound(dbQuest[c])
  BY DEF IInv
<1>3. row \in [Quests -> QuestProgress]
  BY <1>2 DEF Sound
<1>4. Sound(row)
  <2>1. \A q \in Quests : row[q] = p[q] \/ row[q] = dbQuest[c][q]
    OBVIOUS
  <2> QED BY <1>2, <1>3, <2>1 DEF Sound
<1> QED BY <1>1, <1>3, <1>4 DEF IInv

\* A kill turns a sound Accepted quest into a sound one, Accepted or Completable.
LEMMA OneKillSound ==
  ASSUME NEW p \in QuestProgress, Consistent(p), p.status = Accepted
  PROVE  OneKill(p) \in QuestProgress /\ Consistent(OneKill(p))
<1>1. p.progress \in 0..Target /\ p.progress < Target
  BY DEF QuestProgress, Consistent, Available, Accepted
<1>2. CASE p.progress + 1 >= Target
  BY <1>1, <1>2, QuestAssumption DEF OneKill, QuestProgress, Consistent,
     Available, Accepted, Completable, Completed
<1>3. CASE ~(p.progress + 1 >= Target)
  BY <1>1, <1>3, QuestAssumption DEF OneKill, QuestProgress, Consistent,
     Available, Accepted, Completable, Completed
<1> QED BY <1>2, <1>3

\* UpdateQuestProgress keeps the progress of a session sound.
LEMMA CountedSound ==
  ASSUME NEW s, Sound(quest[s])
  PROVE  Sound(Counted(s))
<1>1. ASSUME NEW q \in Quests
      PROVE  Counted(s)[q] \in QuestProgress /\ Consistent(Counted(s)[q])
  <2>1. quest[s][q] \in QuestProgress /\ Consistent(quest[s][q])
    BY DEF Sound
  <2>2. CASE q \in Counting(s)
    <3>1. Counted(s)[q] = OneKill(quest[s][q]) /\ quest[s][q].status = Accepted
      BY <2>2 DEF Counted, Counting
    <3> QED BY <2>1, <3>1, OneKillSound
  <2>3. CASE q \notin Counting(s)
    <3>1. Counted(s)[q] = quest[s][q]
      BY <2>3 DEF Counted
    <3> QED BY <2>1, <3>1
  <2> QED BY <2>2, <2>3
<1> DEFINE val(q) == IF q \in Counting(s) THEN OneKill(quest[s][q]) ELSE quest[s][q]
<1>2. Counted(s) = [q \in Quests |-> val(q)]
  BY DEF Counted
<1>3. \A q \in Quests : val(q) \in QuestProgress
  <2>1. \A q \in Quests : Counted(s)[q] = val(q)
    BY <1>2
  <2> HIDE DEF val
  <2> QED BY <1>1, <2>1
<1>4. Counted(s) \in [Quests -> QuestProgress]
  <2> HIDE DEF val
  <2> QED BY <1>2, <1>3
<1> QED BY <1>1, <1>4 DEF Sound

\* Accepting a quest keeps the progress of a session sound.
LEMMA AcceptedSound ==
  ASSUME NEW f, Sound(f), NEW q \in Quests
  PROVE  Sound([f EXCEPT ![q] = [status |-> Accepted, progress |-> 0]])
<1> DEFINE p == [status |-> Accepted, progress |-> 0]
<1>1. p \in QuestProgress /\ Consistent(p)
  BY QuestAssumption DEF QuestProgress, Consistent, Available, Accepted, Completable,
     Completed
<1> HIDE DEF p
<1>2. Sound([f EXCEPT ![q] = p])
  BY <1>1 DEF Sound
<1> QED BY <1>2 DEF p

\* Completing a Completable quest keeps the progress of a session sound.
LEMMA DoneSound ==
  ASSUME NEW s, Sound(quest[s]), NEW q \in Quests, quest[s][q].status = Completable
  PROVE  Sound(Done(s, q))
<1> DEFINE p == [quest[s][q] EXCEPT !.status = Completed]
<1>1. p \in QuestProgress /\ Consistent(p)
  BY DEF Sound, QuestProgress, Consistent, Available, Accepted, Completable, Completed
<1>2. Done(s, q) = [quest[s] EXCEPT ![q] = p]
  BY DEF Done
<1> HIDE DEF p
<1> QED BY <1>1, <1>2 DEF Sound

-----------------------------------------------------------------------------
\* Nothing is accepted, saved or counted at the start of the server.
LEMMA InitEstablishes == Init => IInv
<1> SUFFICES ASSUME Init PROVE IInv
  OBVIOUS
<1>1. SessionTypeOK
  BY SessionAssumption DEF Init, SessionInit, SessionTypeOK, SessionId, MaybeChar
<1>2. NoQuests \in [Quests -> QuestProgress]
  BY NoQuestsSound DEF Sound
<1>3. rewards \in [MaybeChar -> [Quests -> 0..MaxRewards]]
  BY QuestAssumption DEF Init
<1> QED BY <1>1, <1>2, <1>3, NoQuestsSound DEF Init, IInv

\* Every handler keeps the invariant, and so does a crash in the middle of one.
LEMMA StepPreserves == IInv /\ [Next]_vars => IInv'
<1> SUFFICES ASSUME IInv, [Next]_vars PROVE IInv'
  OBVIOUS
<1>n. NoQuests \in [Quests -> QuestProgress]
  BY NoQuestsSound DEF Sound
<1>c. \A s \in SessionId : charUid[s] \in MaybeChar
  BY DEF IInv, SessionTypeOK
<1>i. sessions \subseteq SessionId
  BY DEF IInv, SessionTypeOK
<1>1. CASE DoAccept
  <2>1. SessionTypeOK'
    BY <1>1, SessionAssumption DEF IInv, DoAccept, AddSession, SessionTypeOK, SessionId
  <2> QED BY <1>1, <2>1 DEF IInv, DoAccept, questVars
<1>2. ASSUME NEW s \in SessionId, NEW c \in CharUids, OnCharSelect(s, c)
      PROVE  IInv'
  <2>1. SessionTypeOK'
    BY <1>2 DEF IInv, OnCharSelect, SelectChar, SessionTypeOK, MaybeChar
  <2>2. c \in MaybeChar
    BY DEF MaybeChar
  <2>3. PICK o \in DBOutcomes :
          quest' = [quest EXCEPT ![s] = IF Answered(o) THEN dbQuest[c] ELSE NoQuests]
    BY <1>2 DEF OnCharSelect, LoadQuestProgress
  <2> QED BY <1>2, <1>n, <2>1, <2>2, <2>3, NoQuestsSound DEF IInv, OnCharSelect
<1>3. ASSUME NEW s \in SessionId, NEW q \in Quests, OnQuestAccept(s, q)
      PROVE  IInv'
  <2> DEFINE new == [quest[s] EXCEPT ![q] = [status |-> Accepted, progress |-> 0]]
  <2>1. Sound(new)
    BY AcceptedSound DEF IInv
  <2>2. quest' = [quest EXCEPT ![s] = new]
    BY <1>3 DEF OnQuestAccept
  <2>3. PICK saved : dbQuest' = SaveQuestProgress(charUid[s], saved, new)
    BY <1>3 DEF OnQuestAccept
  <2>4. UNCHANGED <<sessions, nextSessionId, charUid, name, rewards>>
    BY <1>3 DEF OnQuestAccept, sessionVars
  <2> HIDE DEF new
  <2>5. /\ dbQuest' \in [MaybeChar -> [Quests -> QuestProgress]]
        /\ \A d \in MaybeChar : Sound(dbQuest'[d])
    BY <1>c, <2>1, <2>3, SaveKeepsSound
  <2>6. /\ quest' \in [SessionId -> [Quests -> QuestProgress]]
        /\ \A t \in SessionId : Sound(quest'[t])
    BY <2>1, <2>2 DEF IInv, Sound
  <2> QED BY <2>4, <2>5, <2>6 DEF IInv, SessionTypeOK, Sound
<1>4. ASSUME NEW s \in SessionId, NEW q \in Quests, OnQuestComplete(s, q)
      PROVE  IInv'
  <2>1. Sound(Done(s, q))
    BY <1>4, DoneSound DEF IInv, OnQuestComplete, ToComplete
  <2>2. quest' = [quest EXCEPT ![s] = Done(s, q)]
    BY <1>4 DEF OnQuestComplete
  <2>3. PICK saved : dbQuest' = SaveQuestProgress(charUid[s], saved, Done(s, q))
    BY <1>4 DEF OnQuestComplete
  <2>4. UNCHANGED <<sessions, nextSessionId, charUid, name>>
    BY <1>4 DEF OnQuestComplete, sessionVars
  <2>5. /\ dbQuest' \in [MaybeChar -> [Quests -> QuestProgress]]
        /\ \A d \in MaybeChar : Sound(dbQuest'[d])
    BY <1>c, <2>1, <2>3, SaveKeepsSound
  <2>6. /\ quest' \in [SessionId -> [Quests -> QuestProgress]]
        /\ \A t \in SessionId : Sound(quest'[t])
    BY <2>1, <2>2 DEF IInv, Sound
  <2>7. rewards' \in [MaybeChar -> [Quests -> 0..MaxRewards]]
    <3>1. rewards[charUid[s]][q] + 1 \in 0..MaxRewards
      BY <1>4, <1>c, QuestAssumption DEF IInv, OnQuestComplete, ToComplete
    <3>2. rewards' = [rewards EXCEPT ![charUid[s]][q] = rewards[charUid[s]][q] + 1]
      BY <1>4 DEF OnQuestComplete
    <3> QED BY <1>c, <3>1, <3>2 DEF IInv
  <2> QED BY <2>4, <2>5, <2>6, <2>7 DEF IInv, SessionTypeOK, Sound
<1>5. ASSUME NEW s \in SessionId, UpdateQuestProgress(s)
      PROVE  IInv'
  <2>1. Sound(Counted(s))
    BY CountedSound DEF IInv
  <2>2. quest' = [quest EXCEPT ![s] = Counted(s)]
    BY <1>5 DEF UpdateQuestProgress
  <2>3. PICK saved : dbQuest' = SaveQuestProgress(charUid[s], saved, Counted(s))
    BY <1>5 DEF UpdateQuestProgress, Saved
  <2>4. UNCHANGED <<sessions, nextSessionId, charUid, name, rewards>>
    BY <1>5 DEF UpdateQuestProgress, sessionVars
  <2>5. /\ dbQuest' \in [MaybeChar -> [Quests -> QuestProgress]]
        /\ \A d \in MaybeChar : Sound(dbQuest'[d])
    BY <1>c, <2>1, <2>3, SaveKeepsSound
  <2>6. /\ quest' \in [SessionId -> [Quests -> QuestProgress]]
        /\ \A t \in SessionId : Sound(quest'[t])
    BY <2>1, <2>2 DEF IInv, Sound
  <2> QED BY <2>4, <2>5, <2>6 DEF IInv, SessionTypeOK, Sound
<1>6. ASSUME NEW s \in SessionId, OnDisconnect(s)
      PROVE  IInv'
  <2>1. SessionTypeOK'
    BY <1>6 DEF IInv, OnDisconnect, RemoveSession, SessionTypeOK, MaybeChar
  <2> QED BY <1>6, <1>n, <2>1, NoQuestsSound DEF IInv, OnDisconnect
<1>7. CASE Crash
  <2>1. SessionTypeOK'
    BY <1>7, SessionAssumption DEF Crash, ServerRestart, SessionTypeOK, SessionId, MaybeChar
  <2>2. /\ dbQuest' \in [MaybeChar -> [Quests -> QuestProgress]]
        /\ \A d \in MaybeChar : Sound(dbQuest'[d])
    <3>1. CASE UNCHANGED dbQuest
      BY <3>1 DEF IInv
    <3>2. ASSUME NEW s \in sessions, NEW some,
                 dbQuest' = SaveQuestProgress(charUid[s], some, Saved(s))
          PROVE  /\ dbQuest' \in [MaybeChar -> [Quests -> QuestProgress]]
                 /\ \A d \in MaybeChar : Sound(dbQuest'[d])
      <4>1. Sound(Saved(s))
        BY <1>i, CountedSound DEF IInv, Saved
      <4> QED BY <1>c, <1>i, <3>2, <4>1, SaveKeepsSound
    <3>3. ASSUME NEW s \in sessions, NEW q \in Quests, ToComplete(s, q),
                 dbQuest' = SaveQuestProgress(charUid[s], CompleteSaves(s, q), Done(s, q))
          PROVE  /\ dbQuest' \in [MaybeChar -> [Quests -> QuestProgress]]
                 /\ \A d \in MaybeChar : Sound(dbQuest'[d])
      <4>1. Sound(Done(s, q))
        BY <1>i, <3>3, DoneSound DEF IInv, ToComplete
      <4> QED BY <1>c, <1>i, <3>3, <4>1, SaveKeepsSound
    <3> QED BY <1>7, <3>1, <3>2, <3>3 DEF Crash
  <2> QED BY <1>7, <1>n, <2>1, <2>2, NoQuestsSound DEF IInv, Crash
<1>8. CASE UNCHANGED vars
  BY <1>8 DEF IInv, vars, SessionTypeOK, Sound
<1> QED BY <1>1, <1>2, <1>3, <1>4, <1>5, <1>6, <1>7, <1>8 DEF Next

\* The inductive invariant holds in every state of every behaviour.
LEMMA Invariance == Spec => []IInv
<1> QED BY InitEstablishes, StepPreserves, PTL DEF Spec

\* The tables of the quest component stay well typed: in particular the progress
\* never runs past the number of kills the quest asks for.
THEOREM QuestTypeCorrect == Spec => []TypeOK
<1>1. IInv => TypeOK
  BY DEF IInv, TypeOK
<1> QED BY <1>1, Invariance, PTL

\* Status and progress agree in the map of every session and in the table,
\* whichever statements of LoadQuestProgress and SaveQuestProgress fail, with
\* two sessions on one character, and after a crash inside a handler.
THEOREM StatusAgrees == Spec => []StatusMatchesProgress
<1>1. IInv => StatusMatchesProgress
  BY DEF IInv, StatusMatchesProgress, Sound
<1> QED BY <1>1, Invariance, PTL

-----------------------------------------------------------------------------
(***************************************************************************)
(* The rest holds under two conditions the code does not enforce: players  *)
(* play a character on one session at a time, and statements take effect   *)
(* and are answered, if need be by the retry of ExecuteProc.  Disconnects  *)
(* and crashes inside the handlers remain.                                 *)
(***************************************************************************)
Orderly == ~DuplicateLogin /\ DBOutcomes \subseteq {"ok", "twice"}

\* A character is on one session, and who is not there plays none.
OneSession ==
    /\ \A s, t \in sessions : loggedIn(s) /\ charUid[t] = charUid[s] => s = t
    /\ \A s \in SessionId \ sessions : ~loggedIn(s)

\* Whoever was paid for a quest has it Completed in the table, which is what a
\* later session will load.
PaidIsCompleted ==
    \A c \in CharUids : \A q \in Quests :
        /\ rewards[c][q] <= 1
        /\ rewards[c][q] > 0 => dbQuest[c][q].status = Completed

OInv == IInv /\ OneSession /\ WriteThrough /\ PaidIsCompleted

\* What StatusForward says of one step.
Forward ==
    \A c \in CharUids : \A q \in Quests : dbQuest'[c][q].status >= dbQuest[c][q].status

\* A statement that works is executed and answered.
LEMMA OrderlyOutcomes ==
  ASSUME Orderly PROVE \A o \in DBOutcomes : Executed(o) /\ Answered(o)
  BY DEF Orderly, Executed, Answered

\* All the saves of a handler take effect.
LEMMA AllSaved ==
  ASSUME Orderly, NEW qs, NEW o \in [qs -> DBOutcomes]
  PROVE  SavedOf(qs, o) = qs
  BY OrderlyOutcomes DEF SavedOf

\* A handler of session s that saves what it changed leaves the session's progress p
\* in the table, other characters aside.
LEMMA SaveWritesThrough ==
  ASSUME OInv, NEW s \in sessions, NEW saved, NEW p, Sound(p),
         \A q \in Quests : q \notin saved => p[q] = quest[s][q],
         dbQuest' = SaveQuestProgress(charUid[s], saved, p),
         quest'[s] = p, \A t \in SessionId \ {s} : quest'[t] = quest[t],
         sessions' = sessions, charUid' = charUid
  PROVE  WriteThrough' /\ OneSession'
<1> DEFINE c == charUid[s]
           row == [q \in Quests |-> IF q \in saved THEN p[q] ELSE dbQuest[c][q]]
<1>1. s \in SessionId /\ c \in MaybeChar /\ sessions \subseteq SessionId
  BY DEF OInv, IInv, SessionTypeOK
<1>2. dbQuest' = [dbQuest EXCEPT ![c] = row]
  BY DEF SaveQuestProgress
<1>3. OneSession'
  BY DEF OInv, OneSession, loggedIn
<1>4. ASSUME loggedIn(s) PROVE row = p
  <2>1. dbQuest[c] = quest[s]
    BY <1>4 DEF OInv, WriteThrough
  <2>2. \A q \in Quests : row[q] = p[q]
    BY <2>1
  <2>3. p \in [Quests -> QuestProgress]
    BY DEF Sound
  <2> QED BY <2>2, <2>3
<1> HIDE DEF row
<1>5. ASSUME NEW t \in sessions', loggedIn(t)' PROVE dbQuest'[charUid'[t]] = quest'[t]
  <2>1. t \in sessions /\ loggedIn(t) /\ charUid'[t] = charUid[t]
    BY <1>5 DEF loggedIn
  <2>2. CASE t = s
    <3>1. dbQuest'[c] = row /\ quest'[s] = p
      BY <1>1, <1>2 DEF OInv, IInv
    <3> QED BY <1>4, <2>1, <2>2, <3>1
  <2>3. CASE t # s
    <3>1. charUid[t] # c
      BY <2>1, <2>3 DEF OInv, OneSession
    <3>2. charUid[t] \in MaybeChar /\ t \in SessionId
      BY <1>1, <2>1 DEF OInv, IInv, SessionTypeOK
    <3>3. dbQuest'[charUid[t]] = dbQuest[charUid[t]] /\ quest'[t] = quest[t]
      BY <1>1, <1>2, <2>3, <3>1, <3>2 DEF OInv, IInv
    <3> QED BY <2>1, <3>3 DEF OInv, WriteThrough
  <2> QED BY <2>2, <2>3
<1> QED BY <1>3, <1>5 DEF WriteThrough

\* A save of progress that has not gone back since the last one moves the table
\* forward.
LEMMA SaveMovesForward ==
  ASSUME OInv, NEW s \in sessions, NEW saved, NEW p, Sound(p),
         \A q \in Quests \cap saved : p[q].status >= quest[s][q].status,
         dbQuest' = SaveQuestProgress(charUid[s], saved, p)
  PROVE  Forward
<1> DEFINE c == charUid[s]
           row == [q \in Quests |-> IF q \in saved THEN p[q] ELSE dbQuest[c][q]]
<1>1. s \in SessionId /\ c \in MaybeChar
  BY DEF OInv, IInv, SessionTypeOK
<1>2. dbQuest' = [dbQuest EXCEPT ![c] = row]
  BY DEF SaveQuestProgress
<1>3. \A d \in MaybeChar : \A q \in Quests : dbQuest[d][q].status \in {0, 1, 2, 3}
  BY DEF OInv, IInv, Sound, QuestProgress, Available, Accepted, Completable, Completed
<1>4. ASSUME c \in CharUids, NEW q \in Quests PROVE row[q].status >= dbQuest[c][q].status
  <2>1. dbQuest[c] = quest[s]
    BY <1>4, SessionAssumption DEF OInv, WriteThrough, loggedIn
  <2>2. CASE q \in saved
    BY <2>1, <2>2
  <2>3. CASE q \notin saved
    <3>1. row[q] = dbQuest[c][q] /\ dbQuest[c][q].status \in {0, 1, 2, 3}
      BY <1>1, <1>3, <2>3
    <3> HIDE DEF row, c
    <3> QED BY <3>1
  <2> QED BY <2>2, <2>3
<1> HIDE DEF row
<1>5. ASSUME NEW d \in CharUids, NEW q \in Quests
      PROVE  dbQuest'[d][q].status >= dbQuest[d][q].status
  <2>1. d \in MaybeChar
    BY DEF MaybeChar
  <2>2. CASE d = c
    BY <1>1, <1>2, <1>4, <2>2 DEF OInv, IInv
  <2>3. CASE d # c
    <3>1. dbQuest'[d] = dbQuest[d] /\ dbQuest[d][q].status \in {0, 1, 2, 3}
      BY <1>1, <1>2, <1>3, <2>1, <2>3 DEF OInv, IInv
    <3> HIDE DEF c
    <3> QED BY <3>1
  <2> QED BY <2>2, <2>3
<1> QED BY <1>5 DEF Forward

\* Moving forward never takes back a Completed quest.
LEMMA ForwardKeepsPaid ==
  ASSUME OInv, IInv', Forward, UNCHANGED rewards PROVE PaidIsCompleted'
<1>1. \A c \in CharUids : \A q \in Quests : dbQuest'[c][q].status \in {0, 1, 2, 3}
  BY DEF IInv, Sound, QuestProgress, MaybeChar, Available, Accepted, Completable, Completed
<1> QED BY <1>1 DEF OInv, PaidIsCompleted, Forward, Completed

-----------------------------------------------------------------------------
\* The server starts without sessions and without rewards.
LEMMA InitOInv == Init => OInv
  BY InitEstablishes, SessionAssumption, QuestAssumption
     DEF Init, SessionInit, OInv, OneSession, WriteThrough, PaidIsCompleted, loggedIn,
         MaybeChar, SessionId

\* Every step keeps the invariant and moves the table forward.
LEMMA OrderlyStep ==
  ASSUME Orderly, OInv, [Next]_vars PROVE OInv' /\ Forward
<1>i. IInv'
  BY StepPreserves DEF OInv
<1>s. sessions \subseteq SessionId /\ charUid \in [SessionId -> MaybeChar]
  BY DEF OInv, IInv, SessionTypeOK
<1>d. \A c \in CharUids : \A q \in Quests : dbQuest[c][q].status \in {0, 1, 2, 3}
  BY DEF OInv, IInv, Sound, QuestProgress, MaybeChar, Available, Accepted, Completable,
     Completed
<1>q. \A s \in SessionId : quest[s] \in [Quests -> QuestProgress] /\ Sound(quest[s])
  BY DEF OInv, IInv
<1>u. UNCHANGED dbQuest => Forward
  BY <1>d DEF Forward
<1>1. CASE DoAccept
  <2>1. UNCHANGED <<charUid, quest, dbQuest, rewards>>
        /\ sessions' = sessions \cup {nextSessionId} /\ nextSessionId \in SessionId
    BY <1>1 DEF DoAccept, AddSession, questVars
  <2>2. OneSession'
    BY <2>1 DEF OInv, OneSession, loggedIn
  <2>3. WriteThrough'
    BY <2>1 DEF OInv, OneSession, WriteThrough, loggedIn
  <2> QED BY <1>i, <1>u, <2>1, <2>2, <2>3, ForwardKeepsPaid DEF OInv
<1>2. ASSUME NEW s \in SessionId, NEW c \in CharUids, OnCharSelect(s, c)
      PROVE  OInv' /\ Forward
  <2>1. /\ quest' = [quest EXCEPT ![s] = dbQuest[c]]
        /\ charUid' = [charUid EXCEPT ![s] = c]
        /\ s \in sessions
        /\ \A t \in sessions \ {s} : charUid[t] # c
        /\ UNCHANGED <<sessions, dbQuest, rewards>>
    BY <1>2, OrderlyOutcomes DEF OnCharSelect, LoadQuestProgress, SelectChar, Orderly
  <2>2. OneSession'
    BY <1>s, <2>1 DEF OInv, OneSession, loggedIn
  <2>3. WriteThrough'
    BY <1>s, <2>1 DEF OInv, IInv, OneSession, WriteThrough, loggedIn
  <2> QED BY <1>i, <1>u, <2>1, <2>2, <2>3, ForwardKeepsPaid DEF OInv
<1>3. ASSUME NEW s \in SessionId, NEW q \in Quests, OnQuestAccept(s, q)
      PROVE  OInv' /\ Forward
  <2> DEFINE new == [quest[s] EXCEPT ![q] = [status |-> Accepted, progress |-> 0]]
  <2>1. Sound(new)
    BY <1>q, AcceptedSound
  <2>2. dbQuest' = SaveQuestProgress(charUid[s], {q}, new)
    BY <1>3, AllSaved DEF OnQuestAccept
  <2>3. /\ quest' = [quest EXCEPT ![s] = new]
        /\ quest[s][q].status = Available /\ s \in sessions
        /\ sessions' = sessions /\ charUid' = charUid /\ UNCHANGED rewards
    BY <1>3 DEF OnQuestAccept, sessionVars
  <2>4. \A r \in Quests : r \notin {q} => new[r] = quest[s][r]
    BY <1>q
  <2>5. new[q].status = Accepted
    BY <1>q
  <2> HIDE DEF new
  <2>a. new[q].status >= quest[s][q].status
    BY <2>3, <2>5 DEF Available, Accepted
  <2>b. quest'[s] = new /\ \A t \in SessionId \ {s} : quest'[t] = quest[t]
    BY <2>3 DEF OInv, IInv
  <2>6. WriteThrough' /\ OneSession'
    BY <2>1, <2>2, <2>3, <2>4, <2>b, SaveWritesThrough
  <2>7. Forward
    BY <2>1, <2>2, <2>3, <2>a, SaveMovesForward
  <2> QED BY <1>i, <2>3, <2>6, <2>7, ForwardKeepsPaid DEF OInv
<1>4. ASSUME NEW s \in SessionId, NEW q \in Quests, OnQuestComplete(s, q)
      PROVE  OInv' /\ Forward
  <2> DEFINE c == charUid[s]
  <2>1. quest[s][q].status = Completable /\ s \in sessions
    BY <1>4 DEF OnQuestComplete, ToComplete
  <2>2. Sound(Done(s, q))
    BY <1>q, <2>1, DoneSound
  <2>3. dbQuest' = SaveQuestProgress(c, {q}, Done(s, q))
    BY <1>4, AllSaved DEF OnQuestComplete, CompleteSaves
  <2>4. /\ quest' = [quest EXCEPT ![s] = Done(s, q)]
        /\ rewards' = [rewards EXCEPT ![c][q] = rewards[c][q] + 1]
        /\ sessions' = sessions /\ charUid' = charUid
    BY <1>4 DEF OnQuestComplete, sessionVars
  <2>5. /\ \A r \in Quests : r \notin {q} => Done(s, q)[r] = quest[s][r]
        /\ Done(s, q)[q].status = Completed
    BY <1>q DEF Done, QuestProgress
  <2>b. quest'[s] = Done(s, q) /\ \A t \in SessionId \ {s} : quest'[t] = quest[t]
    BY <2>4 DEF OInv, IInv
  <2>6. WriteThrough' /\ OneSession'
    BY <2>1, <2>2, <2>3, <2>4, <2>5, <2>b, SaveWritesThrough
  <2>7. Forward
    BY <2>1, <2>2, <2>3, <2>5, SaveMovesForward DEF Completable, Completed
  <2>8. PaidIsCompleted'
    <3>1. c \in MaybeChar
      BY <1>s
    <3>2. ASSUME NEW d \in CharUids, NEW r \in Quests, d # c \/ r # q
          PROVE  /\ rewards'[d][r] <= 1
                 /\ rewards'[d][r] > 0 => dbQuest'[d][r].status = Completed
      <4>1. rewards'[d][r] = rewards[d][r]
        BY <2>4, <3>1, <3>2 DEF OInv, IInv, MaybeChar
      <4>2. dbQuest'[d][r].status \in {0, 1, 2, 3}
        BY <1>i DEF IInv, Sound, QuestProgress, MaybeChar, Available, Accepted, Completable,
           Completed
      <4> QED BY <2>7, <4>1, <4>2 DEF OInv, PaidIsCompleted, Forward, Completed
    <3>3. ASSUME c \in CharUids
          PROVE  /\ rewards'[c][q] <= 1
                 /\ rewards'[c][q] > 0 => dbQuest'[c][q].status = Completed
      <4>1. dbQuest[c][q].status = Completable
        BY <2>1, <3>3, SessionAssumption DEF OInv, WriteThrough, loggedIn
      <4>2. rewards[c][q] = 0
        <5>1. rewards[c][q] \in 0..MaxRewards
          BY <3>1 DEF OInv, IInv
        <5>2. ~(rewards[c][q] > 0)
          BY <3>3, <4>1 DEF OInv, PaidIsCompleted, Completable, Completed
        <5> QED BY <5>1, <5>2, QuestAssumption
      <4>3. rewards'[c][q] = 1
        BY <2>4, <3>1, <4>2 DEF OInv, IInv
      <4>4. dbQuest'[c][q] = Done(s, q)[q]
        BY <2>3, <3>1 DEF SaveQuestProgress, OInv, IInv
      <4> QED BY <2>5, <4>3, <4>4
    <3> QED BY <3>2, <3>3 DEF PaidIsCompleted
  <2> QED BY <1>i, <2>6, <2>7, <2>8 DEF OInv
<1>5. ASSUME NEW s \in SessionId, UpdateQuestProgress(s)
      PROVE  OInv' /\ Forward
  <2>1. Sound(Counted(s))
    BY <1>q, CountedSound
  <2>2. dbQuest' = SaveQuestProgress(charUid[s], Counting(s), Counted(s))
    BY <1>5, AllSaved DEF UpdateQuestProgress, Saved
  <2>3. /\ quest' = [quest EXCEPT ![s] = Counted(s)]
        /\ s \in sessions
        /\ sessions' = sessions /\ charUid' = charUid /\ UNCHANGED rewards
    BY <1>5 DEF UpdateQuestProgress, sessionVars
  <2>4. \A r \in Quests : r \notin Counting(s) => Counted(s)[r] = quest[s][r]
    BY DEF Counted
  <2>5. \A r \in Quests \cap Counting(s) : Counted(s)[r].status >= quest[s][r].status
    BY DEF Counted, Counting, OneKill, Accepted, Completable
  <2>b. quest'[s] = Counted(s) /\ \A t \in SessionId \ {s} : quest'[t] = quest[t]
    BY <2>3 DEF OInv, IInv
  <2>6. WriteThrough' /\ OneSession'
    BY <2>1, <2>2, <2>3, <2>4, <2>b, SaveWritesThrough
  <2>7. Forward
    BY <2>1, <2>2, <2>3, <2>5, SaveMovesForward
  <2> QED BY <1>i, <2>3, <2>6, <2>7, ForwardKeepsPaid DEF OInv
<1>6. ASSUME NEW s \in SessionId, OnDisconnect(s)
      PROVE  OInv' /\ Forward
  <2>1. /\ sessions' = sessions \ {s}
        /\ charUid' = [charUid EXCEPT ![s] = NoChar]
        /\ quest' = [quest EXCEPT ![s] = NoQuests]
        /\ UNCHANGED <<dbQuest, rewards>>
    BY <1>6 DEF OnDisconnect, RemoveSession
  <2>2. OneSession'
    BY <1>s, <2>1 DEF OInv, OneSession, loggedIn
  <2>3. WriteThrough'
    BY <1>s, <2>1 DEF OInv, IInv, WriteThrough, loggedIn
  <2> QED BY <1>i, <1>u, <2>1, <2>2, <2>3, ForwardKeepsPaid DEF OInv
<1>7. CASE Crash
  <2>1. /\ sessions' = {} /\ charUid' = [s \in SessionId |-> NoChar]
        /\ UNCHANGED rewards
    BY <1>7 DEF Crash, ServerRestart
  <2>2. OneSession' /\ WriteThrough'
    BY <2>1 DEF OneSession, WriteThrough, loggedIn
  <2>3. ASSUME NEW s \in sessions, NEW some \in SUBSET Counting(s),
               dbQuest' = SaveQuestProgress(charUid[s], some, Saved(s))
        PROVE  Forward
    <3>1. Sound(Saved(s))
      BY <1>s, <1>q, CountedSound DEF Saved
    <3>2. \A r \in Quests \cap some : Saved(s)[r].status >= quest[s][r].status
      BY DEF Saved, Counted, Counting, OneKill, Accepted, Completable
    <3> QED BY <2>3, <3>1, <3>2, SaveMovesForward
  <2>4. ASSUME NEW s \in sessions, NEW q \in Quests, ToComplete(s, q),
               dbQuest' = SaveQuestProgress(charUid[s], CompleteSaves(s, q), Done(s, q))
        PROVE  Forward
    <3>1. Sound(Done(s, q))
      BY <1>s, <1>q, <2>4, DoneSound DEF ToComplete
    <3>2. Done(s, q)[q].status >= quest[s][q].status
      BY <1>s, <1>q, <2>4 DEF Done, ToComplete, QuestProgress, Completable, Completed
    <3> QED BY <2>4, <3>1, <3>2, SaveMovesForward DEF CompleteSaves
  <2>5. Forward
    BY <1>7, <1>u, <2>3, <2>4 DEF Crash
  <2> QED BY <1>i, <2>1, <2>2, <2>5, ForwardKeepsPaid DEF OInv
<1>8. CASE UNCHANGED vars
  <2>1. UNCHANGED <<sessions, charUid, quest, dbQuest, rewards>>
    BY <1>8 DEF vars
  <2> QED BY <1>i, <1>u, <2>1, ForwardKeepsPaid DEF OInv, OneSession, WriteThrough, loggedIn
<1> QED BY <1>1, <1>2, <1>3, <1>4, <1>5, <1>6, <1>7, <1>8 DEF Next

\* The invariant holds throughout, and every step is forward.
LEMMA OrderlyInvariance == ASSUME Orderly PROVE Spec => []OInv
<1>1. OInv /\ [Next]_vars => OInv'
  BY OrderlyStep
<1> QED BY <1>1, InitOInv, PTL DEF Spec

\* What a session has in memory is what the next login would load, whatever was
\* accepted, counted and completed, and after every crash.
THEOREM MemoryIsSaved == ASSUME Orderly PROVE Spec => []WriteThrough
<1>1. OInv => WriteThrough
  BY DEF OInv
<1> QED BY <1>1, OrderlyInvariance, PTL

\* A character is paid for a quest once, also when the server ends between saving
\* Completed and paying, or in the middle of the saves of a kill.
THEOREM QuestPaidOnce == ASSUME Orderly PROVE Spec => []PaidOnce
<1>1. OInv => PaidOnce
  BY DEF OInv, PaidIsCompleted, PaidOnce
<1> QED BY <1>1, OrderlyInvariance, PTL

\* The status of a quest in the table never goes back.
THEOREM QuestStatusForward == ASSUME Orderly PROVE Spec => StatusForward
<1>1. OInv /\ [Next]_vars => [Forward]_vars
  BY OrderlyStep
<1>2. [Forward]_vars => [\A c \in CharUids : \A q \in Quests :
                            dbQuest'[c][q].status >= dbQuest[c][q].status]_vars
  BY DEF Forward
<1> QED BY <1>1, <1>2, OrderlyInvariance, PTL DEF Spec, StatusForward
=============================================================================
