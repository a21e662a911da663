----------------------------- MODULE PartyProofs -----------------------------
(***************************************************************************)
(* Proofs about the party system and what is built on it, for every number *)
(* of sessions and parties, every MAX_PARTY >= 2 and any rewards: the      *)
(* tables of the server (Party), the clients that show them (PartyView)    *)
(* and the kills that a party shares (Combat).                             *)
(*                                                                         *)
(* The tables have an inductive invariant, IInv, and the other two parts   *)
(* rest on it.  What a client shows once it has caught up is a fold over   *)
(* the packets under way, and the loop of CheckLevelUp is a recursive      *)
(* function; what both compute follows from Recursion.                     *)
(***************************************************************************)
EXTENDS Combat, PartyView, FiniteSetTheorems, SequenceTheorems, TLAPS

(* The tables of the server. *)

\* Every map entry names a party that was created and lists the session.
MapInv ==
    \A s \in SessionId : playerParty[s] # NoParty =>
        /\ playerParty[s] < nextPartyId
        /\ Lists(parties[playerParty[s]], s)

\* The vector of a party: finite, empty or of a legal size, its copies numbered
\* from 1 without a gap, which makes push_back add an entry.
WellNumbered(m) ==
    \A e \in m : e[2] \in 1..Cardinality(Copies(m, e[1]))

VectorInv ==
    \A p \in PartyId :
        /\ IsFiniteSet(parties[p])
        /\ parties[p] # {} => p < nextPartyId
        /\ parties[p] # {} => Cardinality(parties[p]) \in 2..MAX_PARTY
        /\ WellNumbered(parties[p])

\* Nobody is invited by itself.
InviteInv == \A s \in SessionId : pendingInvites[s] # s

IInv == TypeOK /\ MapInv /\ VectorInv /\ EndedHoldsNothing /\ InviteInv

-----------------------------------------------------------------------------
(* The vector operations. *)

\* push_back adds one entry, for the session it is given.
LEMMA PushBackFacts ==
    ASSUME NEW m, m \subseteq Entry, IsFiniteSet(m), WellNumbered(m),
           NEW s \in SessionId
    PROVE  /\ push_back(m, s) \subseteq Entry
           /\ IsFiniteSet(push_back(m, s))
           /\ Cardinality(push_back(m, s)) = Cardinality(m) + 1
           /\ Lists(push_back(m, s), s)
           /\ \A t : Lists(m, t) => Lists(push_back(m, s), t)
           /\ WellNumbered(push_back(m, s))
<1> DEFINE c == Cardinality(Copies(m, s))
           new == <<s, c + 1>>
<1>1. IsFiniteSet(Copies(m, s)) /\ c \in Nat
  BY FS_Subset, FS_CardinalityType DEF Copies
<1>2. new \notin m
  <2>1. SUFFICES ASSUME new \in m PROVE FALSE
    OBVIOUS
  <2>2. c + 1 \in 1..c
    BY <2>1 DEF WellNumbered
  <2> QED BY <1>1, <2>2
<1>3. push_back(m, s) = m \cup {new}
  BY DEF push_back
<1>4. new \in Entry
  BY <1>1 DEF Entry
<1>5. IsFiniteSet(m \cup {new}) /\ Cardinality(m \cup {new}) = Cardinality(m) + 1
  BY <1>2, FS_AddElement
<1>6. WellNumbered(m \cup {new})
  <2>1. Copies(m \cup {new}, s) = Copies(m, s) \cup {new}
    BY DEF Copies
  <2>2. new \notin Copies(m, s)
    BY <1>2 DEF Copies
  <2>3. Cardinality(Copies(m \cup {new}, s)) = c + 1
    BY <1>1, <2>1, <2>2, FS_AddElement
  <2>4. SUFFICES ASSUME NEW e \in m \cup {new}
                 PROVE  e[2] \in 1..Cardinality(Copies(m \cup {new}, e[1]))
    BY DEF WellNumbered
  <2>5. CASE e = new
    BY <1>1, <2>3, <2>5
  <2>6. CASE e \in m /\ e[1] = s
    <3>1. e[2] \in 1..c
      BY <2>6 DEF WellNumbered
    <3> QED BY <1>1, <2>3, <2>6, <3>1
  <2>7. CASE e \in m /\ e[1] # s
    <3>1. Copies(m \cup {new}, e[1]) = Copies(m, e[1])
      BY <2>7 DEF Copies
    <3> QED BY <2>7, <3>1 DEF WellNumbered
  <2> QED BY <2>5, <2>6, <2>7
<1> QED BY <1>3, <1>4, <1>5, <1>6 DEF Lists

\* remove takes the copies of one session and leaves the rest as it was.
LEMMA RemoveFacts ==
    ASSUME NEW m, m \subseteq Entry, IsFiniteSet(m), WellNumbered(m),
           NEW s \in SessionId
    PROVE  /\ remove(m, s) \subseteq m
           /\ IsFiniteSet(remove(m, s))
           /\ Cardinality(remove(m, s)) \in Nat
           /\ Cardinality(remove(m, s)) <= Cardinality(m)
           /\ \A t : t # s /\ Lists(m, t) => Lists(remove(m, s), t)
           /\ WellNumbered(remove(m, s))
<1>1. remove(m, s) \subseteq m
  BY DEF remove
<1>2. /\ IsFiniteSet(remove(m, s))
      /\ Cardinality(remove(m, s)) \in Nat
      /\ Cardinality(remove(m, s)) <= Cardinality(m)
  BY <1>1, FS_Subset, FS_CardinalityType
<1>3. \A t : t # s /\ Lists(m, t) => Lists(remove(m, s), t)
  BY DEF Lists, remove
<1>4. WellNumbered(remove(m, s))
  <2>1. SUFFICES ASSUME NEW e \in remove(m, s)
                 PROVE  e[2] \in 1..Cardinality(Copies(remove(m, s), e[1]))
    BY DEF WellNumbered
  <2>2. e \in m /\ Copies(remove(m, s), e[1]) = Copies(m, e[1])
    BY DEF remove, Copies
  <2> QED BY <2>2 DEF WellNumbered
<1> QED BY <1>1, <1>2, <1>3, <1>4

\* The vector of a party just founded by the inviter.
LEMMA FounderFacts ==
    ASSUME NEW i \in SessionId
    PROVE  /\ push_back({}, i) = {<<i, 1>>}
           /\ push_back({}, i) \subseteq Entry
           /\ IsFiniteSet(push_back({}, i))
           /\ Cardinality(push_back({}, i)) = 1
           /\ Lists(push_back({}, i), i)
           /\ WellNumbered(push_back({}, i))
<1>1. Copies({}, i) = {} /\ IsFiniteSet({}) /\ Cardinality({}) = 0
  BY FS_EmptySet DEF Copies
<1>2. push_back({}, i) = {<<i, 1>>}
  BY <1>1 DEF push_back
<1>3. WellNumbered({}) /\ {} \subseteq Entry
  BY DEF WellNumbered
<1> QED BY <1>1, <1>2, <1>3, PushBackFacts

-----------------------------------------------------------------------------
(* The inductive invariant. *)

\* The server starts with empty tables, which satisfy the inductive invariant.
LEMMA InitIInv == Init => IInv
<1> SUFFICES ASSUME Init PROVE IInv
  OBVIOUS
<1> USE SessionAssumption, PartyAssumption
<1>1. TypeOK
  BY DEF Init, SessionInit, TypeOK, SessionTypeOK, SessionId, MaybeChar, PartyId,
         NoParty, INVALID_SESSION
<1>2. MapInv /\ EndedHoldsNothing /\ InviteInv
  BY DEF Init, MapInv, EndedHoldsNothing, InviteInv, NoParty, INVALID_SESSION, SessionId
<1>3. VectorInv
  BY FS_EmptySet DEF Init, VectorInv, WellNumbered
<1> QED BY <1>1, <1>2, <1>3 DEF IInv

\* What RemoveFromParty does to the two tables, for both of its callers.
LEMMA RemoveFromPartyFacts ==
    ASSUME IInv, NEW s \in SessionId, RemoveFromParty(s)
    PROVE  /\ parties' \in [PartyId -> SUBSET Entry]
           /\ playerParty' \in [SessionId -> PartyId \cup {NoParty}]
           /\ playerParty'[s] = NoParty
           /\ \A t \in SessionId : playerParty'[t] \in {NoParty, playerParty[t]}
           /\ \A t \in SessionId : playerParty'[t] # NoParty =>
                  Lists(parties'[playerParty'[t]], t)
           /\ \A p \in PartyId :
                  /\ parties'[p] \subseteq parties[p]
                  /\ IsFiniteSet(parties'[p])
                  /\ parties'[p] # {} => Cardinality(parties'[p]) \in 2..MAX_PARTY
                  /\ WellNumbered(parties'[p])
<1> USE PartyAssumption
<1>1. CASE playerParty[s] = NoParty
  BY <1>1 DEF RemoveFromParty, IInv, TypeOK, MapInv, VectorInv
<1>2. CASE playerParty[s] # NoParty
  <2> DEFINE p == playerParty[s]
             rest == remove(parties[p], s)
  <2>1. p \in PartyId /\ parties[p] \subseteq Entry /\ parties[p] # {}
    BY <1>2 DEF IInv, TypeOK, MapInv, Lists
  <2>2. IsFiniteSet(parties[p]) /\ WellNumbered(parties[p])
        /\ Cardinality(parties[p]) \in 2..MAX_PARTY
    BY <2>1 DEF IInv, VectorInv
  <2>3. /\ rest \subseteq parties[p]
        /\ IsFiniteSet(rest)
        /\ Cardinality(rest) \in Nat
        /\ Cardinality(rest) <= Cardinality(parties[p])
        /\ \A t : t # s /\ Lists(parties[p], t) => Lists(rest, t)
        /\ WellNumbered(rest)
    BY <2>1, <2>2, RemoveFacts
  <2>4. /\ parties' = [parties EXCEPT ![p] = IF Cardinality(rest) <= 1 THEN {} ELSE rest]
        /\ playerParty' = [t \in SessionId |->
                              IF t \in Erased(s, rest) THEN NoParty ELSE playerParty[t]]
    BY <1>2 DEF RemoveFromParty
  <2>5. parties' \in [PartyId -> SUBSET Entry]
    BY <2>1, <2>3, <2>4 DEF IInv, TypeOK
  <2>6. /\ playerParty' \in [SessionId -> PartyId \cup {NoParty}]
        /\ playerParty'[s] = NoParty
        /\ \A t \in SessionId : playerParty'[t] \in {NoParty, playerParty[t]}
    BY <2>4 DEF IInv, TypeOK, Erased
  <2>7. ASSUME NEW t \in SessionId, playerParty'[t] # NoParty
        PROVE  Lists(parties'[playerParty'[t]], t)
    <3>1. playerParty'[t] = playerParty[t] /\ t # s
      BY <2>6, <2>7
    <3>2. playerParty[t] \in PartyId /\ Lists(parties[playerParty[t]], t)
      BY <2>7, <3>1 DEF IInv, TypeOK, MapInv
    <3>3. CASE playerParty[t] = p
      <4>1. Lists(rest, t)
        BY <2>3, <3>1, <3>2, <3>3
      <4>2. ~(Cardinality(rest) <= 1)
        BY <2>4, <2>7, <4>1 DEF Erased, Lists
      <4> QED BY <2>1, <2>4, <3>1, <3>3, <4>1, <4>2 DEF IInv, TypeOK
    <3>4. CASE playerParty[t] # p
      BY <2>1, <2>4, <3>1, <3>2, <3>4 DEF IInv, TypeOK
    <3> QED BY <3>3, <3>4
  <2>8. ASSUME NEW q \in PartyId
        PROVE  /\ parties'[q] \subseteq parties[q]
               /\ IsFiniteSet(parties'[q])
               /\ parties'[q] # {} => Cardinality(parties'[q]) \in 2..MAX_PARTY
               /\ WellNumbered(parties'[q])
    <3>1. CASE q # p
      BY <2>4, <3>1 DEF IInv, TypeOK, VectorInv
    <3>2. CASE q = p /\ Cardinality(rest) <= 1
      <4>1. parties'[q] = {}
        BY <2>1, <2>4, <3>2 DEF IInv, TypeOK
      <4> QED BY <4>1, FS_EmptySet DEF WellNumbered
    <3>3. CASE q = p /\ ~(Cardinality(rest) <= 1)
      <4>1. parties'[q] = rest
        BY <2>1, <2>4, <3>3 DEF IInv, TypeOK
      <4> QED BY <2>2, <2>3, <3>3, <4>1
    <3> QED BY <3>1, <3>2, <3>3
  <2> QED BY <2>5, <2>6, <2>7, <2>8
<1> QED BY <1>1, <1>2

\* The sessions stay well typed whatever happens to them.
LEMMA SessionTypes ==
    ASSUME SessionTypeOK
    PROVE  /\ AddSession => SessionTypeOK'
           /\ \A s \in SessionId : RemoveSession(s) => SessionTypeOK'
           /\ \A s \in SessionId : \A c \in CharUids : SelectChar(s, c) => SessionTypeOK'
           /\ UNCHANGED sessionVars => SessionTypeOK'
<1> USE SessionAssumption
<1>1. AddSession => SessionTypeOK'
  BY DEF AddSession, SessionTypeOK, SessionId
<1>2. \A s \in SessionId : RemoveSession(s) => SessionTypeOK'
  BY DEF RemoveSession, SessionTypeOK, MaybeChar
<1>3. \A s \in SessionId : \A c \in CharUids : SelectChar(s, c) => SessionTypeOK'
  BY DEF SelectChar, SessionTypeOK, MaybeChar
<1>4. UNCHANGED sessionVars => SessionTypeOK'
  BY DEF sessionVars, SessionTypeOK
<1> QED BY <1>1, <1>2, <1>3, <1>4

\* CS_PARTY_LEAVE keeps the inductive invariant.
LEMMA LeaveStep ==
    ASSUME IInv, NEW s \in SessionId, OnPartyLeave(s)
    PROVE  IInv'
<1>1. RemoveFromParty(s) /\ UNCHANGED <<sessionVars, pendingInvites, nextPartyId>>
  BY DEF OnPartyLeave
<1>2. TypeOK'
  BY <1>1, RemoveFromPartyFacts, SessionTypes DEF IInv, TypeOK
<1>3. MapInv'
  BY <1>1, RemoveFromPartyFacts DEF IInv, MapInv, sessionVars
<1>4. VectorInv'
  BY <1>1, RemoveFromPartyFacts DEF IInv, VectorInv, sessionVars
<1>5. EndedHoldsNothing' /\ InviteInv'
  BY <1>1, RemoveFromPartyFacts DEF IInv, EndedHoldsNothing, InviteInv, sessionVars
<1> QED BY <1>2, <1>3, <1>4, <1>5 DEF IInv

\* The end of a session keeps the inductive invariant.
LEMMA DisconnectStep ==
    ASSUME IInv, NEW s \in SessionId, OnDisconnect(s)
    PROVE  IInv'
<1>1. /\ RemoveFromParty(s) /\ RemoveSession(s) /\ UNCHANGED nextPartyId
      /\ pendingInvites' = [pendingInvites EXCEPT ![s] = INVALID_SESSION]
  BY DEF OnDisconnect, OnPlayerDisconnect, DropInvite
<1>2. TypeOK'
  BY <1>1, RemoveFromPartyFacts, SessionTypes DEF IInv, TypeOK
<1>3. MapInv'
  BY <1>1, RemoveFromPartyFacts DEF IInv, MapInv
<1>4. VectorInv'
  BY <1>1, RemoveFromPartyFacts DEF IInv, VectorInv
<1>5. EndedHoldsNothing' /\ InviteInv'
  BY <1>1, RemoveFromPartyFacts, SessionAssumption
  DEF IInv, TypeOK, EndedHoldsNothing, InviteInv, RemoveSession, INVALID_SESSION, SessionId
<1> QED BY <1>2, <1>3, <1>4, <1>5 DEF IInv

\* Joining: the party that takes the caller in, founded or found.
LEMMA JoinStep ==
    ASSUME IInv, NEW s \in SessionId, PartyJoin(s)
    PROVE  IInv'
<1> USE SessionAssumption, PartyAssumption
<1> DEFINE inviter == pendingInvites[s]
           isNew == playerParty[inviter] = NoParty
           p == IF isNew THEN nextPartyId ELSE playerParty[inviter]
           members == IF isNew THEN push_back({}, inviter) ELSE parties[p]
           joined == IF HasRoom(members) THEN {s, inviter} ELSE {inviter}
           after == IF HasRoom(members) THEN push_back(members, s) ELSE members
<1>1. /\ s \in sessions /\ inviter \in sessions
      /\ isNew => nextPartyId \in PartyId
      /\ pendingInvites' = [pendingInvites EXCEPT ![s] = INVALID_SESSION]
      /\ parties' = [parties EXCEPT ![p] = after]
      /\ playerParty' = [t \in SessionId |-> IF t \in joined THEN p ELSE playerParty[t]]
      /\ nextPartyId' = IF isNew THEN nextPartyId + 1 ELSE nextPartyId
      /\ UNCHANGED sessionVars
  BY DEF PartyJoin, IdAfter
<1>2. inviter \in SessionId /\ p \in PartyId
  BY <1>1 DEF IInv, TypeOK, SessionTypeOK
<1>3. p < nextPartyId' /\ nextPartyId <= nextPartyId' /\ nextPartyId' \in 1..(MaxPartyId + 1)
  BY <1>1, <1>2 DEF IInv, TypeOK, MapInv, PartyId
<1>4. /\ members \subseteq Entry /\ IsFiniteSet(members) /\ WellNumbered(members)
      /\ Cardinality(members) \in 1..MAX_PARTY
      /\ isNew => Cardinality(members) = 1
      /\ ~isNew => Cardinality(members) >= 2
      /\ Lists(members, inviter)
  <2>1. CASE isNew
    BY <1>2, <2>1, FounderFacts
  <2>2. CASE ~isNew
    <3>1. Lists(parties[p], inviter) /\ parties[p] # {}
      BY <1>2, <2>2 DEF IInv, MapInv, Lists
    <3> QED BY <1>2, <2>2, <3>1 DEF IInv, TypeOK, VectorInv
  <2> QED BY <2>1, <2>2
<1>5. /\ after \subseteq Entry /\ IsFiniteSet(after) /\ WellNumbered(after)
      /\ Cardinality(after) \in 2..MAX_PARTY
      /\ \A t : Lists(members, t) => Lists(after, t)
      /\ \A t \in joined : Lists(after, t)
  <2>1. CASE HasRoom(members)
    <3>1. /\ after \subseteq Entry /\ IsFiniteSet(after) /\ WellNumbered(after)
          /\ Cardinality(after) = Cardinality(members) + 1
          /\ Lists(after, s)
          /\ \A t : Lists(members, t) => Lists(after, t)
      BY <1>4, <2>1, PushBackFacts
    <3> QED BY <1>4, <2>1, <3>1 DEF HasRoom
  <2>2. CASE ~HasRoom(members)
    BY <1>4, <2>2 DEF HasRoom
  <2> QED BY <2>1, <2>2
<1> HIDE DEF after
<1>6. TypeOK'
  BY <1>1, <1>2, <1>3, <1>5, SessionTypes DEF IInv, TypeOK, INVALID_SESSION
<1>7. MapInv'
  <2>1. SUFFICES ASSUME NEW t \in SessionId, playerParty'[t] # NoParty
                 PROVE  playerParty'[t] < nextPartyId' /\ Lists(parties'[playerParty'[t]], t)
    BY DEF MapInv
  <2>2. parties'[p] = after
    BY <1>1, <1>2 DEF IInv, TypeOK
  <2>3. CASE t \in joined
    BY <1>1, <1>3, <1>5, <2>2, <2>3
  <2>4. CASE t \notin joined
    <3>1. /\ playerParty'[t] = playerParty[t] /\ playerParty[t] \in PartyId
          /\ playerParty[t] < nextPartyId /\ Lists(parties[playerParty[t]], t)
      BY <1>1, <2>1, <2>4 DEF IInv, TypeOK, MapInv
    <3>2. playerParty'[t] < nextPartyId'
      BY <1>3, <3>1 DEF IInv, TypeOK, PartyId
    <3>3. CASE playerParty[t] = p
      <4>1. ~isNew
        BY <1>2, <3>1, <3>3 DEF IInv, TypeOK, PartyId
      <4>2. Lists(after, t)
        BY <1>5, <3>1, <3>3, <4>1
      <4> QED BY <2>2, <3>1, <3>2, <3>3, <4>2
    <3>4. CASE playerParty[t] # p
      BY <1>1, <3>1, <3>2, <3>4 DEF IInv, TypeOK
    <3> QED BY <3>3, <3>4
  <2> QED BY <2>3, <2>4
<1>8. VectorInv'
  <2>1. SUFFICES ASSUME NEW q \in PartyId
                 PROVE  /\ IsFiniteSet(parties'[q])
                        /\ parties'[q] # {} => q < nextPartyId'
                        /\ parties'[q] # {} => Cardinality(parties'[q]) \in 2..MAX_PARTY
                        /\ WellNumbered(parties'[q])
    BY DEF VectorInv
  <2>2. CASE q = p
    <3>1. parties'[q] = after
      BY <1>1, <1>2, <2>2 DEF IInv, TypeOK
    <3> QED BY <1>3, <1>5, <2>2, <3>1
  <2>3. CASE q # p
    <3>1. parties'[q] = parties[q]
      BY <1>1, <2>3 DEF IInv, TypeOK
    <3>2. parties[q] # {} => q < nextPartyId'
      BY <1>3 DEF IInv, TypeOK, VectorInv, PartyId
    <3> QED BY <3>1, <3>2 DEF IInv, VectorInv
  <2> QED BY <2>2, <2>3
<1>9. EndedHoldsNothing' /\ InviteInv'
  BY <1>1, <1>2 DEF IInv, TypeOK, EndedHoldsNothing, InviteInv, sessionVars,
                    INVALID_SESSION, SessionId
<1> QED BY <1>6, <1>7, <1>8, <1>9 DEF IInv

\* Every handler that touches the party tables keeps the inductive invariant.
LEMMA NextIInv == IInv /\ [Next]_vars => IInv'
<1> SUFFICES ASSUME IInv, [Next]_vars PROVE IInv'
  OBVIOUS
<1> USE SessionAssumption
<1>1. CASE DoAccept
  <2>1. TypeOK'
    BY <1>1, SessionTypes DEF DoAccept, partyVars, IInv, TypeOK
  <2> QED BY <1>1, <2>1 DEF DoAccept, AddSession, partyVars, IInv, MapInv, VectorInv,
                            EndedHoldsNothing, InviteInv
<1>2. ASSUME NEW s \in SessionId, NEW c \in CharUids, OnCharSelect(s, c) PROVE IInv'
  <2>1. TypeOK'
    BY <1>2, SessionTypes DEF OnCharSelect, partyVars, IInv, TypeOK
  <2> QED BY <1>2, <2>1 DEF OnCharSelect, SelectChar, partyVars, IInv, MapInv, VectorInv,
                            EndedHoldsNothing, InviteInv
<1>3. ASSUME NEW s \in SessionId, NEW n \in MaybeChar, OnPartyInvite(s, n) PROVE IInv'
  <2>1. PICK t \in SessionId : IsTarget(t, n) /\ Invitable(s, t)
                               /\ pendingInvites' = [pendingInvites EXCEPT ![t] = s]
    BY <1>3 DEF OnPartyInvite, Invite
  <2>2. UNCHANGED <<sessionVars, parties, playerParty, nextPartyId>>
    BY <1>3 DEF OnPartyInvite
  <2>3. TypeOK'
    BY <2>1, <2>2, SessionTypes DEF IInv, TypeOK
  <2>4. EndedHoldsNothing' /\ InviteInv'
    BY <2>1, <2>2 DEF IInv, TypeOK, EndedHoldsNothing, InviteInv, IsTarget, Invitable,
                      sessionVars
  <2> QED BY <2>2, <2>3, <2>4 DEF IInv, MapInv, VectorInv
<1>4. ASSUME NEW s \in SessionId, PartyInviteDropped(s) PROVE IInv'
  <2>1. TypeOK'
    BY <1>4, SessionTypes DEF PartyInviteDropped, IInv, TypeOK
  <2> QED BY <1>4, <2>1 DEF PartyInviteDropped, sessionVars, IInv, TypeOK, MapInv, VectorInv,
                            EndedHoldsNothing, InviteInv, INVALID_SESSION, SessionId
<1>5. CASE UNCHANGED vars
  BY <1>5 DEF vars, IInv, TypeOK, SessionTypeOK, MapInv, VectorInv, EndedHoldsNothing,
              InviteInv
<1> QED
  BY <1>1, <1>2, <1>3, <1>4, <1>5, JoinStep, LeaveStep, DisconnectStep
  DEF Next, OnPartyAccept

\* The inductive invariant holds between handlers for as long as the server runs.
LEMMA InductiveInvariant == Spec => []IInv
  BY InitIInv, NextIInv, PTL DEF Spec

-----------------------------------------------------------------------------
(* What a reader should know. *)

\* The party tables and the session table keep their types under every handler
\* of main.cpp that touches them.
THEOREM PartyTypeCorrect == Spec => []TypeOK
<1>1. IInv => TypeOK
  BY DEF IInv
<1> QED BY <1>1, InductiveInvariant, PTL

\* g_parties[g_playerParty[s]] always exists and lists s, so no handler creates
\* an empty party by looking one up and OnAttack never divides by zero.
THEOREM MapNeverDangles == Spec => []MappedIsMember
<1>1. IInv => MappedIsMember
  BY DEF IInv, MapInv, MappedIsMember
<1> QED BY <1>1, InductiveInvariant, PTL

\* However many invitations are out, a party has 2..MAX_PARTY members between
\* handlers.
THEOREM PartySizeBounded == Spec => []PartySize
<1>1. IInv => PartySize
  BY DEF IInv, VectorInv, PartySize
<1> QED BY <1>1, InductiveInvariant, PTL

\* OnPlayerDisconnect leaves no key of an ended session in g_playerParty or
\* g_pendingInvites, and no later handler brings one back.
THEOREM EndedSessionsForgotten == Spec => []EndedHoldsNothing
<1>1. IInv => EndedHoldsNothing
  BY DEF IInv
<1> QED BY <1>1, InductiveInvariant, PTL

\* No handler revives a party that RemoveFromParty has disbanded.
THEOREM NoRevival == Spec => DisbandedStaysDisbanded
<1> DEFINE A == \A p \in PartyId : p < nextPartyId /\ parties[p] = {} => parties'[p] = {}
<1>1. IInv /\ [Next]_vars => [A]_vars
  <2> SUFFICES ASSUME IInv, Next, NEW p \in PartyId, p < nextPartyId, parties[p] = {}
               PROVE  parties'[p] = {}
    BY DEF vars
  <2>1. ASSUME NEW s \in SessionId, RemoveFromParty(s) PROVE parties'[p] = {}
    BY <2>1, RemoveFromPartyFacts
  <2>2. ASSUME NEW s \in SessionId, PartyJoin(s) PROVE parties'[p] = {}
    <3> DEFINE inviter == pendingInvites[s]
    <3>1. inviter \in SessionId
      BY <2>2 DEF PartyJoin, IInv, TypeOK, SessionTypeOK
    <3>2. CASE playerParty[inviter] = NoParty
      <4>1. p # nextPartyId
        BY DEF PartyId
      <4> QED BY <2>2, <3>2, <4>1 DEF PartyJoin, IInv, TypeOK
    <3>3. CASE playerParty[inviter] # NoParty
      <4>1. p # playerParty[inviter]
        BY <3>1, <3>3 DEF IInv, MapInv, Lists
      <4> QED BY <2>2, <3>3, <4>1 DEF PartyJoin, IInv, TypeOK
    <3> QED BY <3>2, <3>3
  <2> QED
    BY <2>1, <2>2 DEF Next, DoAccept, OnCharSelect, OnPartyInvite, OnPartyAccept,
       PartyInviteDropped, OnPartyLeave, OnDisconnect, OnPlayerDisconnect, partyVars
<1>2. [][A]_vars => DisbandedStaysDisbanded
  BY DEF DisbandedStaysDisbanded
<1> QED BY <1>1, <1>2, InductiveInvariant, PTL DEF Spec

\* g_playerParty gets a new value only through an invitation sent by
\* OnPartyInvite and consumed by OnPartyAccept.
THEOREM MembershipByInvitation == Spec => JoinByInvitation
<1> DEFINE A == \A s \in SessionId :
          LET p == playerParty'[s]
          IN  p \notin {NoParty, playerParty[s]} =>
                \/ pendingInvites[s] # INVALID_SESSION
                   /\ playerParty'[pendingInvites[s]] = p
                \/ parties[p] = {} /\ \E t \in SessionId : pendingInvites[t] = s
<1>1. IInv /\ [Next]_vars => [A]_vars
  <2> SUFFICES ASSUME IInv, Next, NEW s \in SessionId,
                      playerParty'[s] \notin {NoParty, playerParty[s]}
               PROVE  \/ pendingInvites[s] # INVALID_SESSION
                         /\ playerParty'[pendingInvites[s]] = playerParty'[s]
                      \/ parties[playerParty'[s]] = {}
                         /\ \E t \in SessionId : pendingInvites[t] = s
    BY DEF vars
  <2>1. PICK t \in SessionId : PartyJoin(t)
    BY RemoveFromPartyFacts DEF Next, DoAccept, OnCharSelect, OnPartyInvite, OnPartyAccept,
       PartyInviteDropped, OnPartyLeave, OnDisconnect, OnPlayerDisconnect, partyVars
  <2> DEFINE inviter == pendingInvites[t]
  <2>2. inviter \in SessionId
    BY <2>1 DEF PartyJoin, IInv, TypeOK, SessionTypeOK
  <2>3. CASE s = inviter
    <3>1. playerParty[s] = NoParty /\ playerParty'[s] = nextPartyId
          /\ nextPartyId \in PartyId
      BY <2>1, <2>2, <2>3 DEF PartyJoin
    <3>2. parties[nextPartyId] = {}
      BY <3>1 DEF IInv, VectorInv, PartyId
    <3> QED BY <2>3, <3>1, <3>2
  <2>4. CASE s # inviter
    <3>1. s = t
      BY <2>1, <2>4 DEF PartyJoin
    <3>2. playerParty'[inviter] = playerParty'[s]
      BY <2>1, <2>2, <2>4, <3>1 DEF PartyJoin
    <3> QED BY <2>2, <3>1, <3>2 DEF SessionId, INVALID_SESSION
  <2> QED BY <2>3, <2>4
<1>2. [][A]_vars => JoinByInvitation
  BY DEF JoinByInvitation
<1> QED BY <1>1, <1>2, InductiveInvariant, PTL DEF Spec

\* Leaving keeps every session in one party.
LEMMA LeaveKeepsOneParty ==
    ASSUME IInv, OnePartyEach, NEW s \in SessionId, RemoveFromParty(s)
    PROVE  OnePartyEach'
<1> SUFFICES ASSUME NEW q \in PartyId, NEW e \in parties'[q]
             PROVE  playerParty'[e[1]] = q /\ e[2] = 1
  BY DEF OnePartyEach
<1>1. e \in parties[q] /\ e \in Entry
  BY RemoveFromPartyFacts DEF IInv, TypeOK
<1>2. playerParty[e[1]] = q /\ e[2] = 1 /\ e[1] \in SessionId
  BY <1>1 DEF OnePartyEach, Entry
<1>3. CASE playerParty[s] = NoParty
  BY <1>2, <1>3 DEF RemoveFromParty
<1>4. CASE playerParty[s] # NoParty
  <2> DEFINE p == playerParty[s]
             rest == remove(parties[p], s)
  <2>1. p \in PartyId
    BY <1>4 DEF IInv, TypeOK
  <2>2. /\ parties' = [parties EXCEPT ![p] = IF Cardinality(rest) <= 1 THEN {} ELSE rest]
        /\ playerParty' = [t \in SessionId |->
                              IF t \in Erased(s, rest) THEN NoParty ELSE playerParty[t]]
    BY <1>4 DEF RemoveFromParty
  <2>3. CASE q = p
    <3>1. e \in rest /\ ~(Cardinality(rest) <= 1)
      BY <2>1, <2>2, <2>3 DEF IInv, TypeOK
    <3>2. e[1] \notin Erased(s, rest)
      BY <3>1 DEF Erased, remove
    <3> QED BY <1>2, <2>2, <3>2
  <2>4. CASE q # p
    <3>1. e[1] # s /\ \A f \in rest : f[1] # e[1]
      BY <1>2, <2>1, <2>4 DEF OnePartyEach, remove
    <3>2. e[1] \notin Erased(s, rest)
      BY <3>1 DEF Erased
    <3> QED BY <1>2, <2>2, <3>2
  <2> QED BY <2>3, <2>4
<1> QED BY <1>3, <1>4

\* So does joining, when the session that joins is in no party.
LEMMA FreshJoinKeepsOneParty ==
    ASSUME IInv, OnePartyEach, NEW s \in SessionId, PartyJoin(s), playerParty[s] = NoParty
    PROVE  OnePartyEach'
<1> USE SessionAssumption, PartyAssumption
<1> DEFINE inviter == pendingInvites[s]
           isNew == playerParty[inviter] = NoParty
           p == IF isNew THEN nextPartyId ELSE playerParty[inviter]
           members == IF isNew THEN push_back({}, inviter) ELSE parties[p]
           joined == IF HasRoom(members) THEN {s, inviter} ELSE {inviter}
           after == IF HasRoom(members) THEN push_back(members, s) ELSE members
<1>1. /\ inviter \in sessions
      /\ isNew => nextPartyId \in PartyId
      /\ parties' = [parties EXCEPT ![p] = after]
      /\ playerParty' = [t \in SessionId |-> IF t \in joined THEN p ELSE playerParty[t]]
  BY DEF PartyJoin
<1>2. inviter \in SessionId /\ p \in PartyId /\ inviter # s
  BY <1>1 DEF IInv, TypeOK, SessionTypeOK, InviteInv
<1>3. \A e \in members : e[2] = 1 /\ e[1] \in SessionId /\ e[1] # s
                         /\ (e[1] = inviter \/ playerParty[e[1]] = p)
  <2>1. CASE isNew
    BY <1>2, <2>1, FounderFacts
  <2>2. CASE ~isNew
    BY <1>2, <2>2 DEF OnePartyEach, IInv, TypeOK, Entry, PartyId, NoParty
  <2> QED BY <2>1, <2>2
<1>4. \A e \in after : e[2] = 1 /\ playerParty'[e[1]] = p
  <2>1. Copies(members, s) = {}
    BY <1>3 DEF Copies
  <2>2. push_back(members, s) = members \cup {<<s, 1>>}
    <3> HIDE DEF members
    <3>1. Cardinality(Copies(members, s)) + 1 = 1
      BY <2>1, FS_EmptySet
    <3> QED BY <3>1 DEF push_back
  <2>3. SUFFICES ASSUME NEW e \in after PROVE e[2] = 1 /\ playerParty'[e[1]] = p
    OBVIOUS
  <2>4. CASE e \in members
    BY <1>1, <1>2, <1>3, <2>4
  <2>5. CASE e \notin members
    <3>1. HasRoom(members) /\ e = <<s, 1>>
      BY <2>2, <2>3, <2>5
    <3> QED BY <1>1, <3>1
  <2> QED BY <2>4, <2>5
<1> HIDE DEF after
<1>5. ASSUME NEW q \in PartyId, NEW e \in parties'[q]
      PROVE  playerParty'[e[1]] = q /\ e[2] = 1
  <2>1. CASE q = p
    BY <1>1, <1>2, <1>4, <1>5, <2>1 DEF IInv, TypeOK
  <2>2. CASE q # p
    <3>1. e \in parties[q] /\ e[1] \in SessionId /\ playerParty[e[1]] = q /\ e[2] = 1
      BY <1>1, <1>5, <2>2 DEF IInv, TypeOK, Entry, OnePartyEach
    <3>2. e[1] # s /\ e[1] # inviter
      BY <2>2, <3>1 DEF PartyId, NoParty
    <3> QED BY <1>1, <3>1, <3>2
  <2> QED BY <2>1, <2>2
<1> QED BY <1>5 DEF OnePartyEach

\* Two entries for one session come about in one way only: OnPartyAccept by a
\* session that has joined or founded a party since it was invited.
THEOREM OnlyLateAccept == Spec => OnlyLateAcceptBreaksOneParty
<1> DEFINE late == \E s \in SessionId :
                      /\ playerParty[s] # NoParty
                      /\ pendingInvites[s] # INVALID_SESSION
                      /\ pendingInvites'[s] = INVALID_SESSION
           A == OnePartyEach /\ ~OnePartyEach' => late
<1>1. IInv /\ [Next]_vars => [A]_vars
  <2> SUFFICES ASSUME IInv, Next, OnePartyEach, ~late PROVE OnePartyEach'
    BY DEF vars
  <2>1. ASSUME NEW s \in SessionId, PartyJoin(s) PROVE OnePartyEach'
    <3>1. pendingInvites[s] # INVALID_SESSION /\ pendingInvites'[s] = INVALID_SESSION
      BY <2>1 DEF PartyJoin, IInv, TypeOK, SessionTypeOK, SessionId, INVALID_SESSION
    <3>2. playerParty[s] = NoParty
      BY <3>1
    <3> QED BY <2>1, <3>2, FreshJoinKeepsOneParty
  <2>2. ASSUME UNCHANGED <<parties, playerParty>> PROVE OnePartyEach'
    BY <2>2 DEF OnePartyEach
  <2> QED
    BY <2>1, <2>2, LeaveKeepsOneParty
    DEF Next, DoAccept, OnCharSelect, OnPartyInvite, OnPartyAccept, PartyInviteDropped,
        OnPartyLeave, OnDisconnect, OnPlayerDisconnect, partyVars
<1>2. [][A]_vars => OnlyLateAcceptBreaksOneParty
  BY DEF OnlyLateAcceptBreaksOneParty
<1> QED BY <1>1, <1>2, InductiveInvariant, PTL DEF Spec

-----------------------------------------------------------------------------
(* What the clients show. *)

\* What a client may show of its party and of an invitation.
Members == SUBSET (SessionId \X (1..MAX_PARTY))
Views == [party : Members, invite : SessionId \cup {INVALID_SESSION}]

\* Recursion, and the folds of the handlers of the client.
R == INSTANCE Recursion WITH Handle <- Handled, Picture <- Views, Packets <- Packet

\* The three kinds of packet.
LEMMA PacketTypes ==
  ASSUME NEW p \in Packet
  PROVE  \/ IsInvite(p) /\ ~IsUpdate(p) /\ p.inviter \in SessionId
         \/ IsUpdate(p) /\ ~IsInvite(p) /\ p.members \in Members
         \/ ~IsInvite(p) /\ ~IsUpdate(p) /\ p.type = "SC_PARTY_LEAVE" /\ p.charUid \in MaybeChar
  BY DEF Packet, Members, IsInvite, IsUpdate

\* What each of them does to a picture.
LEMMA InviteTold ==
  ASSUME NEW v \in Views, NEW p \in Packet, IsInvite(p)
  PROVE  /\ Handled(v, p) \in Views
         /\ Handled(v, p).party = v.party /\ Handled(v, p).invite = p.inviter
  BY PacketTypes DEF Handled, OnPartyInviteRecv, Views, IsInvite

\* SC_PARTY_UPDATE.
LEMMA UpdateTold ==
  ASSUME NEW v \in Views, NEW p \in Packet, IsUpdate(p)
  PROVE  /\ Handled(v, p) \in Views
         /\ Handled(v, p).party = p.members /\ Handled(v, p).invite = v.invite
  BY PacketTypes DEF Handled, OnPartyUpdateRecv, Views, IsUpdate

\* SC_PARTY_LEAVE.
LEMMA LeaveTold ==
  ASSUME NEW v \in Views, NEW p \in Packet, p.type = "SC_PARTY_LEAVE"
  PROVE  /\ Handled(v, p) \in Views
         /\ Handled(v, p).party = IF p.charUid = NoChar THEN {} ELSE v.party
         /\ Handled(v, p).invite = v.invite
<1>1. Handled(v, p) = IF p.charUid = NoChar THEN [v EXCEPT !.party = {}] ELSE v
  BY DEF Handled, OnPartyLeaveRecv
<1>2. {} \in Members
  BY DEF Members
<1> QED BY <1>1, <1>2 DEF Views

\* The client stays in a state it knows, whatever arrives.
LEMMA HandledType ==
  ASSUME NEW v \in Views, NEW p \in Packet PROVE Handled(v, p) \in Views
  BY PacketTypes, InviteTold, UpdateTold, LeaveTold

\* The handlers are as the lemmas about folds need them.
LEMMA HandlersFit == R!Handles
  BY HandledType DEF R!Handles

\* What a client shows once it has caught up is what those lemmas speak of.
LEMMA CaughtUpIsFold == \A s : CaughtUp(s) = R!After(view[s], queue[s])
  BY DEF CaughtUp, R!After, FoldLeft, R!FoldLeft, MapThenFoldSet, R!MapThenFoldSet, Max, R!Max

\* Likewise after a step.
LEMMA CaughtUpNext == \A s : CaughtUp(s)' = R!After(view'[s], queue'[s])
  BY DEF CaughtUp, R!After, FoldLeft, R!FoldLeft, MapThenFoldSet, R!MapThenFoldSet, Max, R!Max

\* Two pictures are the same if they show the same.
LEMMA SameView ==
  ASSUME NEW v \in Views, NEW w \in Views, v.party = w.party, v.invite = w.invite
  PROVE  v = w
  BY DEF Views

\* A packet changes nothing the second time.
LEMMA Repetition ==
  ASSUME NEW v \in Views, NEW p \in Packet
  PROVE  Handled(Handled(v, p), p) = Handled(v, p)
<1> DEFINE w == Handled(v, p)
           x == Handled(w, p)
<1>1. w \in Views /\ x \in Views
  BY HandledType
<1>2. x.party = w.party /\ x.invite = w.invite
  <2>1. CASE IsInvite(p)
    BY <1>1, <2>1, InviteTold
  <2>2. CASE IsUpdate(p)
    BY <1>1, <2>2, UpdateTold
  <2>3. CASE p.type = "SC_PARTY_LEAVE"
    BY <1>1, <2>3, LeaveTold
  <2> QED BY <2>1, <2>2, <2>3, PacketTypes
<1> HIDE DEF w, x
<1>3. x = w
  BY <1>1, <1>2, SameView
<1> QED BY <1>3 DEF w, x

\* The queues, with all that may be in them.
Queues == [SessionId -> Seq(Packet)]

\* t is sent what goes to the vector m.
Gets(m, t) == t \in sessions /\ Lists(m, t)

\* A packet to every entry of a vector: a session that it lists handles it last,
\* once or several times, the others do not get it.
LEMMA SendToFacts ==
  ASSUME NEW q \in Queues, NEW m, IsFiniteSet(m), NEW p \in Packet,
         NEW t \in SessionId, NEW v \in Views
  PROVE  /\ SendTo(q, m, p) \in Queues
         /\ Gets(m, t) => R!After(v, SendTo(q, m, p)[t]) = Handled(R!After(v, q[t]), p)
         /\ ~Gets(m, t) => SendTo(q, m, p)[t] = q[t]
<1> DEFINE n(u) == Cardinality(Copies(m, u))
           rep(u) == [k \in 1..n(u) |-> p]
<1>1. \A u : IsFiniteSet(Copies(m, u)) /\ n(u) \in Nat
  BY FS_Subset, FS_CardinalityType DEF Copies
<1>2. \A u : n(u) = 0 <=> ~Lists(m, u)
  <2>1. \A u : Copies(m, u) = {} <=> ~Lists(m, u)
    BY DEF Copies, Lists
  <2> QED BY <1>1, <2>1, FS_EmptySet
<1>3. \A u : rep(u) \in Seq(Packet)
  <2> SUFFICES ASSUME NEW u PROVE rep(u) \in Seq(Packet)
    OBVIOUS
  <2> DEFINE c == n(u)
  <2>1. c \in Nat
    BY <1>1
  <2> HIDE DEF c
  <2>2. [k \in 1..c |-> p] \in Seq(Packet)
    BY <2>1
  <2> QED BY <2>2 DEF c
<1>4. SendTo(q, m, p) = [u \in SessionId |-> IF u \in sessions THEN q[u] \o rep(u) ELSE q[u]]
  BY DEF SendTo
<1>5. \A u \in SessionId : q[u] \in Seq(Packet)
  BY DEF Queues
<1>6. \A u \in SessionId : q[u] \o rep(u) \in Seq(Packet)
  BY <1>3, <1>5, ConcatProperties
<1> DEFINE r == rep(t)
           c == n(t)
<1>7. r = [k \in 1..c |-> p] /\ c \in Nat /\ r \in Seq(Packet)
  BY <1>1, <1>3
<1>8. c = 0 <=> ~Lists(m, t)
  BY <1>2
<1>9. SendTo(q, m, p)[t] = IF t \in sessions THEN q[t] \o r ELSE q[t]
  BY <1>4
<1>10. SendTo(q, m, p) \in Queues
  <2> HIDE DEF rep, n
  <2> QED BY <1>4, <1>5, <1>6 DEF Queues
<1> HIDE DEF rep, n, r, c
<1>11. CASE Gets(m, t)
  <2> DEFINE w == R!After(v, q[t])
  <2>1. w \in Views
    BY <1>5, HandlersFit, R!FoldType
  <2>2. R!After(v, q[t] \o r) = R!After(w, r)
    BY <1>5, <1>7, HandlersFit, R!FoldConcat
  <2> HIDE DEF w
  <2>3. Handled(Handled(w, p), p) = Handled(w, p) /\ c # 0
    BY <1>8, <1>11, <2>1, Repetition DEF Gets
  <2>4. R!After(w, [k \in 1..c |-> p]) = IF c = 0 THEN w ELSE Handled(w, p)
    BY <1>7, <2>1, <2>3, HandlersFit, R!FoldRepeated
  <2>5. R!After(v, q[t] \o r) = Handled(w, p)
    BY <1>7, <2>2, <2>3, <2>4
  <2> QED BY <1>9, <1>10, <1>11, <2>5 DEF w, Gets
<1>12. CASE ~Gets(m, t)
  <2>1. CASE t \in sessions
    <3>1. r = <<>>
      BY <1>7, <1>8, <1>12, <2>1 DEF Gets
    <3>2. q[t] \o r = q[t]
      BY <1>5, <3>1, ConcatEmptySeq
    <3> QED BY <1>9, <1>10, <1>12, <3>2
  <2>2. CASE t \notin sessions
    BY <1>9, <1>10, <1>12, <2>2
  <2> QED BY <2>1, <2>2
<1> QED BY <1>11, <1>12

\* The packets of the server have their types.
LEMMA PacketKinds ==
  /\ \A m \in Members : PartyUpdate(m) \in Packet /\ IsUpdate(PartyUpdate(m)) /\ PartyUpdate(m).members = m
  /\ \A c \in MaybeChar : /\ PartyLeave(c) \in Packet
                          /\ PartyLeave(c).type = "SC_PARTY_LEAVE" /\ PartyLeave(c).charUid = c
  /\ \A s \in SessionId : PartyInvite(s) \in Packet /\ IsInvite(PartyInvite(s)) /\ PartyInvite(s).inviter = s
  BY DEF Packet, Members, PartyUpdate, PartyLeave, PartyInvite, IsUpdate, IsInvite

\* w shows the party m, or what v shows if the session is not told; the question
\* on the screen is the same.
ShowsParty(v, w, told, m) ==
    /\ w \in Views
    /\ w.party = IF told THEN m ELSE v.party
    /\ w.invite = v.invite

\* SendPartyUpdate.
LEMMA UpdateSent ==
  ASSUME NEW q \in Queues, NEW m \in Members, IsFiniteSet(m), NEW t \in SessionId, NEW v \in Views
  PROVE  /\ SendPartyUpdate(q, m) \in Queues
         /\ ShowsParty(R!After(v, q[t]), R!After(v, SendPartyUpdate(q, m)[t]), Gets(m, t), m)
         /\ ~Gets(m, t) => SendPartyUpdate(q, m)[t] = q[t]
<1> DEFINE p == PartyUpdate(m)
           w == R!After(v, q[t])
<1>1. p \in Packet /\ IsUpdate(p) /\ p.members = m
  BY PacketKinds
<1>2. w \in Views
  BY HandlersFit, R!FoldType DEF Queues
<1> HIDE DEF p, w
<1>3. SendPartyUpdate(q, m) = SendTo(q, m, p)
  BY DEF SendPartyUpdate, p
<1>4. /\ SendTo(q, m, p) \in Queues
      /\ Gets(m, t) => R!After(v, SendTo(q, m, p)[t]) = Handled(w, p)
      /\ ~Gets(m, t) => SendTo(q, m, p)[t] = q[t]
  BY <1>1, SendToFacts DEF w
<1>5. Handled(w, p) \in Views /\ Handled(w, p).party = m /\ Handled(w, p).invite = w.invite
  BY <1>1, <1>2, UpdateTold
<1> QED BY <1>2, <1>3, <1>4, <1>5 DEF ShowsParty, w

\* SC_PARTY_LEAVE of c.
LEMMA LeaveSent ==
  ASSUME NEW q \in Queues, NEW m, IsFiniteSet(m), NEW c \in MaybeChar, NEW t \in SessionId, NEW v \in Views
  PROVE  /\ SendTo(q, m, PartyLeave(c)) \in Queues
         /\ ShowsParty(R!After(v, q[t]), R!After(v, SendTo(q, m, PartyLeave(c))[t]),
                       Gets(m, t) /\ c = NoChar, {})
         /\ ~Gets(m, t) => SendTo(q, m, PartyLeave(c))[t] = q[t]
<1> DEFINE p == PartyLeave(c)
           w == R!After(v, q[t])
<1>1. p \in Packet /\ p.type = "SC_PARTY_LEAVE" /\ p.charUid = c
  BY PacketKinds
<1>2. w \in Views
  BY HandlersFit, R!FoldType DEF Queues
<1> HIDE DEF p, w
<1>4. /\ SendTo(q, m, p) \in Queues
      /\ Gets(m, t) => R!After(v, SendTo(q, m, p)[t]) = Handled(w, p)
      /\ ~Gets(m, t) => SendTo(q, m, p)[t] = q[t]
  BY <1>1, SendToFacts DEF w
<1>5. /\ Handled(w, p) \in Views
      /\ Handled(w, p).party = IF c = NoChar THEN {} ELSE w.party
      /\ Handled(w, p).invite = w.invite
  BY <1>1, <1>2, LeaveTold
<1> QED BY <1>2, <1>4, <1>5 DEF ShowsParty, w, p

\* What RemoveFromParty tells those who stay: they show the members left, or no
\* party if it is disbanded, whether the one that left had a character or not.
LEMMA RestIsTold ==
  ASSUME NEW q \in Queues, NEW s \in SessionId, charUid[s] \in MaybeChar,
         NEW m \in Members, IsFiniteSet(m), NEW t \in SessionId, NEW v \in Views
  PROVE  /\ TellRest(q, s, m) \in Queues
         /\ ShowsParty(R!After(v, q[t]), R!After(v, TellRest(q, s, m)[t]),
                       Gets(m, t), IF Cardinality(m) <= 1 THEN {} ELSE m)
         /\ ~Gets(m, t) => TellRest(q, s, m)[t] = q[t]
<1> DEFINE left == SendTo(q, m, PartyLeave(charUid[s]))
           w == R!After(v, q[t])
           x == R!After(v, left[t])
<1>1. /\ left \in Queues
      /\ ShowsParty(w, x, Gets(m, t) /\ charUid[s] = NoChar, {})
      /\ ~Gets(m, t) => left[t] = q[t]
  BY LeaveSent
<1>2. TellRest(q, s, m) = IF Cardinality(m) <= 1 THEN SendTo(left, m, PartyLeave(NoChar))
                          ELSE SendPartyUpdate(left, m)
  BY DEF TellRest
<1> HIDE DEF left
<1>3. CASE Cardinality(m) <= 1
  <2> DEFINE r == SendTo(left, m, PartyLeave(NoChar))
             y == R!After(v, r[t])
  <2>1. NoChar \in MaybeChar
    BY DEF MaybeChar
  <2>2. /\ r \in Queues /\ ShowsParty(x, y, Gets(m, t) /\ NoChar = NoChar, {})
        /\ ~Gets(m, t) => r[t] = left[t]
    BY <1>1, <2>1, LeaveSent
  <2>3. TellRest(q, s, m) = r
    BY <1>2, <1>3
  <2> HIDE DEF r, w, x
  <2>4. ShowsParty(w, y, Gets(m, t), {})
    BY <1>1, <2>2 DEF ShowsParty
  <2> QED BY <1>1, <1>3, <2>2, <2>3, <2>4 DEF w
<1>4. CASE ~(Cardinality(m) <= 1)
  <2> DEFINE r == SendPartyUpdate(left, m)
             y == R!After(v, r[t])
  <2>2. /\ r \in Queues /\ ShowsParty(x, y, Gets(m, t), m)
        /\ ~Gets(m, t) => r[t] = left[t]
    BY <1>1, UpdateSent
  <2>3. TellRest(q, s, m) = r
    BY <1>2, <1>4
  <2> HIDE DEF r, w, x
  <2>4. ShowsParty(w, y, Gets(m, t), m)
    BY <1>1, <2>2 DEF ShowsParty
  <2> QED BY <1>1, <1>4, <2>2, <2>3, <2>4 DEF w
<1> QED BY <1>3, <1>4

-----------------------------------------------------------------------------
(* Party and invitation are shown independently of each other. *)

\* Two pictures with the same question have the same after the same packets.
LEMMA SameInvite ==
  ASSUME NEW v \in Views, NEW w \in Views, NEW s \in Seq(Packet), v.invite = w.invite
  PROVE  R!After(v, s).invite = R!After(w, s).invite
<1> DEFINE Same == {z \in Views \X Views : z[1].invite = z[2].invite}
<1>1. <<v, w>> \in Same
  OBVIOUS
<1>2. ASSUME NEW k \in 1..Len(s), NEW x \in Views, NEW y \in Views, <<x, y>> \in Same
      PROVE  <<Handled(x, s[k]), Handled(y, s[k])>> \in Same
  <2> DEFINE p == s[k]
  <2>1. p \in Packet /\ x.invite = y.invite
    BY <1>2
  <2> HIDE DEF p
  <2>2. Handled(x, p).invite = Handled(y, p).invite
    BY <2>1, PacketTypes, InviteTold, UpdateTold, LeaveTold
  <2>3. Handled(x, p) \in Views /\ Handled(y, p) \in Views
    BY <2>1, HandledType
  <2> QED BY <2>2, <2>3 DEF p
<1> DEFINE a == R!After(v, s)
           b == R!After(w, s)
<1>3. <<a, b>> \in Same
  <2> HIDE DEF Same
  <2> QED BY <1>1, <1>2, HandlersFit, R!FoldRelation
<1> HIDE DEF a, b
<1>4. a.invite = b.invite
  BY <1>3
<1> QED BY <1>4 DEF a, b

\* Likewise for the party.
LEMMA SameParty ==
  ASSUME NEW v \in Views, NEW w \in Views, NEW s \in Seq(Packet), v.party = w.party
  PROVE  R!After(v, s).party = R!After(w, s).party
<1> DEFINE Same == {z \in Views \X Views : z[1].party = z[2].party}
<1>1. <<v, w>> \in Same
  OBVIOUS
<1>2. ASSUME NEW k \in 1..Len(s), NEW x \in Views, NEW y \in Views, <<x, y>> \in Same
      PROVE  <<Handled(x, s[k]), Handled(y, s[k])>> \in Same
  <2> DEFINE p == s[k]
  <2>1. p \in Packet /\ x.party = y.party
    BY <1>2
  <2> HIDE DEF p
  <2>2. Handled(x, p).party = Handled(y, p).party
    BY <2>1, PacketTypes, InviteTold, UpdateTold, LeaveTold
  <2>3. Handled(x, p) \in Views /\ Handled(y, p) \in Views
    BY <2>1, HandledType
  <2> QED BY <2>2, <2>3 DEF p
<1> DEFINE a == R!After(v, s)
           b == R!After(w, s)
<1>3. <<a, b>> \in Same
  <2> HIDE DEF Same
  <2> QED BY <1>1, <1>2, HandlersFit, R!FoldRelation
<1> HIDE DEF a, b
<1>4. a.party = b.party
  BY <1>3
<1> QED BY <1>4 DEF a, b

\* Without an SC_PARTY_UPDATE under way a client that shows no party stays so.
LEMMA NoUpdateNoParty ==
  ASSUME NEW v \in Views, NEW s \in Seq(Packet), v.party = {}, \A p \in Range(s) : ~IsUpdate(p)
  PROVE  R!After(v, s).party = {}
<1> DEFINE None == {z \in Nat \X Views : z[2].party = {}}
<1>1. <<0, v>> \in None
  OBVIOUS
<1>2. ASSUME NEW k \in 1..Len(s), NEW x \in Views, <<k - 1, x>> \in None
      PROVE  <<k, Handled(x, s[k])>> \in None
  <2> DEFINE p == s[k]
  <2>1. p \in Packet /\ p \in Range(s) /\ x.party = {} /\ k \in Nat
    BY <1>2 DEF Range
  <2> HIDE DEF p
  <2>2. Handled(x, p).party = {}
    BY <2>1, PacketTypes, InviteTold, LeaveTold
  <2>3. Handled(x, p) \in Views
    BY <2>1, HandledType
  <2> QED BY <2>1, <2>2, <2>3 DEF p
<1> DEFINE a == R!After(v, s)
<1>3. <<Len(s), a>> \in None
  <2> HIDE DEF None
  <2> QED BY <1>1, <1>2, HandlersFit, R!FoldInduction
<1> HIDE DEF a
<1>4. a.party = {}
  BY <1>3
<1> QED BY <1>4 DEF a

\* Without an SC_PARTY_INVITE under way the question on the screen stays.
LEMMA NoInviteSameQuestion ==
  ASSUME NEW v \in Views, NEW s \in Seq(Packet), \A p \in Range(s) : ~IsInvite(p)
  PROVE  R!After(v, s).invite = v.invite
<1> DEFINE Kept == {z \in Nat \X Views : z[2].invite = v.invite}
<1>1. <<0, v>> \in Kept
  OBVIOUS
<1>2. ASSUME NEW k \in 1..Len(s), NEW x \in Views, <<k - 1, x>> \in Kept
      PROVE  <<k, Handled(x, s[k])>> \in Kept
  <2> DEFINE p == s[k]
  <2>1. p \in Packet /\ p \in Range(s) /\ x.invite = v.invite /\ k \in Nat
    BY <1>2 DEF Range
  <2> HIDE DEF p
  <2>2. Handled(x, p).invite = v.invite
    BY <2>1, PacketTypes, UpdateTold, LeaveTold
  <2>3. Handled(x, p) \in Views
    BY <2>1, HandledType
  <2> QED BY <2>1, <2>2, <2>3 DEF p
<1> DEFINE a == R!After(v, s)
<1>3. <<Len(s), a>> \in Kept
  <2> HIDE DEF Kept
  <2> QED BY <1>1, <1>2, HandlersFit, R!FoldInduction
<1> HIDE DEF a
<1>4. a.invite = v.invite
  BY <1>3
<1> QED BY <1>4 DEF a

-----------------------------------------------------------------------------
(* The inductive invariant. *)

\* mixed is set as soon as a session is listed twice.
MixedInv == ~mixed => OnePartyEach

\* Nothing is shown to, and nothing under way to, a session that is not there.
IdleInv == \A s \in SessionId \ sessions : queue[s] = <<>> /\ view[s] = NewView

VInv == IInv /\ ViewTypeOK /\ MixedInv /\ IdleInv /\ PartyShown /\ InviteShown

\* The types of the client's variables, in the words of this module.
ClientTypes == queue \in Queues /\ view \in [SessionId -> Views]
               /\ hurried \in [SessionId -> BOOLEAN] /\ mixed \in BOOLEAN

\* They are those of ViewTypeOK.
LEMMA ViewTypes == ViewTypeOK <=> TypeOK /\ ClientTypes
  BY DEF ViewTypeOK, ClientTypes, Queues, Views, Members

\* Likewise after a step.
LEMMA ViewTypesNext == ViewTypeOK' <=> TypeOK' /\ ClientTypes'
  BY DEF ViewTypeOK, ClientTypes, Queues, Views, Members

\* A vector that is finite, well numbered and of a legal size fits into a packet:
\* the copies of a session are numbered without a gap.
LEMMA VectorFits ==
  ASSUME NEW m, m \subseteq Entry, IsFiniteSet(m), WellNumbered(m),
         m # {} => Cardinality(m) \in 2..MAX_PARTY
  PROVE  m \in Members
<1>1. ASSUME NEW e \in m PROVE e \in SessionId \X (1..MAX_PARTY)
  <2>1. Cardinality(m) \in 2..MAX_PARTY /\ e \in Entry /\ e[2] \in 1..Cardinality(Copies(m, e[1]))
    BY DEF WellNumbered
  <2>2. Copies(m, e[1]) \subseteq m
    BY DEF Copies
  <2>3. /\ Cardinality(Copies(m, e[1])) \in Nat /\ Cardinality(m) \in Nat
        /\ Cardinality(Copies(m, e[1])) <= Cardinality(m)
    BY <2>2, FS_Subset, FS_CardinalityType
  <2>4. e[2] \in 1..MAX_PARTY
    BY <2>1, <2>3, PartyAssumption
  <2> QED BY <2>1, <2>4 DEF Entry
<1> QED BY <1>1 DEF Members

\* Those of the parties are.
LEMMA VectorsFit ==
  ASSUME IInv PROVE \A p \in PartyId : parties[p] \in Members /\ IsFiniteSet(parties[p])
  BY VectorFits DEF IInv, TypeOK, VectorInv

\* Also after a step.
LEMMA VectorsFitNext ==
  ASSUME IInv' PROVE \A p \in PartyId : parties'[p] \in Members /\ IsFiniteSet(parties'[p])
  BY VectorFits DEF IInv, TypeOK, VectorInv

\* The packets of RemoveFromParty: those who stay will show what is left of their
\* party, the others what they would have shown anyhow.
LEMMA LeavingIsTold ==
  ASSUME VInv, NEW s \in SessionId, RemoveFromParty(s), NEW t \in SessionId
  PROVE  /\ ToldOfLeaving(s) \in Queues
         /\ ToldOfLeaving(s)[s] = queue[s]
         /\ t \notin sessions => ToldOfLeaving(s)[t] = queue[t]
         /\ R!After(view[t], ToldOfLeaving(s)[t]).invite = R!After(view[t], queue[t]).invite
         /\ ~mixed /\ t \in sessions /\ t # s =>
              LET v == R!After(view[t], ToldOfLeaving(s)[t])
              IN  IF playerParty'[t] # NoParty THEN v.party = parties'[playerParty'[t]]
                  ELSE v.party = {} \/ hurried[t]
<1> DEFINE w == R!After(view[t], queue[t])
<1>0. /\ queue \in Queues /\ view[t] \in Views /\ charUid[s] \in MaybeChar
      /\ playerParty[s] # NoParty => playerParty[s] \in PartyId
      /\ playerParty[t] # NoParty => playerParty[t] \in PartyId
  BY ViewTypes DEF VInv, ClientTypes, TypeOK, SessionTypeOK
<1>1. /\ ~mixed => OnePartyEach
      /\ ~mixed /\ t \in sessions =>
            IF playerParty[t] # NoParty THEN w.party = parties[playerParty[t]]
            ELSE w.party = {} \/ hurried[t]
  BY CaughtUpIsFold DEF VInv, MixedInv, PartyShown
<1>2. CASE playerParty[s] = NoParty
  <2>1. ToldOfLeaving(s) = queue /\ parties' = parties /\ playerParty' = playerParty
    BY <1>2 DEF ToldOfLeaving, RemoveFromParty
  <2> QED BY <1>0, <1>1, <2>1
<1>3. CASE playerParty[s] # NoParty
  <2> DEFINE p == playerParty[s]
             m == parties[p]
             rest == remove(m, s)
             q == ToldOfLeaving(s)
             v == R!After(view[t], q[t])
             left == IF Cardinality(rest) <= 1 THEN {} ELSE rest
  <2>1. p \in PartyId /\ m \in Members /\ IsFiniteSet(m)
    BY <1>0, <1>3, VectorsFit DEF VInv
  <2>2. rest \in Members /\ IsFiniteSet(rest) /\ ~Lists(rest, s)
    <3> HIDE DEF m
    <3>1. rest \subseteq m
      BY DEF remove
    <3> QED BY <2>1, <3>1, FS_Subset DEF Members, remove, Lists
  <2>3. q = TellRest(queue, s, rest)
    BY <1>3 DEF ToldOfLeaving
  <2>4. /\ parties' = [parties EXCEPT ![p] = left]
        /\ playerParty' = [u \in SessionId |-> IF u \in Erased(s, rest) THEN NoParty ELSE playerParty[u]]
    BY <1>3 DEF RemoveFromParty
  <2>5. /\ parties'[p] = left
        /\ \A r \in PartyId : r # p => parties'[r] = parties[r]
    <3>1. parties \in [PartyId -> SUBSET Entry]
      BY DEF VInv, IInv, TypeOK
    <3> HIDE DEF left, p
    <3> QED BY <2>1, <2>4, <3>1
  <2>6. ~mixed => \A e \in m : playerParty[e[1]] = p
    BY <1>1, <2>1 DEF OnePartyEach
  <2>7. playerParty[t] = p /\ t # s => Lists(rest, t)
    BY <1>0, <1>3 DEF VInv, IInv, MapInv, Lists, remove
  <2>8. Lists(rest, t) => \E e \in m : e[1] = t
    BY DEF Lists, remove
  <2>9. playerParty'[t] = IF t = s \/ (Cardinality(rest) <= 1 /\ Lists(rest, t)) THEN NoParty ELSE playerParty[t]
    BY <2>4 DEF Erased, Lists
  <2> HIDE DEF rest, m
  <2>10. /\ TellRest(queue, s, rest) \in Queues
         /\ ShowsParty(w, R!After(view[t], TellRest(queue, s, rest)[t]), Gets(rest, t), left)
         /\ ~Gets(rest, t) => TellRest(queue, s, rest)[t] = queue[t]
    BY <1>0, <2>2, RestIsTold
  <2>11. TellRest(queue, s, rest)[s] = queue[s]
    <3>1. view[s] \in Views /\ ~Gets(rest, s)
      BY <2>2, ViewTypes DEF VInv, ClientTypes, Gets
    <3> QED BY <1>0, <2>2, <3>1, RestIsTold
  <2>12. q \in Queues /\ q[s] = queue[s] /\ ShowsParty(w, v, Gets(rest, t), left)
         /\ (t \notin sessions => q[t] = queue[t])
    BY <2>3, <2>10, <2>11 DEF Gets
  <2>13. ASSUME ~mixed, t \in sessions, t # s
         PROVE  IF playerParty'[t] # NoParty THEN v.party = parties'[playerParty'[t]]
                ELSE v.party = {} \/ hurried[t]
    <3> HIDE DEF q, v, w
    <3>1. CASE Lists(rest, t)
      <4>1. v.party = left /\ playerParty[t] = p
        BY <2>6, <2>8, <2>12, <2>13, <3>1 DEF ShowsParty, Gets
      <4>2. playerParty'[t] = IF Cardinality(rest) <= 1 THEN NoParty ELSE p
        BY <2>9, <2>13, <3>1, <4>1
      <4> QED BY <1>3, <2>5, <4>1, <4>2
    <3>2. CASE ~Lists(rest, t)
      <4>1. v.party = w.party /\ playerParty'[t] = playerParty[t] /\ playerParty[t] # p
        BY <2>7, <2>9, <2>12, <2>13, <3>2 DEF ShowsParty, Gets
      <4>2. playerParty[t] # NoParty => parties'[playerParty[t]] = parties[playerParty[t]]
        BY <1>0, <2>5, <4>1
      <4> QED BY <1>1, <2>13, <4>1, <4>2
    <3> QED BY <3>1, <3>2
  <2> QED BY <2>12, <2>13 DEF ShowsParty
<1> QED BY <1>2, <1>3

\* What the history of double listings makes of a step.
LEMMA ListedFacts ==
  ASSUME mixed \in BOOLEAN, Listed
  PROVE  mixed' \in BOOLEAN /\ MixedInv' /\ (~mixed' => ~mixed)
  BY DEF Listed, MixedInv

\* P, to leave: the client forgets its party at once, and shows one again only if
\* an SC_PARTY_UPDATE is under way.
LEMMA LeaveKeyStep ==
  ASSUME VInv, NEW s \in SessionId, LeaveKey(s)
  PROVE  VInv'
<1>1. /\ s \in sessions /\ OnPartyLeave(s) /\ RemoveFromParty(s)
      /\ UNCHANGED <<sessions, pendingInvites>>
      /\ queue' = ToldOfLeaving(s)
      /\ view' = [view EXCEPT ![s].party = {}]
      /\ hurried' = [hurried EXCEPT ![s] = \E p \in Range(queue[s]) : IsUpdate(p)]
      /\ Listed
  BY DEF LeaveKey, Key, OnPartyLeave, sessionVars
<1>2. /\ queue \in Queues /\ view \in [SessionId -> Views] /\ mixed \in BOOLEAN
      /\ hurried \in [SessionId -> BOOLEAN] /\ sessions \subseteq SessionId
  BY ViewTypes DEF VInv, ClientTypes, TypeOK, SessionTypeOK
<1>3. IInv'
  BY <1>1, LeaveStep DEF VInv
<1>4. mixed' \in BOOLEAN /\ MixedInv' /\ (~mixed' => ~mixed)
  BY <1>1, <1>2, ListedFacts
<1> DEFINE new == [view[s] EXCEPT !.party = {}]
<1>5. /\ view' \in [SessionId -> Views] /\ view'[s] = new /\ new \in Views
      /\ new.party = {} /\ new.invite = view[s].invite
      /\ \A t \in SessionId : t # s => view'[t] = view[t]
  <2>1. new \in Views /\ new.party = {} /\ new.invite = view[s].invite
    <3>1. view[s] \in Views /\ {} \in Members
      BY <1>2 DEF Members
    <3> QED BY <3>1 DEF Views
  <2>2. view' = [view EXCEPT ![s] = new]
    BY <1>1, <1>2
  <2> HIDE DEF new
  <2> QED BY <1>2, <2>1, <2>2
<1> HIDE DEF new
<1>6. /\ hurried' \in [SessionId -> BOOLEAN] /\ (hurried'[s] <=> \E p \in Range(queue[s]) : IsUpdate(p))
      /\ \A t \in SessionId : t # s => hurried'[t] = hurried[t]
  BY <1>1, <1>2
<1>7. queue' \in Queues /\ queue'[s] = queue[s]
  BY <1>1, LeavingIsTold
<1>8. ViewTypeOK'
  BY <1>3, <1>4, <1>5, <1>6, <1>7, ViewTypesNext DEF ClientTypes, IInv
<1>9. IdleInv'
  BY <1>1, <1>5, LeavingIsTold DEF IdleInv, VInv
<1>10. PartyShown'
  <2> SUFFICES ASSUME ~mixed', NEW t \in sessions'
               PROVE  IF playerParty'[t] # NoParty THEN CaughtUp(t)'.party = parties'[playerParty'[t]]
                      ELSE CaughtUp(t)'.party = {} \/ hurried'[t]
    BY DEF PartyShown
  <2>1. t \in SessionId /\ t \in sessions
    BY <1>1, <1>2
  <2>2. CASE t = s
    <3>1. playerParty'[s] = NoParty
      BY <1>1, RemoveFromPartyFacts DEF VInv
    <3>2. ~hurried'[s] => R!After(view'[s], queue'[s]).party = {}
      BY <1>2, <1>5, <1>6, <1>7, NoUpdateNoParty DEF Queues
    <3> QED BY <2>2, <3>1, <3>2, CaughtUpNext
  <2>3. CASE t # s
    BY <1>1, <1>4, <1>5, <1>6, <2>1, <2>3, CaughtUpNext, LeavingIsTold
  <2> QED BY <2>2, <2>3
<1>11. InviteShown'
  <2> SUFFICES ASSUME NEW t \in sessions', pendingInvites'[t] # INVALID_SESSION
               PROVE  CaughtUp(t)'.invite = pendingInvites'[t]
    BY DEF InviteShown
  <2>1. t \in SessionId /\ t \in sessions /\ pendingInvites'[t] = pendingInvites[t]
    BY <1>1, <1>2
  <2>2. R!After(view[t], queue[t]).invite = pendingInvites[t]
    BY <2>1, CaughtUpIsFold DEF VInv, InviteShown
  <2>3. R!After(view'[t], queue'[t]).invite = R!After(view[t], queue'[t]).invite
    <3>1. view'[t] \in Views /\ view[t] \in Views /\ queue'[t] \in Seq(Packet)
      BY <1>2, <1>5, <1>7, <2>1 DEF Queues
    <3>2. view'[t].invite = view[t].invite
      BY <1>5, <2>1
    <3> QED BY <3>1, <3>2, SameInvite
  <2> QED BY <1>1, <2>1, <2>2, <2>3, CaughtUpNext, LeavingIsTold
<1> QED BY <1>3, <1>4, <1>8, <1>9, <1>10, <1>11 DEF VInv

\* The end of a session: those it was in a party with are told as if it had left.
LEMMA EndsStep ==
  ASSUME VInv, NEW s \in SessionId, Ends(s)
  PROVE  VInv'
<1>1. /\ s \in sessions /\ OnDisconnect(s) /\ RemoveFromParty(s)
      /\ sessions' = sessions \ {s}
      /\ pendingInvites' = [pendingInvites EXCEPT ![s] = INVALID_SESSION]
      /\ queue' = [ToldOfLeaving(s) EXCEPT ![s] = <<>>]
      /\ view' = [view EXCEPT ![s] = NewView]
      /\ hurried' = [hurried EXCEPT ![s] = FALSE]
      /\ Listed
  BY DEF Ends, OnDisconnect, OnPlayerDisconnect, DropInvite, RemoveSession
<1>2. /\ view \in [SessionId -> Views] /\ mixed \in BOOLEAN
      /\ hurried \in [SessionId -> BOOLEAN] /\ sessions \subseteq SessionId
      /\ pendingInvites \in [SessionId -> SessionId \cup {INVALID_SESSION}]
  BY ViewTypes DEF VInv, ClientTypes, TypeOK, SessionTypeOK
<1>3. IInv'
  BY <1>1, DisconnectStep DEF VInv
<1>4. mixed' \in BOOLEAN /\ MixedInv' /\ (~mixed' => ~mixed)
  BY <1>1, <1>2, ListedFacts
<1>5. NewView \in Views
  BY DEF NewView, Views, Members
<1>6. ToldOfLeaving(s) \in Queues
  BY <1>1, LeavingIsTold
<1>7. /\ view' \in [SessionId -> Views] /\ view'[s] = NewView
      /\ hurried' \in [SessionId -> BOOLEAN]
      /\ queue' \in Queues /\ queue'[s] = <<>>
  <2>1. <<>> \in Seq(Packet)
    OBVIOUS
  <2> QED BY <1>1, <1>2, <1>5, <1>6, <2>1 DEF Queues
<1>8. ASSUME NEW t \in SessionId, t # s
      PROVE  /\ view'[t] = view[t] /\ hurried'[t] = hurried[t] /\ queue'[t] = ToldOfLeaving(s)[t]
             /\ pendingInvites'[t] = pendingInvites[t]
  BY <1>1, <1>2, <1>6, <1>8 DEF Queues
<1>9. ViewTypeOK'
  BY <1>3, <1>4, <1>7, ViewTypesNext DEF ClientTypes, IInv
<1>10. IdleInv'
  <2> SUFFICES ASSUME NEW t \in SessionId \ sessions' PROVE queue'[t] = <<>> /\ view'[t] = NewView
    BY DEF IdleInv
  <2>1. CASE t = s
    BY <1>7, <2>1
  <2>2. CASE t # s
    <3>1. t \notin sessions
      BY <1>1, <2>2
    <3>2. queue[t] = <<>> /\ view[t] = NewView
      BY <3>1 DEF VInv, IdleInv
    <3> QED BY <1>1, <1>8, <2>2, <3>1, <3>2, LeavingIsTold
  <2> QED BY <2>1, <2>2
<1>11. PartyShown'
  <2> SUFFICES ASSUME ~mixed', NEW t \in sessions'
               PROVE  IF playerParty'[t] # NoParty THEN CaughtUp(t)'.party = parties'[playerParty'[t]]
                      ELSE CaughtUp(t)'.party = {} \/ hurried'[t]
    BY DEF PartyShown
  <2>1. t \in SessionId /\ t \in sessions /\ t # s
    BY <1>1, <1>2
  <2>2. CaughtUp(t)' = R!After(view[t], ToldOfLeaving(s)[t]) /\ hurried'[t] = hurried[t] /\ ~mixed
    BY <1>4, <1>8, <2>1, CaughtUpNext
  <2>3. RemoveFromParty(s)
    BY <1>1
  <2> DEFINE v == R!After(view[t], ToldOfLeaving(s)[t])
  <2>4. IF playerParty'[t] # NoParty THEN v.party = parties'[playerParty'[t]]
        ELSE v.party = {} \/ hurried[t]
    BY <2>1, <2>2, <2>3, LeavingIsTold
  <2> HIDE DEF v
  <2>5. CaughtUp(t)' = v
    BY <2>2 DEF v
  <2> QED BY <2>2, <2>4, <2>5
<1>12. InviteShown'
  <2> SUFFICES ASSUME NEW t \in sessions', pendingInvites'[t] # INVALID_SESSION
               PROVE  CaughtUp(t)'.invite = pendingInvites'[t]
    BY DEF InviteShown
  <2>1. t \in SessionId /\ t \in sessions /\ t # s
    BY <1>1, <1>2
  <2>2. pendingInvites'[t] = pendingInvites[t]
    BY <1>8, <2>1
  <2>3. R!After(view[t], queue[t]).invite = pendingInvites[t]
    BY <2>1, <2>2, CaughtUpIsFold DEF VInv, InviteShown
  <2> QED BY <1>1, <1>8, <2>1, <2>2, <2>3, CaughtUpNext, LeavingIsTold
<1> QED BY <1>3, <1>4, <1>9, <1>10, <1>11, <1>12 DEF VInv

\* The picture of a session whose question is gone from the screen.
LEMMA AnswerFacts ==
  ASSUME view \in [SessionId -> Views], NEW s \in SessionId,
         view' = [view EXCEPT ![s].invite = INVALID_SESSION]
  PROVE  /\ view' \in [SessionId -> Views]
         /\ \A t \in SessionId : view'[t].party = view[t].party
         /\ \A t \in SessionId : t # s => view'[t] = view[t]
         /\ view'[s].invite = INVALID_SESSION
<1> DEFINE new == [view[s] EXCEPT !.invite = INVALID_SESSION]
<1>1. new \in Views /\ new.party = view[s].party /\ new.invite = INVALID_SESSION
  <2>1. view[s] \in Views
    OBVIOUS
  <2> QED BY <2>1 DEF Views
<1>2. view' = [view EXCEPT ![s] = new]
  OBVIOUS
<1> HIDE DEF new
<1> QED BY <1>1, <1>2

\* N, or Y in vain.
LEMMA DeclineStep ==
  ASSUME VInv, NEW s \in SessionId, DeclineKey(s)
  PROVE  VInv'
<1>1. /\ s \in sessions /\ view' = [view EXCEPT ![s].invite = INVALID_SESSION]
      /\ Declined(s) /\ UNCHANGED <<queue, hurried, mixed>>
  BY DEF DeclineKey, AnswerKey, Key
<1>2. IInv'
  <2>1. PartyInviteDropped(s) => Next
    BY DEF Next, OnPartyAccept
  <2> QED BY <1>1, <2>1, NextIInv DEF VInv, Declined
<1>3. /\ queue \in Queues /\ view \in [SessionId -> Views] /\ mixed \in BOOLEAN
      /\ hurried \in [SessionId -> BOOLEAN] /\ sessions \subseteq SessionId
      /\ pendingInvites \in [SessionId -> SessionId \cup {INVALID_SESSION}]
  BY ViewTypes DEF VInv, ClientTypes, TypeOK, SessionTypeOK
<1>4. UNCHANGED <<sessions, parties, playerParty, queue, hurried, mixed>>
  BY <1>1 DEF Declined, PartyInviteDropped, vars, sessionVars
<1>5. /\ pendingInvites'[s] = INVALID_SESSION
      /\ \A t \in SessionId : t # s => pendingInvites'[t] = pendingInvites[t]
  BY <1>1, <1>3 DEF Declined, PartyInviteDropped, vars
<1>6. /\ view' \in [SessionId -> Views]
      /\ \A t \in SessionId : view'[t].party = view[t].party
      /\ \A t \in SessionId : t # s => view'[t] = view[t]
  BY <1>1, <1>3, AnswerFacts
<1>7. ViewTypeOK'
  BY <1>2, <1>3, <1>4, <1>6, ViewTypesNext DEF ClientTypes, IInv
<1>8. MixedInv'
  BY <1>4 DEF VInv, MixedInv, OnePartyEach
<1>9. IdleInv'
  BY <1>1, <1>4, <1>6 DEF VInv, IdleInv
<1>10. PartyShown'
  <2> SUFFICES ASSUME ~mixed', NEW t \in sessions'
               PROVE  IF playerParty'[t] # NoParty THEN CaughtUp(t)'.party = parties'[playerParty'[t]]
                      ELSE CaughtUp(t)'.party = {} \/ hurried'[t]
    BY DEF PartyShown
  <2>1. t \in SessionId /\ t \in sessions /\ ~mixed
    BY <1>3, <1>4
  <2>2. /\ view'[t] \in Views /\ view[t] \in Views /\ queue[t] \in Seq(Packet)
        /\ view'[t].party = view[t].party
    BY <1>3, <1>6, <2>1 DEF Queues
  <2>3. R!After(view'[t], queue[t]).party = R!After(view[t], queue[t]).party
    BY <2>2, SameParty
  <2>4. CaughtUp(t)'.party = CaughtUp(t).party
    BY <1>4, <2>3, CaughtUpIsFold, CaughtUpNext
  <2> QED BY <1>4, <2>1, <2>4 DEF VInv, PartyShown
<1>11. InviteShown'
  <2> SUFFICES ASSUME NEW t \in sessions', pendingInvites'[t] # INVALID_SESSION
               PROVE  CaughtUp(t)'.invite = pendingInvites'[t]
    BY DEF InviteShown
  <2>1. t \in SessionId /\ t \in sessions /\ t # s
    BY <1>3, <1>4, <1>5
  <2>2. CaughtUp(t)' = CaughtUp(t) /\ pendingInvites'[t] = pendingInvites[t]
    BY <1>4, <1>5, <1>6, <2>1, CaughtUpIsFold, CaughtUpNext
  <2> QED BY <2>1, <2>2 DEF VInv, InviteShown
<1> QED BY <1>2, <1>7, <1>8, <1>9, <1>10, <1>11 DEF VInv

\* Joining, as the clients need it: either the party p takes the caller in, its
\* vector is m afterwards and everyone else's party is as before, or it is full
\* and no table of the parties changes.
LEMMA JoinTables ==
  ASSUME IInv, NEW s \in SessionId, PartyJoin(s)
  PROVE  /\ pendingInvites[s] \in sessions /\ pendingInvites[s] \in SessionId
         /\ \/ /\ parties' = parties /\ playerParty' = playerParty
            \/ /\ parties' # parties
               /\ \E p \in PartyId :
                     /\ playerParty'[s] = p
                     /\ Lists(parties'[p], s) /\ Lists(parties'[p], pendingInvites[s])
                     /\ \A q \in PartyId : q # p => parties'[q] = parties[q]
                     /\ \A t \in SessionId : ~Lists(parties'[p], t) =>
                           playerParty'[t] = playerParty[t] /\ playerParty[t] # p
<1> USE SessionAssumption, PartyAssumption
<1> DEFINE inviter == pendingInvites[s]
           isNew == playerParty[inviter] = NoParty
           p == IF isNew THEN nextPartyId ELSE playerParty[inviter]
           members == IF isNew THEN push_back({}, inviter) ELSE parties[p]
           joined == IF HasRoom(members) THEN {s, inviter} ELSE {inviter}
           after == IF HasRoom(members) THEN push_back(members, s) ELSE members
<1>1. /\ inviter \in sessions
      /\ isNew => nextPartyId \in PartyId
      /\ parties' = [parties EXCEPT ![p] = after]
      /\ playerParty' = [t \in SessionId |-> IF t \in joined THEN p ELSE playerParty[t]]
  BY DEF PartyJoin
<1>2. /\ inviter \in SessionId /\ p \in PartyId
      /\ parties \in [PartyId -> SUBSET Entry]
      /\ playerParty \in [SessionId -> PartyId \cup {NoParty}]
  BY <1>1 DEF IInv, TypeOK, SessionTypeOK
<1>3. /\ members \subseteq Entry /\ IsFiniteSet(members) /\ WellNumbered(members)
      /\ Cardinality(members) \in Nat
      /\ isNew => Cardinality(members) = 1
      /\ Lists(members, inviter)
  <2>1. CASE isNew
    BY <1>2, <2>1, FounderFacts
  <2>2. CASE ~isNew
    <3>1. Lists(parties[p], inviter) /\ parties[p] # {}
      BY <1>2, <2>2 DEF IInv, MapInv, Lists
    <3>2. IsFiniteSet(parties[p]) /\ WellNumbered(parties[p]) /\ parties[p] \subseteq Entry
      BY <1>2 DEF IInv, TypeOK, VectorInv
    <3> QED BY <2>2, <3>1, <3>2, FS_CardinalityType
  <2> QED BY <2>1, <2>2
<1>4. isNew => parties[p] = {} /\ \A t \in SessionId : playerParty[t] # p
  BY <1>2 DEF IInv, MapInv, VectorInv, PartyId, NoParty
<1>5. ~isNew => members = parties[p] /\ \A t \in SessionId : playerParty[t] = p => Lists(members, t)
  BY <1>2 DEF IInv, MapInv
<1> HIDE DEF p, members
<1>6. CASE HasRoom(members)
  <2>1. /\ Cardinality(after) = Cardinality(members) + 1
        /\ Lists(after, s) /\ \A t : Lists(members, t) => Lists(after, t)
    BY <1>3, <1>6, PushBackFacts
  <2>2. joined = {s, inviter}
    BY <1>6
  <2> HIDE DEF after, joined
  <2>3. parties'[p] = after /\ \A q \in PartyId : q # p => parties'[q] = parties[q]
    BY <1>1, <1>2
  <2>4. after # parties[p]
    <3>1. CASE isNew
      BY <1>4, <2>1, <3>1 DEF Lists
    <3>2. CASE ~isNew
      BY <1>3, <1>5, <2>1, <3>2
    <3> QED BY <3>1, <3>2
  <2>5. ASSUME NEW t \in SessionId, ~Lists(after, t)
        PROVE  playerParty'[t] = playerParty[t] /\ playerParty[t] # p
    <3>1. ~Lists(members, t) /\ t \notin joined
      BY <1>3, <2>1, <2>2, <2>5
    <3> QED BY <1>1, <1>4, <1>5, <3>1
  <2>6. playerParty'[s] = p /\ Lists(after, inviter)
    BY <1>1, <1>3, <2>1, <2>2
  <2> QED BY <1>1, <1>2, <2>1, <2>3, <2>4, <2>5, <2>6
<1>7. CASE ~HasRoom(members)
  <2>1. ~isNew
    BY <1>3, <1>7 DEF HasRoom
  <2>2. after = parties[p] /\ joined = {inviter} /\ playerParty[inviter] = p
    BY <1>5, <1>7, <2>1 DEF p
  <2> HIDE DEF after, joined
  <2>3. parties' = parties
    BY <1>1, <1>2, <2>2
  <2>4. playerParty' = playerParty
    BY <1>1, <1>2, <2>2
  <2> QED BY <1>1, <1>2, <2>3, <2>4
<1> QED BY <1>6, <1>7

\* Y: all members, the new one included, are sent the list with it.
LEMMA JoinKeyStep ==
  ASSUME VInv, NEW s \in SessionId, JoinKey(s)
  PROVE  VInv'
<1>1. /\ s \in sessions /\ view' = [view EXCEPT ![s].invite = INVALID_SESSION]
      /\ PartyJoin(s)
      /\ queue' = IF parties' = parties THEN queue
                  ELSE SendPartyUpdate(queue, parties'[playerParty'[s]])
      /\ hurried' = [t \in SessionId |-> hurried[t] /\ playerParty'[t] = NoParty]
      /\ Listed
  BY DEF JoinKey, AnswerKey, Key
<1>2. UNCHANGED sessions /\ pendingInvites' = [pendingInvites EXCEPT ![s] = INVALID_SESSION]
  BY <1>1 DEF PartyJoin, sessionVars
<1>3. IInv'
  BY <1>1, JoinStep DEF VInv
<1>4. /\ queue \in Queues /\ view \in [SessionId -> Views] /\ mixed \in BOOLEAN
      /\ hurried \in [SessionId -> BOOLEAN] /\ sessions \subseteq SessionId
      /\ pendingInvites \in [SessionId -> SessionId \cup {INVALID_SESSION}]
      /\ playerParty \in [SessionId -> PartyId \cup {NoParty}]
  BY ViewTypes DEF VInv, ClientTypes, TypeOK, SessionTypeOK
<1>5. mixed' \in BOOLEAN /\ MixedInv' /\ (~mixed' => ~mixed)
  BY <1>1, <1>4, ListedFacts
<1>6. /\ view' \in [SessionId -> Views]
      /\ \A t \in SessionId : view'[t].party = view[t].party
      /\ \A t \in SessionId : t # s => view'[t] = view[t]
  BY <1>1, <1>4, AnswerFacts
<1>7. /\ hurried' \in [SessionId -> BOOLEAN]
      /\ \A t \in SessionId : playerParty'[t] = NoParty => (hurried'[t] <=> hurried[t])
  BY <1>1, <1>4
<1>8. /\ pendingInvites'[s] = INVALID_SESSION
      /\ \A t \in SessionId : t # s => pendingInvites'[t] = pendingInvites[t]
  BY <1>2, <1>4
<1> DEFINE old(t) == R!After(view[t], queue[t])
           cur(t) == R!After(view'[t], queue'[t])
<1>9. ASSUME NEW t \in sessions
      PROVE  /\ pendingInvites[t] # INVALID_SESSION => old(t).invite = pendingInvites[t]
             /\ ~mixed => IF playerParty[t] # NoParty THEN old(t).party = parties[playerParty[t]]
                          ELSE old(t).party = {} \/ hurried[t]
  BY CaughtUpIsFold DEF VInv, PartyShown, InviteShown
\* It is enough to know the queues and what the clients will show.
<1>10. SUFFICES /\ queue' \in Queues
                /\ \A t \in SessionId \ sessions : queue'[t] = queue[t]
                /\ \A t \in sessions : t # s => cur(t).invite = old(t).invite
                /\ ~mixed' => \A t \in sessions :
                      IF playerParty'[t] # NoParty THEN cur(t).party = parties'[playerParty'[t]]
                      ELSE cur(t).party = {} \/ hurried'[t]
  <2>1. ViewTypeOK'
    BY <1>3, <1>5, <1>6, <1>7, <1>10, ViewTypesNext DEF ClientTypes, IInv
  <2>2. IdleInv'
    BY <1>1, <1>2, <1>6, <1>10 DEF VInv, IdleInv
  <2>3. PartyShown'
    BY <1>2, <1>10, CaughtUpNext DEF PartyShown
  <2>4. InviteShown'
    <3> SUFFICES ASSUME NEW t \in sessions, pendingInvites'[t] # INVALID_SESSION
                 PROVE  CaughtUp(t)'.invite = pendingInvites'[t]
      BY <1>2 DEF InviteShown
    <3>1. t # s /\ pendingInvites'[t] = pendingInvites[t]
      BY <1>4, <1>8
    <3>2. cur(t).invite = pendingInvites[t]
      BY <1>9, <1>10, <3>1
    <3> QED BY <3>1, <3>2, CaughtUpNext
  <2> QED BY <1>3, <1>5, <2>1, <2>2, <2>3, <2>4 DEF VInv
<1>11. ASSUME NEW t \in SessionId
       PROVE  /\ R!After(view'[t], queue[t]).party = old(t).party
              /\ t # s => R!After(view'[t], queue[t]) = old(t)
              /\ R!After(view'[t], queue[t]) \in Views
  <2>1. view'[t] \in Views /\ view[t] \in Views /\ queue[t] \in Seq(Packet)
        /\ view'[t].party = view[t].party
    BY <1>4, <1>6 DEF Queues
  <2>2. R!After(view'[t], queue[t]) \in Views
    BY <2>1, HandlersFit, R!FoldType
  <2> QED BY <1>6, <2>1, <2>2, SameParty
<1>12. CASE parties' = parties
  <2>1. playerParty' = playerParty
    BY <1>1, <1>12, JoinTables DEF VInv
  <2>2. queue' = queue
    BY <1>1, <1>12
  <2>3. ASSUME ~mixed', NEW t \in sessions
        PROVE  IF playerParty'[t] # NoParty THEN cur(t).party = parties'[playerParty'[t]]
               ELSE cur(t).party = {} \/ hurried'[t]
    <3>1. t \in SessionId /\ ~mixed
      BY <1>4, <1>5, <2>3
    <3>2. cur(t).party = old(t).party
      BY <1>11, <2>2, <3>1
    <3> HIDE DEF cur, old
    <3> QED BY <1>7, <1>9, <1>12, <2>1, <3>1, <3>2
  <2> QED BY <1>4, <1>11, <2>2, <2>3
<1>13. CASE parties' # parties
  <2>1. PICK p \in PartyId :
           /\ playerParty'[s] = p
           /\ Lists(parties'[p], s) /\ Lists(parties'[p], pendingInvites[s])
           /\ \A q \in PartyId : q # p => parties'[q] = parties[q]
           /\ \A t \in SessionId : ~Lists(parties'[p], t) =>
                 playerParty'[t] = playerParty[t] /\ playerParty[t] # p
    BY <1>1, <1>13, JoinTables DEF VInv
  <2> DEFINE m == parties'[p]
  <2>2. m \in Members /\ IsFiniteSet(m)
    <3>1. IInv' => \A r \in PartyId : parties'[r] \in Members /\ IsFiniteSet(parties'[r])
      BY VectorsFitNext
    <3> QED BY <1>3, <3>1
  <2>3. queue' = SendPartyUpdate(queue, m)
    BY <1>1, <1>13, <2>1
  <2>4. OnePartyEach' => \A t \in SessionId : Lists(m, t) => playerParty'[t] = p
    BY DEF OnePartyEach, Lists
  <2> HIDE DEF m
  <2>5. ASSUME NEW t \in SessionId
        PROVE  /\ SendPartyUpdate(queue, m) \in Queues
               /\ ShowsParty(R!After(view'[t], queue[t]), cur(t), Gets(m, t), m)
               /\ ~Gets(m, t) => SendPartyUpdate(queue, m)[t] = queue[t]
    BY <1>4, <1>6, <2>2, <2>3, UpdateSent
  <2>6. queue' \in Queues /\ \A t \in SessionId \ sessions : queue'[t] = queue[t]
    BY <2>3, <2>5 DEF Gets
  <2>7. ASSUME NEW t \in sessions, t # s PROVE cur(t).invite = old(t).invite
    BY <1>4, <1>11, <2>5, <2>7 DEF ShowsParty
  <2>8. ASSUME ~mixed', NEW t \in sessions
        PROVE  IF playerParty'[t] # NoParty THEN cur(t).party = parties'[playerParty'[t]]
               ELSE cur(t).party = {} \/ hurried'[t]
    <3>1. t \in SessionId /\ ~mixed /\ OnePartyEach'
      BY <1>4, <1>5, <2>8 DEF MixedInv
    <3>2. CASE Lists(m, t)
      <4>1. cur(t).party = m /\ playerParty'[t] = p
        BY <2>4, <2>5, <3>1, <3>2 DEF ShowsParty, Gets
      <4>2. p # NoParty
        BY DEF PartyId, NoParty
      <4> QED BY <4>1, <4>2 DEF m
    <3>3. CASE ~Lists(m, t)
      <4>1. cur(t).party = old(t).party
        BY <1>11, <2>5, <3>1, <3>3 DEF ShowsParty, Gets
      <4>2. playerParty'[t] = playerParty[t] /\ playerParty[t] # p
        BY <2>1, <3>1, <3>3 DEF m
      <4>3. playerParty[t] # NoParty => parties'[playerParty[t]] = parties[playerParty[t]]
        BY <1>4, <2>1, <3>1, <4>2
      <4> HIDE DEF cur, old
      <4> QED BY <1>7, <1>9, <3>1, <4>1, <4>2, <4>3
    <3> QED BY <3>2, <3>3
  <2> QED BY <2>6, <2>7, <2>8
<1> QED BY <1>12, <1>13

\* An invitation: it is on its way to the one player the name resolves to, and no
\* packet under way will take it from the screen again.
LEMMA InviteKeyStep ==
  ASSUME VInv, NEW s \in SessionId, NEW n \in CharUids, InviteKey(s, n)
  PROVE  VInv'
<1>1. /\ s \in sessions /\ OnPartyInvite(s, n)
      /\ queue' = [u \in SessionId |->
                     IF IsTarget(u, n) THEN Append(queue[u], PartyInvite(s)) ELSE queue[u]]
      /\ UNCHANGED <<view, hurried, mixed>>
  BY DEF InviteKey, Key
<1>2. PICK t \in SessionId : IsTarget(t, n) /\ pendingInvites' = [pendingInvites EXCEPT ![t] = s]
  BY <1>1 DEF OnPartyInvite, Invite
<1>3. UNCHANGED <<sessions, parties, playerParty>>
  BY <1>1 DEF OnPartyInvite, sessionVars
<1>4. IInv'
  <2>1. Next
    BY <1>1 DEF Next, MaybeChar
  <2> QED BY <2>1, NextIInv DEF VInv
<1>5. /\ queue \in Queues /\ view \in [SessionId -> Views] /\ mixed \in BOOLEAN
      /\ hurried \in [SessionId -> BOOLEAN] /\ sessions \subseteq SessionId
      /\ pendingInvites \in [SessionId -> SessionId \cup {INVALID_SESSION}]
  BY ViewTypes DEF VInv, ClientTypes, TypeOK, SessionTypeOK
<1>6. \A u \in SessionId : IsTarget(u, n) <=> u = t
  BY <1>2, SessionAssumption DEF IsTarget, SessionId
<1> DEFINE p == PartyInvite(s)
<1>7. p \in Packet /\ IsInvite(p) /\ p.inviter = s
  BY PacketKinds
<1>8. /\ queue' = [queue EXCEPT ![t] = queue[t] \o <<p>>]
      /\ queue[t] \in Seq(Packet) /\ queue[t] \o <<p>> \in Seq(Packet)
  <2>1. queue[t] \in Seq(Packet)
    BY <1>5 DEF Queues
  <2>2. Append(queue[t], p) = queue[t] \o <<p>> /\ Append(queue[t], p) \in Seq(Packet)
    BY <1>7, <2>1, AppendProperties, AppendIsConcat
  <2>3. queue' = [queue EXCEPT ![t] = Append(queue[t], p)]
    BY <1>1, <1>5, <1>6 DEF Queues
  <2> QED BY <2>1, <2>2, <2>3
<1> HIDE DEF p
<1>9. queue' \in Queues /\ queue'[t] = queue[t] \o <<p>> /\ \A u \in SessionId : u # t => queue'[u] = queue[u]
  BY <1>5, <1>8 DEF Queues
<1> DEFINE v == R!After(view[t], queue[t])
           w == R!After(view[t], queue[t] \o <<p>>)
<1>10. w.party = v.party /\ w.invite = s
  <2>1. view[t] \in Views
    BY <1>5
  <2>2. w = Handled(v, p)
    BY <1>7, <1>8, <2>1, HandlersFit, R!FoldLast
  <2>3. v \in Views
    BY <1>8, <2>1, HandlersFit, R!FoldType
  <2> QED BY <1>7, <2>2, <2>3, InviteTold
<1>11. ASSUME NEW u \in sessions
       PROVE  /\ CaughtUp(u)'.party = CaughtUp(u).party
              /\ CaughtUp(u)'.invite = IF u = t THEN s ELSE CaughtUp(u).invite
  <2>1. CASE u = t
    <3>1. CaughtUp(u)' = w /\ CaughtUp(u) = v
      BY <1>1, <1>9, <2>1, CaughtUpIsFold, CaughtUpNext
    <3> HIDE DEF v, w
    <3> QED BY <1>10, <2>1, <3>1
  <2>2. CASE u # t
    <3>1. CaughtUp(u)' = CaughtUp(u)
      BY <1>1, <1>5, <1>9, <2>2, CaughtUpIsFold, CaughtUpNext
    <3> QED BY <2>2, <3>1
  <2> QED BY <2>1, <2>2
<1>12. ViewTypeOK'
  BY <1>1, <1>4, <1>5, <1>9, ViewTypesNext DEF ClientTypes, IInv
<1>13. MixedInv'
  BY <1>1, <1>3 DEF VInv, MixedInv, OnePartyEach
<1>14. IdleInv'
  <2>1. t \in sessions
    BY <1>2 DEF IsTarget
  <2> QED BY <1>1, <1>3, <1>9, <2>1 DEF VInv, IdleInv
<1>15. PartyShown'
  BY <1>1, <1>3, <1>11 DEF VInv, PartyShown
<1>16. InviteShown'
  <2> SUFFICES ASSUME NEW u \in sessions, pendingInvites'[u] # INVALID_SESSION
               PROVE  CaughtUp(u)'.invite = pendingInvites'[u]
    BY <1>3 DEF InviteShown
  <2>1. pendingInvites'[u] = IF u = t THEN s ELSE pendingInvites[u]
    BY <1>2, <1>5
  <2> QED BY <1>11, <2>1 DEF VInv, InviteShown
<1> QED BY <1>4, <1>12, <1>13, <1>14, <1>15, <1>16 DEF VInv

\* A client handles the packet that is first: what it will show in the end stays.
LEMMA ReceiveStep ==
  ASSUME VInv, NEW s \in SessionId, Receive(s)
  PROVE  VInv'
<1> DEFINE p == Head(queue[s])
           new == Handled(view[s], p)
<1>1. /\ queue[s] # <<>> /\ UNCHANGED <<vars, hurried, mixed>>
      /\ view' = [view EXCEPT ![s] = new]
      /\ queue' = [queue EXCEPT ![s] = Tail(queue[s])]
  BY DEF Receive
<1>2. UNCHANGED <<sessions, parties, playerParty, pendingInvites>>
  BY <1>1 DEF vars
<1>3. queue \in Queues /\ view \in [SessionId -> Views]
  BY ViewTypes DEF VInv, ClientTypes
<1>4. queue[s] \in Seq(Packet) /\ p \in Packet /\ Tail(queue[s]) \in Seq(Packet) /\ view[s] \in Views
  <2>1. queue[s] \in Seq(Packet) /\ view[s] \in Views
    BY <1>3 DEF Queues
  <2> QED BY <1>1, <2>1, HeadTailProperties
<1>5. new \in Views
  BY <1>4, HandledType
<1>6. R!After(new, Tail(queue[s])) = R!After(view[s], queue[s])
  BY <1>1, <1>4, HandlersFit, R!FoldFirst
<1> HIDE DEF new, p
<1>7. queue' \in Queues /\ view' \in [SessionId -> Views]
  BY <1>1, <1>3, <1>4, <1>5 DEF Queues
<1>8. ASSUME NEW t \in SessionId PROVE CaughtUp(t)' = CaughtUp(t)
  <2>1. CASE t = s
    <3>1. view'[s] = new /\ queue'[s] = Tail(queue[s])
      BY <1>1, <1>3 DEF Queues
    <3> QED BY <1>6, <2>1, <3>1, CaughtUpIsFold, CaughtUpNext
  <2>2. CASE t # s
    <3>1. view'[t] = view[t] /\ queue'[t] = queue[t]
      BY <1>1, <1>3, <2>2 DEF Queues
    <3> QED BY <3>1, CaughtUpIsFold, CaughtUpNext
  <2> QED BY <2>1, <2>2
<1>9. IInv'
  BY <1>1, NextIInv DEF VInv
<1>10. ViewTypeOK'
  <2>1. hurried' \in [SessionId -> BOOLEAN] /\ mixed' \in BOOLEAN
    BY <1>1, ViewTypes DEF VInv, ClientTypes
  <2> QED BY <1>7, <1>9, <2>1, ViewTypesNext DEF ClientTypes, IInv
<1>11. MixedInv'
  BY <1>1, <1>2 DEF VInv, MixedInv, OnePartyEach
<1>12. IdleInv'
  <2>1. s \in sessions
    BY <1>1 DEF VInv, IdleInv
  <2> QED BY <1>1, <1>2, <1>3, <2>1 DEF VInv, IdleInv, Queues
<1>13. PartyShown' /\ InviteShown'
  <2>1. sessions \subseteq SessionId
    BY DEF VInv, IInv, TypeOK, SessionTypeOK
  <2>2. PartyShown'
    BY <1>1, <1>2, <1>8, <2>1 DEF VInv, PartyShown
  <2>3. InviteShown'
    BY <1>2, <1>8, <2>1 DEF VInv, InviteShown
  <2> QED BY <2>2, <2>3
<1> QED BY <1>9, <1>10, <1>11, <1>12, <1>13 DEF VInv

\* What the client's variables say stays true when only the session table or the
\* characters change, and a session that is new is in no party.
LEMMA SessionsGrow ==
  ASSUME VInv, IInv', sessions \subseteq sessions', sessions' \subseteq SessionId,
         UNCHANGED clientVars, UNCHANGED <<parties, playerParty, pendingInvites>>
  PROVE  VInv'
<1>1. UNCHANGED <<queue, view, hurried, mixed>>
  BY DEF clientVars
<1>2. ViewTypeOK'
  <2>1. ClientTypes'
    BY <1>1, ViewTypes DEF VInv, ClientTypes, Queues
  <2> QED BY <2>1, ViewTypesNext DEF IInv
<1>3. MixedInv'
  BY <1>1 DEF VInv, MixedInv, OnePartyEach
<1>4. IdleInv'
  BY <1>1 DEF VInv, IdleInv
<1>5. \A s : CaughtUp(s)' = CaughtUp(s)
  BY <1>1, CaughtUpIsFold, CaughtUpNext
<1>6. ASSUME NEW s \in sessions', s \notin sessions
      PROVE  CaughtUp(s).party = {} /\ playerParty[s] = NoParty /\ pendingInvites[s] = INVALID_SESSION
  <2>1. queue[s] = <<>> /\ view[s] = NewView /\ playerParty[s] = NoParty /\ pendingInvites[s] = INVALID_SESSION
    BY <1>6 DEF VInv, IdleInv, IInv, EndedHoldsNothing
  <2>2. NewView \in Views
    BY DEF NewView, Views, Members
  <2>3. R!After(NewView, <<>>) = NewView
    BY <2>2, HandlersFit, R!FoldEmpty
  <2>4. CaughtUp(s) = NewView
    BY <2>1, <2>3, CaughtUpIsFold
  <2> QED BY <2>1, <2>4 DEF NewView
<1>7. PartyShown'
  BY <1>1, <1>5, <1>6 DEF VInv, PartyShown
<1>8. InviteShown'
  BY <1>5, <1>6 DEF VInv, InviteShown
<1> QED BY <1>2, <1>3, <1>4, <1>7, <1>8 DEF VInv

\* Nothing is shown to anyone when the server starts.
LEMMA InitVInv == ViewInit => VInv
<1> SUFFICES ASSUME ViewInit PROVE VInv
  OBVIOUS
<1>1. /\ Init /\ queue = [s \in SessionId |-> <<>>] /\ view = [s \in SessionId |-> NewView]
      /\ hurried = [s \in SessionId |-> FALSE] /\ mixed = FALSE
  BY DEF ViewInit
<1>2. IInv /\ sessions = {} /\ \A p \in PartyId : parties[p] = {}
  BY <1>1, InitIInv DEF Init, SessionInit
<1>3. NewView \in Views /\ <<>> \in Seq(Packet)
  BY DEF NewView, Views, Members
<1>4. ViewTypeOK
  BY <1>1, <1>2, <1>3, ViewTypes DEF ClientTypes, Queues, IInv
<1>5. MixedInv /\ IdleInv /\ PartyShown /\ InviteShown
  BY <1>1, <1>2 DEF MixedInv, IdleInv, PartyShown, InviteShown, OnePartyEach
<1> QED BY <1>2, <1>4, <1>5 DEF VInv

\* Every step of the server and of a client keeps the inductive invariant.
LEMMA NextVInv == VInv /\ [ViewNext]_viewVars => VInv'
<1> SUFFICES ASSUME VInv, [ViewNext]_viewVars PROVE VInv'
  OBVIOUS
<1>1. CASE Connects
  <2>1. DoAccept /\ UNCHANGED clientVars /\ UNCHANGED <<parties, playerParty, pendingInvites>>
        /\ sessions \subseteq sessions'
    BY <1>1 DEF Connects, DoAccept, AddSession, partyVars
  <2>2. IInv'
    BY <2>1, NextIInv DEF VInv, Next
  <2>3. sessions' \subseteq SessionId
    BY <2>2 DEF IInv, TypeOK, SessionTypeOK
  <2> QED BY <2>1, <2>2, <2>3, SessionsGrow
<1>2. ASSUME NEW s \in SessionId, NEW c \in CharUids, Enters(s, c) PROVE VInv'
  <2>1. OnCharSelect(s, c) /\ UNCHANGED clientVars /\ UNCHANGED <<parties, playerParty, pendingInvites>>
        /\ sessions \subseteq sessions'
    BY <1>2 DEF Enters, OnCharSelect, SelectChar, partyVars
  <2>2. IInv'
    BY <2>1, NextIInv DEF VInv, Next
  <2>3. sessions' \subseteq SessionId
    BY <2>2 DEF IInv, TypeOK, SessionTypeOK
  <2> QED BY <2>1, <2>2, <2>3, SessionsGrow
<1>3. CASE UNCHANGED viewVars
  <2>1. UNCHANGED vars /\ UNCHANGED clientVars
    BY <1>3 DEF viewVars
  <2>2. IInv'
    BY <2>1, NextIInv DEF VInv
  <2>3. UNCHANGED <<sessions, parties, playerParty, pendingInvites>>
    BY <2>1 DEF vars
  <2>4. sessions' \subseteq SessionId
    BY <2>2 DEF IInv, TypeOK, SessionTypeOK
  <2> QED BY <2>1, <2>2, <2>3, <2>4, SessionsGrow
<1> QED
  BY <1>1, <1>2, <1>3, LeaveKeyStep, EndsStep, DeclineStep, JoinKeyStep, InviteKeyStep, ReceiveStep
  DEF ViewNext

\* What every client shows once it has caught up, for as long as the server runs.
LEMMA ViewInvariant == ViewSpec => []VInv
  BY InitVInv, NextVInv, PTL DEF ViewSpec

\* However members come and go and however late their packets are handled, a
\* player that is in a party is shown that party, and an invitation the server
\* keeps is on the screen of the invitee with the name of the right inviter.
THEOREM ClientsFollowParty == ViewSpec => []PartyFollows
<1>1. VInv => PartyFollows
  BY DEF VInv, PartyFollows
<1> QED BY <1>1, ViewInvariant, PTL

\* Y, which does not say whose invitation it answers, leads into the party of the
\* inviter on the screen unless a later invitation is under way at that moment.
THEOREM YesMeansTheInviterShown == ViewSpec => JoinsWhomItSaw
<1> DEFINE shown(s) == view[s].invite
           A == \A s \in SessionId :
                  LET p == playerParty'[s]
                  IN  shown(s) # INVALID_SESSION /\ p \notin {NoParty, playerParty[s]}
                         /\ view'[s].invite = INVALID_SESSION =>
                      \/ Lists(parties'[p], shown(s))
                      \/ \E k \in Range(queue[s]) : IsInvite(k)
<1>1. VInv /\ [ViewNext]_viewVars => [A]_viewVars
  <2> SUFFICES ASSUME VInv, ViewNext, NEW s \in SessionId,
                      shown(s) # INVALID_SESSION, playerParty'[s] \notin {NoParty, playerParty[s]},
                      view'[s].invite = INVALID_SESSION,
                      ~ \E k \in Range(queue[s]) : IsInvite(k)
               PROVE  Lists(parties'[playerParty'[s]], shown(s))
    BY DEF viewVars
  <2>1. view \in [SessionId -> Views] /\ queue \in Queues
    BY ViewTypes DEF VInv, ClientTypes
  <2>2. PICK t \in SessionId : JoinKey(t)
    <3>1. ASSUME NEW t \in SessionId, RemoveFromParty(t) PROVE FALSE
      <4>1. playerParty'[s] \in {NoParty, playerParty[s]}
        BY <3>1, RemoveFromPartyFacts DEF VInv
      <4> QED BY <4>1
    <3>2. playerParty' # playerParty
      OBVIOUS
    <3>3. ~Connects
      BY <3>2 DEF Connects, DoAccept, partyVars
    <3>4. ASSUME NEW t \in SessionId PROVE ~LeaveKey(t) /\ ~Ends(t)
      BY <3>1 DEF LeaveKey, OnPartyLeave, Ends, OnDisconnect, OnPlayerDisconnect
    <3>5. ASSUME NEW t \in SessionId, NEW c \in CharUids PROVE ~Enters(t, c) /\ ~InviteKey(t, c)
      BY <3>2 DEF Enters, OnCharSelect, partyVars, InviteKey, OnPartyInvite
    <3>6. ASSUME NEW t \in SessionId PROVE ~DeclineKey(t) /\ ~Receive(t)
      BY <3>2 DEF DeclineKey, Declined, PartyInviteDropped, Receive, vars
    <3> QED BY <3>3, <3>4, <3>5, <3>6 DEF ViewNext
  <2>3. /\ t \in sessions /\ PartyJoin(t) /\ view' = [view EXCEPT ![t].invite = INVALID_SESSION]
    BY <2>2 DEF JoinKey, AnswerKey, Key
  <2>4. t = s
    BY <2>1, <2>3, AnswerFacts
  <2>5. PICK p \in PartyId : playerParty'[s] = p /\ Lists(parties'[p], pendingInvites[s])
    BY <2>3, <2>4, JoinTables DEF VInv
  <2>6. pendingInvites[s] # INVALID_SESSION
    BY <2>3, <2>4, JoinTables DEF VInv, INVALID_SESSION, SessionId
  <2>7. CaughtUp(s).invite = pendingInvites[s]
    BY <2>3, <2>4, <2>6 DEF VInv, InviteShown
  <2>8. R!After(view[s], queue[s]).invite = shown(s)
    BY <2>1, NoInviteSameQuestion DEF Queues
  <2> QED BY <2>5, <2>7, <2>8, CaughtUpIsFold
<1>2. [][A]_viewVars => JoinsWhomItSaw
  BY DEF JoinsWhomItSaw
<1> QED BY <1>1, <1>2, ViewInvariant, PTL DEF ViewSpec

-----------------------------------------------------------------------------
(* Combat. *)

\* Every NPC stands under a uid of its own that was given out already: the last
\* part is what makes the uid of a respawned NPC new.
NpcInv ==
    /\ npcs \in [NpcIndex -> NPC]
    /\ nextNpcUid \in Nat
    /\ EveryNpcStands
    /\ \A i \in NpcIndex : npcs[i].uid < nextNpcUid

\* main spawns MAX_NPC NPCs with the uids from 1.
LEMMA InitNpcInv == CombatInit => NpcInv
<1> SUFFICES ASSUME CombatInit PROVE NpcInv
  OBVIOUS
<1> USE CombatAssumption
<1>1. \A i \in NpcIndex : NewNpc(i) \in NPC
  BY DEF NewNpc, NPC, NpcIndex
<1>2. \A i \in NpcIndex : npcs[i] = NewNpc(i)
  BY DEF CombatInit
<1>3. npcs \in [NpcIndex -> NPC] /\ nextNpcUid \in Nat
  BY <1>1 DEF CombatInit
<1> QED BY <1>2, <1>3 DEF CombatInit, NpcInv, EveryNpcStands, NewNpc, NpcIndex

\* A hit the NPC survives changes its hp only, and not to 0.
LEMMA HitKeepsNpcs ==
  ASSUME NpcInv, NEW s, NEW uid, AttackHit(s, uid)
  PROVE  /\ NpcInv'
         /\ \A i \in NpcIndex : npcs'[i].uid = npcs[i].uid /\ npcs'[i].hp <= npcs[i].hp
<1> USE CombatAssumption
<1>1. PICK i \in NpcIndex, damage \in 1..NpcMaxHp :
        /\ HpAfter(npcs[i].hp, damage) # 0
        /\ npcs' = [npcs EXCEPT ![i].hp = HpAfter(npcs[i].hp, damage)]
  BY DEF AttackHit
<1>2. nextNpcUid' = nextNpcUid
  BY DEF AttackHit
<1>3. npcs[i] \in NPC /\ npcs[i].hp \in 0..NpcMaxHp
  BY DEF NpcInv, NPC
<1>4. HpAfter(npcs[i].hp, damage) \in 1..NpcMaxHp /\ HpAfter(npcs[i].hp, damage) <= npcs[i].hp
  BY <1>1, <1>3 DEF HpAfter
<1> DEFINE hit == [npcs[i] EXCEPT !.hp = HpAfter(npcs[i].hp, damage)]
<1>5. /\ hit \in NPC /\ hit.uid = npcs[i].uid /\ hit.alive = npcs[i].alive
      /\ hit.hp > 0 /\ hit.hp <= npcs[i].hp
  BY <1>3, <1>4 DEF NPC
<1>6. npcs' = [npcs EXCEPT ![i] = hit]
  BY <1>1
<1> HIDE DEF hit
<1>7. \A j \in NpcIndex : npcs'[j] = IF j = i THEN hit ELSE npcs[j]
  BY <1>6 DEF NpcInv
<1>8. \A j \in NpcIndex : npcs'[j].uid = npcs[j].uid /\ npcs'[j].hp <= npcs[j].hp
  BY <1>5, <1>7 DEF NpcInv, NPC
<1>9. npcs' \in [NpcIndex -> NPC]
  BY <1>5, <1>6 DEF NpcInv
<1>10. EveryNpcStands'
  BY <1>5, <1>7, <1>8 DEF NpcInv, EveryNpcStands
<1> QED BY <1>2, <1>8, <1>9, <1>10 DEF NpcInv

\* A kill: the NPC that was hit is the only dead one, so SpawnNPC revives it and
\* no other, under a uid that no NPC has had.
LEMMA KillReplacesNpc ==
  ASSUME NpcInv, NEW s, NEW uid, AttackKill(s, uid)
  PROVE  /\ NpcInv'
         /\ \A i \in NpcIndex : npcs'[i] = npcs[i] \/ npcs'[i].uid >= nextNpcUid
<1> USE CombatAssumption
<1>1. PICK i \in NpcIndex :
        SpawnNPC([npcs EXCEPT ![i].hp = 0, ![i].alive = FALSE])
  BY DEF AttackKill
<1> DEFINE all == [npcs EXCEPT ![i].hp = 0, ![i].alive = FALSE]
           dead == {j \in NpcIndex : ~all[j].alive}
           first == CHOOSE j \in dead : \A k \in dead : j <= k
           new == NewNpc(nextNpcUid)
<1>2. nextNpcUid \in Nat /\ nextNpcUid <= MaxNpcUid
  BY DEF NpcInv, AttackKill
<1>3. npcs[i] \in NPC /\ \A j \in NpcIndex : npcs[j].alive
  BY DEF NpcInv, EveryNpcStands
<1>4. dead = {i}
  <2>1. ~all[i].alive
    BY <1>3 DEF NPC, NpcInv
  <2>2. \A j \in NpcIndex : j # i => all[j] = npcs[j]
    BY DEF NpcInv
  <2> QED BY <1>3, <2>1, <2>2
<1>5. first = i
  <2> HIDE DEF dead
  <2>1. i <= i
    BY DEF NpcIndex
  <2>2. \E j \in dead : \A k \in dead : j <= k
    BY <1>4, <2>1
  <2> QED BY <1>4, <2>2
<1>6. npcs' = [all EXCEPT ![i] = new] /\ nextNpcUid' = nextNpcUid + 1
  BY <1>1, <1>5 DEF SpawnNPC, SpawnUid, UidAfterSpawn
<1>7. \A j \in NpcIndex : npcs'[j] = IF j = i THEN new ELSE npcs[j]
  BY <1>6 DEF NpcInv
<1>8. nextNpcUid >= 1
  <2>1. npcs[i].uid \in 1..MaxNpcUid /\ npcs[i].uid < nextNpcUid
    BY <1>3 DEF NpcInv, NPC
  <2> QED BY <1>2, <2>1
<1>9. new \in NPC /\ new.uid = nextNpcUid /\ new.alive /\ new.hp > 0
  BY <1>2, <1>8 DEF NewNpc, NPC
<1>10. npcs' = [npcs EXCEPT ![i] = new]
  BY <1>6 DEF NpcInv
<1> HIDE DEF new, all, dead, first
<1>11. npcs' \in [NpcIndex -> NPC]
  BY <1>9, <1>10 DEF NpcInv
<1>12. EveryNpcStands'
  BY <1>2, <1>7, <1>9 DEF NpcInv, EveryNpcStands, NPC
<1>13. \A j \in NpcIndex : npcs'[j].uid < nextNpcUid'
  BY <1>2, <1>6, <1>7, <1>9 DEF NpcInv, NPC
<1>14. \A j \in NpcIndex : npcs'[j] = npcs[j] \/ npcs'[j].uid >= nextNpcUid
  BY <1>2, <1>7, <1>9
<1> QED BY <1>2, <1>6, <1>11, <1>12, <1>13, <1>14 DEF NpcInv

\* No handler but OnAttack touches the NPCs.
LEMMA OnlyAttackTouchesNpcs ==
  ASSUME [CombatNext]_allVars
  PROVE  \/ UNCHANGED <<npcs, nextNpcUid>>
         \/ \E s \in SessionId, uid \in 1..MaxNpcUid : AttackHit(s, uid) \/ AttackKill(s, uid)
  BY DEF CombatNext, allVars, combatVars, LoadCharacter, PayQuest, ForgetPlayer, OnAttack

\* What a step does to the NPCs.
LEMMA NpcStep ==
  ASSUME NpcInv, [CombatNext]_allVars
  PROVE  /\ NpcInv'
         /\ \A i \in NpcIndex :
               npcs'[i].uid # npcs[i].uid \/ npcs'[i].hp > npcs[i].hp =>
                  npcs'[i].uid >= nextNpcUid
<1>h. \A i \in NpcIndex : npcs[i].hp \in Nat
  BY DEF NpcInv, NPC
<1>1. CASE UNCHANGED <<npcs, nextNpcUid>>
  BY <1>1, <1>h DEF NpcInv, EveryNpcStands
<1>2. ASSUME NEW s, NEW uid, AttackHit(s, uid)
      PROVE  /\ NpcInv'
             /\ \A i \in NpcIndex : npcs'[i].uid = npcs[i].uid /\ ~(npcs'[i].hp > npcs[i].hp)
  <2>1. /\ NpcInv'
        /\ \A i \in NpcIndex : npcs'[i].uid = npcs[i].uid /\ npcs'[i].hp <= npcs[i].hp
    BY <1>2, HitKeepsNpcs
  <2>2. \A i \in NpcIndex : npcs'[i].hp \in Nat
    BY <2>1 DEF NpcInv, NPC
  <2> QED BY <1>h, <2>1, <2>2
<1>3. ASSUME NEW s, NEW uid, AttackKill(s, uid)
      PROVE  /\ NpcInv'
             /\ \A i \in NpcIndex : npcs'[i] = npcs[i] \/ npcs'[i].uid >= nextNpcUid
  BY <1>3, KillReplacesNpc
<1> QED BY <1>h, <1>1, <1>2, <1>3, OnlyAttackTouchesNpcs

\* The NPC invariant holds throughout.
LEMMA NpcInvariance == CombatSpec => []NpcInv
<1>1. NpcInv /\ [CombatNext]_allVars => NpcInv'
  BY NpcStep
<1> QED BY <1>1, InitNpcInv, PTL DEF CombatSpec

-----------------------------------------------------------------------------
\* Between handlers every one of the MAX_NPC NPCs is alive, under a uid no other
\* has: the single SpawnNPC at the end of a kill is enough.
THEOREM NpcsStand == CombatSpec => []EveryNpcStands
<1>1. NpcInv => EveryNpcStands
  BY DEF NpcInv
<1> QED BY <1>1, NpcInvariance, PTL

\* An NPC is never healed or brought back: a place changes its uid only to one
\* that was never given out, so a late CS_ATTACK cannot hit the successor.
THEOREM NoSecondLife == CombatSpec => KilledForGood
<1>1. NpcInv /\ [CombatNext]_allVars =>
        [\A i \in NpcIndex :
           npcs'[i].uid # npcs[i].uid \/ npcs'[i].hp > npcs[i].hp =>
              npcs'[i].uid >= nextNpcUid]_allVars
  BY NpcStep
<1> QED BY <1>1, NpcInvariance, PTL DEF CombatSpec, KilledForGood

-----------------------------------------------------------------------------
(* Level-ups. *)

\* A round of CheckLevelUp yields a player again, with less exp.
LEMMA LevelUpFacts ==
  ASSUME NEW p \in PlayerData, ~(p.exp < p.maxExp)
  PROVE  /\ LevelUp(p) \in PlayerData
         /\ LevelUp(p).exp < p.exp
         /\ LevelUp(p).gold = p.gold
<1>1. p.level \in Nat /\ p.exp \in Nat /\ p.maxExp \in Nat \ {0} /\ p.gold \in Nat
  BY DEF PlayerData
<1> DEFINE l == p.level + 1
           e == p.exp - p.maxExp
           m == (p.level + 1) * ExpPerLevel
<1>2. l \in Nat \ {0} /\ m \in Nat \ {0} /\ e \in Nat /\ e < p.exp
  BY <1>1, CombatAssumption
<1>3. LevelUp(p) = [p EXCEPT !.level = l, !.exp = e, !.maxExp = m]
  BY DEF LevelUp
<1> HIDE DEF l, e, m
<1>4. /\ LevelUp(p) \in PlayerData
      /\ LevelUp(p).exp = e
      /\ LevelUp(p).gold = p.gold
  BY <1>2, <1>3 DEF PlayerData
<1> QED BY <1>2, <1>4

\* CheckLevelUp is what its loop says, for every player: each round leaves less exp.
LEMMA CheckLevelUpIsLoop ==
  \A p \in PlayerData :
     CheckLevelUp[p] = IF p.exp < p.maxExp THEN p ELSE CheckLevelUp[LevelUp(p)]
<1> DEFINE Stop == {p \in PlayerData : p.exp < p.maxExp}
           mu == [p \in PlayerData |-> p.exp]
           step == [p \in PlayerData |-> IF p \in Stop THEN p ELSE LevelUp(p)]
           base == [p \in PlayerData |-> p]
           comb == [p \in PlayerData |-> [q \in PlayerData |-> q]]
           Loop(c) == c = [p \in PlayerData |-> IF p.exp < p.maxExp THEN p ELSE c[LevelUp(p)]]
<1>1. mu \in [PlayerData -> Nat]
  BY DEF PlayerData
<1>2. \A p \in PlayerData : p \notin Stop => LevelUp(p) \in PlayerData /\ LevelUp(p).exp < p.exp
  BY LevelUpFacts
<1>3. /\ step \in [PlayerData -> PlayerData] /\ base \in [PlayerData -> PlayerData]
      /\ comb \in [PlayerData -> [PlayerData -> PlayerData]]
      /\ \A p \in PlayerData : p \notin Stop => mu[step[p]] < mu[p]
  BY <1>2
<1>4. PICK g \in [PlayerData -> PlayerData] : R!Satisfies(g, PlayerData, Stop, step, base, comb)
  <2> HIDE DEF mu, Stop, step, base, comb
  <2> QED BY <1>1, <1>3, R!RecursionExists
<1>5. ASSUME NEW p \in PlayerData
      PROVE  g[p] = IF p.exp < p.maxExp THEN p ELSE g[LevelUp(p)]
  <2>1. g[p] = IF p \in Stop THEN base[p] ELSE comb[p][g[step[p]]]
    <3> HIDE DEF Stop, step, base, comb
    <3> QED BY <1>4 DEF R!Satisfies
  <2> QED BY <1>2, <2>1
<1>6. Loop(g)
  BY <1>5
<1>7. CheckLevelUp = CHOOSE c : Loop(c)
  BY DEF CheckLevelUp
<1>8. Loop(CheckLevelUp)
  <2> HIDE DEF Loop
  <2> QED BY <1>6, <1>7
<1> QED BY <1>8

\* The loop ends with the exp below maxExp, and leaves the gold alone; a player
\* with nothing to do is left as it is.
LEMMA CheckLevelUpFacts ==
  ASSUME NEW p \in PlayerData
  PROVE  /\ CheckLevelUp[p] \in PlayerData
         /\ CheckLevelUp[p].exp < CheckLevelUp[p].maxExp
         /\ CheckLevelUp[p].gold = p.gold
         /\ p.exp < p.maxExp => CheckLevelUp[p] = p
<1> DEFINE Good(r) == /\ CheckLevelUp[r] \in PlayerData
                      /\ CheckLevelUp[r].exp < CheckLevelUp[r].maxExp
                      /\ CheckLevelUp[r].gold = r.gold
           Bad == {r \in PlayerData : ~Good(r)}
           T == {r.exp : r \in Bad}
<1>1. Bad = {}
  <2> SUFFICES ASSUME Bad # {} PROVE FALSE
    OBVIOUS
  <2>1. T \subseteq Nat /\ T # {}
    BY DEF PlayerData
  <2>2. PICK m \in T : \A j \in T : m <= j
    BY <2>1, R!LeastNat
  <2>3. PICK r \in Bad : r.exp = m
    BY <2>2
  <2>4. r \in PlayerData /\ r.exp \in Nat /\ ~Good(r)
    BY DEF PlayerData
  <2>5. ~(r.exp < r.maxExp)
    BY <2>4, CheckLevelUpIsLoop
  <2>6. CheckLevelUp[r] = CheckLevelUp[LevelUp(r)]
    BY <2>4, <2>5, CheckLevelUpIsLoop
  <2>7. LevelUp(r) \in PlayerData /\ LevelUp(r).exp < r.exp /\ LevelUp(r).exp \in Nat
        /\ LevelUp(r).gold = r.gold
    BY <2>4, <2>5, LevelUpFacts DEF PlayerData
  <2>8. ~Good(LevelUp(r))
    BY <2>4, <2>6, <2>7
  <2>9. LevelUp(r).exp \in T
    BY <2>7, <2>8
  <2> HIDE DEF T, Bad, Good
  <2> QED BY <2>2, <2>3, <2>4, <2>7, <2>9
<1>2. Good(p)
  BY <1>1
<1> QED BY <1>2, CheckLevelUpIsLoop

-----------------------------------------------------------------------------
(***************************************************************************)
(* What a kill is worth.                                                   *)
(***************************************************************************)

\* The members vector that shares a kill is finite and not empty: the division
\* in OnAttack has a divisor.
LEMMA SharingFacts ==
  ASSUME IInv, NEW s \in SessionId
  PROVE  /\ Sharing(s) \subseteq Entry
         /\ IsFiniteSet(Sharing(s))
         /\ Cardinality(Sharing(s)) \in Nat \ {0}
<1>1. CASE playerParty[s] = NoParty
  <2>1. Sharing(s) = push_back({}, s)
    BY <1>1 DEF Sharing
  <2>2. /\ Sharing(s) \subseteq Entry
        /\ IsFiniteSet(Sharing(s)) /\ Cardinality(Sharing(s)) = 1
    BY <2>1, FounderFacts
  <2> QED BY <2>2
<1>2. CASE playerParty[s] # NoParty
  <2>1. playerParty[s] \in PartyId /\ Sharing(s) = parties[playerParty[s]]
    BY <1>2 DEF IInv, TypeOK, Sharing
  <2>2. parties[playerParty[s]] # {}
    BY <1>2 DEF IInv, MapInv, Lists
  <2>3. Cardinality(parties[playerParty[s]]) \in 2..MAX_PARTY
    BY <2>1, <2>2 DEF IInv, VectorInv
  <2> QED BY <2>1, <2>3, PartyAssumption DEF IInv, TypeOK, VectorInv
<1> QED BY <1>1, <1>2

\* How many entries a session has in it is a number.
LEMMA EntriesType ==
  ASSUME IInv, NEW s \in SessionId, NEW t PROVE Entries(s, t) \in Nat
<1>1. Copies(Sharing(s), t) \in SUBSET Sharing(s)
  BY DEF Copies
<1>2. IsFiniteSet(Copies(Sharing(s), t))
  BY <1>1, SharingFacts, FS_Subset
<1> QED BY <1>2, FS_CardinalityType DEF Entries

\* The shares together are no more than the reward.
LEMMA ShareFacts ==
  ASSUME IInv, NEW s \in SessionId, NEW reward \in Nat
  PROVE  /\ Share(s, reward) \in Nat
         /\ Cardinality(Sharing(s)) * Share(s, reward) <= reward
<1> DEFINE n == Cardinality(Sharing(s))
<1>1. n \in Nat \ {0}
  BY SharingFacts
<1> HIDE DEF n
<1>2. reward \div n \in Nat /\ n * (reward \div n) <= reward
  BY <1>1
<1> QED BY <1>2 DEF Share, n

\* A payment adds the gold, and leaves the exp below maxExp; a payment of nothing
\* changes nothing.
LEMMA PaidFacts ==
  ASSUME NEW p \in PlayerData, NEW exp \in Nat, NEW gold \in Nat
  PROVE  /\ Paid(p, exp, gold) \in PlayerData
         /\ Paid(p, exp, gold).exp < Paid(p, exp, gold).maxExp
         /\ Paid(p, exp, gold).gold = p.gold + gold
         /\ p.exp < p.maxExp /\ exp = 0 /\ gold = 0 => Paid(p, exp, gold) = p
<1> DEFINE q == [p EXCEPT !.exp = p.exp + exp, !.gold = p.gold + gold]
<1>1. p.exp \in Nat /\ p.gold \in Nat /\ p.exp + exp \in Nat /\ p.gold + gold \in Nat
  BY DEF PlayerData
<1>2. q \in PlayerData /\ q.gold = p.gold + gold
  BY <1>1 DEF PlayerData
<1>3. ASSUME exp = 0, gold = 0 PROVE q = p
  <2>1. p.exp + exp = p.exp /\ p.gold + gold = p.gold
    BY <1>1, <1>3
  <2>2. q = [p EXCEPT !.exp = p.exp, !.gold = p.gold]
    BY <2>1
  <2> QED BY <2>2 DEF PlayerData
<1>4. Paid(p, exp, gold) = CheckLevelUp[q]
  BY DEF Paid
<1> HIDE DEF q
<1> QED BY <1>2, <1>3, <1>4, CheckLevelUpFacts

-----------------------------------------------------------------------------
\* The players between handlers: a level that is due has been taken.
PlayerInv ==
    /\ player \in [SessionId -> PlayerData]
    /\ questKills \in [SessionId -> Nat]
    /\ nextNpcUid \in 1..(MaxNpcUid + 1)
    /\ \A s \in SessionId : player[s].exp < player[s].maxExp

CInv == IInv /\ NpcInv /\ PlayerInv

\* The first players of a run are new.
LEMMA InitCInv == CombatInit => CInv
<1> SUFFICES ASSUME CombatInit PROVE CInv
  OBVIOUS
<1>1. NewPlayer \in PlayerData /\ NewPlayer.exp < NewPlayer.maxExp
  BY CombatAssumption DEF NewPlayer, PlayerData
<1>2. PlayerInv
  BY <1>1, CombatAssumption DEF CombatInit, PlayerInv
<1>3. IInv
  BY InitIInv DEF CombatInit
<1> QED BY <1>2, <1>3, InitNpcInv DEF CInv

\* A step of the server is a step of the party system, or leaves it alone.
LEMMA PartyStep ==
  ASSUME [CombatNext]_allVars PROVE [Next]_vars
  BY DEF CombatNext, allVars, vars, Next, PartyHandler, OnAttack, AttackHit, AttackKill, PayQuest,
     sessionVars, partyVars

\* What a kill does to the players.
LEMMA KillPays ==
  ASSUME IInv, PlayerInv, NEW s \in SessionId, NEW uid, AttackKill(s, uid), NEW t \in SessionId
  PROVE  /\ player'[t] = Paid(player[t], Entries(s, t) * Share(s, ExpReward),
                                         Entries(s, t) * Share(s, GoldReward))
         /\ player'[t] \in PlayerData
         /\ player'[t].exp < player'[t].maxExp
         /\ player'[t].gold = player[t].gold + Entries(s, t) * Share(s, GoldReward)
         /\ Entries(s, t) = 0 => player'[t] = player[t]
         /\ questKills'[t] = questKills[t] + Credits(s, t)
<1> DEFINE n == Entries(s, t)
           e == Share(s, ExpReward)
           g == Share(s, GoldReward)
<1>1. n \in Nat /\ e \in Nat /\ g \in Nat
  BY EntriesType, ShareFacts, CombatAssumption
<1>2. player'[t] = Paid(player[t], n * e, n * g) /\ questKills'[t] = questKills[t] + Credits(s, t)
  BY DEF AttackKill
<1>3. player[t] \in PlayerData /\ player[t].exp < player[t].maxExp
  BY DEF PlayerInv
<1> HIDE DEF n, e, g
<1>4. n * e \in Nat /\ n * g \in Nat /\ (n = 0 => n * e = 0 /\ n * g = 0)
  BY <1>1
<1>5. /\ player'[t] \in PlayerData
      /\ player'[t].exp < player'[t].maxExp
      /\ player'[t].gold = player[t].gold + n * g
      /\ n = 0 => player'[t] = player[t]
  <2> DEFINE p == player[t]
             ne == n * e
             ng == n * g
  <2>1. p \in PlayerData /\ p.exp < p.maxExp /\ player'[t] = Paid(p, ne, ng)
    BY <1>2, <1>3
  <2>2. ne \in Nat /\ ng \in Nat /\ (n = 0 => ne = 0 /\ ng = 0)
    BY <1>4
  <2> HIDE DEF p, ne, ng
  <2>3. /\ player'[t] \in PlayerData
        /\ player'[t].exp < player'[t].maxExp
        /\ player'[t].gold = p.gold + ng
        /\ n = 0 => player'[t] = p
    BY <2>1, <2>2, PaidFacts
  <2> QED BY <2>3 DEF p, ng
<1> QED BY <1>2, <1>5 DEF n, e, g

\* Every handler leaves the players with their exp below maxExp.
LEMMA PlayerStep ==
  ASSUME IInv, NpcInv, PlayerInv, [CombatNext]_allVars PROVE PlayerInv'
<1>1. CASE UNCHANGED <<player, questKills, nextNpcUid>>
  BY <1>1 DEF PlayerInv
<1>2. ASSUME NEW s \in SessionId, LoadCharacter(s) PROVE PlayerInv'
  <2> DEFINE q == [player[s] EXCEPT !.level = 1, !.exp = 0, !.gold = 0]
  <2>1. player[s] \in PlayerData
    BY DEF PlayerInv
  <2>2. q \in PlayerData /\ q.exp = 0 /\ q.maxExp \in Nat \ {0}
    <3> DEFINE p == player[s]
               one == 1
               zero == 0
    <3>1. p \in PlayerData /\ one \in Nat \ {0} /\ zero \in Nat
      BY <2>1
    <3>2. q = [p EXCEPT !.level = one, !.exp = zero, !.gold = zero]
      OBVIOUS
    <3> HIDE DEF p, q, one, zero
    <3>3. q \in PlayerData /\ q.exp = zero
      BY <3>1, <3>2 DEF PlayerData
    <3>4. q.maxExp \in Nat \ {0}
      BY <3>3 DEF PlayerData
    <3> QED BY <3>3, <3>4 DEF zero
  <2>3. player' = [player EXCEPT ![s] = q] /\ UNCHANGED <<questKills, nextNpcUid>>
    BY <1>2 DEF LoadCharacter, PlayerInv
  <2> HIDE DEF q
  <2> QED BY <2>2, <2>3 DEF PlayerInv
<1>3. ASSUME NEW s \in SessionId, NEW uid, AttackKill(s, uid) PROVE PlayerInv'
  <2>1. nextNpcUid \in Nat /\ nextNpcUid <= MaxNpcUid /\ nextNpcUid' = nextNpcUid + 1
    BY <1>3 DEF AttackKill, SpawnNPC, UidAfterSpawn, NpcInv
  <2>2. \A t \in SessionId : Credits(s, t) \in Nat
    BY EntriesType DEF Credits
  <2>3. questKills' \in [SessionId -> Nat]
    BY <1>3, <2>2 DEF AttackKill, PlayerInv
  <2>4. \A t \in SessionId : player'[t] \in PlayerData /\ player'[t].exp < player'[t].maxExp
    BY <1>3, KillPays
  <2>5. player' = [t \in SessionId |-> player'[t]]
    BY <1>3 DEF AttackKill
  <2>6. nextNpcUid' \in 1..(MaxNpcUid + 1)
    BY <2>1, CombatAssumption
  <2> QED BY <2>3, <2>4, <2>5, <2>6 DEF PlayerInv
<1>4. ASSUME NEW s \in SessionId, PayQuest(s) PROVE PlayerInv'
  <2> DEFINE q == Paid(player[s], QuestExp, QuestGold)
  <2>1. q \in PlayerData /\ q.exp < q.maxExp
    BY PaidFacts, CombatAssumption DEF PlayerInv
  <2>2. player' = [player EXCEPT ![s] = q] /\ UNCHANGED <<questKills, nextNpcUid>>
    BY <1>4 DEF PayQuest
  <2> HIDE DEF q
  <2> QED BY <2>1, <2>2 DEF PlayerInv
<1>5. ASSUME NEW s \in SessionId, ForgetPlayer(s) PROVE PlayerInv'
  <2>1. NewPlayer \in PlayerData /\ NewPlayer.exp < NewPlayer.maxExp
    BY CombatAssumption DEF NewPlayer, PlayerData
  <2> QED BY <1>5, <2>1 DEF ForgetPlayer, PlayerInv
<1>6. ASSUME NEW s, NEW uid, AttackHit(s, uid) PROVE UNCHANGED <<player, questKills, nextNpcUid>>
  BY <1>6 DEF AttackHit
<1> QED BY <1>1, <1>2, <1>3, <1>4, <1>5, <1>6
        DEF CombatNext, allVars, combatVars, OnAttack

\* The invariant of parties, NPCs and players holds throughout.
LEMMA CombatInvariance == CombatSpec => []CInv
<1>1. CInv /\ [CombatNext]_allVars => CInv'
  BY PartyStep, NextIInv, NpcStep, PlayerStep DEF CInv
<1> QED BY <1>1, InitCInv, PTL DEF CombatSpec

\* After every handler the exp of every player is below its maxExp: the loop of
\* CheckLevelUp ends, and leaves nothing to do.
THEOREM ExpStaysBelowMax == CombatSpec => []ExpBelowMax
<1>1. CInv => ExpBelowMax
  BY DEF CInv, IInv, NpcInv, PlayerInv, ExpBelowMax, CombatTypeOK
<1> QED BY <1>1, CombatInvariance, PTL

-----------------------------------------------------------------------------
(* Who is paid for a kill.                                                 *)

\* A step that gives out a new uid for an NPC is a kill.
LEMMA KillSteps ==
  ASSUME NpcInv, [CombatNext]_allVars, IsKill
  PROVE  \E s \in SessionId, uid \in 1..MaxNpcUid : AttackKill(s, uid)
<1>1. \A s, uid : AttackHit(s, uid) => nextNpcUid' = nextNpcUid
  BY DEF AttackHit
<1> QED BY <1>1, OnlyAttackTouchesNpcs DEF IsKill

\* Alone, a player is its own party of one.
LEMMA SharesAlone ==
  ASSUME IInv, NEW s \in sessions, playerParty[s] = NoParty
  PROVE  /\ Cardinality(Sharing(s)) = 1
         /\ \A t \in SessionId : Entries(s, t) = IF t = s THEN 1 ELSE 0
<1>1. s \in SessionId
  BY DEF IInv, TypeOK, SessionTypeOK
<1>2. Sharing(s) = {<<s, 1>>} /\ Cardinality(Sharing(s)) = 1
  BY <1>1, FounderFacts DEF Sharing
<1>3. ASSUME NEW t \in SessionId PROVE Entries(s, t) = IF t = s THEN 1 ELSE 0
  <2>1. CASE t = s
    <3>1. Copies(Sharing(s), t) = Sharing(s)
      BY <1>2, <2>1 DEF Copies
    <3> QED BY <1>2, <2>1, <3>1 DEF Entries
  <2>2. CASE t # s
    <3>1. Copies(Sharing(s), t) = {}
      BY <1>2, <2>2 DEF Copies
    <3> QED BY <2>2, <3>1, FS_EmptySet DEF Entries
  <2> QED BY <2>1, <2>2
<1> QED BY <1>2, <1>3

\* As long as every session is in one party, the sessions mapped to a party have
\* one entry each in it, and the others none.
LEMMA SharesInParty ==
  ASSUME IInv, OnePartyEach, NEW s \in SessionId, playerParty[s] # NoParty
  PROVE  /\ Cardinality(Sharing(s)) =
              Cardinality({t \in SessionId : playerParty[t] = playerParty[s]})
         /\ \A t \in SessionId :
              Entries(s, t) = IF playerParty[t] = playerParty[s] THEN 1 ELSE 0
<1> DEFINE p == playerParty[s]
           m == parties[p]
           mapped == {t \in SessionId : playerParty[t] = p}
           f == [t \in mapped |-> <<t, 1>>]
<1>1. p \in PartyId /\ p # NoParty /\ Sharing(s) = m /\ m \subseteq Entry
  BY DEF IInv, TypeOK, Sharing
<1>2. \A e \in m : e = <<e[1], 1>> /\ e[1] \in mapped
  BY <1>1 DEF OnePartyEach, Entry
<1>3. ASSUME NEW t \in mapped PROVE <<t, 1>> \in m /\ t \in sessions
  <2>1. playerParty[t] = p /\ t \in SessionId
    OBVIOUS
  <2>2. PICK e \in m : e[1] = t
    BY <1>1, <2>1 DEF IInv, MapInv, Lists
  <2>3. <<t, 1>> \in m
    BY <1>2, <2>2
  <2>4. t \in sessions
    BY <1>1, <2>1 DEF IInv, EndedHoldsNothing
  <2> QED BY <2>3, <2>4
<1>4. Cardinality(m) = Cardinality(mapped)
  <2>1. f \in Bijection(mapped, m)
    <3>1. f \in [mapped -> m]
      BY <1>3
    <3>2. \A t, u \in mapped : f[t] = f[u] => t = u
      OBVIOUS
    <3>3. \A e \in m : \E t \in mapped : f[t] = e
      BY <1>2
    <3> HIDE DEF f, m, mapped
    <3> QED BY <3>1, <3>2, <3>3 DEF Bijection, Injection, IsInjective, Surjection
  <2>2. IsFiniteSet(mapped)
    <3>1. IsFiniteSet(SessionId)
      BY SessionAssumption, FS_Interval DEF SessionId
    <3> QED BY <3>1, FS_Subset
  <2>3. ExistsBijection(mapped, m)
    BY <2>1 DEF ExistsBijection
  <2> HIDE DEF mapped, m
  <2> QED BY <2>2, <2>3, FS_Bijection
<1>5. ASSUME NEW t \in SessionId PROVE Entries(s, t) = IF playerParty[t] = p THEN 1 ELSE 0
  <2>1. CASE playerParty[t] = p
    <3>1. <<t, 1>> \in m /\ t \in sessions
      BY <1>3, <2>1
    <3>2. Copies(m, t) = {<<t, 1>>}
      BY <1>2, <3>1 DEF Copies
    <3>3. Cardinality(Copies(m, t)) = 1
      BY <3>2, FS_Singleton
    <3> QED BY <1>1, <2>1, <3>1, <3>3 DEF Entries
  <2>2. CASE playerParty[t] # p
    <3>1. Copies(m, t) = {}
      BY <1>2, <2>2 DEF Copies
    <3>2. Cardinality(Copies(m, t)) = 0
      BY <3>1, FS_EmptySet
    <3> QED BY <1>1, <2>2, <3>2 DEF Entries
  <2> QED BY <2>1, <2>2
<1> QED BY <1>1, <1>4, <1>5

\* Whom a kill of s concerns.
Company(s) ==
    IF playerParty[s] = NoParty THEN {s}
    ELSE {t \in SessionId : playerParty[t] = playerParty[s]}

\* They, and they alone, are paid and credited, once.
LEMMA CompanyShares ==
  ASSUME IInv, OnePartyEach, NEW s \in sessions
  PROVE  /\ Cardinality(Sharing(s)) = Cardinality(Company(s))
         /\ \A t \in SessionId : /\ Entries(s, t) = IF t \in Company(s) THEN 1 ELSE 0
                                 /\ Credits(s, t) = IF t \in Company(s) THEN 1 ELSE 0
<1>1. s \in SessionId
  BY DEF IInv, TypeOK, SessionTypeOK
<1>2. CASE playerParty[s] = NoParty
  <2>1. Company(s) = {s} /\ Cardinality(Company(s)) = 1
    BY <1>2, FS_Singleton DEF Company
  <2> QED BY <1>2, <2>1, SharesAlone DEF Credits
<1>3. CASE playerParty[s] # NoParty
  <2>1. Company(s) = {t \in SessionId : playerParty[t] = playerParty[s]}
    BY <1>3 DEF Company
  <2>2. s \in Company(s)
    BY <1>1, <2>1
  <2> QED BY <1>1, <1>3, <2>1, <2>2, SharesInParty DEF Credits
<1> QED BY <1>2, <1>3

\* What FairShare says of one step.
Fair ==
    LET credited == {t \in SessionId : questKills'[t] # questKills[t]}
        gain(t) == player'[t].gold - player[t].gold
    IN  /\ \E s \in sessions :
              credited = IF playerParty[s] = NoParty THEN {s}
                         ELSE {t \in SessionId : playerParty[t] = playerParty[s]}
        /\ \A t \in credited :
              /\ questKills'[t] = questKills[t] + 1
              /\ gain(t) = GoldReward \div Cardinality(credited)
        /\ \A t \in SessionId \ credited : player'[t] = player[t]

\* A kill is shared fairly.
LEMMA KillIsFair ==
  ASSUME CInv, [CombatNext]_allVars, IsKill, OnePartyEach PROVE Fair
<1>1. PICK s \in SessionId, uid \in 1..MaxNpcUid : AttackKill(s, uid)
  BY KillSteps DEF CInv
<1>2. s \in sessions /\ IInv /\ PlayerInv
  BY <1>1 DEF AttackKill, CInv
<1> DEFINE credited == {t \in SessionId : questKills'[t] # questKills[t]}
           share == Share(s, GoldReward)
<1>3. Company(s) \subseteq SessionId
  BY DEF Company
<1>4. \A t \in SessionId : questKills'[t] = questKills[t] + IF t \in Company(s) THEN 1 ELSE 0
  BY <1>1, <1>2, KillPays, CompanyShares
<1>5. \A t \in SessionId : questKills[t] \in Nat
  BY <1>2 DEF PlayerInv
<1>6. credited = Company(s)
  BY <1>3, <1>4, <1>5
<1>7. share \in Nat /\ share = GoldReward \div Cardinality(Company(s))
  BY <1>2, CombatAssumption, ShareFacts, CompanyShares DEF Share
<1> HIDE DEF share
<1>8. ASSUME NEW t \in SessionId, t \in Company(s) PROVE player'[t].gold - player[t].gold = share
  <2>1. Entries(s, t) = 1
    BY <1>2, <1>8, CompanyShares
  <2>2. player'[t].gold = player[t].gold + 1 * share
    BY <1>1, <1>2, <2>1, KillPays DEF share
  <2>3. player[t].gold \in Nat
    BY <1>2 DEF PlayerInv, PlayerData
  <2> QED BY <1>7, <2>2, <2>3
<1>9. ASSUME NEW t \in SessionId, t \notin Company(s) PROVE player'[t] = player[t]
  <2>1. Entries(s, t) = 0
    BY <1>2, <1>9, CompanyShares
  <2> QED BY <1>1, <1>2, <2>1, KillPays
<1> HIDE DEF credited
<1>10. /\ credited = IF playerParty[s] = NoParty THEN {s}
                     ELSE {t \in SessionId : playerParty[t] = playerParty[s]}
       /\ \A t \in credited :
             /\ questKills'[t] = questKills[t] + 1
             /\ player'[t].gold - player[t].gold = GoldReward \div Cardinality(credited)
       /\ \A t \in SessionId \ credited : player'[t] = player[t]
  BY <1>3, <1>4, <1>6, <1>7, <1>8, <1>9 DEF Company
<1> QED BY <1>2, <1>10 DEF Fair, credited

\* As long as every session is in one party, a kill pays and credits the killer's
\* party, all of it, once and equally, and nobody else.
THEOREM KillsAreSharedFairly == CombatSpec => FairShare
<1>1. CInv /\ [CombatNext]_allVars => [IsKill /\ OnePartyEach => Fair]_allVars
  BY KillIsFair
<1> QED BY <1>1, CombatInvariance, PTL DEF CombatSpec, FairShare, Fair

-----------------------------------------------------------------------------
(* SumFunctionOnSet, the sum of a function over a finite set. *)

\* The sum over nothing is 0, and over a set it is one of the values and the sum
\* over the others.  Which value is open.
LEMMA SumUnfolds ==
  ASSUME NEW S, IsFiniteSet(S), NEW f \in [S -> Nat]
  PROVE  \E iter \in [SUBSET S -> Nat] :
            /\ \A T \in SUBSET S : iter[T] = IF T = {} THEN 0
                 ELSE f[CHOOSE x \in T : TRUE] + iter[T \ {CHOOSE x \in T : TRUE}]
            /\ SumFunctionOnSet(f, S) = iter[S]
<1> DEFINE one(T) == CHOOSE x \in T : TRUE
           X == SUBSET S
           Stop == {{}}
           mu == [T \in X |-> Cardinality(T)]
           step == [T \in X |-> T \ {one(T)}]
           base == [T \in X |-> 0]
           comb == [T \in X |-> [n \in Nat |-> IF T = {} THEN 0 ELSE f[one(T)] + n]]
           Sums(c) == c = [T \in X |-> IF T = {} THEN 0 ELSE f[one(T)] + c[T \ {one(T)}]]
<1>1. \A T \in X : T # {} => one(T) \in T
  OBVIOUS
<1> HIDE DEF one
<1>2. \A T \in X : IsFiniteSet(T) /\ Cardinality(T) \in Nat
  BY FS_Subset, FS_CardinalityType
<1>3. \A T \in X : T # {} => Cardinality(T \ {one(T)}) < Cardinality(T)
  BY <1>1, <1>2, FS_RemoveElement
<1>4. /\ mu \in [X -> Nat] /\ step \in [X -> X] /\ base \in [X -> Nat]
      /\ \A T \in X : T \notin Stop => mu[step[T]] < mu[T]
  BY <1>2, <1>3
<1>5. comb \in [X -> [Nat -> Nat]]
  BY <1>1
<1>6. PICK g \in [X -> Nat] : R!Satisfies(g, X, Stop, step, base, comb)
  <2> HIDE DEF mu, X, Stop, step, base, comb
  <2> QED BY <1>4, <1>5, R!RecursionExists
<1>7. ASSUME NEW T \in X PROVE g[T] = IF T = {} THEN 0 ELSE f[one(T)] + g[T \ {one(T)}]
  <2>1. g[T] = IF T \in Stop THEN base[T] ELSE comb[T][g[step[T]]]
    <3> HIDE DEF X, Stop, step, base, comb
    <3> QED BY <1>6 DEF R!Satisfies
  <2> QED BY <2>1
<1>8. Sums(g)
  BY <1>7
<1> DEFINE sum == CHOOSE c : Sums(c)
<1>9. Sums(sum)
  <2> HIDE DEF Sums
  <2> QED BY <1>8
<1>10. SumFunctionOnSet(f, S) = sum[S]
  BY DEF SumFunctionOnSet, FoldFunctionOnSet, MapThenFoldSet, one
<1> HIDE DEF sum
<1>11. \A T \in X : sum[T] = IF T = {} THEN 0 ELSE f[one(T)] + sum[T \ {one(T)}]
  BY <1>9
<1>12. \A T \in X : sum[T] \in Nat
  <2> DEFINE Bad == {T \in X : sum[T] \notin Nat}
  <2> SUFFICES ASSUME Bad # {} PROVE FALSE
    OBVIOUS
  <2>1. PICK T \in Bad : \A U \in Bad : mu[T] <= mu[U]
    <3>1. Bad \subseteq X
      OBVIOUS
    <3> HIDE DEF Bad, mu, X
    <3> QED BY <1>4, <3>1, R!LeastMeasure
  <2>2. T \in X /\ T # {}
    <3>1. T \in X /\ sum[T] \notin Nat
      BY DEF Bad
    <3>2. T = {} => sum[T] = 0
      BY <1>11, <3>1
    <3> QED BY <3>1, <3>2
  <2>3. f[one(T)] \in Nat /\ T \ {one(T)} \in X
    BY <1>1, <2>2
  <2> DEFINE U == T \ {one(T)}
  <2>4. sum[T] = f[one(T)] + sum[U] /\ sum[T] \notin Nat /\ U \in X
    BY <1>11, <2>2, <2>3
  <2>5. mu[U] \in Nat /\ mu[T] \in Nat /\ mu[U] < mu[T]
    BY <1>2, <1>3, <2>2, <2>3
  <2> HIDE DEF U, mu, X
  <2>6. sum[U] \notin Nat
    BY <2>3, <2>4
  <2>7. mu[T] <= mu[U]
    BY <2>1, <2>4, <2>6
  <2> QED BY <2>5, <2>7
<1>13. sum \in [X -> Nat]
  BY <1>9, <1>12
<1> QED BY <1>10, <1>11, <1>13 DEF one

\* So it is a number.
LEMMA SumType ==
  ASSUME NEW S, IsFiniteSet(S), NEW f \in [S -> Nat] PROVE SumFunctionOnSet(f, S) \in Nat
<1> DEFINE one(T) == CHOOSE x \in T : TRUE
<1>1. PICK iter \in [SUBSET S -> Nat] :
         /\ \A T \in SUBSET S : iter[T] = IF T = {} THEN 0 ELSE f[one(T)] + iter[T \ {one(T)}]
         /\ SumFunctionOnSet(f, S) = iter[S]
  BY SumUnfolds
<1> QED BY <1>1

\* If every value of h is that of f and c for each member of M with that key, the
\* sum of h is no more than the sum of f and c for each member of M.
LEMMA SumBound ==
  ASSUME NEW S, IsFiniteSet(S), NEW f \in [S -> Nat], NEW h \in [S -> Nat],
         NEW M, IsFiniteSet(M), NEW key \in [M -> S], NEW c \in Nat,
         \A t \in S : h[t] <= f[t] + Cardinality({e \in M : key[e] = t}) * c
  PROVE  SumFunctionOnSet(h, S) <= SumFunctionOnSet(f, S) + Cardinality(M) * c
<1> DEFINE X == SUBSET S
           one(T) == CHOOSE x \in T : TRUE
           B(T) == {e \in M : key[e] \in T}
           mu == [T \in X |-> Cardinality(T)]
<1>1. PICK sf \in [X -> Nat] :
         /\ \A T \in X : sf[T] = IF T = {} THEN 0 ELSE f[one(T)] + sf[T \ {one(T)}]
         /\ SumFunctionOnSet(f, S) = sf[S]
  BY SumUnfolds
<1>2. PICK sh \in [X -> Nat] :
         /\ \A T \in X : sh[T] = IF T = {} THEN 0 ELSE h[one(T)] + sh[T \ {one(T)}]
         /\ SumFunctionOnSet(h, S) = sh[S]
  BY SumUnfolds
<1>3. \A T \in X : T # {} => one(T) \in T
  OBVIOUS
<1>4. \A T : IsFiniteSet(B(T)) /\ Cardinality(B(T)) \in Nat
  BY FS_Subset, FS_CardinalityType
<1>5. \A T \in X : IsFiniteSet(T) /\ Cardinality(T) \in Nat
  BY FS_Subset, FS_CardinalityType
<1>6. mu \in [X -> Nat]
  BY <1>5
<1> HIDE DEF one
<1> DEFINE Good(T) == sh[T] <= sf[T] + Cardinality(B(T)) * c
           Bad == {T \in X : ~Good(T)}
<1>7. Bad = {}
  <2> SUFFICES ASSUME Bad # {} PROVE FALSE
    OBVIOUS
  <2>1. PICK T \in Bad : \A U \in Bad : mu[T] <= mu[U]
    <3>1. Bad \subseteq X
      OBVIOUS
    <3> HIDE DEF Bad, mu, X
    <3> QED BY <1>6, <3>1, R!LeastMeasure
  <2>2. T \in X /\ ~Good(T)
    OBVIOUS
  <2>3. T # {}
    <3>1. ASSUME T = {} PROVE Good(T)
      <4>1. sh[T] = 0 /\ sf[T] = 0 /\ Cardinality(B(T)) \in Nat
        BY <1>1, <1>2, <1>4, <3>1
      <4> HIDE DEF B
      <4> QED BY <4>1
    <3> QED BY <2>2, <3>1
  <2> DEFINE x == one(T)
             U == T \ {x}
  <2>4. x \in T /\ x \in S /\ U \in X
    BY <1>3, <2>2, <2>3
  <2>5. sh[T] = h[x] + sh[U] /\ sf[T] = f[x] + sf[U]
    BY <1>1, <1>2, <2>2, <2>3
  <2>6. mu[U] \in Nat /\ mu[T] \in Nat /\ mu[U] < mu[T]
    <3>1. Cardinality(U) = Cardinality(T) - 1
      BY <1>5, <2>2, <2>4, FS_RemoveElement
    <3>2. mu[U] = Cardinality(U) /\ mu[T] = Cardinality(T) /\ Cardinality(T) \in Nat /\ Cardinality(U) \in Nat
      BY <1>5, <2>2, <2>4
    <3> QED BY <3>1, <3>2
  <2>7. Good(U)
    <3>1. ~(mu[T] <= mu[U])
      BY <2>6
    <3> HIDE DEF mu, U, Good
    <3> QED BY <2>1, <2>4, <3>1
  <2>8. Cardinality(B(T)) = Cardinality(B({x})) + Cardinality(B(U))
    <3>1. B(T) = B({x}) \cup B(U) /\ B({x}) \cap B(U) = {}
      BY <2>4
    <3> HIDE DEF B
    <3>2. Cardinality(B({x}) \cap B(U)) = 0
      BY <3>1, FS_EmptySet
    <3>3. Cardinality(B({x}) \cup B(U)) =
            Cardinality(B({x})) + Cardinality(B(U)) - Cardinality(B({x}) \cap B(U))
      BY <1>4, FS_Union
    <3>4. Cardinality(B({x})) \in Nat /\ Cardinality(B(U)) \in Nat
      BY <1>4
    <3> QED BY <3>1, <3>2, <3>3, <3>4
  <2>9. h[x] <= f[x] + Cardinality(B({x})) * c
    <3>1. B({x}) = {e \in M : key[e] = x}
      OBVIOUS
    <3> QED BY <2>4, <3>1
  <2> DEFINE a == Cardinality(B({x}))
             b == Cardinality(B(U))
             n == Cardinality(B(T))
  <2>10. /\ a \in Nat /\ b \in Nat /\ n = a + b
         /\ h[x] \in Nat /\ f[x] \in Nat /\ sh[U] \in Nat /\ sf[U] \in Nat
         /\ h[x] <= f[x] + a * c /\ sh[U] <= sf[U] + b * c
    BY <1>1, <1>2, <1>4, <2>4, <2>7, <2>8, <2>9
  <2>11. ~(sh[T] <= sf[T] + n * c)
    BY <2>2
  <2> HIDE DEF a, b, n, U, x
  <2>12. n * c = a * c + b * c /\ a * c \in Nat /\ b * c \in Nat
    BY <2>10
  <2> QED BY <2>5, <2>10, <2>11, <2>12
<1>8. B(S) = M
  OBVIOUS
<1>9. Good(S)
  BY <1>7
<1> QED BY <1>1, <1>2, <1>8, <1>9

-----------------------------------------------------------------------------
\* What a kill adds to the gold of all players is no more than the reward.
LEMMA KillMintsNothing ==
  ASSUME CInv, [CombatNext]_allVars, IsKill
  PROVE  GoldOf(player') <= GoldOf(player) + GoldReward
<1>1. PICK s \in SessionId, uid \in 1..MaxNpcUid : AttackKill(s, uid)
  BY KillSteps DEF CInv
<1>2. IInv /\ PlayerInv
  BY DEF CInv
<1> DEFINE f == [t \in SessionId |-> player[t].gold]
           h == [t \in SessionId |-> player'[t].gold]
           M == Sharing(s)
           key == [e \in M |-> e[1]]
           c == Share(s, GoldReward)
<1>3. /\ IsFiniteSet(M) /\ M \subseteq Entry /\ Cardinality(M) \in Nat
      /\ c \in Nat /\ Cardinality(M) * c <= GoldReward
  BY <1>2, SharingFacts, ShareFacts, CombatAssumption
<1>4. IsFiniteSet(SessionId)
  BY SessionAssumption, FS_Interval DEF SessionId
<1>5. f \in [SessionId -> Nat] /\ h \in [SessionId -> Nat]
  <2>1. \A t \in SessionId : player[t] \in PlayerData /\ player'[t] \in PlayerData
    BY <1>1, <1>2, KillPays DEF PlayerInv
  <2> QED BY <2>1 DEF PlayerData
<1>6. key \in [M -> SessionId]
  BY <1>3 DEF Entry
<1>7. ASSUME NEW t \in SessionId
      PROVE  h[t] <= f[t] + Cardinality({e \in M : key[e] = t}) * c
  <2> DEFINE n == Cardinality({e \in M : key[e] = t})
             k == Entries(s, t)
  <2>1. {e \in M : key[e] = t} = Copies(M, t)
    BY DEF Copies
  <2>2. n \in Nat /\ n = Cardinality(Copies(M, t))
    <3>1. IsFiniteSet({e \in M : key[e] = t})
      BY <1>3, FS_Subset
    <3> QED BY <2>1, <3>1, FS_CardinalityType
  <2>3. k = n \/ k = 0
    BY <2>2 DEF Entries
  <2>4. h[t] = f[t] + k * c /\ f[t] \in Nat
    BY <1>1, <1>2, <1>5, KillPays
  <2> HIDE DEF n, k, c, M, f, h
  <2>5. n * c \in Nat /\ (k * c = n * c \/ k * c = 0)
    BY <1>3, <2>2, <2>3
  <2>6. h[t] <= f[t] + n * c
    BY <2>4, <2>5
  <2> QED BY <2>6 DEF n
<1>8. GoldOf(player) = SumFunctionOnSet(f, SessionId) /\ GoldOf(player') = SumFunctionOnSet(h, SessionId)
  BY DEF GoldOf, SumFunction
<1>9. SumFunctionOnSet(f, SessionId) \in Nat /\ SumFunctionOnSet(h, SessionId) \in Nat
  <2> HIDE DEF f, h
  <2> QED BY <1>4, <1>5, SumType
<1> HIDE DEF f, h, M, key, c
<1>10. SumFunctionOnSet(h, SessionId) <= SumFunctionOnSet(f, SessionId) + Cardinality(M) * c
  BY <1>3, <1>4, <1>5, <1>6, <1>7, SumBound
<1>11. Cardinality(M) * c \in Nat
  BY <1>3
<1> QED BY <1>3, <1>8, <1>9, <1>10, <1>11, CombatAssumption

\* Sharing pays out no more than the NPC was worth, also when a party lists a
\* session twice.
THEOREM KillsMintNoGold == CombatSpec => NoMintedGold
<1>1. CInv /\ [CombatNext]_allVars =>
        [IsKill => GoldOf(player') <= GoldOf(player) + GoldReward]_allVars
  BY KillMintsNothing
<1> QED BY <1>1, CombatInvariance, PTL DEF CombatSpec, NoMintedGold
=============================================================================
