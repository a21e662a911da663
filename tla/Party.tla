-------------------------------- MODULE Party --------------------------------
(***************************************************************************)
(* The party system: g_parties, g_playerParty, g_pendingInvites and the    *)
(* handlers that keep the three in step.  A packet that is answered with   *)
(* an error message only changes nothing and is a stuttering step.         *)
(***************************************************************************)
EXTENDS Sessions, FiniteSets

CONSTANTS
    MAX_PARTY,      \* members a party may have
    MaxPartyId      \* bound: parties created in a run of the server

ASSUME PartyAssumption == MAX_PARTY \in Nat /\ MAX_PARTY >= 2 /\ MaxPartyId \in Nat

VARIABLES
    parties,        \* g_parties: the members of each party
    playerParty,    \* g_playerParty: session -> party, NoParty if no entry
    pendingInvites, \* g_pendingInvites: invitee -> inviter, or INVALID_SESSION
    nextPartyId

partyVars == <<parties, playerParty, pendingInvites, nextPartyId>>
vars == <<sessions, nextSessionId, charUid, name,
          parties, playerParty, pendingInvites, nextPartyId>>

PartyId == 1..MaxPartyId
NoParty == 0

(***************************************************************************)
(* std::vector<SessionId> members, up to the order of its entries, which   *)
(* no handler looks at.  The vector may hold a session more than once, so  *)
(* an entry is a pair: the session and the number of this copy of it.  An  *)
(* id without a party has no entries.                                      *)
(***************************************************************************)
Entry == SessionId \X Nat
Copies(m, s) == {e \in m : e[1] = s}
Lists(m, s) == \E e \in m : e[1] = s
push_back(m, s) == m \cup {<<s, Cardinality(Copies(m, s)) + 1>>}
remove(m, s) == {e \in m : e[1] # s}

Init ==
    /\ SessionInit
    /\ parties = [p \in PartyId |-> {}]
    /\ playerParty = [s \in SessionId |-> NoParty]
    /\ pendingInvites = [s \in SessionId |-> INVALID_SESSION]
    /\ nextPartyId = 1

\* Whose map entries go when s leaves and rest stays behind: a party left with
\* one member or none is disbanded, and that member's entry is erased whatever
\* party it names.
ErasedOnlyLeaver(s, rest) == {s}    \* mutant: the last member's entry stays
Erased(s, rest) ==
    {s} \cup (IF Cardinality(rest) <= 1 THEN {e[1] : e \in rest} ELSE {})

\* The caller's map entry is erased, then all of its copies in that party.
RemoveFromParty(s) ==
    IF playerParty[s] = NoParty
    THEN UNCHANGED <<parties, playerParty>>
    ELSE LET p == playerParty[s]
             rest == remove(parties[p], s)
         IN  /\ parties' = [parties EXCEPT ![p] = IF Cardinality(rest) <= 1 THEN {} ELSE rest]
             /\ playerParty' = [t \in SessionId |->
                                  IF t \in Erased(s, rest) THEN NoParty ELSE playerParty[t]]

OnPartyLeave(s) ==
    /\ s \in sessions
    /\ RemoveFromParty(s)
    /\ UNCHANGED <<sessionVars, pendingInvites, nextPartyId>>

\* The session a name resolves to: ForEach walks the sessions by increasing id
\* and the last one that carries the name wins.
IsTarget(t, n) ==
    /\ t \in sessions
    /\ name[t] = n
    /\ \A u \in sessions : name[u] = n => u <= t

InvitableSelf(s, t) == playerParty[t] = NoParty    \* mutant: oneself too
Invitable(s, t) == t # s /\ playerParty[t] = NoParty

InviteByChar(s, t) == [pendingInvites EXCEPT ![t] = charUid[s]] \* mutant: a charUid
Invite(s, t) == [pendingInvites EXCEPT ![t] = s]

\* A second invitation overwrites the first.  Whether the target already has a
\* party is looked at here, and not again in OnPartyAccept.
OnPartyInvite(s, n) ==
    /\ s \in sessions
    /\ playerParty[s] # NoParty => Cardinality(parties[playerParty[s]]) < MAX_PARTY
    /\ \E t \in SessionId :
          /\ IsTarget(t, n)
          /\ Invitable(s, t)
          /\ pendingInvites' = Invite(s, t)
    /\ UNCHANGED <<sessionVars, parties, playerParty, nextPartyId>>

\* accept = 0, or the inviter has gone: the invitation is consumed.
PartyInviteDropped(s) ==
    /\ s \in sessions
    /\ pendingInvites[s] # INVALID_SESSION
    /\ pendingInvites' = [pendingInvites EXCEPT ![s] = INVALID_SESSION]
    /\ UNCHANGED <<sessionVars, parties, playerParty, nextPartyId>>

HasRoomAlways(m) == TRUE            \* mutant: checked at the invitation only
HasRoom(m) == Cardinality(m) < MAX_PARTY

SamePartyId(isNew) == nextPartyId   \* mutant: the counter is not advanced
IdAfter(isNew) == IF isNew THEN nextPartyId + 1 ELSE nextPartyId

\* accept = 1 and the inviter is there: its party, or a new one with it as the
\* only member, takes the caller in unless it has filled up meanwhile.
PartyJoin(s) ==
    LET inviter == pendingInvites[s]
        isNew == playerParty[inviter] = NoParty
        p == IF isNew THEN nextPartyId ELSE playerParty[inviter]
        members == IF isNew THEN push_back({}, inviter) ELSE parties[p]
        joined == IF HasRoom(members) THEN {s, inviter} ELSE {inviter}
    IN  /\ s \in sessions
        /\ inviter \in sessions
        /\ isNew => nextPartyId \in PartyId
        /\ pendingInvites' = [pendingInvites EXCEPT ![s] = INVALID_SESSION]
        /\ parties' = [parties EXCEPT ![p] =
                          IF HasRoom(members) THEN push_back(members, s) ELSE members]
        /\ playerParty' = [t \in SessionId |-> IF t \in joined THEN p ELSE playerParty[t]]
        /\ nextPartyId' = IdAfter(isNew)
        /\ UNCHANGED sessionVars

OnPartyAccept(s) == PartyInviteDropped(s) \/ PartyJoin(s)

DoAccept ==
    /\ AddSession
    /\ UNCHANGED partyVars

OnCharSelect(s, c) ==
    /\ SelectChar(s, c)
    /\ UNCHANGED partyVars

KeepInvite(s) == pendingInvites     \* mutant: the invitation outlives its session
DropInvite(s) == [pendingInvites EXCEPT ![s] = INVALID_SESSION]

\* OnPlayerDisconnect, as far as parties go.
OnPlayerDisconnect(s) ==
    /\ RemoveFromParty(s)
    /\ pendingInvites' = DropInvite(s)
    /\ UNCHANGED nextPartyId

OnDisconnect(s) ==
    /\ s \in sessions
    /\ OnPlayerDisconnect(s)
    /\ RemoveSession(s)

Next ==
    \/ DoAccept
    \/ \E s \in SessionId :
          \/ \E c \in CharUids : OnCharSelect(s, c)
          \/ \E n \in MaybeChar : OnPartyInvite(s, n)
          \/ OnPartyAccept(s)
          \/ OnPartyLeave(s)
          \/ OnDisconnect(s)

Spec == Init /\ [][Next]_vars

-----------------------------------------------------------------------------
\* What each variable holds.
TypeOK ==
    /\ SessionTypeOK
    /\ parties \in [PartyId -> SUBSET Entry]
    /\ playerParty \in [SessionId -> PartyId \cup {NoParty}]
    /\ pendingInvites \in [SessionId -> SessionId \cup {INVALID_SESSION}]
    /\ nextPartyId \in 1..(MaxPartyId + 1)

\* The map never dangles: a session's party exists and lists the session.
\* OnPartyInvite reads g_parties[pit->second] and OnAttack divides by the
\* number of members without a check; a stale entry would create an empty
\* party there.
MappedIsMember ==
    \A s \in SessionId : playerParty[s] # NoParty =>
        Lists(parties[playerParty[s]], s)

\* Between handlers a party has two members at least and MAX_PARTY at most,
\* although invitations are handed out without reserving a place.
PartySize ==
    \A p \in PartyId : parties[p] # {} =>
        Cardinality(parties[p]) \in 2..MAX_PARTY

\* What a session owns in the party tables goes with it: a session that has
\* ended is mapped to no party and holds no invitation.
EndedHoldsNothing ==
    \A s \in SessionId \ sessions :
        playerParty[s] = NoParty /\ pendingInvites[s] = INVALID_SESSION

\* A disbanded party never comes back: a late OnPartyAccept for an inviter
\* whose party is gone founds a new one.
DisbandedStaysDisbanded ==
    [][\A p \in PartyId : p < nextPartyId /\ parties[p] = {} => parties'[p] = {}]_vars

\* Membership needs an invitation: a session comes into a party only as the
\* invitee of one of its members, or as the inviter whose invitee has just
\* founded it.
JoinByInvitation ==
    [][\A s \in SessionId :
          LET p == playerParty'[s]
          IN  p \notin {NoParty, playerParty[s]} =>
                \/ pendingInvites[s] # INVALID_SESSION
                   /\ playerParty'[pendingInvites[s]] = p
                \/ parties[p] = {} /\ \E t \in SessionId : pendingInvites[t] = s
      ]_vars

\* A session is listed once, in the party it is mapped to, and nowhere else.
\* "sessionId -> partyId" and the check "Already in a party" say so.
OnePartyEach ==
    \A p \in PartyId : \A e \in parties[p] :
        playerParty[e[1]] = p /\ e[2] = 1

\* The one way to lose it: a session that has a party accepts an invitation it
\* was sent before.  No other handler breaks OnePartyEach.
OnlyLateAcceptBreaksOneParty ==
    [][OnePartyEach /\ ~OnePartyEach' =>
          \E s \in SessionId :
             /\ playerParty[s] # NoParty
             /\ pendingInvites[s] # INVALID_SESSION
             /\ pendingInvites'[s] = INVALID_SESSION]_vars
=============================================================================
