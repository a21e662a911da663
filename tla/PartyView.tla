------------------------------- MODULE PartyView -------------------------------
(***************************************************************************)
(* The party handlers of the server together with the clients: what a      *)
(* player is shown of its party and of an invitation, and what the keys P, *)
(* Y and N do with it.                                                     *)
(*                                                                         *)
(* Packets to a client are a FIFO queue and keys take effect at once, as   *)
(* in WorldView.  The party shown is the set of entries of the members     *)
(* vector; hit points and places of the members are left out.              *)
(***************************************************************************)
EXTENDS Party, SequencesExt

CONSTANTS
    MaxQueue        \* bound: packets under way to a client before the next key

ASSUME PartyViewAssumption == MaxQueue \in Nat

VARIABLES
    queue,          \* packets under way to the client of each session
    view,           \* party: partyMembers; invite: who inviterName is, if pendingInvite
    hurried,        \* history: P was pressed while an SC_PARTY_UPDATE was under way
    mixed           \* history: a session was listed twice, see OnePartyEach

clientVars == <<queue, view, hurried, mixed>>
viewVars == <<vars, clientVars>>

NewView == [party |-> {}, invite |-> INVALID_SESSION]

PartyInvite(s) == [type |-> "SC_PARTY_INVITE", inviter |-> s]
PartyUpdate(m) == [type |-> "SC_PARTY_UPDATE", members |-> m]
PartyLeave(c) == [type |-> "SC_PARTY_LEAVE", charUid |-> c]
IsUpdate(p) == p.type = "SC_PARTY_UPDATE"
IsInvite(p) == p.type = "SC_PARTY_INVITE"

ViewInit ==
    /\ Init
    /\ queue = [s \in SessionId |-> <<>>]
    /\ view = [s \in SessionId |-> NewView]
    /\ hurried = [s \in SessionId |-> FALSE]
    /\ mixed = FALSE

-----------------------------------------------------------------------------
(* Sending.  q is the queues before. *)

\* To every entry of the vector m whose session is there.
SendTo(q, m, p) ==
    [t \in SessionId |->
       IF t \in sessions THEN q[t] \o [k \in 1..Cardinality(Copies(m, t)) |-> p] ELSE q[t]]

SendPartyUpdate(q, m) == SendTo(q, m, PartyUpdate(m))

\* What RemoveFromParty tells those who stay: who has left, and the new list or,
\* with charUid 0, the end of the party.
LeaverOnly(q, s, rest) == SendTo(q, rest, PartyLeave(charUid[s]))  \* mutant
TellRest(q, s, rest) ==
    LET left == SendTo(q, rest, PartyLeave(charUid[s]))
    IN  IF Cardinality(rest) <= 1 THEN SendTo(left, rest, PartyLeave(NoChar))
        ELSE SendPartyUpdate(left, rest)

ToldOfLeaving(s) ==
    IF playerParty[s] = NoParty THEN queue
    ELSE TellRest(queue, s, remove(parties[playerParty[s]], s))

-----------------------------------------------------------------------------
(* The keys of the game. *)

Key(s) == s \in sessions /\ loggedIn(s) /\ \A t \in SessionId : Len(queue[t]) <= MaxQueue
Listed == mixed' = (mixed \/ ~OnePartyEach')

\* P shows a party: leave it.  The client forgets the party at once.
LeaveKey(s) ==
    /\ Key(s) /\ view[s].party # {}
    /\ OnPartyLeave(s)
    /\ queue' = ToldOfLeaving(s)
    /\ view' = [view EXCEPT ![s].party = {}]
    /\ hurried' = [hurried EXCEPT ![s] = \E p \in Range(queue[s]) : IsUpdate(p)]
    /\ Listed

\* P without a party: the name of the player to invite is typed.
InviteKey(s, n) ==
    /\ Key(s) /\ view[s].party = {}
    /\ OnPartyInvite(s, n)
    /\ queue' = [t \in SessionId |->
                   IF IsTarget(t, n) THEN Append(queue[t], PartyInvite(s)) ELSE queue[t]]
    /\ UNCHANGED <<view, hurried, mixed>>

\* Y or N: CS_PARTY_ACCEPT goes out, which does not say whose invitation it
\* answers, and the question is gone from the screen.
AnswerKey(s) ==
    /\ Key(s) /\ view[s].invite # INVALID_SESSION
    /\ view' = [view EXCEPT ![s].invite = INVALID_SESSION]

JoinKey(s) ==
    /\ AnswerKey(s)
    /\ PartyJoin(s)
    /\ queue' = IF parties' = parties THEN queue
                ELSE SendPartyUpdate(queue, parties'[playerParty'[s]])
    /\ hurried' = [t \in SessionId |-> hurried[t] /\ playerParty'[t] = NoParty]
    /\ Listed

\* N, or Y after the inviter has gone; nothing happens if the server has no
\* invitation for the session any more.
Declined(s) ==
    \/ PartyInviteDropped(s)
    \/ pendingInvites[s] = INVALID_SESSION /\ UNCHANGED vars
DeclineKey(s) ==
    /\ AnswerKey(s)
    /\ Declined(s)
    /\ UNCHANGED <<queue, hurried, mixed>>

-----------------------------------------------------------------------------
(* The handlers of the client, and the rest of the server. *)

FirstStays(v, p) ==                     \* mutant: a question on the screen stays
    IF v.invite = INVALID_SESSION THEN [v EXCEPT !.invite = p.inviter] ELSE v
OnPartyInviteRecv(v, p) == [v EXCEPT !.invite = p.inviter]
OnPartyUpdateRecv(v, p) == [v EXCEPT !.party = p.members]
OnPartyLeaveRecv(v, p) == IF p.charUid = NoChar THEN [v EXCEPT !.party = {}] ELSE v

Handled(v, p) ==
    CASE p.type = "SC_PARTY_INVITE" -> OnPartyInviteRecv(v, p)
      [] p.type = "SC_PARTY_UPDATE" -> OnPartyUpdateRecv(v, p)
      [] p.type = "SC_PARTY_LEAVE"  -> OnPartyLeaveRecv(v, p)

Receive(s) ==
    /\ queue[s] # <<>>
    /\ view' = [view EXCEPT ![s] = Handled(@, Head(queue[s]))]
    /\ queue' = [queue EXCEPT ![s] = Tail(@)]
    /\ UNCHANGED <<vars, hurried, mixed>>

\* A client connects and enters the game.
Connects == DoAccept /\ UNCHANGED clientVars
Enters(s, c) == ~loggedIn(s) /\ OnCharSelect(s, c) /\ UNCHANGED clientVars

\* A client ends, or its connection does.
Ends(s) ==
    /\ \A t \in SessionId : Len(queue[t]) <= MaxQueue
    /\ OnDisconnect(s)
    /\ queue' = [ToldOfLeaving(s) EXCEPT ![s] = <<>>]
    /\ view' = [view EXCEPT ![s] = NewView]
    /\ hurried' = [hurried EXCEPT ![s] = FALSE]
    /\ Listed

ViewNext ==
    \/ Connects
    \/ \E s \in SessionId :
          \/ \E c \in CharUids : Enters(s, c) \/ InviteKey(s, c)
          \/ LeaveKey(s) \/ JoinKey(s) \/ DeclineKey(s)
          \/ Receive(s) \/ Ends(s)

ViewSpec == ViewInit /\ [][ViewNext]_viewVars

-----------------------------------------------------------------------------
Packet ==
    [type : {"SC_PARTY_INVITE"}, inviter : SessionId]
    \cup [type : {"SC_PARTY_UPDATE"}, members : SUBSET (SessionId \X (1..MAX_PARTY))]
    \cup [type : {"SC_PARTY_LEAVE"}, charUid : MaybeChar]

\* What each variable holds.
ViewTypeOK ==
    /\ TypeOK
    /\ queue \in [SessionId -> Seq(Packet)]
    /\ view \in [SessionId -> [party : SUBSET (SessionId \X (1..MAX_PARTY)),
                               invite : SessionId \cup {INVALID_SESSION}]]
    /\ hurried \in [SessionId -> BOOLEAN] /\ mixed \in BOOLEAN

\* What a client shows once it has handled the packets under way to it.
CaughtUp(s) == FoldLeft(Handled, view[s], queue[s])

\* A player that is in a party is shown that party, however members come and go:
\* without it P would invite instead of leave.  And only a player that has left
\* while an SC_PARTY_UPDATE was under way is shown a party it is not in.  (While
\* nobody has been listed twice.)
PartyShown ==
    ~mixed => \A s \in sessions :
        IF playerParty[s] # NoParty THEN CaughtUp(s).party = parties[playerParty[s]]
        ELSE CaughtUp(s).party = {} \/ hurried[s]

\* An invitation the server keeps is on the screen of the invitee, with the name
\* of the right inviter: whatever was answered before, it can be answered.
InviteShown ==
    \A s \in sessions : pendingInvites[s] # INVALID_SESSION =>
        CaughtUp(s).invite = pendingInvites[s]

\* The client follows its party and its invitation.  (Types included.)
PartyFollows == ViewTypeOK /\ PartyShown /\ InviteShown

\* CS_PARTY_ACCEPT names nobody, and g_pendingInvites has room for one.  A player
\* joins the party of another inviter than the one on its screen only if a later
\* invitation is under way at that moment.
JoinsWhomItSaw ==
    [][\A s \in SessionId :
          LET shown == view[s].invite
              p == playerParty'[s]
          IN  shown # INVALID_SESSION /\ p \notin {NoParty, playerParty[s]}
                 /\ view'[s].invite = INVALID_SESSION =>
              \/ Lists(parties'[p], shown)
              \/ \E k \in Range(queue[s]) : IsInvite(k)]_viewVars
=============================================================================
