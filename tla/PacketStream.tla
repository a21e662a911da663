----------------------------- MODULE PacketStream -----------------------------
(***************************************************************************)
(* One connection between a Session of the server and the TcpClient of a   *)
(* player: Send and its writes, TCP, and the framing of what is read, in   *)
(* both directions.  Each direction implements PacketFifo.                 *)
(*                                                                         *)
(* TCP keeps bytes in order but not the boundaries of packets: it splits   *)
(* and merges them at will.  A byte is a record that says which packet it  *)
(* comes from and where it stood in it, so that a framing error shows; the *)
(* length field is read from the first byte of a header.  The packets are  *)
(* those the two programs send, whose lengths the buffers are made for.    *)
(* How the bytes of a garbled stream are read depends on the payload and   *)
(* is not followed further.                                                *)
(***************************************************************************)
EXTENDS Naturals, SequencesExt

CONSTANTS
    HEADER_SIZE,
    MAX_PACKET_SIZE,        \* the client reads this much at once
    MAX_RECV_BUFFER_SIZE,   \* room of Session::recvBuffer_
    Lengths,                \* lengths of the packets that are sent
    SendSpace,              \* room for unread bytes of the client in TCP
    MaxSend                 \* bound: packets sent in each direction

ASSUME PacketAssumption ==
    /\ HEADER_SIZE \in Nat \ {0}
    /\ MAX_PACKET_SIZE \in Nat /\ HEADER_SIZE <= MAX_PACKET_SIZE
    /\ Lengths \subseteq HEADER_SIZE..MAX_PACKET_SIZE
    /\ MAX_RECV_BUFFER_SIZE \in Nat /\ MAX_PACKET_SIZE <= MAX_RECV_BUFFER_SIZE
    /\ SendSpace \in Nat /\ MaxSend \in Nat

VARIABLES
    link,           \* "up", "closed" (both ends can tell), "silent" (none can)
    open,           \* the session is in SessionManager and reads
    connected,      \* Session::connected_
    clConnected,    \* TcpClient::connected_
    \* server to client
    svSent,         \* history: the packets that Session::Send did not refuse
    writes,         \* what is left of the async_writes, in the order of posting
    rests,          \* what is left of partly done ones, not yet posted again
    down,           \* bytes under way
    clBuffer,       \* TcpClient::recvBuffer_
    clHandled,      \* history: packets given to the client's handlers
    downState,      \* "whole", "cut" or "garbled", see PacketFifo
    \* client to server
    clSent,         \* history: the packets TcpClient::Send was called with
    payload,        \* what the second send of TcpClient::Send has still to write
    up,             \* bytes under way
    svBuffer,       \* Session::recvBuffer_ up to recvSize_
    svHandled,      \* history: packets given to packetCallback_
    upState

downVars == <<svSent, writes, rests, down, clBuffer, clHandled, downState>>
upVars == <<clSent, payload, up, svBuffer, svHandled, upState>>
ends == <<link, open, connected, clConnected>>
vars == <<ends, downVars, upVars>>

\* A packet is told by its number in the order of sending.
Packets == [no : 1..MaxSend, length : Lengths]
Byte == [no : 1..MaxSend, length : Lengths, at : 1..MAX_PACKET_SIZE]
Garbage == [no |-> 0, length |-> 0]
States == {"whole", "cut", "garbled"}

\* The header with its length, and the payload after it.
Bytes(p) == [k \in 1..p.length |-> [no |-> p.no, length |-> p.length, at |-> k]]
Header(p) == SubSeq(Bytes(p), 1, HEADER_SIZE)
Payload(p) == SubSeq(Bytes(p), HEADER_SIZE + 1, p.length)

Init ==
    /\ link = "up" /\ open = TRUE /\ connected = TRUE /\ clConnected = TRUE
    /\ svSent = <<>> /\ writes = <<>> /\ rests = <<>> /\ down = <<>>
    /\ clBuffer = <<>> /\ clHandled = <<>> /\ downState = "whole"
    /\ clSent = <<>> /\ payload = <<>> /\ up = <<>>
    /\ svBuffer = <<>> /\ svHandled = <<>> /\ upState = "whole"

-----------------------------------------------------------------------------
(* Framing.  Both ends cut packets off the front of their buffer as long   *)
(* as it holds a whole one.                                                *)

LengthField(b) == b[1].length

\* What a handler is given: the packet if the bytes are those of one packet.
AsPacket(b) ==
    LET p == [no |-> b[1].no, length |-> b[1].length]
    IN  IF b = Bytes(p) THEN p ELSE Garbage

IncompletePayload(b) ==                 \* mutant: the length taken for the payload's
    Len(b) < HEADER_SIZE \/ HEADER_SIZE + LengthField(b) > Len(b)
Incomplete(b) == Len(b) < HEADER_SIZE \/ LengthField(b) > Len(b)

Framed[b \in Seq(Byte)] ==
    IF Incomplete(b)
    THEN [rest |-> b, packets |-> <<>>]
    ELSE LET n == LengthField(b)
             others == Framed[SubSeq(b, n + 1, Len(b))]
         IN  [others EXCEPT !.packets = <<AsPacket(SubSeq(b, 1, n))>> \o @]

ProcessBufferUnmoved(b) ==              \* mutant: the rest is not moved to the front
    [Framed[b] EXCEPT !.rest = SubSeq(b, 1, Len(@))]
ProcessBuffer(b) == Framed[b]

ProcessPacketsCleared(b) ==             \* mutant: the buffer is cleared, not cut
    [Framed[b] EXCEPT !.rest = IF Incomplete(b) THEN b ELSE <<>>]
ProcessPackets(b) == Framed[b]

-----------------------------------------------------------------------------
(* Server to client. *)

\* Session::Send: nothing happens once connected_ is false.  The handlers of
\* the server find the session in SessionManager.
SessionSend(len) ==
    /\ open /\ connected
    /\ Len(svSent) < MaxSend
    /\ LET p == [no |-> Len(svSent) + 1, length |-> len]
       IN  /\ svSent' = Append(svSent, p)
           /\ writes' = Append(writes, Bytes(p))
    /\ UNCHANGED <<ends, rests, down, clBuffer, clHandled, downState, upVars>>

\* The first of the posted writes goes through, all of it or a part.  It
\* overtakes what is left of an earlier packet.
Overtakes(w) == \E v \in Range(Tail(writes) \o rests) : v[1].no < w[1].no
WriteSome ==
    /\ link = "up" /\ writes # <<>>
    /\ LET w == Head(writes) IN
       \E k \in 1..Len(w) :
          /\ down' = down \o SubSeq(w, 1, k)
          /\ rests' = IF k = Len(w) THEN rests ELSE Append(rests, SubSeq(w, k + 1, Len(w)))
          /\ downState' = IF Overtakes(w) THEN "garbled" ELSE downState
    /\ writes' = Tail(writes)
    /\ UNCHANGED <<ends, svSent, clBuffer, clHandled, upVars>>

\* async_write posts the rest when its turn comes in the io_context.
WriteRest ==
    /\ rests # <<>>
    /\ writes' = Append(writes, Head(rests))
    /\ rests' = Tail(rests)
    /\ UNCHANGED <<ends, svSent, down, clBuffer, clHandled, downState, upVars>>

\* The handler of a failed write.
WriteFailed ==
    /\ link = "closed" /\ writes # <<>>
    /\ writes' = Tail(writes)
    /\ connected' = FALSE
    /\ UNCHANGED <<link, open, clConnected, svSent, rests, down, clBuffer, clHandled, downState, upVars>>

\* One round of RecvLoop with bytes.
RecvLoop ==
    /\ clConnected /\ down # <<>> /\ downState # "garbled"
    /\ \E k \in 1..Len(down) :
          /\ k <= MAX_PACKET_SIZE
          /\ LET r == ProcessPackets(clBuffer \o SubSeq(down, 1, k))
             IN  clBuffer' = r.rest /\ clHandled' = clHandled \o r.packets
          /\ down' = SubSeq(down, k + 1, Len(down))
    /\ UNCHANGED <<ends, svSent, writes, rests, downState, upVars>>

-----------------------------------------------------------------------------
(* Client to server. *)

\* A send on the non-blocking socket takes what there is room for.  Nobody
\* looks at its result: what did not fit is missing in the stream.
ClientWrite(bytes) ==
    LET room == IF link = "closed" THEN 0 ELSE SendSpace - Len(up)
        k == IF Len(bytes) <= room THEN Len(bytes) ELSE room
    IN  /\ up' = up \o SubSeq(bytes, 1, k)
        /\ upState' = IF k < Len(bytes) /\ link # "closed" THEN "garbled" ELSE upState

\* TcpClient::Send by the main thread: the header with one call of send, and
\* the payload, if there is one, with another.
ClientSend(len) ==
    /\ clConnected /\ payload = <<>>
    /\ Len(clSent) < MaxSend
    /\ LET p == [no |-> Len(clSent) + 1, length |-> len]
       IN  /\ clSent' = Append(clSent, p)
           /\ ClientWrite(Header(p))
           /\ payload' = Payload(p)
    /\ UNCHANGED <<ends, downVars, svBuffer, svHandled>>

ClientSendPayload ==
    /\ payload # <<>>
    /\ ClientWrite(payload)
    /\ payload' = <<>>
    /\ UNCHANGED <<ends, downVars, clSent, svBuffer, svHandled>>

ReadRoom == MAX_RECV_BUFFER_SIZE - Len(svBuffer)
\* The handler of async_read_some, which then reads on.
DoRead ==
    /\ open /\ up # <<>> /\ upState # "garbled"
    /\ \E k \in 1..Len(up) :
          /\ k <= ReadRoom
          /\ LET r == ProcessBuffer(svBuffer \o SubSeq(up, 1, k))
             IN  svBuffer' = r.rest /\ svHandled' = svHandled \o r.packets
          /\ up' = SubSeq(up, k + 1, Len(up))
    /\ UNCHANGED <<ends, downVars, clSent, payload, upState>>

-----------------------------------------------------------------------------
(* The end of a connection. *)

Cut(state) == IF state = "whole" THEN "cut" ELSE state
LinkEnds(how) ==
    /\ link' = how
    /\ downState' = Cut(downState) /\ upState' = Cut(upState)
    /\ UNCHANGED <<svSent, writes, rests, down, clBuffer, clHandled>>
    /\ UNCHANGED <<clSent, payload, up, svBuffer, svHandled>>

\* TCP loses the connection; or one of the ends has bytes to send that nobody
\* acknowledges, and it gives up.
LinkLost ==
    /\ link = "up"
    /\ \E how \in {"closed", "silent"} : LinkEnds(how)
    /\ UNCHANGED <<open, connected, clConnected>>
LinkGivenUp ==
    /\ link = "silent" /\ (writes # <<>> \/ up # <<>>)
    /\ LinkEnds("closed")
    /\ UNCHANGED <<open, connected, clConnected>>

\* TcpClient::Disconnect, when the main loop ends; a Send is finished by then.
Disconnect ==
    /\ clConnected /\ payload = <<>>
    /\ clConnected' = FALSE
    /\ LinkEnds(IF link = "up" THEN "closed" ELSE link)
    /\ UNCHANGED <<open, connected>>

\* recv returns 0 or an error other than WSAEWOULDBLOCK.
RecvEnds ==
    /\ link = "closed" /\ clConnected
    /\ clConnected' = FALSE
    /\ UNCHANGED <<link, open, connected, downVars, upVars>>

\* Mutant: the read error sets connected_ and the session stays.
ReadErrorKeepsSession ==
    /\ link = "closed" /\ open
    /\ connected /\ connected' = FALSE
    /\ UNCHANGED <<link, open, clConnected, downVars, upVars>>
\* The handler of a failed async_read_some calls disconnectHandler_, and the
\* session is removed.
ReadError ==
    /\ link = "closed" /\ open
    /\ connected' = FALSE
    /\ open' = FALSE
    /\ UNCHANGED <<link, clConnected, downVars, upVars>>

Next ==
    \/ \E len \in Lengths : SessionSend(len) \/ ClientSend(len)
    \/ WriteSome \/ WriteRest \/ WriteFailed \/ RecvLoop
    \/ ClientSendPayload \/ DoRead
    \/ LinkLost \/ LinkGivenUp \/ Disconnect \/ RecvEnds \/ ReadError

\* Both programs keep running, TCP moves bytes as long as the connection is up
\* and reports a connection it has given up.  Nobody has to send, and the
\* connection may end at any time or never.
Fairness ==
    /\ WF_vars(WriteSome) /\ WF_vars(WriteRest) /\ WF_vars(WriteFailed)
    /\ WF_vars(RecvLoop) /\ WF_vars(ClientSendPayload) /\ WF_vars(DoRead)
    /\ WF_vars(LinkGivenUp) /\ WF_vars(RecvEnds) /\ WF_vars(ReadError)

Spec == Init /\ [][Next]_vars /\ Fairness

-----------------------------------------------------------------------------
\* What each variable holds.
TypeOK ==
    /\ link \in {"up", "closed", "silent"}
    /\ {open, connected, clConnected} \subseteq BOOLEAN
    /\ {svSent, clSent, svHandled, clHandled} \subseteq Seq(Packets)
    /\ {down, up, clBuffer, svBuffer, payload} \subseteq Seq(Byte)
    /\ writes \in Seq(Seq(Byte)) /\ rests \in Seq(Seq(Byte))
    /\ downState \in States /\ upState \in States

\* async_read_some is never called with an empty buffer, which would complete
\* at once and for ever: what ProcessBuffer leaves behind is less than a packet,
\* and a packet fits.  (Types included.)
AlwaysRoom == TypeOK /\ (open => ReadRoom > 0)

DownFifo == INSTANCE PacketFifo
              WITH sent <- svSent, delivered <- clHandled, state <- downState
UpFifo == INSTANCE PacketFifo
            WITH sent <- clSent, delivered <- svHandled, state <- upState

\* However TCP splits and merges the bytes, and however many packets one read
\* completes, the handlers of the client get the packets of Session::Send whole,
\* in order and without a gap.  Only a write that goes through in part while
\* another one is posted garbles this.  The same for TcpClient::Send and the
\* handlers of the server; there only a send that finds no room garbles the
\* stream.
FifoBothWays == DownFifo!Safety /\ UpFifo!Safety

\* While the connection is up every packet is handled: none waits in recvBuffer_
\* for bytes of another one that nobody may ever send.
NoneIsLeftWaiting == DownFifo!Liveness /\ UpFifo!Liveness

\* A failed write only sets connected_ and leaves the session in SessionManager,
\* and the loss of a silent client shows only when something is sent to it.
\* Either way the session does not stay: a failing read removes it.
NoZombie == ~connected \/ (link = "silent" /\ writes # <<>>) ~> ~open
=============================================================================
