------------------------------ MODULE PacketFifo ------------------------------
(***************************************************************************)
(* What one direction of a connection promises to the handlers at its end: *)
(* packets arrive whole, in the order in which Send was called, none twice *)
(* and none left out, until the stream is garbled; and as long as the      *)
(* connection is whole they do arrive.  A connection that is cut delivers  *)
(* some prefix of what was sent.                                           *)
(***************************************************************************)
EXTENDS Naturals, Sequences

CONSTANTS
    Packets

VARIABLES
    sent,           \* the packets given to Send, all of them
    delivered,      \* the packets handed to a handler, all of them
    state           \* "whole", "cut" or "garbled"

vars == <<sent, delivered, state>>

Init == sent = <<>> /\ delivered = <<>> /\ state = "whole"

Garbled == state # "garbled" /\ state' = "garbled"

\* Send may be what garbles the stream.
Send ==
    /\ \E p \in Packets : sent' = Append(sent, p)
    /\ Garbled \/ UNCHANGED state
    /\ UNCHANGED delivered

\* One read may complete several packets.
Deliver ==
    /\ state # "garbled"
    /\ \E n \in Len(delivered) + 1..Len(sent) : delivered' = SubSeq(sent, 1, n)
    /\ UNCHANGED <<sent, state>>

Cut ==
    /\ state = "whole" /\ state' = "cut"
    /\ UNCHANGED <<sent, delivered>>

Garble == Garbled /\ UNCHANGED <<sent, delivered>>

Next == Send \/ Deliver \/ Cut \/ Garble

Safety == Init /\ [][Next]_vars
Liveness == WF_vars(state = "whole" /\ Deliver)

Spec == Safety /\ Liveness
=============================================================================
