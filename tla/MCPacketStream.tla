---------------------------- MODULE MCPacketStream ----------------------------
(* A header of two bytes, so that it can be split, packets with and without  *)
(* a payload, and a server buffer in which two of the short ones can meet.   *)
EXTENDS PacketStream

MCLengths == {2, 3}
=============================================================================
