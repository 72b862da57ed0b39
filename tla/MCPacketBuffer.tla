-------------------------- MODULE MCPacketBuffer --------------------------
(* Bytes with two values, so that a packet of two or three bytes needs the  *)
(* high byte of its length; the ring grows to 4, 5, 6, 7, 8, 10, 11 bytes.  *)
EXTENDS PacketBuffer
MCPacket == {<<>>, <<1>>, <<0, 1>>, <<1, 0, 1>>}
============================================================================
