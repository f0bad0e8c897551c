--------------------------- MODULE MCLithiumRadio ---------------------------
(***************************************************************************)
(* An instance of LithiumRadio for TLC: an ACK and a NACK, which are a     *)
(* header alone with a length that is none, and a packet with a body of    *)
(* two bytes.  No payload can be taken for the start of a frame.           *)
(***************************************************************************)
EXTENDS LithiumRadio

AckPacket  == Ack(1)
NackPacket == Nack(2)
Telemetry  == Packet(LITHIUM_O_MESSAGE, 7, <<0, 255>>)

MCPackets == {AckPacket, NackPacket, Telemetry}
MCNoise == {0, 1, SYNC_1, 200}
=============================================================================
