---------------------------- MODULE MCLithiumSend ----------------------------
(***************************************************************************)
(* Instances of LithiumSend for TLC.  A call of every shape: a header      *)
(* alone, a payload of the caller's length, a payload of fixed length and  *)
(* a packet of the caller's.                                               *)
(***************************************************************************)
EXTENDS LithiumSend, TLC

CONSTANTS s1, s2

OneSender == {s1}
TwoSenders == {s1, s2}
Symmetry == Permutations(TwoSenders)

MCMemories == {[i \in 1 .. MAX_PAYLOAD_LENGTH |-> (37 * i) % 256]}
MCPackets == {Packet(LITHIUM_O_MESSAGE, 4, <<>>), Packet(LITHIUM_I_MESSAGE, 16, <<255>>)}
NoPackets == {}
=============================================================================
