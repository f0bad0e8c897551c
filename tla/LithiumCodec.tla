---------------------------- MODULE LithiumCodec ----------------------------
(***************************************************************************)
(* The wire format of the Lithium radio, as data_board/common/lithium.c    *)
(* writes and parses it: an 8 byte header (two sync bytes, type, command,  *)
(* big-endian payload length, Fletcher-16 checksum of those four) and, for *)
(* packets with a payload, the payload and a second checksum.              *)
(*                                                                         *)
(* Constant-level: no variables.  A C array raw_packet is a sequence, so   *)
(* raw_packet[i] of the source is raw[i + 1] here.                         *)
(***************************************************************************)
EXTENDS Integers, Sequences

\* uint8_t and uint16_t
Byte == 0 .. 256 - 1
Word == {n \in Nat : n < 65536}

\* lithium_internal.h: packet intrinsics and sizes.
SYNC_1 == 72        \* 'H'
SYNC_2 == 101       \* 'e'
ACK_LENGTH  == 2570   \* 0x0a0a
NACK_LENGTH == 65535  \* 0xffff
SYNC_BYTES_LENGTH  == 2
HEADER_DATA_LENGTH == 4
CHECKSUM_LENGTH    == 2
HEADER_LENGTH == SYNC_BYTES_LENGTH + HEADER_DATA_LENGTH + CHECKSUM_LENGTH
MAX_PAYLOAD_LENGTH == 255
MAX_PACKET_LENGTH == HEADER_LENGTH + MAX_PAYLOAD_LENGTH + CHECKSUM_LENGTH

\* lithium.h: lithium_command_type_t and the bound of lithium_command_t.
LITHIUM_I_MESSAGE == 16   \* 0x10
LITHIUM_O_MESSAGE == 32   \* 0x20
LITHIUM_COMMAND_count == 33  \* one past LITHIUM_COMMAND_FAST_PA_SET = 0x20

-----------------------------------------------------------------------------
(***************************************************************************)
(* compute_checksum: Fletcher-16 with two 8 bit accumulators that wrap.    *)
(***************************************************************************)
\* Mutant: the accumulators are wider than a byte.
ChecksumSums_Wide(data) ==
  LET sums[i \in 0 .. Len(data)] ==
        IF i = 0 THEN <<0, 0>>
        ELSE LET prev == sums[i - 1]
             IN  <<prev[1] + data[i], prev[2] + prev[1] + data[i]>>
  IN  sums

ChecksumSums(data) ==
  LET sums[i \in 0 .. Len(data)] ==
        IF i = 0 THEN <<0, 0>>
        ELSE LET prev == sums[i - 1]
                 a == (prev[1] + data[i]) % 256
             IN  <<a, (prev[2] + a) % 256>>
  IN  sums

compute_checksum(data) == ChecksumSums(data)[Len(data)]

-----------------------------------------------------------------------------
(* Encoding.                                                               *)

encode_header(type, command, payload_length) ==
  LET high == payload_length \div 256
      low == payload_length % 256
      sum == compute_checksum(<<type, command, high, low>>)
  IN  <<SYNC_1, SYNC_2, type, command, high, low, sum[1], sum[2]>>

\* The payload and the checksum over everything after the sync bytes.
encode_body(payload, header) ==
  payload \o compute_checksum(SubSeq(header, SYNC_BYTES_LENGTH + 1, HEADER_LENGTH)
                              \o payload)

-----------------------------------------------------------------------------
(* Parsing.                                                                *)

PayloadLength(raw) == 256 * raw[5] + raw[6]

IsAckNack(type, payload_length) ==
  type = LITHIUM_O_MESSAGE /\ payload_length \in {ACK_LENGTH, NACK_LENGTH}

\* Mutant: the command is not range-checked.
IsPlausibleHeader_AnyCommand(raw) ==
  /\ raw[1] = SYNC_1 /\ raw[2] = SYNC_2
  /\ raw[3] \in {LITHIUM_I_MESSAGE, LITHIUM_O_MESSAGE}
  /\ IsAckNack(raw[3], PayloadLength(raw)) \/ PayloadLength(raw) <= MAX_PAYLOAD_LENGTH

\* Mutant: the length is checked without a look at ACK and NACK.
IsPlausibleHeader_AckTooLong(raw) ==
  /\ raw[1] = SYNC_1 /\ raw[2] = SYNC_2
  /\ raw[3] \in {LITHIUM_I_MESSAGE, LITHIUM_O_MESSAGE}
  /\ raw[4] < LITHIUM_COMMAND_count
  /\ PayloadLength(raw) <= MAX_PAYLOAD_LENGTH

\* The checks of lithium_parse_header that answer INVALID_PACKET.
IsPlausibleHeader(raw) ==
  /\ raw[1] = SYNC_1 /\ raw[2] = SYNC_2
  /\ raw[3] \in {LITHIUM_I_MESSAGE, LITHIUM_O_MESSAGE}
  /\ raw[4] < LITHIUM_COMMAND_count
  /\ IsAckNack(raw[3], PayloadLength(raw)) \/ PayloadLength(raw) <= MAX_PAYLOAD_LENGTH

HeaderChecksumMatches(raw) ==
  <<raw[7], raw[8]>> = compute_checksum(<<raw[3], raw[4], raw[5], raw[6]>>)

lithium_parse_header(raw) ==
  IF ~IsPlausibleHeader(raw) THEN "INVALID_PACKET"
  ELSE IF ~HeaderChecksumMatches(raw) THEN "INVALID_CHECKSUM"
  ELSE "NO_ERROR"

\* The *remaining_bytes output: how many bytes the body of this header has.
RemainingBytes(raw) ==
  IF IsAckNack(raw[3], PayloadLength(raw)) \/ PayloadLength(raw) = 0
  THEN 0
  ELSE PayloadLength(raw) + CHECKSUM_LENGTH

\* Mutant: any body is accepted.
lithium_parse_body_Unchecked(raw, payload_length) == "NO_ERROR"

\* raw holds header and body; payload_length is the caller's packet field.
lithium_parse_body(raw, payload_length) ==
  IF <<raw[HEADER_LENGTH + payload_length + 1], raw[HEADER_LENGTH + payload_length + 2]>>
       # compute_checksum(SubSeq(raw, SYNC_BYTES_LENGTH + 1, HEADER_LENGTH + payload_length))
  THEN "INVALID_CHECKSUM"
  ELSE "NO_ERROR"

lithium_is_ack(p)  == p.type = LITHIUM_O_MESSAGE /\ p.payload_length = ACK_LENGTH
lithium_is_nack(p) == p.type = LITHIUM_O_MESSAGE /\ p.payload_length = NACK_LENGTH

-----------------------------------------------------------------------------
(***************************************************************************)
(* Packets as a protocol user sees them.  The 255 byte payload array is    *)
(* the sequence of the bytes in use; an ACK or NACK carries none.          *)
(***************************************************************************)
PacketRecord ==
  [type : {LITHIUM_I_MESSAGE, LITHIUM_O_MESSAGE}, command : 0 .. LITHIUM_COMMAND_count - 1,
   payload_length : Word, payload : Seq(Byte)]

IsPacket(p) ==
  /\ p \in PacketRecord
  /\ \/ p.payload_length = Len(p.payload) /\ Len(p.payload) <= MAX_PAYLOAD_LENGTH
     \/ IsAckNack(p.type, p.payload_length) /\ p.payload = <<>>

Packet(type, command, payload) ==
  [type |-> type, command |-> command, payload_length |-> Len(payload), payload |-> payload]

Ack(command) ==
  [type |-> LITHIUM_O_MESSAGE, command |-> command, payload_length |-> ACK_LENGTH, payload |-> <<>>]

Nack(command) == [Ack(command) EXCEPT !.payload_length = NACK_LENGTH]

(***************************************************************************)
(* The bytes the radio puts on the line for a packet: the frames that      *)
(* data_board/test/lithium.cpp feeds to the parser.  A packet without      *)
(* payload (ACK and NACK included) is its header alone.                    *)
(***************************************************************************)
RadioFrame(p) ==
  LET header == encode_header(p.type, p.command, p.payload_length)
  IN  IF p.payload = <<>> THEN header ELSE header \o encode_body(p.payload, header)
=============================================================================
