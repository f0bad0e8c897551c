----------------------------- MODULE LithiumSend -----------------------------
(***************************************************************************)
(* The send path of the radio driver: lithium_send_packet and the          *)
(* lithium_send_* functions of data_board/common/lithium.c, which encode a *)
(* frame on the stack and hand it byte by byte to uart_write_bytes         *)
(* (board_common/common/uart.c).  Between two bytes of a frame another     *)
(* task may send too, close the channel, or open a new one.                *)
(***************************************************************************)
EXTENDS LithiumCodec

CONSTANTS
  Senders,          \* the tasks that send on the radio
  Memories,         \* what may lie in memory at the pointer a caller passes
  DataLengths,      \* the lengths callers pass with it
  ConfigLength,     \* sizeof(lithium_config_t), which the compiler chooses
  RfConfigLength,   \* sizeof(lithium_rf_config_t)
  UserCommands,     \* the commands whose functions are called
  UserPackets,      \* the packets given to lithium_send_packet
  MaxCalls          \* bound: calls made

ASSUME MemoriesAssumption == \A m \in Memories : m \in Seq(Byte) /\ Len(m) = MAX_PAYLOAD_LENGTH
ASSUME LengthsAssumption ==
  DataLengths \cup {ConfigLength, RfConfigLength} \subseteq 0 .. MAX_PAYLOAD_LENGTH
ASSUME UserPacketsAssumption ==
  \A p \in UserPackets : IsPacket(p) /\ p.payload_length = Len(p.payload)
ASSUME MaxCallsAssumption == MaxCalls \in Nat

VARIABLES
  wire,        \* for each call, in the order they began, who made it and the bytes
               \* it has put on the line to the radio
  uart_open,   \* radio->uart has an implementation behind it
  raw_packet,  \* the encoded frame of each sender, <<>> outside a call
  pos,         \* how many bytes of it uart_write_bytes has written
  result,      \* the last lithium_result_t it got, "NONE" during a call
  \* History, for the properties only.
  last_packet, \* the packet of its last call
  done,        \* for each call that returned LITHIUM_NO_ERROR, who made it and its
               \* packet, as a sequence of one
  torn,        \* the senders a call of which failed with its frame half written
  mixed        \* two calls were in progress at once

vars == <<wire, uart_open, raw_packet, pos, result, last_packet, done, torn, mixed>>

Calling == {s \in Senders : raw_packet[s] # <<>>}

\* The place in wire of the last call of s.
LastCall(s) == CHOOSE i \in DOMAIN wire : wire[i][1] = s /\ \A j \in DOMAIN wire : wire[j][1] = s => j <= i

-----------------------------------------------------------------------------
\* The commands of EMIT_SEND: a header alone.
HeaderCommands == {1, 2, 5, 7, 18}

\* The commands of EMIT_SEND_PAYLOAD, each with the lengths it may send.
WRITE_OVER_AIR_KEY == 19
PayloadLengths(command) ==
  CASE command \in {3, 16, 21} -> DataLengths          \* transmit, set_beacon, stream_fw_update
    [] command \in {8, WRITE_OVER_AIR_KEY, 20} -> {16} \* write_flash, write_dio_key, begin_fw_update
    [] command \in {17, 32} -> {1}                     \* set_beacon_config, set_pa_level
    [] command = 6 -> {ConfigLength}                   \* set_config
    [] command = 9 -> {RfConfigLength}                 \* set_rf_config
    [] OTHER -> {}

\* Mutant: the frame of a payload is sent with the header of an empty packet.
SendFrame_ZeroLength(p, emit_body) ==
  LET header == encode_header(p.type, p.command, 0)
  IN  IF emit_body THEN header \o encode_body(p.payload, header) ELSE header

\* What is left in raw_packet for send_data.
SendFrame(p, emit_body) ==
  LET header == encode_header(p.type, p.command, p.payload_length)
  IN  IF emit_body THEN header \o encode_body(p.payload, header) ELSE header

\* Mutant: raw_packet is one static array.
Call_StaticArray(s, p, emit_body) ==
  LET frame == SendFrame(p, emit_body)
      overwritten(u) ==
        [i \in 1 .. Len(raw_packet[u]) |-> IF i <= Len(frame) THEN frame[i] ELSE raw_packet[u][i]]
  IN  /\ raw_packet[s] = <<>>
      /\ Len(wire) < MaxCalls
      /\ raw_packet' = [u \in Senders |-> IF u = s THEN frame ELSE overwritten(u)]
      /\ last_packet' = [last_packet EXCEPT ![s] = p]
      /\ result' = [result EXCEPT ![s] = "NONE"]
      /\ wire' = Append(wire, <<s, <<>>>>)
      /\ mixed' = (mixed \/ Calling # {})
      /\ UNCHANGED <<uart_open, pos, done, torn>>

\* A call up to its send_data.
Call(s, p, emit_body) ==
  /\ raw_packet[s] = <<>>
  /\ Len(wire) < MaxCalls
  /\ raw_packet' = [raw_packet EXCEPT ![s] = SendFrame(p, emit_body)]
  /\ last_packet' = [last_packet EXCEPT ![s] = p]
  /\ result' = [result EXCEPT ![s] = "NONE"]
  /\ wire' = Append(wire, <<s, <<>>>>)
  /\ mixed' = (mixed \/ Calling # {})
  /\ UNCHANGED <<uart_open, pos, done, torn>>

\* EMIT_SEND
SendCommand(s, command) == Call(s, Packet(LITHIUM_I_MESSAGE, command, <<>>), FALSE)

\* EMIT_SEND_PAYLOAD: the body is encoded whatever its length.
SendPayload(s, command, data, length) ==
  Call(s, Packet(LITHIUM_I_MESSAGE, command, SubSeq(data, 1, length)), TRUE)

lithium_send_packet(s, p) == Call(s, p, p.payload_length > 0)

Return(s, res) ==
  /\ result' = [result EXCEPT ![s] = res]
  /\ raw_packet' = [raw_packet EXCEPT ![s] = <<>>]
  /\ pos' = [pos EXCEPT ![s] = 0]

Puts(s) == wire' = [wire EXCEPT ![LastCall(s)][2] = Append(@, raw_packet[s][pos[s] + 1])]

\* A byte has been written; behind the last the call returns.
Written(s) ==
  IF pos[s] + 1 = Len(raw_packet[s])
  THEN Return(s, "NO_ERROR") /\ done' = Append(done, <<s, <<last_packet[s]>>>>)
  ELSE pos' = [pos EXCEPT ![s] = @ + 1] /\ UNCHANGED <<raw_packet, result, done>>

\* Mutant: uart_write_bytes goes on after a byte that could not be written.
WriteByte_Skip(s) ==
  /\ raw_packet[s] # <<>>
  /\ IF uart_open THEN Puts(s) ELSE UNCHANGED wire
  /\ Written(s)
  /\ UNCHANGED <<uart_open, last_packet, torn, mixed>>

\* One turn of the loop of uart_write_bytes.
WriteByte(s) ==
  /\ raw_packet[s] # <<>>
  /\ \/ /\ ~uart_open
        /\ Return(s, "BAD_COMMUNICATION")
        /\ torn' = IF pos[s] > 0 THEN torn \cup {s} ELSE torn
        /\ UNCHANGED <<wire, done>>
     \/ /\ uart_open
        /\ Puts(s)
        /\ Written(s)
        /\ UNCHANGED torn
  /\ UNCHANGED <<uart_open, last_packet, mixed>>

lithium_close ==
  /\ uart_open
  /\ uart_open' = FALSE
  /\ UNCHANGED <<wire, raw_packet, pos, result, last_packet, done, torn, mixed>>

lithium_open ==
  /\ ~uart_open
  /\ uart_open' = TRUE
  /\ UNCHANGED <<wire, raw_packet, pos, result, last_packet, done, torn, mixed>>

Init ==
  /\ wire = <<>> /\ uart_open = TRUE
  /\ raw_packet = [s \in Senders |-> <<>>]
  /\ pos = [s \in Senders |-> 0]
  /\ result = [s \in Senders |-> "NONE"]
  /\ last_packet = [s \in Senders |-> Packet(LITHIUM_I_MESSAGE, 1, <<>>)]
  /\ done = <<>>
  /\ torn = {} /\ mixed = FALSE

Next ==
  \/ \E s \in Senders :
       \/ \E command \in HeaderCommands \cap UserCommands : SendCommand(s, command)
       \/ \E command \in UserCommands : \E data \in Memories, length \in PayloadLengths(command) :
            SendPayload(s, command, data, length)
       \/ \E p \in UserPackets : lithium_send_packet(s, p)
       \/ WriteByte(s)
  \/ lithium_close
  \/ lithium_open

Spec == Init /\ [][Next]_vars

-----------------------------------------------------------------------------
(* Properties.                                                             *)

TypeOK ==
  /\ wire \in Seq(Senders \X Seq(Byte))
  /\ uart_open \in BOOLEAN /\ mixed \in BOOLEAN /\ torn \subseteq Senders
  /\ \A s \in Senders :
       /\ raw_packet[s] \in Seq(Byte) /\ Len(raw_packet[s]) <= MAX_PACKET_LENGTH
       /\ pos[s] \in 0 .. Len(raw_packet[s])
       /\ pos[s] = Len(raw_packet[s]) => raw_packet[s] = <<>>
       /\ result[s] \in {"NONE", "NO_ERROR", "BAD_COMMUNICATION"}
       /\ IsPacket(last_packet[s])
  /\ Len(done) <= Len(wire)

\* What a sequence of pairs has of these senders, laid end to end.
Of(senders, pairs) ==
  LET of[i \in 0 .. Len(pairs)] ==
        IF i = 0 THEN <<>>
        ELSE IF pairs[i][1] \in senders THEN of[i - 1] \o pairs[i][2] ELSE of[i - 1]
  IN  of[Len(pairs)]

(***************************************************************************)
(* What the driver's own parser makes of bytes, for a receiver that begins *)
(* a receive at offset i.                                                  *)
(***************************************************************************)
HeaderAt(bytes, i) == SubSeq(bytes, i + 1, i + HEADER_LENGTH)

HeaderParses(bytes, i) == lithium_parse_header(HeaderAt(bytes, i)) = "NO_ERROR"

\* The offset where the next receive begins.
FrameEnd(bytes, i) ==
  i + HEADER_LENGTH + IF HeaderParses(bytes, i) THEN RemainingBytes(HeaderAt(bytes, i)) ELSE 0

FrameAccepted(bytes, i) ==
  /\ HeaderParses(bytes, i)
  /\ \/ RemainingBytes(HeaderAt(bytes, i)) = 0
     \/ lithium_parse_body(SubSeq(bytes, i + 1, FrameEnd(bytes, i)), PayloadLength(HeaderAt(bytes, i)))
          = "NO_ERROR"

PacketAt(bytes, i) ==
  [type |-> bytes[i + 3], command |-> bytes[i + 4],
   payload_length |-> PayloadLength(HeaderAt(bytes, i)),
   payload |-> IF RemainingBytes(HeaderAt(bytes, i)) = 0 THEN <<>>
               ELSE SubSeq(bytes, i + HEADER_LENGTH + 1, FrameEnd(bytes, i) - CHECKSUM_LENGTH)]

\* The packets it finds until it would wait, and the offset where it then is.
Parsed(bytes) ==
  LET run[i \in 0 .. Len(bytes)] ==
        IF i + HEADER_LENGTH > Len(bytes) \/ FrameEnd(bytes, i) > Len(bytes)
        THEN [packets |-> <<>>, rest |-> i]
        ELSE LET later == run[FrameEnd(bytes, i)]
                 found == IF FrameAccepted(bytes, i) THEN <<PacketAt(bytes, i)>> ELSE <<>>
             IN  [packets |-> found \o later.packets, rest |-> later.rest]
  IN  run[0]

(***************************************************************************)
(* The driver can read back what it sends: as long as no two calls         *)
(* overlapped and none failed in the middle of its frame,                  *)
(* lithium_parse_header and lithium_parse_body find in the bytes on the    *)
(* line exactly the packets of the calls that returned LITHIUM_NO_ERROR,   *)
(* and between two calls no byte is left over.                             *)
(***************************************************************************)
WireParsesBack ==
  torn = {} /\ ~mixed /\ Calling = {} =>
    LET bytes == Of(Senders, wire)
    IN  Parsed(bytes) = [packets |-> Of(Senders, done), rest |-> Len(bytes)]

(***************************************************************************)
(* Calls that overlap mix their frames on the line, as nothing locks the   *)
(* channel, but not in memory: the bytes each sender has put there, taken  *)
(* by themselves, are the frames of its own calls.                         *)
(***************************************************************************)
OwnBytesParseBack ==
  \A s \in Senders \ (torn \cup Calling) :
    LET bytes == Of({s}, wire)
    IN  Parsed(bytes) = [packets |-> Of({s}, done), rest |-> Len(bytes)]

(***************************************************************************)
(* A call that returned LITHIUM_NO_ERROR has put its whole frame on the    *)
(* line, the channels it went through notwithstanding.                     *)
(***************************************************************************)
NoErrorMeansSent ==
  \A s \in Senders :
    result[s] = "NO_ERROR" => wire[LastCall(s)][2] = RadioFrame(last_packet[s])

(***************************************************************************)
(* lithium.h:367 has lithium_send_write_dio_key send "the 4 byte key".     *)
(***************************************************************************)
KeyIsFourBytes ==
  \A s \in Senders :
    last_packet[s].command = WRITE_OVER_AIR_KEY => last_packet[s].payload_length = 4
=============================================================================
