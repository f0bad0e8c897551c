---------------------------- MODULE LithiumRadio ----------------------------
(***************************************************************************)
(* The receive path of the data board's radio driver: the serial line from *)
(* the radio, the UART's input buffer, and lithium_receive_packet working  *)
(* on them (data_board/common/lithium.c over the UART of                   *)
(* board_common/test/impl/uart_test.cpp, the only one that reads).         *)
(*                                                                         *)
(* The bytes the radio has put on the line are never removed from stream;  *)
(* the indices arrived and rd cut it into what the driver has read, what   *)
(* waits in the UART's input buffer, and what is still on its way.         *)
(* lithium_receive_packet calls uart_read_bytes twice, and bytes (or a     *)
(* lithium_close by another task) come between the two calls, so it is two *)
(* steps here, split at the second call.                                   *)
(***************************************************************************)
EXTENDS LithiumCodec, FiniteSets

CONSTANTS
  RadioPackets,   \* the packets the radio may send
  NoiseBytes,     \* what a corrupted byte may arrive as
  MaxFrames,      \* bound: frames the radio sends
  MaxFaults       \* bound: bytes lost or corrupted on the line

ASSUME RadioPacketsAssumption == \A p \in RadioPackets : IsPacket(p)
ASSUME NoiseBytesAssumption == NoiseBytes \subseteq Byte
ASSUME BoundsAssumption == MaxFrames \in Nat /\ MaxFaults \in Nat

VARIABLES
  stream,      \* every byte the radio has put on the line, as it arrives
  arrived,     \* how many of them have reached the UART
  rd,          \* how many of those the driver has taken
  uart_open,   \* radio->uart has an implementation behind it
  pc,          \* "idle", or "body": inside lithium_receive_packet, header parsed
  start,       \* where the receive in progress, or the next one, begins in stream
  packet,      \* the caller's lithium_packet_t
  result,      \* the last lithium_result_t returned, "NONE" while inside
  \* History, for the properties only.
  sent,        \* the packets behind stream
  starts,      \* starts[i]: the offset in stream at which the frame of sent[i] begins
  delivered,   \* the packets returned with LITHIUM_NO_ERROR
  faults,      \* bytes lost or corrupted so far
  clean        \* no fault, no close and no body read that came too early

lineVars == <<stream, arrived, sent, starts, faults>>
callVars == <<rd, pc, start, packet, result, delivered>>
vars == <<stream, arrived, rd, uart_open, pc, start, packet, result,
          sent, starts, delivered, faults, clean>>

Results == {"NONE", "NO_ERROR", "BAD_COMMUNICATION", "INVALID_PACKET", "INVALID_CHECKSUM"}

-----------------------------------------------------------------------------
(* The line.                                                               *)

RadioTransmit(p) ==
  /\ Len(sent) < MaxFrames
  /\ sent' = Append(sent, p)
  /\ starts' = Append(starts, Len(stream))
  /\ stream' = stream \o RadioFrame(p)
  /\ UNCHANGED <<arrived, faults, uart_open, clean, callVars>>

\* uart_impl::push_byte: the next byte reaches the input buffer.
ByteArrives ==
  /\ uart_open
  /\ arrived < Len(stream)
  /\ arrived' = arrived + 1
  /\ UNCHANGED <<stream, sent, starts, faults, uart_open, clean, callVars>>

\* A byte that comes while the channel is closed is heard by no one.
ByteUnheard ==
  /\ ~uart_open
  /\ arrived < Len(stream)
  /\ arrived' = arrived + 1
  /\ rd' = arrived + 1
  /\ start' = IF pc = "idle" THEN arrived + 1 ELSE start
  /\ UNCHANGED <<stream, sent, starts, faults, uart_open, clean, pc, packet, result, delivered>>

Fault ==
  /\ faults < MaxFaults
  /\ arrived < Len(stream)
  /\ faults' = faults + 1
  /\ clean' = FALSE

\* The next byte never arrives: what follows moves up by one.
LoseByte ==
  /\ Fault
  /\ stream' = SubSeq(stream, 1, arrived) \o SubSeq(stream, arrived + 2, Len(stream))
  /\ starts' = [i \in 1 .. Len(starts) |-> IF starts[i] > arrived THEN starts[i] - 1 ELSE starts[i]]
  /\ UNCHANGED <<arrived, sent, uart_open, callVars>>

\* The next byte will arrive as b.
CorruptByte(b) ==
  /\ Fault
  /\ stream[arrived + 1] # b
  /\ stream' = [stream EXCEPT ![arrived + 1] = b]
  /\ UNCHANGED <<arrived, sent, starts, uart_open, callVars>>

-----------------------------------------------------------------------------
(* The driver.                                                             *)

\* uart_read_bytes(.., n): all n bytes or none, CHANNEL_CLOSED or SIGNAL_FAULT.
CanRead(n) == uart_open /\ arrived - rd >= n

\* memcpy into the 255 byte array: what lies beyond the new bytes stays.
Overlay(old, new) == new \o SubSeq(old, Len(new) + 1, Len(old))

\* What a caller makes of the struct after LITHIUM_NO_ERROR.
Received(p) ==
  [p EXCEPT !.payload = IF IsAckNack(p.type, p.payload_length) THEN <<>>
                        ELSE SubSeq(p.payload, 1, p.payload_length)]

\* Mutant: the bytes of a refused packet are not taken from the UART.
Return_Unread(res, n) ==
  /\ result' = res
  /\ pc' = "idle"
  /\ rd' = IF res = "NO_ERROR" THEN n ELSE rd
  /\ start' = n

\* lithium_receive_packet is back at its caller, having read up to offset n.
Return(res, n) ==
  /\ result' = res
  /\ pc' = "idle"
  /\ rd' = n
  /\ start' = n

Deliver(p) ==
  /\ packet' = p
  /\ delivered' = Append(delivered, Received(p))

\* lithium_receive_packet down to its second uart_read_bytes.
ReceiveHeader ==
  /\ pc = "idle"
  /\ \/ /\ ~CanRead(HEADER_LENGTH)
        /\ Return("BAD_COMMUNICATION", rd)
        /\ UNCHANGED <<packet, delivered>>
     \/ /\ CanRead(HEADER_LENGTH)
        /\ LET raw == SubSeq(stream, rd + 1, rd + HEADER_LENGTH)
               header == [packet EXCEPT !.type = raw[3], !.command = raw[4],
                                        !.payload_length = PayloadLength(raw)]
           IN  \/ /\ lithium_parse_header(raw) # "NO_ERROR"
                  /\ Return(lithium_parse_header(raw), rd + HEADER_LENGTH)
                  /\ UNCHANGED <<packet, delivered>>
               \/ /\ lithium_parse_header(raw) = "NO_ERROR"
                  /\ RemainingBytes(raw) = 0
                  /\ Return("NO_ERROR", rd + HEADER_LENGTH)
                  /\ Deliver(header)
               \/ /\ lithium_parse_header(raw) = "NO_ERROR"
                  /\ RemainingBytes(raw) > 0
                  /\ pc' = "body"
                  /\ result' = "NONE"
                  /\ rd' = rd + HEADER_LENGTH
                  /\ packet' = header
                  /\ UNCHANGED <<start, delivered>>
  /\ UNCHANGED <<uart_open, clean, lineVars>>

\* The rest of it, for a header that announced a body.
ReceiveBody ==
  /\ pc = "body"
  /\ LET raw == SubSeq(stream, start + 1, start + HEADER_LENGTH)
         n == RemainingBytes(raw)
         frame == raw \o SubSeq(stream, rd + 1, rd + n)
         payload == SubSeq(frame, HEADER_LENGTH + 1, HEADER_LENGTH + packet.payload_length)
     IN  \/ /\ ~CanRead(n)
            /\ Return("BAD_COMMUNICATION", rd)
            /\ clean' = FALSE
            /\ UNCHANGED <<packet, delivered>>
         \/ /\ CanRead(n)
            /\ lithium_parse_body(frame, packet.payload_length) # "NO_ERROR"
            /\ Return("INVALID_CHECKSUM", rd + n)
            /\ UNCHANGED <<packet, delivered, clean>>
         \/ /\ CanRead(n)
            /\ lithium_parse_body(frame, packet.payload_length) = "NO_ERROR"
            /\ Return("NO_ERROR", rd + n)
            /\ Deliver([packet EXCEPT !.payload = Overlay(@, payload)])
            /\ UNCHANGED clean
  /\ UNCHANGED <<uart_open, lineVars>>

\* uart_close deletes the channel and the bytes it still holds.
lithium_close ==
  /\ uart_open
  /\ uart_open' = FALSE
  /\ rd' = arrived
  /\ start' = IF pc = "idle" THEN arrived ELSE start
  /\ clean' = FALSE
  /\ UNCHANGED <<pc, packet, result, delivered, lineVars>>

\* A fresh UART channel, empty, handed to the radio.
lithium_open ==
  /\ ~uart_open
  /\ uart_open' = TRUE
  /\ UNCHANGED <<clean, callVars, lineVars>>

-----------------------------------------------------------------------------
Init ==
  /\ stream = <<>> /\ arrived = 0 /\ rd = 0 /\ start = 0
  /\ uart_open = TRUE
  /\ pc = "idle"
  /\ packet = [type |-> 0, command |-> 0, payload_length |-> 0, payload |-> <<>>]
  /\ result = "NONE"
  /\ sent = <<>> /\ starts = <<>> /\ delivered = <<>>
  /\ faults = 0
  /\ clean = TRUE

Next ==
  \/ \E p \in RadioPackets : RadioTransmit(p)
  \/ ByteArrives
  \/ ByteUnheard
  \/ LoseByte
  \/ \E b \in NoiseBytes : CorruptByte(b)
  \/ ReceiveHeader
  \/ ReceiveBody
  \/ lithium_close
  \/ lithium_open

Spec == Init /\ [][Next]_vars

-----------------------------------------------------------------------------
(* Properties.                                                             *)

TypeOK ==
  /\ stream \in Seq(Byte)
  /\ arrived \in 0 .. Len(stream) /\ rd \in 0 .. arrived /\ start \in 0 .. rd
  /\ uart_open \in BOOLEAN /\ clean \in BOOLEAN
  /\ pc \in {"idle", "body"}
  /\ packet \in [type : Byte, command : Byte, payload_length : Word, payload : Seq(Byte)]
  /\ result \in Results
  /\ sent \in Seq(RadioPackets)
  /\ starts \in Seq(Nat) /\ Len(starts) = Len(sent)
  /\ faults \in 0 .. MaxFaults

\* Where the frame after the first k begins, or will begin once it is sent.
Boundary(k) == IF k < Len(sent) THEN starts[k + 1] ELSE Len(stream)

(***************************************************************************)
(* On a line without faults, and when no body read comes before the body   *)
(* has, lithium_receive_packet hands over exactly the radio's packets in   *)
(* order, whatever call it is made from and however the bytes trickle in:  *)
(* none is skipped, none is rejected, and the next receive begins at a     *)
(* frame.                                                                  *)
(***************************************************************************)
CleanFifo ==
  clean =>
    /\ Len(delivered) <= Len(sent)
    /\ delivered = SubSeq(sent, 1, Len(delivered))
    /\ start = Boundary(Len(delivered))
    /\ result \notin {"INVALID_PACKET", "INVALID_CHECKSUM"}

\* How many frames began before the place where the driver reads next.
Passed == Cardinality({i \in 1 .. Len(sent) : starts[i] < start})

Fifo == INSTANCE LossyFifo WITH Packets <- RadioPackets,
                                queue <- SubSeq(sent, Passed + 1, Len(sent)),
                                delivered <- delivered

(***************************************************************************)
(* With bytes lost and corrupted, body reads that come too early and       *)
(* channels closed in the middle of a frame, the driver implements the     *)
(* lossy queue: it may lose packets, but it never delivers one that was    *)
(* not sent, one made of two frames, one twice or two out of order.        *)
(***************************************************************************)
ImplementsLossyFifo == Fifo!FifoSpec
=============================================================================
