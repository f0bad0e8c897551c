------------------------- MODULE LithiumRadioProofs --------------------------
(***************************************************************************)
(* The receive path, for every set of packets and every bound: type        *)
(* correctness, and that a clean line is a FIFO.  Each rests on an         *)
(* inductive invariant, TypeInv and CleanInv, with one lemma per action.   *)
(***************************************************************************)
EXTENDS LithiumRadio, LithiumCodecProofs


-----------------------------------------------------------------------------
(* Type correctness. *)

(* Where the receive in progress stands: between calls nothing is half read,
   and inside lithium_receive_packet the packet describes the header at start. *)
BodyInv ==
  /\ pc = "idle" => start = rd
  /\ pc = "body" =>
    LET raw == SubSeq(stream, start + 1, start + HEADER_LENGTH)
    IN  /\ start + HEADER_LENGTH <= rd
        /\ packet.payload_length = PayloadLength(raw)
        /\ RemainingBytes(raw) = packet.payload_length + CHECKSUM_LENGTH

(* The inductive invariant for TypeOK. *)
TypeInv == TypeOK /\ BodyInv

(* The fields of eight bytes, whatever they are. *)
LEMMA HeaderBytes ==
  ASSUME NEW raw \in Seq(Byte), Len(raw) = HEADER_LENGTH
  PROVE  /\ raw[3] \in Byte /\ raw[4] \in Byte /\ PayloadLength(raw) \in Word
         /\ RemainingBytes(raw) \in {0, PayloadLength(raw) + CHECKSUM_LENGTH}
<1>1. /\ raw[3] \in Byte /\ raw[4] \in Byte /\ raw[5] \in Byte /\ raw[6] \in Byte
  <2>1. 3 \in 1 .. HEADER_LENGTH /\ 4 \in 1 .. HEADER_LENGTH /\ 5 \in 1 .. HEADER_LENGTH /\ 6 \in 1 .. HEADER_LENGTH
    BY Sizes
  <2>2. \A i \in 1 .. HEADER_LENGTH : raw[i] \in Byte
    OBVIOUS
  <2> QED BY <2>1, <2>2
<1>2. PayloadLength(raw) \in Word
  <2>1. PICK h \in Byte, l \in Byte : h = raw[5] /\ l = raw[6]
    BY <1>1
  <2>2. 256 * h + l \in Word
    <3>1. h \in Int /\ l \in Int /\ 0 <= h /\ h <= 255 /\ 0 <= l /\ l <= 255
      BY DEF Byte
    <3>2. PICK w \in Int : w = 256 * h + l
      BY <3>1
    <3>3. 0 <= w /\ w < 65536
      BY <3>1, <3>2
    <3> QED BY <3>2, <3>3 DEF Word
  <2> QED BY <2>1, <2>2 DEF PayloadLength
<1> QED BY <1>1, <1>2 DEF RemainingBytes

(* memcpy keeps the payload array an array of bytes. *)
LEMMA OverlayType ==
  ASSUME NEW old \in Seq(Byte), NEW new \in Seq(Byte)
  PROVE  Overlay(old, new) \in Seq(Byte)
<1>1. PICK m \in Nat : m = Len(new) + 1 /\ 1 <= m
  OBVIOUS
<1>2. SubSeq(old, m, Len(old)) \in Seq(Byte)
  BY <1>1, SliceType
<1> QED BY <1>1, <1>2 DEF Overlay

(* Frames are bytes. *)
LEMMA FrameType ==
  ASSUME NEW p \in RadioPackets
  PROVE  RadioFrame(p) \in Seq(Byte)
<1>1. IsPacket(p)
  BY RadioPacketsAssumption
<1> QED BY <1>1, FrameRoundTrip

(* TypeInv holds at the start. *)
LEMMA InitTypeInv == Init => TypeInv
<1> SUFFICES ASSUME Init PROVE TypeInv
  OBVIOUS
<1>1. packet \in [type : Byte, command : Byte, payload_length : Word, payload : Seq(Byte)]
  BY DEF Init, Byte, Word
<1>2. TypeOK
  BY <1>1, BoundsAssumption DEF Init, TypeOK, Results
<1>3. BodyInv
  BY DEF Init, BodyInv
<1> QED BY <1>2, <1>3 DEF TypeInv

(* RadioTransmit keeps TypeInv. *)
LEMMA TransmitType ==
  ASSUME TypeInv, NEW p \in RadioPackets, RadioTransmit(p)
  PROVE  TypeInv'
<1>1. PICK f \in Seq(Byte) : f = RadioFrame(p)
  BY FrameType
<1>2. stream \in Seq(Byte) /\ stream' = stream \o f
  BY <1>1 DEF TypeInv, TypeOK, RadioTransmit
<1>3. stream' \in Seq(Byte) /\ Len(stream') >= Len(stream)
  BY <1>2
<1>4. TypeOK'
  <2>1. /\ sent' \in Seq(RadioPackets) /\ starts' \in Seq(Nat) /\ Len(starts') = Len(sent')
    <3>1. sent \in Seq(RadioPackets) /\ starts \in Seq(Nat) /\ Len(starts) = Len(sent)
      BY DEF TypeInv, TypeOK
    <3>2. sent' = Append(sent, p) /\ starts' = Append(starts, Len(stream)) /\ Len(stream) \in Nat
      BY <1>2 DEF RadioTransmit
    <3> QED BY <3>1, <3>2
  <2>2. /\ arrived' = arrived /\ rd' = rd /\ start' = start /\ pc' = pc /\ packet' = packet
        /\ result' = result /\ faults' = faults /\ uart_open' = uart_open /\ clean' = clean
    BY DEF RadioTransmit, callVars
  <2>3. arrived \in 0 .. Len(stream')
    BY <1>2, <1>3 DEF TypeInv, TypeOK
  <2> QED BY <1>3, <2>1, <2>2, <2>3 DEF TypeInv, TypeOK
<1>5. BodyInv'
  <2>0. pc' = "idle" => start' = rd'
    BY DEF TypeInv, BodyInv, RadioTransmit, callVars
  <2> SUFFICES ASSUME pc' = "body" PROVE BodyInv'
    BY <2>0 DEF BodyInv
  <2>1. pc = "body" /\ start' = start /\ rd' = rd /\ packet' = packet
    BY DEF RadioTransmit, callVars
  <2>2. SubSeq(stream', start + 1, start + HEADER_LENGTH) = SubSeq(stream, start + 1, start + HEADER_LENGTH)
    <3>1. start + HEADER_LENGTH <= Len(stream) /\ start \in Nat
      BY <2>1, Sizes DEF TypeInv, TypeOK, BodyInv
    <3>2. PICK m \in Nat, n \in Nat : m = start + 1 /\ n = start + HEADER_LENGTH /\ 1 <= m /\ m <= n
      BY <3>1, Sizes
    <3> QED BY <1>2, <3>1, <3>2, SliceOfFirst
  <2> QED BY <2>1, <2>2 DEF TypeInv, BodyInv
<1> QED BY <1>4, <1>5 DEF TypeInv

(* The steps that move no byte of stream keep TypeInv. *)
LEMMA LineType ==
  ASSUME TypeInv, ByteArrives \/ ByteUnheard \/ lithium_open \/ lithium_close \/ UNCHANGED vars
  PROVE  TypeInv'
<1>1. CASE ByteArrives
  BY <1>1 DEF TypeInv, TypeOK, BodyInv, ByteArrives, callVars
<1>2. CASE ByteUnheard
  <2>1. TypeOK'
    BY <1>2 DEF TypeInv, TypeOK, ByteUnheard, callVars
  <2>2. BodyInv'
    <3>1. pc' = "idle" => start' = rd'
      BY <1>2 DEF TypeInv, BodyInv, ByteUnheard, callVars, lineVars
    <3> SUFFICES ASSUME pc' = "body" PROVE BodyInv'
      BY <3>1 DEF BodyInv
    <3>2. /\ pc = "body" /\ start' = start /\ stream' = stream /\ packet' = packet
          /\ rd \in Nat /\ rd' \in Nat /\ rd <= rd' /\ start \in Nat
      BY <1>2 DEF TypeInv, TypeOK, ByteUnheard, callVars
    <3> QED BY <3>2, Sizes DEF TypeInv, BodyInv
  <2> QED BY <2>1, <2>2 DEF TypeInv
<1>3. CASE lithium_open
  BY <1>3 DEF TypeInv, TypeOK, BodyInv, lithium_open, callVars, lineVars
<1>4. CASE lithium_close
  <2>1. TypeOK'
    <3>1. /\ arrived' \in 0 .. Len(stream') /\ rd' \in 0 .. arrived' /\ start' \in 0 .. rd'
      <4>1. rd' = arrived /\ start' = (IF pc = "idle" THEN arrived ELSE start)
            /\ arrived' = arrived /\ stream' = stream
        BY <1>4 DEF lithium_close, lineVars
      <4>2. arrived \in 0 .. Len(stream) /\ rd \in 0 .. arrived /\ start \in 0 .. rd
        BY DEF TypeInv, TypeOK
      <4> QED BY <4>1, <4>2
    <3>2. uart_open' \in BOOLEAN /\ clean' \in BOOLEAN
      BY <1>4, Zenon DEF lithium_close
    <3> QED BY <1>4, <3>1, <3>2 DEF TypeInv, TypeOK, lithium_close, lineVars
  <2>2. BodyInv'
    <3>1. pc' = "idle" => start' = rd'
      BY <1>4 DEF TypeInv, BodyInv, lithium_close, callVars, lineVars
    <3> SUFFICES ASSUME pc' = "body" PROVE BodyInv'
      BY <3>1 DEF BodyInv
    <3>2. /\ pc = "body" /\ start' = start /\ stream' = stream /\ packet' = packet
          /\ rd \in Nat /\ rd' \in Nat /\ rd <= rd' /\ start \in Nat
      BY <1>4 DEF TypeInv, TypeOK, lithium_close, callVars, lineVars
    <3> QED BY <3>2, Sizes DEF TypeInv, BodyInv
  <2> QED BY <2>1, <2>2 DEF TypeInv
<1>5. CASE UNCHANGED vars
  BY <1>5 DEF TypeInv, TypeOK, BodyInv, vars
<1> QED BY <1>1, <1>2, <1>3, <1>4, <1>5

(* u agrees with stream on all that has arrived. *)
KeepsArrived(u) ==
  /\ u \in Seq(Byte) /\ arrived <= Len(u)
  /\ \A m, k \in Nat : 1 <= m /\ m <= k /\ k <= arrived => SubSeq(u, m, k) = SubSeq(stream, m, k)

(* A lost byte changes nothing that has arrived. *)
LEMMA LoseByteKeeps ==
  ASSUME TypeOK, LoseByte
  PROVE  KeepsArrived(stream')
<1>1. PICK n \in Nat : n = Len(stream)
  BY DEF TypeOK
<1>2. /\ stream \in Seq(Byte) /\ arrived \in Nat /\ arrived < n
  BY <1>1 DEF TypeOK, LoseByte, Fault
<1>3. PICK s, t : s = SubSeq(stream, 1, arrived) /\ t = SubSeq(stream, arrived + 2, n)
  OBVIOUS
<1>4. s \in Seq(Byte) /\ Len(s) = arrived
  BY <1>1, <1>2, <1>3
<1>5. t \in Seq(Byte)
  <2>1. PICK l \in Nat : l = arrived + 2 /\ 1 <= l
    BY <1>2
  <2> QED BY <1>1, <1>2, <1>3, <2>1, SliceType
<1>6. stream' = s \o t
  BY <1>1, <1>3 DEF LoseByte
<1>7. stream' \in Seq(Byte) /\ arrived <= Len(stream')
  BY <1>2, <1>4, <1>5, <1>6
<1>8. ASSUME NEW m \in Nat, NEW k \in Nat, 1 <= m, m <= k, k <= arrived
      PROVE  SubSeq(stream', m, k) = SubSeq(stream, m, k)
  <2>1. SubSeq(s \o t, m, k) = SubSeq(s, m, k)
    BY <1>4, <1>5, <1>8, SliceOfFirst
  <2>2. SubSeq(s, m, k) = SubSeq(stream, m, k)
    <3>1. k <= Len(s)
      BY <1>4, <1>8
    <3> QED BY <1>1, <1>2, <1>3, <1>4, <1>8, <3>1
  <2> QED BY <1>6, <2>1, <2>2
<1> QED BY <1>7, <1>8 DEF KeepsArrived

(* A corrupted byte changes nothing that has arrived. *)
LEMMA CorruptByteKeeps ==
  ASSUME TypeOK, NEW b \in NoiseBytes, CorruptByte(b)
  PROVE  KeepsArrived(stream')
<1>1. b \in Byte
  BY NoiseBytesAssumption
<1>2. PICK n \in Nat : n = Len(stream)
  BY DEF TypeOK
<1>3. /\ stream \in Seq(Byte) /\ arrived \in Nat /\ arrived < n
  BY <1>2 DEF TypeOK, CorruptByte, Fault
<1>4. PICK u : u = [stream EXCEPT ![arrived + 1] = b]
  OBVIOUS
<1>5. u \in Seq(Byte) /\ Len(u) = n /\ \A i \in 1 .. n : i # arrived + 1 => u[i] = stream[i]
  BY <1>1, <1>2, <1>3, <1>4
<1>6. ASSUME NEW m \in Nat, NEW k \in Nat, 1 <= m, m <= k, k <= arrived
      PROVE  SubSeq(u, m, k) = SubSeq(stream, m, k)
  <2>1. PICK t : t = SubSeq(stream, m, k)
    OBVIOUS
  <2>2. k <= Len(stream) /\ k <= Len(u)
    BY <1>2, <1>3, <1>5, <1>6
  <2>3. t \in Seq(Byte) /\ Len(t) = k - m + 1 /\ \A i \in 1 .. k - m + 1 : t[i] = stream[m + i - 1]
    BY <1>3, <1>6, <2>1, <2>2, Slice, Zenon
  <2>4. ASSUME NEW i \in 1 .. k - m + 1 PROVE u[m + i - 1] = t[i]
    <3>1. PICK q \in 1 .. n : q = m + i - 1 /\ q # arrived + 1
      BY <1>2, <1>3, <1>6
    <3>2. u[q] = stream[q]
      BY <1>5, <3>1
    <3> QED BY <2>3, <3>1, <3>2
  <2>5. \A i \in 1 .. k - m + 1 : u[m + i - 1] = t[i]
    BY <2>4
  <2>6. SubSeq(u, m, k) = t
    BY <1>5, <1>6, <2>2, <2>3, <2>5, SameSlice, ZenonT(30)
  <2> QED BY <2>1, <2>6
<1>7. KeepsArrived(u)
  BY <1>2, <1>3, <1>5, <1>6 DEF KeepsArrived
<1> QED BY <1>4, <1>7 DEF CorruptByte

(* Faults on the line keep TypeInv. *)
LEMMA FaultType ==
  ASSUME TypeInv, LoseByte \/ \E b \in NoiseBytes : CorruptByte(b)
  PROVE  TypeInv'
<1>1. KeepsArrived(stream') /\ TypeOK
  BY LoseByteKeeps, CorruptByteKeeps DEF TypeInv
<1>2. /\ arrived' = arrived /\ rd' = rd /\ start' = start /\ pc' = pc /\ packet' = packet
      /\ result' = result /\ uart_open' = uart_open /\ sent' = sent
      /\ faults' = faults + 1 /\ faults < MaxFaults /\ clean' = FALSE
  BY DEF LoseByte, CorruptByte, Fault, callVars
<1>3. starts' \in Seq(Nat) /\ Len(starts') = Len(starts)
  <2>1. CASE LoseByte
    <3>1. PICK n \in Nat : n = Len(starts)
      BY <1>1 DEF TypeOK
    <3>2. starts' = [i \in 1 .. n |-> IF starts[i] > arrived THEN starts[i] - 1 ELSE starts[i]]
      BY <2>1, <3>1 DEF LoseByte
    <3>3. \A i \in 1 .. n : starts[i] \in Nat /\ arrived \in Nat
      BY <1>1, <3>1 DEF TypeOK
    <3>4. \A i \in 1 .. n : (IF starts[i] > arrived THEN starts[i] - 1 ELSE starts[i]) \in Nat
      BY <3>3
    <3> QED BY <3>1, <3>2, <3>4
  <2>2. CASE \E b \in NoiseBytes : CorruptByte(b)
    BY <1>1, <2>2 DEF CorruptByte, TypeOK
  <2> QED BY <2>1, <2>2
<1>4. clean' \in BOOLEAN /\ uart_open' \in BOOLEAN
  BY <1>1, <1>2, Zenon DEF TypeOK
<1>5. TypeOK'
  BY <1>1, <1>2, <1>3, <1>4, BoundsAssumption DEF TypeOK, KeepsArrived
<1>6. BodyInv'
  <2>0. pc' = "idle" => start' = rd'
    BY <1>2 DEF TypeInv, BodyInv
  <2> SUFFICES ASSUME pc' = "body" PROVE BodyInv'
    BY <2>0 DEF BodyInv
  <2>1. start \in Nat /\ start + HEADER_LENGTH <= rd /\ rd <= arrived /\ rd \in Nat /\ arrived \in Nat
    BY <1>1, <1>2, Sizes DEF TypeInv, BodyInv, TypeOK
  <2>2. PICK m \in Nat, k \in Nat : m = start + 1 /\ k = start + HEADER_LENGTH /\ 1 <= m /\ m <= k /\ k <= arrived
    BY <2>1, Sizes
  <2>3. SubSeq(stream', m, k) = SubSeq(stream, m, k)
    BY <1>1, <2>2 DEF KeepsArrived
  <2> QED BY <1>2, <2>2, <2>3 DEF TypeInv, BodyInv
<1> QED BY <1>5, <1>6 DEF TypeInv

(* The eight bytes a successful header read returns. *)
LEMMA HeaderRead ==
  ASSUME TypeOK, CanRead(HEADER_LENGTH)
  PROVE  /\ SubSeq(stream, rd + 1, rd + HEADER_LENGTH) \in Seq(Byte)
         /\ Len(SubSeq(stream, rd + 1, rd + HEADER_LENGTH)) = HEADER_LENGTH
         /\ rd + HEADER_LENGTH \in 0 .. arrived
<1>1. /\ stream \in Seq(Byte) /\ arrived \in Nat /\ arrived <= Len(stream)
      /\ rd \in Nat /\ rd + HEADER_LENGTH <= arrived
  BY Sizes DEF TypeOK, CanRead
<1>2. PICK m \in Nat, n \in Nat : m = rd + 1 /\ n = rd + HEADER_LENGTH /\ 1 <= m /\ m <= n
  BY <1>1, Sizes
<1>3. n <= Len(stream) /\ n - m + 1 = HEADER_LENGTH
  BY <1>1, <1>2, Sizes
<1>4. SubSeq(stream, m, n) \in Seq(Byte) /\ Len(SubSeq(stream, m, n)) = HEADER_LENGTH
  BY <1>1, <1>2, <1>3, Slice
<1> QED BY <1>1, <1>2, <1>4

(* ReceiveHeader keeps TypeInv. *)
LEMMA ReceiveHeaderType ==
  ASSUME TypeInv, ReceiveHeader
  PROVE  TypeInv'
<1>1. TypeOK
  BY DEF TypeInv
<1>2. /\ stream' = stream /\ arrived' = arrived /\ sent' = sent /\ starts' = starts
      /\ faults' = faults
  BY DEF ReceiveHeader, lineVars
<1>3. clean' \in BOOLEAN /\ uart_open' \in BOOLEAN
  BY <1>1, Zenon DEF ReceiveHeader, TypeOK
<1>4. CASE ~CanRead(HEADER_LENGTH)
  <2>1. /\ result' = "BAD_COMMUNICATION" /\ pc' = "idle" /\ rd' = rd /\ start' = rd
        /\ packet' = packet
    BY <1>4 DEF ReceiveHeader, Return
  <2> QED BY <1>1, <1>2, <1>3, <2>1 DEF TypeInv, TypeOK, BodyInv, Results
<1>5. CASE CanRead(HEADER_LENGTH)
  <2>1. PICK raw : raw = SubSeq(stream, rd + 1, rd + HEADER_LENGTH)
    OBVIOUS
  <2>2. raw \in Seq(Byte) /\ Len(raw) = HEADER_LENGTH /\ rd + HEADER_LENGTH \in 0 .. arrived
    BY <1>1, <1>5, <2>1, HeaderRead
  <2>3. PICK header : header = [packet EXCEPT !.type = raw[3], !.command = raw[4],
                                              !.payload_length = PayloadLength(raw)]
    OBVIOUS
  <2>4. /\ header \in [type : Byte, command : Byte, payload_length : Word, payload : Seq(Byte)]
        /\ header.payload_length = PayloadLength(raw)
    BY <1>1, <2>2, <2>3, HeaderBytes DEF TypeOK
  <2>5. \/ Return(lithium_parse_header(raw), rd + HEADER_LENGTH) /\ packet' = packet
        \/ Return("NO_ERROR", rd + HEADER_LENGTH) /\ packet' = header
        \/ /\ RemainingBytes(raw) > 0
           /\ pc' = "body" /\ result' = "NONE" /\ rd' = rd + HEADER_LENGTH
           /\ packet' = header /\ start' = start /\ pc = "idle"
    BY <1>5, <2>1, <2>3 DEF ReceiveHeader, Deliver
  <2>6. lithium_parse_header(raw) \in Results
    BY DEF lithium_parse_header, Results
  <2>7. CASE Return(lithium_parse_header(raw), rd + HEADER_LENGTH) /\ packet' = packet
    BY <1>1, <1>2, <1>3, <2>2, <2>6, <2>7 DEF TypeInv, TypeOK, BodyInv, Return
  <2>8. CASE Return("NO_ERROR", rd + HEADER_LENGTH) /\ packet' = header
    BY <1>1, <1>2, <1>3, <2>2, <2>4, <2>8 DEF TypeInv, TypeOK, BodyInv, Return, Results
  <2>9. CASE /\ RemainingBytes(raw) > 0
             /\ pc' = "body" /\ result' = "NONE" /\ rd' = rd + HEADER_LENGTH
             /\ packet' = header /\ start' = start /\ pc = "idle"
    <3>1. TypeOK'
      <4>1. start' \in 0 .. rd'
        BY <1>1, <2>9, Sizes DEF TypeOK
      <4> QED BY <1>1, <1>2, <1>3, <2>2, <2>4, <2>9, <4>1 DEF TypeOK, Results
    <3>2. BodyInv'
      <4>1. start + HEADER_LENGTH <= rd' /\ start = rd
        BY <1>1, <2>9, Sizes DEF TypeOK, TypeInv, BodyInv
      <4>2. RemainingBytes(raw) = PayloadLength(raw) + CHECKSUM_LENGTH
        <5>1. RemainingBytes(raw) \in {0, PayloadLength(raw) + CHECKSUM_LENGTH}
          BY <2>2, HeaderBytes
        <5> QED BY <2>9, <5>1
      <4>3. raw = SubSeq(stream', start' + 1, start' + HEADER_LENGTH)
        BY <1>2, <2>1, <2>9, <4>1
      <4>4. pc' = "body" /\ start' + HEADER_LENGTH <= rd' /\ packet'.payload_length = PayloadLength(raw)
        BY <2>4, <2>9, <4>1
      <4> QED BY <4>2, <4>3, <4>4 DEF BodyInv
    <3> QED BY <3>1, <3>2 DEF TypeInv
  <2> QED BY <2>5, <2>7, <2>8, <2>9
<1> QED BY <1>4, <1>5

(* ReceiveBody keeps TypeInv: in particular the body read covers the checksum and
   the payload lithium_parse_body looks at. *)
LEMMA ReceiveBodyType ==
  ASSUME TypeInv, ReceiveBody
  PROVE  TypeInv'
<1>1. TypeOK /\ BodyInv /\ pc = "body"
  BY DEF TypeInv, ReceiveBody
<1>2. /\ stream' = stream /\ arrived' = arrived /\ sent' = sent /\ starts' = starts
      /\ faults' = faults
  BY DEF ReceiveBody, lineVars
<1>3. clean' \in BOOLEAN /\ uart_open' \in BOOLEAN
  BY <1>1, Zenon DEF ReceiveBody, TypeOK
<1>4. PICK raw, n : raw = SubSeq(stream, start + 1, start + HEADER_LENGTH) /\ n = RemainingBytes(raw)
  OBVIOUS
<1>5. PICK frame, payload :
        /\ frame = raw \o SubSeq(stream, rd + 1, rd + n)
        /\ payload = SubSeq(frame, HEADER_LENGTH + 1, HEADER_LENGTH + packet.payload_length)
  OBVIOUS
<1>6. \/ Return("BAD_COMMUNICATION", rd) /\ packet' = packet
      \/ CanRead(n) /\ Return("INVALID_CHECKSUM", rd + n) /\ packet' = packet
      \/ /\ CanRead(n) /\ Return("NO_ERROR", rd + n)
         /\ packet' = [packet EXCEPT !.payload = Overlay(packet.payload, payload)]
  BY <1>4, <1>5 DEF ReceiveBody, Deliver
<1>7. packet.payload_length \in Nat /\ n = packet.payload_length + CHECKSUM_LENGTH
  BY <1>1, <1>4 DEF TypeOK, BodyInv, Word
<1>8. n \in Nat /\ n > 0
  BY <1>7, Sizes
<1>9. CASE Return("BAD_COMMUNICATION", rd) /\ packet' = packet
  BY <1>1, <1>2, <1>3, <1>9 DEF TypeInv, TypeOK, BodyInv, Results, Return
<1>10. ASSUME CanRead(n) PROVE rd + n \in 0 .. arrived
  BY <1>1, <1>8, <1>10 DEF CanRead, TypeOK
<1>11. CASE CanRead(n) /\ Return("INVALID_CHECKSUM", rd + n) /\ packet' = packet
  BY <1>1, <1>2, <1>3, <1>10, <1>11 DEF TypeInv, TypeOK, BodyInv, Results, Return
<1>12. CASE /\ CanRead(n) /\ Return("NO_ERROR", rd + n)
            /\ packet' = [packet EXCEPT !.payload = Overlay(packet.payload, payload)]
  <2>1. payload \in Seq(Byte)
    <3>1. PICK k \in Nat : k = HEADER_LENGTH /\ k > 0
      BY Sizes
    <3>2. /\ stream \in Seq(Byte) /\ rd \in Nat /\ start \in Nat /\ start + k <= rd
          /\ rd + n <= Len(stream)
      BY <1>1, <1>10, <1>12, <3>1 DEF TypeOK, BodyInv
    <3>3. raw \in Seq(Byte) /\ Len(raw) = k
      <4>1. PICK m \in Nat, l \in Nat : m = start + 1 /\ l = start + k /\ 1 <= m /\ m <= l
        BY <3>1, <3>2
      <4>2. l <= Len(stream) /\ l - m + 1 = k
        BY <1>8, <3>2, <4>1
      <4> QED BY <1>4, <3>1, <3>2, <4>1, <4>2, Slice
    <3>4. PICK rest : rest = SubSeq(stream, rd + 1, rd + n)
      OBVIOUS
    <3>5. rest \in Seq(Byte) /\ Len(rest) = n
      <4>1. PICK m \in Nat, l \in Nat : m = rd + 1 /\ l = rd + n /\ 1 <= m /\ m <= l
        BY <1>8, <3>2
      <4>2. l <= Len(stream) /\ l - m + 1 = n
        BY <1>8, <3>2, <4>1
      <4> QED BY <3>2, <3>4, <4>1, <4>2, Slice
    <3>6. frame \in Seq(Byte) /\ Len(frame) = k + n
      BY <1>5, <1>8, <3>3, <3>4, <3>5
    <3>7. PICK w \in Nat : w = packet.payload_length
      BY <1>7
    <3>9. PICK m \in Nat, l \in Nat : m = k + 1 /\ l = k + w /\ 1 <= m
      OBVIOUS
    <3>8. l <= Len(frame)
      BY <1>7, <3>6, <3>7, <3>9, Sizes
    <3> QED BY <1>5, <3>1, <3>6, <3>7, <3>8, <3>9, SliceType
  <2>2. packet.payload \in Seq(Byte)
    BY <1>1 DEF TypeOK
  <2>3. Overlay(packet.payload, payload) \in Seq(Byte)
    BY <2>1, <2>2, OverlayType
  <2>4. packet' \in [type : Byte, command : Byte, payload_length : Word, payload : Seq(Byte)]
    BY <1>1, <1>12, <2>3 DEF TypeOK
  <2> QED BY <1>1, <1>2, <1>3, <1>10, <1>12, <2>4 DEF TypeInv, TypeOK, BodyInv, Results, Return
<1> QED BY <1>6, <1>9, <1>11, <1>12

(* Every step keeps TypeInv. *)
LEMMA NextTypeInv == TypeInv /\ [Next]_vars => TypeInv'
<1> SUFFICES ASSUME TypeInv, [Next]_vars PROVE TypeInv'
  OBVIOUS
<1> QED BY TransmitType, LineType, FaultType, ReceiveHeaderType, ReceiveBodyType DEF Next

(* LithiumRadio keeps its types, for every set of packets, noise and bounds. *)
THEOREM RadioTypeCorrect == Spec => []TypeOK
<1>1. TypeInv => TypeOK
  BY DEF TypeInv
<1> QED BY InitTypeInv, NextTypeInv, <1>1, PTL DEF Spec

-----------------------------------------------------------------------------
(* The clean line. *)

(* f is the frame of p and h its header: what the parser makes of them. *)
FrameFacts(p, f, h) ==
  /\ f \in Seq(Byte) /\ h = SubSeq(f, 1, HEADER_LENGTH)
  /\ Len(f) = HEADER_LENGTH + RemainingBytes(h) /\ Len(f) >= HEADER_LENGTH
  /\ h[3] = p.type /\ h[4] = p.command /\ PayloadLength(h) = p.payload_length
  /\ lithium_parse_header(h) = "NO_ERROR"
  /\ RemainingBytes(h) = IF p.payload = <<>> THEN 0 ELSE Len(p.payload) + 2
  /\ p.payload # <<>> =>
       /\ p.payload_length = Len(p.payload)
       /\ lithium_parse_body(f, p.payload_length) = "NO_ERROR"
       /\ SubSeq(f, HEADER_LENGTH + 1, HEADER_LENGTH + p.payload_length) = p.payload

(* RadioFrame writes such frames. *)
LEMMA FrameFactsHold ==
  ASSUME NEW p \in RadioPackets
  PROVE  FrameFacts(p, RadioFrame(p), SubSeq(RadioFrame(p), 1, HEADER_LENGTH))
<1>1. IsPacket(p)
  BY RadioPacketsAssumption
<1>2. PICK f, h : f = RadioFrame(p) /\ h = SubSeq(f, 1, HEADER_LENGTH)
  OBVIOUS
<1>3. /\ f \in Seq(Byte) /\ Len(f) = HEADER_LENGTH + RemainingBytes(h)
      /\ IsHeaderOf(h, p.type, p.command, p.payload_length)
      /\ p.payload # <<>> =>
           /\ lithium_parse_body(f, p.payload_length) = "NO_ERROR"
           /\ SubSeq(f, HEADER_LENGTH + 1, HEADER_LENGTH + p.payload_length) = p.payload
  BY <1>1, <1>2, FrameRoundTrip, Zenon
<1>4. /\ lithium_parse_header(h) = "NO_ERROR" /\ PayloadLength(h) = p.payload_length
      /\ RemainingBytes(h) = IF p.payload = <<>> THEN 0 ELSE Len(p.payload) + 2
  BY <1>1, <1>3, HeaderRoundTrip
<1>5. h[3] = p.type /\ h[4] = p.command
  BY <1>3 DEF IsHeaderOf
<1>6. p.payload # <<>> => p.payload_length = Len(p.payload)
  BY <1>1 DEF IsPacket
<1>7. Len(f) >= HEADER_LENGTH
  <2>1. p.payload \in Seq(Byte)
    BY <1>1 DEF IsPacket, PacketRecord
  <2>2. RemainingBytes(h) \in Nat
    BY <1>4, <2>1
  <2> QED BY <1>3, <2>2, Sizes
<1> QED BY <1>2, <1>3, <1>4, <1>5, <1>6, <1>7, Zenon DEF FrameFacts

(* A header alone delivers the packet it was made from, whatever the payload array
   still holds. *)
LEMMA ReceivedNothing ==
  ASSUME NEW p \in RadioPackets, p.payload = <<>>,
         NEW q \in [type : Byte, command : Byte, payload_length : Word, payload : Seq(Byte)],
         q.type = p.type, q.command = p.command, q.payload_length = p.payload_length
  PROVE  Received(q) = p
<1>1. IsPacket(p)
  BY RadioPacketsAssumption
<1>2. p = [type |-> p.type, command |-> p.command, payload_length |-> p.payload_length, payload |-> p.payload]
  BY <1>1 DEF IsPacket, PacketRecord
<1>3. ~IsAckNack(p.type, p.payload_length) => p.payload_length = 0
  BY <1>1 DEF IsPacket
<1>4. (IF IsAckNack(q.type, q.payload_length) THEN <<>> ELSE SubSeq(q.payload, 1, q.payload_length)) = <<>>
  BY <1>3
<1>5. Received(q) = [q EXCEPT !.payload = <<>>]
  BY <1>4, Zenon DEF Received
<1>6. [q EXCEPT !.payload = <<>>] = [type |-> q.type, command |-> q.command, payload_length |-> q.payload_length, payload |-> <<>>]
  OBVIOUS
<1> QED BY <1>2, <1>5, <1>6

(* A body delivers the packet it was made from, whatever the payload array still
   holds behind it. *)
LEMMA ReceivedPayload ==
  ASSUME NEW p \in RadioPackets, p.payload # <<>>,
         NEW q \in [type : Byte, command : Byte, payload_length : Word, payload : Seq(Byte)],
         NEW old \in Seq(Byte), q.payload = Overlay(old, p.payload),
         q.type = p.type, q.command = p.command, q.payload_length = p.payload_length
  PROVE  Received(q) = p
<1>1. IsPacket(p)
  BY RadioPacketsAssumption
<1>2. p = [type |-> p.type, command |-> p.command, payload_length |-> p.payload_length, payload |-> p.payload]
  BY <1>1 DEF IsPacket, PacketRecord
<1>3. PICK t \in Seq(Byte), n \in Nat : t = p.payload /\ n = Len(t) /\ n = p.payload_length /\ n >= 1
                                        /\ n <= MAX_PAYLOAD_LENGTH
  BY <1>1, EmptySeq DEF IsPacket, PacketRecord
<1>4. ~IsAckNack(p.type, p.payload_length)
  BY <1>3 DEF IsAckNack, ACK_LENGTH, NACK_LENGTH, MAX_PAYLOAD_LENGTH
<1>5. SubSeq(q.payload, 1, n) = t
  <2>1. PICK rest : rest = SubSeq(old, Len(t) + 1, Len(old))
    OBVIOUS
  <2>2. rest \in Seq(Byte)
    <3>1. PICK m \in Nat : m = Len(t) + 1 /\ 1 <= m
      BY <1>3
    <3> QED BY <2>1, <3>1, SliceType
  <2>3. q.payload = t \o rest
    BY <1>3, <2>1 DEF Overlay
  <2>4. SubSeq(t \o rest, 1, n) = SubSeq(t, 1, n)
    <3>1. PICK i \in Nat : i = 1 /\ 1 <= i /\ i <= n /\ n <= Len(t)
      BY <1>3
    <3>2. SubSeq(t \o rest, i, n) = SubSeq(t, i, n)
      BY <2>2, <3>1, SliceOfFirst
    <3> QED BY <3>1, <3>2
  <2> QED BY <1>3, <2>3, <2>4, WholeSlice
<1>6. Received(q) = [q EXCEPT !.payload = t]
  BY <1>3, <1>4, <1>5 DEF Received
<1>7. [q EXCEPT !.payload = t] = [type |-> q.type, command |-> q.command, payload_length |-> q.payload_length, payload |-> t]
  OBVIOUS
<1> QED BY <1>2, <1>3, <1>6, <1>7

(* The frame of sent[i] lies whole and unharmed in stream, up to the next one. *)
FrameAt(i) ==
  /\ Boundary(i) = starts[i] + Len(RadioFrame(sent[i]))
  /\ Boundary(i) <= Len(stream)
  /\ SubSeq(stream, starts[i] + 1, Boundary(i)) = RadioFrame(sent[i])

(* stream is the frames of sent, one after the other. *)
Layout == Boundary(0) = 0 /\ \A i \in 1 .. Len(sent) : FrameAt(i)

(* A receive that begins at a boundary with a header's worth of bytes before it
   has the next frame before it. *)
LEMMA CurrentFrame ==
  ASSUME TypeOK, Layout, NEW d \in Nat, d <= Len(sent), start = Boundary(d),
         start + HEADER_LENGTH <= Len(stream)
  PROVE  /\ d < Len(sent)
         /\ \E p, f, h :
              /\ p \in RadioPackets /\ p = sent[d + 1]
              /\ FrameFacts(p, f, h)
              /\ h = SubSeq(stream, start + 1, start + HEADER_LENGTH)
              /\ f = SubSeq(stream, start + 1, start + Len(f))
              /\ start + Len(f) = Boundary(d + 1)
<1>1. d < Len(sent)
  BY Sizes DEF TypeOK, Boundary
<1>2. PICK p, f, h : p \in RadioPackets /\ p = sent[d + 1] /\ f = RadioFrame(p) /\ h = SubSeq(f, 1, HEADER_LENGTH)
  <2>1. sent[d + 1] \in RadioPackets
    BY <1>1 DEF TypeOK
  <2> QED BY <2>1
<1>3. FrameFacts(p, f, h)
  BY <1>2, FrameFactsHold
<1>4. FrameAt(d + 1) /\ start = starts[d + 1]
  BY <1>1 DEF Layout, Boundary
<1>5. f = SubSeq(stream, start + 1, start + Len(f)) /\ start + Len(f) = Boundary(d + 1) /\ start + Len(f) <= Len(stream)
  BY <1>2, <1>4 DEF FrameAt
<1>6. h = SubSeq(stream, start + 1, start + HEADER_LENGTH)
  <2>1. PICK k \in Nat, b \in Nat, l \in Nat :
           k = HEADER_LENGTH /\ b = start /\ l = Len(f) /\ 1 <= k /\ k <= l
    <3>1. start \in Nat
      BY DEF TypeOK
    <3>2. f \in Seq(Byte) /\ Len(f) >= HEADER_LENGTH
      BY <1>3 DEF FrameFacts
    <3>3. HEADER_LENGTH \in Nat /\ Len(f) \in Nat /\ 1 <= HEADER_LENGTH /\ HEADER_LENGTH <= Len(f)
      BY <3>2, Sizes
    <3> QED BY <3>1, <3>3, Zenon
  <2>2. PICK i \in Nat, m \in Nat, n \in Nat : i = 1 /\ m = b + 1 /\ n = b + l
    OBVIOUS
  <2>3. stream \in Seq(Byte) /\ n <= Len(stream)
    BY <1>5, <2>1, <2>2 DEF TypeOK
  <2>4. 1 <= m /\ m <= n /\ 1 <= i /\ i <= k /\ k <= n - m + 1
    <3>1. 1 <= k /\ k <= l
      BY <2>1
    <3>2. n - m + 1 = l /\ m <= n
      BY <2>2, <3>1
    <3> QED BY <2>2, <3>1, <3>2
  <2>5. SubSeq(SubSeq(stream, m, n), i, k) = SubSeq(stream, m + i - 1, m + k - 1)
    BY <2>3, <2>4, SliceOfSlice
  <2>6. m + i - 1 = b + 1 /\ m + k - 1 = b + k
    BY <2>2
  <2>7. SubSeq(SubSeq(stream, m, n), 1, k) = SubSeq(stream, b + 1, b + k)
    BY <2>2, <2>5, <2>6
  <2> QED BY <1>2, <1>5, <2>1, <2>2, <2>7
<1> QED BY <1>1, <1>2, <1>3, <1>5, <1>6

(* d packets are delivered, the receive begins at the frame of the next one, and
   inside lithium_receive_packet the packet has that frame's fields. *)
Delivery(d) ==
  /\ delivered \in Seq(RadioPackets) /\ d = Len(delivered)
  /\ d <= Len(sent) /\ delivered = SubSeq(sent, 1, d)
  /\ start = Boundary(d)
  /\ result \notin {"INVALID_PACKET", "INVALID_CHECKSUM"}
  /\ pc = "body" =>
       /\ rd = start + HEADER_LENGTH
       /\ d < Len(sent) /\ sent[d + 1].payload # <<>>
       /\ packet.type = sent[d + 1].type
       /\ packet.command = sent[d + 1].command
       /\ packet.payload_length = sent[d + 1].payload_length

(* The inductive strengthening of CleanFifo. *)
CleanInv == clean => uart_open /\ Layout /\ Delivery(Len(delivered))

(* CleanInv holds at the start. *)
LEMMA InitCleanInv == Init => CleanInv
<1> SUFFICES ASSUME Init PROVE CleanInv
  OBVIOUS
<1>1. /\ stream = <<>> /\ sent = <<>> /\ delivered = <<>> /\ start = 0 /\ pc = "idle"
      /\ result = "NONE" /\ uart_open
  BY Zenon DEF Init
<1>2. Boundary(0) = 0
  BY <1>1 DEF Boundary
<1>3. Layout
  BY <1>1, <1>2 DEF Layout
<1>4. Delivery(0)
  BY <1>1, <1>2 DEF Delivery
<1>5. Len(delivered) = 0
  BY <1>1
<1> QED BY <1>1, <1>3, <1>4, <1>5 DEF CleanInv

(* A new frame goes behind the others and moves no boundary. *)
LEMMA TransmitLayout ==
  ASSUME TypeOK, Layout, NEW p \in RadioPackets, RadioTransmit(p)
  PROVE  /\ Layout'
         /\ \A k \in 0 .. Len(sent) : Boundary(k)' = Boundary(k)
<1>1. PICK f \in Seq(Byte) : f = RadioFrame(p)
  BY FrameType
<1>2. PICK n \in Nat : n = Len(sent)
  BY DEF TypeOK
<1>3. /\ sent' \in Seq(RadioPackets) /\ Len(sent') = n + 1 /\ sent'[n + 1] = p
      /\ \A i \in 1 .. n : sent'[i] = sent[i]
  BY <1>2 DEF TypeOK, RadioTransmit
<1>4. /\ starts' \in Seq(Nat) /\ Len(starts') = n + 1 /\ starts'[n + 1] = Len(stream)
      /\ \A i \in 1 .. n : starts'[i] = starts[i]
  BY <1>2 DEF TypeOK, RadioTransmit
<1>5. stream \in Seq(Byte) /\ stream' = stream \o f
  BY <1>1 DEF TypeOK, RadioTransmit
<1>6. Len(stream') = Len(stream) + Len(f)
  BY <1>5
<1>7. ASSUME NEW k \in 0 .. n PROVE Boundary(k)' = Boundary(k)
  <2>1. Boundary(k)' = starts'[k + 1]
    BY <1>3 DEF Boundary
  <2>2. CASE k < n
    BY <1>2, <1>4, <2>1, <2>2, SMTT(30) DEF Boundary
  <2>3. CASE k = n
    BY <1>2, <1>4, <2>1, <2>3 DEF Boundary
  <2> QED BY <2>2, <2>3
<1>8. Boundary(0)' = 0
  BY <1>7 DEF Layout
<1>9. ASSUME NEW i \in 1 .. n PROVE FrameAt(i)'
  <2>1. FrameAt(i)
    BY <1>2 DEF Layout
  <2>2. i \in 0 .. n /\ sent'[i] = sent[i] /\ starts'[i] = starts[i] /\ starts[i] \in Nat
    BY <1>2, <1>3, <1>4 DEF TypeOK
  <2>3. Boundary(i)' = Boundary(i)
    BY <1>7, <2>2
  <2>4. sent[i] \in RadioPackets
    BY <1>2 DEF TypeOK
  <2>5. PICK g \in Seq(Byte) : g = RadioFrame(sent[i]) /\ Len(g) >= 1
    <3>1. FrameFacts(sent[i], RadioFrame(sent[i]), SubSeq(RadioFrame(sent[i]), 1, HEADER_LENGTH))
      BY <2>4, FrameFactsHold
    <3>2. RadioFrame(sent[i]) \in Seq(Byte)
      BY <2>4, FrameType
    <3>3. Len(RadioFrame(sent[i])) >= 1
      BY <3>1, <3>2, Sizes DEF FrameFacts
    <3> QED BY <3>2, <3>3
  <2>6. PICK m \in Nat, b \in Nat : m = starts[i] + 1 /\ b = Boundary(i) /\ 1 <= m /\ m <= b /\ b <= Len(stream)
    <3>1. Boundary(i) = starts[i] + Len(g) /\ Boundary(i) <= Len(stream)
      BY <2>1, <2>5 DEF FrameAt
    <3>2. PICK m \in Nat, l \in Nat : m = starts[i] + 1 /\ l = Len(g) /\ l >= 1 /\ 1 <= m
      BY <2>2, <2>5
    <3>3. PICK b \in Nat : b = starts[i] + l /\ m <= b
      BY <2>2, <3>2
    <3>4. b = Boundary(i) /\ b <= Len(stream)
      BY <3>1, <3>2, <3>3
    <3> QED BY <3>2, <3>3, <3>4, Zenon
  <2>7. SubSeq(stream', m, b) = SubSeq(stream, m, b)
    BY <1>5, <2>6, SliceOfFirst, ZenonT(30)
  <2>8. b <= Len(stream')
    BY <1>5, <1>6, <2>6
  <2> QED BY <2>1, <2>2, <2>3, <2>6, <2>7, <2>8 DEF FrameAt
<1>10. FrameAt(n + 1)'
  <2>1. Boundary(n + 1)' = Len(stream')
    BY <1>3 DEF Boundary
  <2>2. SubSeq(stream', Len(stream) + 1, Len(stream')) = f
    <3>1. CASE f = <<>>
      BY <1>5, <1>6, <3>1
    <3>2. CASE f # <<>>
      <4>1. PICK i \in Nat, l \in Nat : i = 1 /\ l = Len(f) /\ 1 <= i /\ i <= l /\ l <= Len(f)
        BY <3>2, EmptySeq
      <4>2. SubSeq(stream \o f, Len(stream) + i, Len(stream) + l) = SubSeq(f, i, l)
        BY <1>5, <4>1, SliceOfSecond
      <4> QED BY <1>5, <1>6, <4>1, <4>2, WholeSlice
    <3> QED BY <3>1, <3>2
  <2> QED BY <1>1, <1>3, <1>4, <1>6, <2>1, <2>2 DEF FrameAt
<1> QED
  <2>1. \A i \in 1 .. n + 1 : FrameAt(i)'
    <3> SUFFICES ASSUME NEW i \in 1 .. n + 1 PROVE FrameAt(i)'
      OBVIOUS
    <3>1. CASE i \in 1 .. n
      BY <1>9, <3>1
    <3>2. CASE i = n + 1
      BY <1>10, <3>2, Zenon
    <3>3. i \in 1 .. n \/ i = n + 1
      OBVIOUS
    <3> QED BY <3>1, <3>2, <3>3
  <2> QED BY <1>2, <1>3, <1>7, <1>8, <2>1 DEF Layout

(* RadioTransmit keeps CleanInv. *)
LEMMA TransmitClean ==
  ASSUME TypeInv, CleanInv, NEW p \in RadioPackets, RadioTransmit(p)
  PROVE  CleanInv'
<1> SUFFICES ASSUME clean' PROVE CleanInv'
  BY DEF CleanInv
<1>1. /\ clean /\ uart_open' = uart_open /\ delivered' = delivered /\ start' = start
      /\ result' = result /\ pc' = pc /\ rd' = rd /\ packet' = packet
  BY DEF RadioTransmit, callVars
<1>2. uart_open /\ Layout /\ TypeOK /\ Delivery(Len(delivered))
  BY <1>1 DEF CleanInv, TypeInv
<1>3. PICK d \in Nat : d = Len(delivered) /\ Delivery(d)
  <2>1. delivered \in Seq(RadioPackets)
    BY <1>2 DEF Delivery
  <2>2. Len(delivered) \in Nat
    BY <2>1
  <2> QED BY <1>2, <2>2, Zenon
<1>4. sent \in Seq(RadioPackets) /\ sent' = Append(sent, p) /\ d <= Len(sent)
  BY <1>2, <1>3 DEF TypeOK, RadioTransmit, Delivery
<1>5. d \in 0 .. Len(sent)
  BY <1>4
<1>6. Layout' /\ Boundary(d)' = Boundary(d)
  BY <1>2, <1>5, TransmitLayout
<1>7. SubSeq(sent', 1, d) = SubSeq(sent, 1, d)
  BY <1>4, PrefixStays
<1>8. Len(sent') = Len(sent) + 1 /\ (d < Len(sent) => sent'[d + 1] = sent[d + 1])
  BY <1>4
<1>9. Delivery(d)'
  BY <1>1, <1>3, <1>4, <1>6, <1>7, <1>8 DEF Delivery
<1> QED BY <1>1, <1>2, <1>3, <1>6, <1>9 DEF CleanInv

(* The other steps of the line keep CleanInv, or end clean. *)
LEMMA LineClean ==
  ASSUME TypeInv, CleanInv,
         \/ ByteArrives \/ ByteUnheard \/ lithium_open \/ lithium_close
         \/ LoseByte \/ (\E b \in NoiseBytes : CorruptByte(b)) \/ UNCHANGED vars
  PROVE  CleanInv'
<1> SUFFICES ASSUME clean' PROVE CleanInv'
  BY DEF CleanInv
<1>1. ~LoseByte /\ ~(\E b \in NoiseBytes : CorruptByte(b)) /\ ~lithium_close
  BY Zenon DEF LoseByte, CorruptByte, Fault, lithium_close
<1>2. CASE ByteArrives
  BY <1>2 DEF CleanInv, Delivery, Layout, FrameAt, Boundary, ByteArrives, callVars
<1>3. CASE ByteUnheard
  BY <1>3 DEF CleanInv, ByteUnheard
<1>4. CASE lithium_open
  BY <1>4 DEF CleanInv, lithium_open, callVars, lineVars
<1>5. CASE UNCHANGED vars
  BY <1>5 DEF CleanInv, Delivery, Layout, FrameAt, Boundary, vars
<1> QED BY <1>1, <1>2, <1>3, <1>4, <1>5

(* Receiving moves no boundary. *)
LEMMA ReceiveKeepsLayout ==
  ASSUME Layout, UNCHANGED lineVars
  PROVE  Layout' /\ \A k : Boundary(k)' = Boundary(k)
  BY DEF Layout, FrameAt, Boundary, lineVars

(* Delivering sent[d + 1] and moving on to the next boundary. *)
LEMMA DeliverNext ==
  ASSUME TypeOK, NEW d \in Nat, Delivery(d), d < Len(sent), UNCHANGED lineVars,
         Layout, delivered' = Append(delivered, sent[d + 1]), start' = Boundary(d + 1),
         result' = "NO_ERROR", pc' = "idle"
  PROVE  Delivery(d + 1)' /\ Len(delivered') = d + 1
<1>1. sent \in Seq(RadioPackets) /\ delivered \in Seq(RadioPackets) /\ Len(delivered) = d
      /\ delivered = SubSeq(sent, 1, d)
  BY DEF TypeOK, Delivery
<1>2. sent[d + 1] \in RadioPackets
  BY <1>1
<1>3. delivered' \in Seq(RadioPackets) /\ Len(delivered') = d + 1
  BY <1>1, <1>2
<1>4. delivered' = SubSeq(sent, 1, d + 1)
  BY <1>1, PrefixGrows
<1>5. sent' = sent /\ Boundary(d + 1)' = Boundary(d + 1)
  BY ReceiveKeepsLayout DEF lineVars
<1> QED BY <1>3, <1>4, <1>5 DEF Delivery

(* ReceiveHeader keeps CleanInv. *)
LEMMA ReceiveHeaderClean ==
  ASSUME TypeInv, CleanInv, ReceiveHeader
  PROVE  CleanInv'
<1> SUFFICES ASSUME clean' PROVE CleanInv'
  BY DEF CleanInv
<1>1. /\ clean /\ uart_open' = uart_open /\ UNCHANGED lineVars /\ pc = "idle"
  BY DEF ReceiveHeader
<1>2. uart_open /\ Layout /\ TypeOK /\ Delivery(Len(delivered)) /\ start = rd
  BY <1>1 DEF CleanInv, TypeInv, BodyInv
<1>3. PICK d \in Nat : d = Len(delivered) /\ Delivery(d)
  <2>1. delivered \in Seq(RadioPackets)
    BY <1>2 DEF Delivery
  <2>2. Len(delivered) \in Nat
    BY <2>1
  <2> QED BY <1>2, <2>2, Zenon
<1>4. Layout' /\ (\A k : Boundary(k)' = Boundary(k)) /\ sent' = sent
  BY <1>1, <1>2, ReceiveKeepsLayout DEF lineVars
<1>5. CASE ~CanRead(HEADER_LENGTH)
  <2>1. /\ result' = "BAD_COMMUNICATION" /\ pc' = "idle" /\ start' = rd
        /\ delivered' = delivered
    BY <1>5 DEF ReceiveHeader, Return
  <2>2. Delivery(d)'
    BY <1>2, <1>3, <1>4, <2>1 DEF Delivery
  <2> QED BY <1>1, <1>2, <1>3, <1>4, <2>1, <2>2 DEF CleanInv
<1>6. CASE CanRead(HEADER_LENGTH)
  <2>1. start + HEADER_LENGTH <= Len(stream)
    <3>1. rd + HEADER_LENGTH \in 0 .. arrived
      BY <1>2, <1>6, HeaderRead
    <3> QED BY <1>2, <3>1 DEF TypeOK
  <2>2. d <= Len(sent) /\ start = Boundary(d)
    BY <1>3 DEF Delivery
  <2>3. d < Len(sent)
    BY <1>2, <2>1, <2>2, CurrentFrame
  <2>4. PICK p, f, raw :
          /\ p \in RadioPackets /\ p = sent[d + 1] /\ FrameFacts(p, f, raw)
          /\ raw = SubSeq(stream, rd + 1, rd + HEADER_LENGTH)
          /\ start + Len(f) = Boundary(d + 1)
    BY <1>2, <2>1, <2>2, CurrentFrame
  <2>0. p \in RadioPackets
    BY <2>4
  <2>5. PICK header : header = [packet EXCEPT !.type = raw[3], !.command = raw[4],
                                              !.payload_length = PayloadLength(raw)]
    OBVIOUS
  <2>6. /\ lithium_parse_header(raw) = "NO_ERROR"
        /\ raw[3] = p.type /\ raw[4] = p.command /\ PayloadLength(raw) = p.payload_length
        /\ Len(f) = HEADER_LENGTH + RemainingBytes(raw)
        /\ RemainingBytes(raw) = IF p.payload = <<>> THEN 0 ELSE Len(p.payload) + 2
    BY <2>4 DEF FrameFacts
  <2>7. /\ header.type = p.type /\ header.command = p.command
        /\ header.payload_length = p.payload_length
        /\ header \in [type : Byte, command : Byte, payload_length : Word, payload : Seq(Byte)]
    <3>1. p.type \in Byte /\ p.command \in Byte /\ p.payload_length \in Word
      BY <2>0, RadioPacketsAssumption DEF IsPacket, PacketRecord, Byte, LITHIUM_I_MESSAGE,
           LITHIUM_O_MESSAGE, LITHIUM_COMMAND_count
    <3> QED BY <1>2, <2>5, <2>6, <3>1 DEF TypeOK
  <2>8. \/ /\ RemainingBytes(raw) = 0
           /\ Return("NO_ERROR", rd + HEADER_LENGTH) /\ Deliver(header)
        \/ /\ RemainingBytes(raw) > 0 /\ pc' = "body" /\ result' = "NONE"
           /\ rd' = rd + HEADER_LENGTH /\ packet' = header
           /\ start' = start /\ delivered' = delivered
    BY <1>6, <2>4, <2>5, <2>6 DEF ReceiveHeader
  <2>9. CASE /\ RemainingBytes(raw) = 0
             /\ Return("NO_ERROR", rd + HEADER_LENGTH) /\ Deliver(header)
    <3>1. p.payload = <<>>
      <4>1. Len(p.payload) \in Nat
        BY <2>0, RadioPacketsAssumption DEF IsPacket, PacketRecord
      <4> QED BY <2>6, <2>9, <4>1
    <3>2. Received(header) = p
      BY <2>0, <2>7, <3>1, ReceivedNothing
    <3>3. /\ delivered' = Append(delivered, sent[d + 1]) /\ start' = rd + HEADER_LENGTH
          /\ result' = "NO_ERROR" /\ pc' = "idle"
      BY <2>4, <2>9, <3>2 DEF Return, Deliver
    <3>4. start' = Boundary(d + 1)
      BY <1>2, <2>4, <2>6, <2>9, <3>3, Sizes
    <3>5. Delivery(d + 1)' /\ Len(delivered') = d + 1
      BY <1>1, <1>2, <1>3, <2>3, <3>3, <3>4, DeliverNext
    <3> QED BY <1>1, <1>2, <1>4, <3>5 DEF CleanInv
  <2>10. CASE /\ RemainingBytes(raw) > 0 /\ pc' = "body" /\ result' = "NONE"
              /\ rd' = rd + HEADER_LENGTH /\ packet' = header
              /\ start' = start /\ delivered' = delivered
    <3>1. p.payload # <<>>
      BY <2>6, <2>10
    <3>2. Delivery(d)'
      BY <1>2, <1>3, <1>4, <2>3, <2>4, <2>7, <2>10, <3>1 DEF Delivery
    <3> QED BY <1>1, <1>2, <1>3, <1>4, <2>10, <3>2 DEF CleanInv
  <2> QED BY <2>8, <2>9, <2>10
<1> QED BY <1>5, <1>6

(* ReceiveBody keeps CleanInv. *)
LEMMA ReceiveBodyClean ==
  ASSUME TypeInv, CleanInv, ReceiveBody
  PROVE  CleanInv'
<1> SUFFICES ASSUME clean' PROVE CleanInv'
  BY DEF CleanInv
<1>1. PICK raw, n : raw = SubSeq(stream, start + 1, start + HEADER_LENGTH) /\ n = RemainingBytes(raw)
  OBVIOUS
<1>2. CanRead(n)
  BY <1>1 DEF ReceiveBody
<1>3. clean /\ uart_open' = uart_open /\ UNCHANGED lineVars /\ pc = "body"
  BY <1>1, <1>2 DEF ReceiveBody
<1>4. uart_open /\ Layout /\ TypeOK /\ Delivery(Len(delivered))
  BY <1>3 DEF CleanInv, TypeInv
<1>5. PICK d \in Nat : d = Len(delivered) /\ Delivery(d)
  <2>1. delivered \in Seq(RadioPackets)
    BY <1>4 DEF Delivery
  <2>2. Len(delivered) \in Nat
    BY <2>1
  <2> QED BY <1>4, <2>2, Zenon
<1>6. Layout' /\ (\A k : Boundary(k)' = Boundary(k)) /\ sent' = sent
  BY <1>3, <1>4, ReceiveKeepsLayout DEF lineVars
<1>7. /\ rd = start + HEADER_LENGTH /\ d < Len(sent) /\ start = Boundary(d)
      /\ sent[d + 1].payload # <<>>
      /\ packet.type = sent[d + 1].type /\ packet.command = sent[d + 1].command
      /\ packet.payload_length = sent[d + 1].payload_length
  BY <1>3, <1>5 DEF Delivery
<1>8. start + HEADER_LENGTH <= Len(stream)
  BY <1>4, <1>7, Sizes DEF TypeOK
<1>9. PICK p, f :
        /\ p \in RadioPackets /\ p = sent[d + 1] /\ FrameFacts(p, f, raw)
        /\ f = SubSeq(stream, start + 1, start + Len(f))
        /\ start + Len(f) = Boundary(d + 1)
  <2>1. d <= Len(sent)
    BY <1>5 DEF Delivery
  <2> QED BY <1>1, <1>4, <1>7, <1>8, <2>1, CurrentFrame
<1>10. /\ f \in Seq(Byte) /\ Len(f) = HEADER_LENGTH + n /\ n = Len(p.payload) + 2
       /\ p.payload_length = Len(p.payload)
       /\ lithium_parse_body(f, p.payload_length) = "NO_ERROR"
       /\ SubSeq(f, HEADER_LENGTH + 1, HEADER_LENGTH + p.payload_length) = p.payload
  BY <1>1, <1>7, <1>9 DEF FrameFacts
<1>11. p.payload \in Seq(Byte) /\ n \in Nat /\ n > 0
  <2>1. p.payload \in Seq(Byte)
    BY <1>9, RadioPacketsAssumption DEF IsPacket, PacketRecord
  <2> QED BY <1>10, <2>1
<1>12. raw \o SubSeq(stream, rd + 1, rd + n) = f
  <2>1. /\ stream \in Seq(Byte) /\ start \in Nat /\ rd \in Nat /\ rd + n <= Len(stream)
    BY <1>2, <1>4, <1>11 DEF CanRead, TypeOK
  <2>2. PICK m \in Nat, k \in Nat, e \in Nat : m = start + 1 /\ k = rd /\ e = rd + n
    BY <1>11, <2>1
  <2>3. 1 <= m /\ m <= k /\ k < e /\ e <= Len(stream)
    <3>1. m <= k
      BY <1>7, <2>1, <2>2, Sizes
    <3> QED BY <1>11, <2>1, <2>2, <3>1
  <2>4. SubSeq(stream, m, k) \o SubSeq(stream, k + 1, e) = SubSeq(stream, m, e)
    BY <2>1, <2>3, SplitSlice
  <2>5. e = start + Len(f)
    <3>1. rd = start + HEADER_LENGTH /\ Len(f) = HEADER_LENGTH + n /\ e = rd + n
      BY <1>7, <1>10, <2>2
    <3>2. start \in Nat /\ HEADER_LENGTH \in Nat /\ n \in Nat
      BY <1>11, <2>1, Sizes
    <3> QED BY <3>1, <3>2
  <2> QED BY <1>1, <1>7, <1>9, <2>2, <2>4, <2>5
<1>13. /\ Return("NO_ERROR", rd + n)
       /\ Deliver([packet EXCEPT !.payload = Overlay(packet.payload, p.payload)])
  BY <1>1, <1>2, <1>7, <1>9, <1>10, <1>12 DEF ReceiveBody
<1>14. PICK q : q = [packet EXCEPT !.payload = Overlay(packet.payload, p.payload)]
  OBVIOUS
<1>15. Received(q) = p
  <2>1. packet \in [type : Byte, command : Byte, payload_length : Word, payload : Seq(Byte)]
    BY <1>4 DEF TypeOK
  <2>2. packet.payload \in Seq(Byte) /\ Overlay(packet.payload, p.payload) \in Seq(Byte)
    BY <1>11, <2>1, OverlayType
  <2>3. /\ q \in [type : Byte, command : Byte, payload_length : Word, payload : Seq(Byte)]
        /\ q.payload = Overlay(packet.payload, p.payload)
        /\ q.type = p.type /\ q.command = p.command /\ q.payload_length = p.payload_length
    BY <1>7, <1>9, <1>14, <2>1, <2>2
  <2>4. p \in RadioPackets /\ p.payload # <<>>
    BY <1>7, <1>9
  <2> QED BY <2>2, <2>3, <2>4, ReceivedPayload
<1>16. /\ delivered' = Append(delivered, sent[d + 1]) /\ start' = rd + n
       /\ result' = "NO_ERROR" /\ pc' = "idle"
  BY <1>9, <1>13, <1>14, <1>15 DEF Return, Deliver
<1>17. start' = Boundary(d + 1)
  <2>1. start \in Nat
    BY <1>4 DEF TypeOK
  <2>2. rd = start + HEADER_LENGTH /\ Len(f) = HEADER_LENGTH + n /\ start' = rd + n
    BY <1>7, <1>10, <1>16
  <2>3. start' = start + Len(f)
    BY <1>11, <2>1, <2>2, Sizes
  <2> QED BY <1>9, <2>3
<1>18. Delivery(d + 1)' /\ Len(delivered') = d + 1
  BY <1>3, <1>4, <1>5, <1>7, <1>16, <1>17, DeliverNext
<1> QED BY <1>3, <1>4, <1>6, <1>18 DEF CleanInv

(* Every step keeps CleanInv. *)
LEMMA NextCleanInv == TypeInv /\ CleanInv /\ [Next]_vars => CleanInv'
<1> SUFFICES ASSUME TypeInv, CleanInv, [Next]_vars PROVE CleanInv'
  OBVIOUS
<1> QED BY TransmitClean, LineClean, ReceiveHeaderClean, ReceiveBodyClean DEF Next

(* CleanInv implies the property. *)
LEMMA CleanInvImpliesFifo == CleanInv => CleanFifo
  BY DEF CleanInv, Delivery, CleanFifo

(* For every set of valid packets, any number of frames and any arrival of their
   bytes: on a line without faults lithium_receive_packet hands over exactly what
   the radio sent, in order. *)
THEOREM RadioIsFifo == Spec => []CleanFifo
  BY InitTypeInv, NextTypeInv, InitCleanInv, NextCleanInv, CleanInvImpliesFifo, PTL DEF Spec
=============================================================================
