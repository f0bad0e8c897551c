---------------------- MODULE LithiumHeaderNoiseProofs -----------------------
(***************************************************************************)
(* The detection of one and two corrupted header bytes, for all headers    *)
(* and all noise.  The accepted headers are a code of distance three; its  *)
(* proof is arithmetic modulo 256, made linear by naming the multiples.    *)
(***************************************************************************)
EXTENDS LithiumHeaderNoise, LithiumCodecProofs, FiniteSetTheorems


-----------------------------------------------------------------------------
(* The code and the invariant. *)

(* Numbers equal modulo 256 differ by a multiple of 256. *)
LEMMA EqualMod ==
  ASSUME NEW x \in Int, NEW y \in Int, x % 256 = y % 256
  PROVE  \E k \in Int : x = y + 256 * k
<1>1. x = 256 * (x \div 256) + (x % 256) /\ y = 256 * (y \div 256) + (y % 256)
  OBVIOUS
<1>2. x \div 256 \in Int /\ y \div 256 \in Int
  OBVIOUS
<1> WITNESS (x \div 256) - (y \div 256) \in Int
<1> QED BY <1>1, <1>2

(* The four data bytes that pass the type, command and length checks. *)
IsHeaderData(t, c, h, l) ==
  /\ t \in {16, 32} /\ c \in 0 .. 32 /\ h \in Byte /\ l \in Byte
  /\ h = 0 \/ (t = 32 /\ ((h = 10 /\ l = 10) \/ (h = 255 /\ l = 255)))

\* A header whose data, in bytes 3 to 6, are in range and whose checksum matches.
IsGoodHeader(raw) ==
  /\ IsHeaderData(raw[3], raw[4], raw[5], raw[6])
  /\ raw[7] = (raw[3] + raw[4] + raw[5] + raw[6]) % 256
  /\ raw[8] = (4 * raw[3] + 3 * raw[4] + 2 * raw[5] + raw[6]) % 256

(* Two good headers that differ in at most two bytes are the same header. *)
LEMMA CodeDistance ==
  ASSUME NEW x, NEW y, IsGoodHeader(x), IsGoodHeader(y),
         NEW i \in 1 .. 8, NEW j \in 1 .. 8,
         \A k \in 3 .. 8 : x[k] = y[k] \/ k = i \/ k = j
  PROVE  \A k \in 3 .. 8 : x[k] = y[k]
<1>1. PICK t, c, h, l, a, b, t2, c2, h2, l2, a2, b2 :
         /\ t = x[3] /\ c = x[4] /\ h = x[5] /\ l = x[6] /\ a = x[7] /\ b = x[8]
         /\ t2 = y[3] /\ c2 = y[4] /\ h2 = y[5] /\ l2 = y[6] /\ a2 = y[7] /\ b2 = y[8]
  OBVIOUS
<1>2. /\ IsHeaderData(t, c, h, l)
      /\ a = (t + c + h + l) % 256 /\ b = (4 * t + 3 * c + 2 * h + l) % 256
      /\ IsHeaderData(t2, c2, h2, l2)
      /\ a2 = (t2 + c2 + h2 + l2) % 256 /\ b2 = (4 * t2 + 3 * c2 + 2 * h2 + l2) % 256
  BY <1>1 DEF IsGoodHeader
<1>3. /\ t = t2 \/ i = 3 \/ j = 3
      /\ c = c2 \/ i = 4 \/ j = 4
      /\ h = h2 \/ i = 5 \/ j = 5
      /\ l = l2 \/ i = 6 \/ j = 6
      /\ a = a2 \/ i = 7 \/ j = 7
      /\ b = b2 \/ i = 8 \/ j = 8
  BY <1>1
<1>4. IsHeaderData(t, c, h, l) /\ IsHeaderData(t2, c2, h2, l2)
  BY <1>2
<1>5. /\ t \in Int /\ c \in Int /\ h \in Int /\ l \in Int
      /\ t2 \in Int /\ c2 \in Int /\ h2 \in Int /\ l2 \in Int
  BY <1>4 DEF IsHeaderData, Byte
<1>6. PICK u \in Int : a = a2 => t + c + h + l = t2 + c2 + h2 + l2 + 256 * u
  <2>1. PICK p \in Int, q \in Int : p = t + c + h + l /\ q = t2 + c2 + h2 + l2
    BY <1>5
  <2>2. a = p % 256 /\ a2 = q % 256
    BY <1>2, <2>1
  <2> QED BY <2>1, <2>2, EqualMod
<1>7. PICK v \in Int : b = b2 => 4 * t + 3 * c + 2 * h + l = 4 * t2 + 3 * c2 + 2 * h2 + l2 + 256 * v
  <2>1. PICK p \in Int, q \in Int : p = 4 * t + 3 * c + 2 * h + l /\ q = 4 * t2 + 3 * c2 + 2 * h2 + l2
    BY <1>5
  <2>2. b = p % 256 /\ b2 = q % 256
    BY <1>2, <2>1
  <2> QED BY <2>1, <2>2, EqualMod, ZenonT(30)
<1>8. c = c2 /\ h = h2 /\ l = l2 /\ a = a2 => t = t2
  BY <1>4, <1>5, <1>6, SMTT(30) DEF IsHeaderData, Byte
<1>9. c = c2 /\ h = h2 /\ l = l2 /\ b = b2 => t = t2
  BY <1>4, <1>5, <1>7, SMTT(30) DEF IsHeaderData, Byte
<1>10. t = t2 /\ h = h2 /\ l = l2 /\ a = a2 => c = c2
  BY <1>4, <1>5, <1>6, SMTT(30) DEF IsHeaderData, Byte
<1>11. t = t2 /\ h = h2 /\ l = l2 /\ b = b2 => c = c2
  BY <1>4, <1>5, <1>7, SMTT(30) DEF IsHeaderData, Byte
<1>12. t = t2 /\ c = c2 /\ l = l2 /\ a = a2 => h = h2
  BY <1>4, <1>5, <1>6, SMTT(30) DEF IsHeaderData, Byte
<1>13. t = t2 /\ c = c2 /\ l = l2 /\ b = b2 => h = h2
  BY <1>4, <1>5, <1>7, SMTT(30) DEF IsHeaderData, Byte
<1>14. t = t2 /\ c = c2 /\ h = h2 /\ a = a2 => l = l2
  BY <1>4, <1>5, <1>6, SMTT(30) DEF IsHeaderData, Byte
<1>15. t = t2 /\ c = c2 /\ h = h2 /\ b = b2 => l = l2
  BY <1>4, <1>5, <1>7, SMTT(30) DEF IsHeaderData, Byte
<1>16. ASSUME t = t2, c = c2, a = a2, b = b2 PROVE h = h2 /\ l = l2
  <2>1. h - h2 = 256 * (v - u)
    BY <1>16, <1>5, <1>6, <1>7
  <2> QED BY <1>16, <1>4, <1>5, <1>6, <2>1, SMTT(30) DEF IsHeaderData, Byte
<1>17. ASSUME t = t2, h = h2, a = a2, b = b2 PROVE c = c2 /\ l = l2
  <2>1. 2 * (c - c2) = 256 * (v - u)
    BY <1>17, <1>5, <1>6, <1>7
  <2>2. c = c2
    <3>1. 0 <= c /\ c <= 32 /\ 0 <= c2 /\ c2 <= 32
      BY <1>4 DEF IsHeaderData
    <3> QED BY <1>5, <1>6, <1>7, <2>1, <3>1
  <2>3. l - l2 = 256 * u
    BY <1>17, <1>5, <1>6, <2>2
  <2>4. 0 <= l /\ l <= 255 /\ 0 <= l2 /\ l2 <= 255
    BY <1>4, SMTT(30) DEF IsHeaderData, Byte
  <2> QED BY <1>5, <1>6, <2>2, <2>3, <2>4
<1>18. ASSUME t = t2, l = l2, a = a2, b = b2 PROVE c = c2 /\ h = h2
  <2>1. c - c2 = 256 * (v - 2 * u)
    BY <1>18, <1>5, <1>6, <1>7
  <2> QED BY <1>18, <1>4, <1>5, <1>6, <2>1, SMTT(30) DEF IsHeaderData, Byte
<1>19. ASSUME c = c2, h = h2, a = a2, b = b2 PROVE t = t2 /\ l = l2
  <2>1. 3 * (t - t2) = 256 * (v - u)
    BY <1>19, <1>5, <1>6, <1>7
  <2> QED BY <1>19, <1>4, <1>5, <1>6, <2>1, SMTT(30) DEF IsHeaderData, Byte
<1>20. ASSUME c = c2, l = l2, a = a2, b = b2 PROVE t = t2 /\ h = h2
  <2>1. 2 * (t - t2) = 256 * (v - 2 * u)
    BY <1>20, <1>5, <1>6, <1>7
  <2> QED BY <1>20, <1>4, <1>5, <1>6, <2>1, SMTT(30) DEF IsHeaderData, Byte
<1>21. ASSUME h = h2, l = l2, a = a2, b = b2 PROVE t = t2 /\ c = c2
  <2>1. t - t2 = 256 * (v - 3 * u)
    BY <1>21, <1>5, <1>6, <1>7
  <2> QED BY <1>21, <1>4, <1>5, <1>6, <2>1, SMTT(30) DEF IsHeaderData, Byte
<1>22. t = t2 /\ c = c2 /\ h = h2 /\ l = l2 => a = a2 /\ b = b2
  BY <1>2
<1>23. t = t2 /\ c = c2 /\ h = h2 /\ l = l2 /\ a = a2 /\ b = b2
  BY <1>3, <1>8, <1>9, <1>10, <1>11, <1>12, <1>13, <1>14, <1>15, <1>16, <1>17, <1>18, <1>19, <1>20, <1>21, <1>22
<1> SUFFICES ASSUME NEW k \in 3 .. 8 PROVE x[k] = y[k]
  OBVIOUS
<1>24. k = 3 \/ k = 4 \/ k = 5 \/ k = 6 \/ k = 7 \/ k = 8
  OBVIOUS
<1> QED BY <1>1, <1>23, <1>24

(* What lithium_parse_header accepts is a good header behind the sync bytes. *)
LEMMA AcceptedFields ==
  ASSUME NEW raw \in [1 .. HEADER_LENGTH -> Byte], lithium_parse_header(raw) = "NO_ERROR"
  PROVE  /\ raw[1] = SYNC_1 /\ raw[2] = SYNC_2
         /\ IsGoodHeader(raw)
<1>1. IsPlausibleHeader(raw) /\ HeaderChecksumMatches(raw)
  BY DEF lithium_parse_header
<1>2. /\ raw[3] \in Byte /\ raw[4] \in Byte /\ raw[5] \in Byte
      /\ raw[6] \in Byte /\ raw[7] \in Byte /\ raw[8] \in Byte
  BY Sizes
<1>3. /\ raw[7] = (raw[3] + raw[4] + raw[5] + raw[6]) % 256
      /\ raw[8] = (4 * raw[3] + 3 * raw[4] + 2 * raw[5] + raw[6]) % 256
  <2>1. <<raw[7], raw[8]>> = compute_checksum(<<raw[3], raw[4], raw[5], raw[6]>>)
    BY <1>1 DEF HeaderChecksumMatches
  <2>2. compute_checksum(<<raw[3], raw[4], raw[5], raw[6]>>) =
          <<(raw[3] + raw[4] + raw[5] + raw[6]) % 256,
            (4 * raw[3] + 3 * raw[4] + 2 * raw[5] + raw[6]) % 256>>
    BY <1>2, HeaderChecksum
  <2> QED BY <2>1, <2>2
<1>4. raw[3] \in {16, 32} /\ raw[4] \in 0 .. 32
  <2>1. raw[3] \in {LITHIUM_I_MESSAGE, LITHIUM_O_MESSAGE} /\ raw[4] < LITHIUM_COMMAND_count
    BY <1>1 DEF IsPlausibleHeader
  <2>2. PICK c \in Byte : c = raw[4]
    BY <1>2
  <2>3. c < LITHIUM_COMMAND_count
    BY <2>1, <2>2
  <2>4. c \in 0 .. 32
    BY <2>3 DEF LITHIUM_COMMAND_count, Byte
  <2> QED BY <2>1, <2>2, <2>4 DEF LITHIUM_I_MESSAGE, LITHIUM_O_MESSAGE
<1>5. raw[5] = 0 \/ (raw[3] = 32 /\ ((raw[5] = 10 /\ raw[6] = 10) \/ (raw[5] = 255 /\ raw[6] = 255)))
  <2>1. \/ raw[3] = 32 /\ 256 * raw[5] + raw[6] \in {2570, 65535}
        \/ 256 * raw[5] + raw[6] <= 255
    BY <1>1 DEF IsPlausibleHeader, IsAckNack, PayloadLength, LITHIUM_O_MESSAGE, ACK_LENGTH,
                NACK_LENGTH, MAX_PAYLOAD_LENGTH
  <2>2. PICK t, h \in Byte, l \in Byte : t = raw[3] /\ h = raw[5] /\ l = raw[6]
    BY <1>2
  <2>3. (t = 32 /\ 256 * h + l \in {2570, 65535}) \/ 256 * h + l <= 255
    BY <2>1, <2>2
  <2>4. h = 0 \/ (t = 32 /\ ((h = 10 /\ l = 10) \/ (h = 255 /\ l = 255)))
    BY <2>3 DEF Byte
  <2> QED BY <2>2, <2>4
<1>6. raw[1] = SYNC_1 /\ raw[2] = SYNC_2
  BY <1>1 DEF IsPlausibleHeader
<1> QED BY <1>2, <1>3, <1>4, <1>5, <1>6 DEF IsGoodHeader, IsHeaderData

(* No more than two positions were hit. *)
AtMostTwoHits == \E i, j \in 1 .. HEADER_LENGTH : hits \subseteq {i, j}

(* The inductive invariant: the header sent is good, and hits is exactly where
   the line differs from it. *)
IInv ==
  /\ TypeOK
  /\ lithium_parse_header(header) = "NO_ERROR"
  /\ \A i \in 1 .. HEADER_LENGTH : i \in hits <=> line[i] # header[i]
  /\ AtMostTwoHits

(* encode_header writes a header the parser accepts. *)
LEMMA EncodedHeader ==
  ASSUME NEW type \in {LITHIUM_I_MESSAGE, LITHIUM_O_MESSAGE}, NEW command \in Commands,
         NEW length \in Lengths, length <= MAX_PAYLOAD_LENGTH \/ type = LITHIUM_O_MESSAGE
  PROVE  /\ encode_header(type, command, length) \in [1 .. HEADER_LENGTH -> Byte]
         /\ lithium_parse_header(encode_header(type, command, length)) = "NO_ERROR"
<1>1. type \in Byte
  BY DEF Byte, LITHIUM_I_MESSAGE, LITHIUM_O_MESSAGE
<1>2. command \in 0 .. LITHIUM_COMMAND_count - 1
  BY HeadersAssumption
<1>3. command \in Byte
  BY <1>2 DEF Byte, LITHIUM_COMMAND_count
<1>4. length \in (0 .. MAX_PAYLOAD_LENGTH) \cup {ACK_LENGTH, NACK_LENGTH}
  BY HeadersAssumption
<1>5. length \in Word
  BY <1>4 DEF Word, MAX_PAYLOAD_LENGTH, ACK_LENGTH, NACK_LENGTH
<1>6. IsAckNack(type, length) \/ length <= MAX_PAYLOAD_LENGTH
  BY <1>4 DEF IsAckNack
<1>7. PICK h : h = encode_header(type, command, length)
  OBVIOUS
<1>8. h \in Seq(Byte) /\ Len(h) = HEADER_LENGTH /\ IsHeaderOf(h, type, command, length)
  BY <1>1, <1>3, <1>5, <1>7, HeaderShape
<1>9. h \in [1 .. HEADER_LENGTH -> Byte]
  BY <1>8
<1>10. lithium_parse_header(h) = "NO_ERROR"
  BY <1>2, <1>5, <1>6, <1>8, HeaderAccepted
<1> QED BY <1>7, <1>9, <1>10

(* The inductive invariant holds at the start. *)
LEMMA InitIInv == Init => IInv
<1> SUFFICES ASSUME Init PROVE IInv
  OBVIOUS
<1>1. PICK type \in {LITHIUM_I_MESSAGE, LITHIUM_O_MESSAGE}, command \in Commands, length \in Lengths :
        /\ length <= MAX_PAYLOAD_LENGTH \/ type = LITHIUM_O_MESSAGE
        /\ header = encode_header(type, command, length)
  BY DEF Init
<1>2. header \in [1 .. HEADER_LENGTH -> Byte] /\ lithium_parse_header(header) = "NO_ERROR"
  BY <1>1, EncodedHeader
<1>3. line = header /\ hits = {}
  BY DEF Init
<1>4. TypeOK
  BY <1>2, <1>3 DEF TypeOK
<1>5. AtMostTwoHits
  BY <1>3, Sizes DEF AtMostTwoHits
<1> QED BY <1>2, <1>3, <1>4, <1>5 DEF IInv

(* With fewer than two hits there is none or one. *)
LEMMA OneHit ==
  ASSUME TypeOK, Cardinality(hits) < 2
  PROVE  hits = {} \/ \E x \in 1 .. HEADER_LENGTH : hits = {x}
<1>1. hits \subseteq 1 .. HEADER_LENGTH
  BY DEF TypeOK
<1>2. IsFiniteSet(hits)
  <2>1. IsFiniteSet(1 .. HEADER_LENGTH)
    <3>1. 1 \in Int /\ HEADER_LENGTH \in Int
      BY Sizes
    <3> QED BY <3>1, FS_Interval, Zenon
  <2> QED BY <1>1, <2>1, FS_Subset
<1>3. Cardinality(hits) \in Nat
  BY <1>2, FS_CardinalityType
<1>4. CASE Cardinality(hits) = 0
  BY <1>2, <1>4, FS_EmptySet
<1>5. CASE Cardinality(hits) = 1
  <2>1. \E x : hits = {x}
    BY <1>2, <1>5, FS_Singleton
  <2> QED BY <1>1, <2>1
<1> QED BY <1>3, <1>4, <1>5

(* Every step keeps the inductive invariant. *)
LEMMA NextIInv == IInv /\ [Next]_vars => IInv'
<1> SUFFICES ASSUME IInv, [Next]_vars PROVE IInv'
  OBVIOUS
<1>1. ASSUME NEW i \in 1 .. HEADER_LENGTH, NEW b \in Noise, CorruptByte(i, b)
      PROVE  IInv'
  <2>1. b \in Byte
    BY NoiseAssumption
  <2>2. TypeOK /\ TypeOK'
    BY <1>1, <2>1 DEF IInv, TypeOK, CorruptByte
  <2>3. lithium_parse_header(header') = "NO_ERROR"
    BY <1>1 DEF IInv, CorruptByte
  <2>4. \A k \in 1 .. HEADER_LENGTH : k \in hits' <=> line'[k] # header'[k]
    BY <1>1, <2>2 DEF IInv, TypeOK, CorruptByte
  <2>5. AtMostTwoHits'
    <3>1. Cardinality(hits) < 2 /\ hits' = hits \cup {i}
      BY <1>1 DEF CorruptByte
    <3>2. hits = {} \/ \E x \in 1 .. HEADER_LENGTH : hits = {x}
      BY <2>2, <3>1, OneHit
    <3> QED BY <3>1, <3>2 DEF AtMostTwoHits
  <2> QED BY <2>2, <2>3, <2>4, <2>5 DEF IInv
<1>2. CASE UNCHANGED vars
  BY <1>2 DEF IInv, TypeOK, AtMostTwoHits, vars
<1> QED BY <1>1, <1>2 DEF Next

(* The inductive invariant implies the property. *)
LEMMA IInvImpliesRejected == IInv => TwoBadBytesRejected
<1> SUFFICES ASSUME IInv PROVE TwoBadBytesRejected
  OBVIOUS
<1>1. header \in [1 .. HEADER_LENGTH -> Byte] /\ line \in [1 .. HEADER_LENGTH -> Byte]
  BY DEF IInv, TypeOK
<1>2. hits \subseteq 1 .. HEADER_LENGTH /\ \A k \in 1 .. HEADER_LENGTH : k \in hits <=> line[k] # header[k]
  BY DEF IInv, TypeOK
<1>3. ASSUME hits = {} PROVE lithium_parse_header(line) = "NO_ERROR"
  <2>1. PICK n \in Nat : n = HEADER_LENGTH
    BY Sizes
  <2>2. header \in [1 .. n -> Byte] /\ line \in [1 .. n -> Byte] /\ \A k \in 1 .. n : line[k] = header[k]
    BY <1>1, <1>2, <1>3, <2>1
  <2>3. line = header
    BY <2>2
  <2> QED BY <2>3 DEF IInv
<1>4. ASSUME lithium_parse_header(line) = "NO_ERROR" PROVE hits = {}
  <2>1. PICK i, j \in 1 .. 8 : hits \subseteq {i, j}
    BY Sizes DEF IInv, AtMostTwoHits
  <2>2. header[1] = SYNC_1 /\ header[2] = SYNC_2 /\ IsGoodHeader(header)
    BY <1>1, AcceptedFields DEF IInv
  <2>3. line[1] = SYNC_1 /\ line[2] = SYNC_2 /\ IsGoodHeader(line)
    BY <1>1, <1>4, AcceptedFields
  <2>4. \A k \in 3 .. 8 : header[k] = line[k] \/ k = i \/ k = j
    BY <1>2, <2>1, Sizes
  <2>5. \A k \in 3 .. 8 : header[k] = line[k]
    BY <2>2, <2>3, <2>4, CodeDistance
  <2>6. \A k \in 1 .. 8 : header[k] = line[k]
    BY <2>2, <2>3, <2>5
  <2> QED BY <1>2, <2>6, Sizes
<1> QED BY <1>3, <1>4 DEF TwoBadBytesRejected

(* LithiumHeaderNoise keeps its types. *)
THEOREM NoiseTypeCorrect == Spec => []TypeOK
<1>1. IInv => TypeOK
  BY DEF IInv
<1> QED BY InitIInv, NextIInv, <1>1, PTL DEF Spec

(* For all commands, all lengths and all noise: lithium_parse_header accepts a
   header as sent and refuses it with one or two bytes corrupted. *)
THEOREM NoiseDetected == Spec => []TwoBadBytesRejected
  BY InitIInv, NextIInv, IInvImpliesRejected, PTL DEF Spec
=============================================================================
