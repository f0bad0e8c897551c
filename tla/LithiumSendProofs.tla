-------------------------- MODULE LithiumSendProofs --------------------------
(***************************************************************************)
(* Theorems about LithiumSend: for any senders, calls and data, the bytes  *)
(* on the line are what the parser of the driver reads back.               *)
(***************************************************************************)
EXTENDS LithiumSend, LithiumCodecProofs, FiniteSetTheorems

-----------------------------------------------------------------------------
(* Chunks laid end to end.                                                 *)

\* Chunks of elements of X, each with the member of U whose it is.
Chunks(U, X) == Seq(U \X Seq(X))

\* What Of has laid down after each of the pairs.
Laid(senders, pairs) ==
  LET of[i \in 0 .. Len(pairs)] ==
        IF i = 0 THEN <<>>
        ELSE IF pairs[i][1] \in senders THEN of[i - 1] \o pairs[i][2] ELSE of[i - 1]
  IN  of

\* One pair more.
LayDown(senders, before, pair) == IF pair[1] \in senders THEN before \o pair[2] ELSE before

IsLaid(f, X, senders, pairs, n) ==
  /\ f \in [0 .. n -> Seq(X)]
  /\ f[0] = <<>>
  /\ \A i \in 1 .. n : f[i] = LayDown(senders, f[i - 1], pairs[i])

(* A pair adds elements of the kind its chunk has. *)
LEMMA LayDownType ==
  ASSUME NEW U, NEW X, NEW senders, NEW before \in Seq(X), NEW pair \in U \X Seq(X)
  PROVE  LayDown(senders, before, pair) \in Seq(X)
<1>1. pair[2] \in Seq(X)
  OBVIOUS
<1>2. before \o pair[2] \in Seq(X)
  BY <1>1, ConcatProperties
<1> QED BY <1>2 DEF LayDown

(* Of is well defined for pairs of every number. *)
LEMMA LaidExists ==
  ASSUME NEW U, NEW X, NEW senders, NEW pairs \in Chunks(U, X)
  PROVE  \E f : IsLaid(f, X, senders, pairs, Len(pairs))
<1> DEFINE T == {n \in 0 .. Len(pairs) : ~ \E f : IsLaid(f, X, senders, pairs, n)}
<1> SUFFICES ASSUME T # {} PROVE FALSE
  <2>1. Len(pairs) \in 0 .. Len(pairs)
    OBVIOUS
  <2> QED BY <2>1
<1>1. PICK m \in T : \A n \in T : m <= n
  <2>1. T \in SUBSET Nat
    OBVIOUS
  <2> QED BY <2>1, LeastNatural
<1> HIDE DEF T
<1>2. m \in 0 .. Len(pairs) /\ ~ \E f : IsLaid(f, X, senders, pairs, m)
  BY DEF T
<1>3. CASE m = 0
  <2>1. IsLaid([i \in 0 .. 0 |-> <<>>], X, senders, pairs, 0)
    BY DEF IsLaid
  <2> QED BY <2>1, <1>2, <1>3
<1>4. CASE m > 0
  <2>1. m - 1 \notin T /\ m - 1 \in 0 .. Len(pairs)
    BY <1>1, <1>2, <1>4
  <2>2. PICK f : IsLaid(f, X, senders, pairs, m - 1)
    BY <2>1 DEF T
  <2> DEFINE g == [i \in 0 .. m |-> IF i = m THEN LayDown(senders, f[m - 1], pairs[m]) ELSE f[i]]
  <2>3. pairs[m] \in U \X Seq(X) /\ f[m - 1] \in Seq(X)
    BY <1>2, <1>4, <2>2 DEF IsLaid, Chunks
  <2>4. g \in [0 .. m -> Seq(X)]
    <3>1. LayDown(senders, f[m - 1], pairs[m]) \in Seq(X)
      BY <2>3, LayDownType
    <3> QED BY <3>1, <2>2, <1>2 DEF IsLaid
  <2>5. g[0] = <<>>
    BY <1>2, <1>4, <2>2 DEF IsLaid
  <2>6. ASSUME NEW i \in 1 .. m PROVE g[i] = LayDown(senders, g[i - 1], pairs[i])
    <3>1. g[i - 1] = f[i - 1]
      BY <1>2, <1>4
    <3>2. CASE i = m
      BY <1>2, <1>4, <3>1, <3>2
    <3>3. CASE i # m
      <4>1. i \in 1 .. m - 1 /\ i \in 0 .. m
        BY <1>2, <3>3
      <4>2. f[i] = LayDown(senders, f[i - 1], pairs[i])
        BY <2>2, <4>1 DEF IsLaid
      <4>3. g[i] = f[i]
        BY <3>3, <4>1
      <4> QED BY <3>1, <4>2, <4>3
    <3> QED BY <3>2, <3>3
  <2> HIDE DEF g
  <2>7. IsLaid(g, X, senders, pairs, m)
    BY <2>4, <2>5, <2>6 DEF IsLaid
  <2> QED BY <2>7, <1>2
<1> QED BY <1>2, <1>3, <1>4

(* The recursive function is what its equations say. *)
LEMMA LaidIsLaid ==
  ASSUME NEW U, NEW X, NEW senders, NEW pairs \in Chunks(U, X)
  PROVE  IsLaid(Laid(senders, pairs), X, senders, pairs, Len(pairs))
<1> DEFINE Body(f, i) ==
        IF i = 0 THEN <<>>
        ELSE IF pairs[i][1] \in senders THEN f[i - 1] \o pairs[i][2] ELSE f[i - 1]
<1>1. PICK f : IsLaid(f, X, senders, pairs, Len(pairs))
  BY LaidExists
<1>2. f = [i \in 0 .. Len(pairs) |-> Body(f, i)]
  <2>1. ASSUME NEW i \in 0 .. Len(pairs) PROVE f[i] = Body(f, i)
    <3>1. CASE i = 0
      BY <3>1, <1>1 DEF IsLaid
    <3>2. CASE i # 0
      <4>1. i \in 1 .. Len(pairs)
        BY <3>2
      <4>2. f[i] = LayDown(senders, f[i - 1], pairs[i])
        BY <1>1, <4>1 DEF IsLaid
      <4> QED BY <3>2, <4>2 DEF LayDown
    <3> QED BY <3>1, <3>2
  <2>2. f = [i \in 0 .. Len(pairs) |-> f[i]]
    BY <1>1 DEF IsLaid
  <2> QED BY <2>1, <2>2
<1> DEFINE s == Laid(senders, pairs)
<1>3. s = [i \in 0 .. Len(pairs) |-> Body(s, i)]
  BY <1>2 DEF Laid
<1> HIDE DEF s
<1>4. s[0] = <<>>
  BY <1>3
<1>5. ASSUME NEW i \in 1 .. Len(pairs) PROVE s[i] = LayDown(senders, s[i - 1], pairs[i])
  <2>1. i \in 0 .. Len(pairs) /\ i # 0
    OBVIOUS
  <2>2. s[i] = Body(s, i)
    BY <1>3, <2>1
  <2> QED BY <2>1, <2>2 DEF LayDown
<1>6. s \in [0 .. Len(pairs) -> Seq(X)]
  <2> DEFINE T == {i \in 0 .. Len(pairs) : s[i] \notin Seq(X)}
  <2> SUFFICES ASSUME T # {} PROVE FALSE
    BY <1>3
  <2>1. T \in SUBSET Nat
    OBVIOUS
  <2>2. PICK m \in T : \A n \in T : m <= n
    BY <2>1, LeastNatural
  <2>3. m # 0
    <3>1. s[0] \in Seq(X)
      BY <1>4
    <3> QED BY <2>2, <3>1
  <2>4. m \in 1 .. Len(pairs) /\ m - 1 \in 0 .. Len(pairs) /\ m - 1 \notin T
    BY <2>2, <2>3
  <2>5. s[m - 1] \in Seq(X)
    BY <2>4
  <2>6. pairs[m] \in U \X Seq(X)
    BY <2>4, ElementOfSeq DEF Chunks
  <2>7. s[m] \in Seq(X)
    BY <1>5, <2>4, <2>5, <2>6, LayDownType
  <2> QED BY <2>2, <2>7
<1> QED BY <1>4, <1>5, <1>6 DEF IsLaid, s

(* Of is the last of the steps. *)
LEMMA OfIsLaid ==
  ASSUME NEW senders, NEW pairs
  PROVE  Of(senders, pairs) = Laid(senders, pairs)[Len(pairs)]
BY Zenon DEF Of, Laid

\* Two sequences of pairs agree, but for what others have, on their first n.
Agree(senders, a, b, n) ==
  \A i \in 1 .. n : a[i] = b[i] \/ (a[i][1] \notin senders /\ b[i][1] \notin senders)

(* Then they agree on what is laid down after n. *)
LEMMA LaidAgrees ==
  ASSUME NEW U, NEW X, NEW senders,
         NEW a \in Chunks(U, X), NEW b \in Chunks(U, X),
         NEW n \in Nat, n <= Len(a), n <= Len(b),
         Agree(senders, a, b, n)
  PROVE  Laid(senders, a)[n] = Laid(senders, b)[n]
<1> DEFINE f == Laid(senders, a)
           g == Laid(senders, b)
           T == {i \in 0 .. n : f[i] # g[i]}
<1>1. IsLaid(f, X, senders, a, Len(a)) /\ IsLaid(g, X, senders, b, Len(b))
  BY LaidIsLaid
<1> HIDE DEF f, g
<1> SUFFICES ASSUME T # {} PROVE FALSE
  BY DEF f, g
<1>2. PICK m \in T : \A i \in T : m <= i
  <2>1. T \in SUBSET Nat
    OBVIOUS
  <2> QED BY <2>1, LeastNatural
<1>3. m # 0
  BY <1>1 DEF IsLaid
<1>4. m \in 1 .. n /\ m - 1 \in 0 .. n /\ m - 1 \notin T
  BY <1>2, <1>3
<1>5. f[m - 1] = g[m - 1]
  BY <1>4
<1>6. m \in 1 .. Len(a) /\ m \in 1 .. Len(b)
  BY <1>4
<1>7. f[m] = LayDown(senders, f[m - 1], a[m]) /\ g[m] = LayDown(senders, g[m - 1], b[m])
  BY <1>1, <1>6 DEF IsLaid
<1>8. f[m] = g[m]
  BY <1>4, <1>5, <1>7 DEF LayDown, Agree
<1> QED BY <1>2, <1>8

(* What others have adds nothing. *)
LEMMA LaidStays ==
  ASSUME NEW U, NEW X, NEW senders, NEW pairs \in Chunks(U, X),
         NEW k \in 0 .. Len(pairs),
         \A i \in k + 1 .. Len(pairs) : pairs[i][1] \notin senders
  PROVE  Of(senders, pairs) = Laid(senders, pairs)[k]
<1> DEFINE f == Laid(senders, pairs)
           T == {i \in k .. Len(pairs) : f[i] # f[k]}
<1>1. IsLaid(f, X, senders, pairs, Len(pairs))
  BY LaidIsLaid
<1>2. Of(senders, pairs) = f[Len(pairs)]
  BY OfIsLaid
<1> HIDE DEF f
<1> SUFFICES ASSUME T # {} PROVE FALSE
  <2>1. Len(pairs) \in k .. Len(pairs)
    OBVIOUS
  <2> QED BY <1>2, <2>1 DEF f
<1>3. PICK m \in T : \A i \in T : m <= i
  <2>1. T \in SUBSET Nat
    OBVIOUS
  <2> QED BY <2>1, LeastNatural
<1>4. m # k
  BY <1>3
<1>5. m \in k + 1 .. Len(pairs) /\ m \in 1 .. Len(pairs) /\ m - 1 \in k .. Len(pairs) /\ m - 1 \notin T
  BY <1>3, <1>4
<1>6. f[m - 1] = f[k]
  BY <1>5
<1>7. f[m] = LayDown(senders, f[m - 1], pairs[m])
  BY <1>1, <1>5 DEF IsLaid
<1>8. f[m] = f[m - 1]
  BY <1>5, <1>7 DEF LayDown
<1> QED BY <1>3, <1>6, <1>8

(* A pair adds its chunk. *)
LEMMA LaidGrows ==
  ASSUME NEW U, NEW X, NEW senders, NEW pairs \in Chunks(U, X),
         NEW k \in 1 .. Len(pairs)
  PROVE  Laid(senders, pairs)[k] = LayDown(senders, Laid(senders, pairs)[k - 1], pairs[k])
<1>1. IsLaid(Laid(senders, pairs), X, senders, pairs, Len(pairs))
  BY LaidIsLaid
<1> QED BY <1>1 DEF IsLaid

(* What is laid down is made of the elements of the chunks. *)
LEMMA LaidType ==
  ASSUME NEW U, NEW X, NEW senders, NEW pairs \in Chunks(U, X)
  PROVE  /\ Of(senders, pairs) \in Seq(X)
         /\ \A k \in 0 .. Len(pairs) : Laid(senders, pairs)[k] \in Seq(X)
<1>1. IsLaid(Laid(senders, pairs), X, senders, pairs, Len(pairs))
  BY LaidIsLaid
<1>2. \A k \in 0 .. Len(pairs) : Laid(senders, pairs)[k] \in Seq(X)
  BY <1>1 DEF IsLaid
<1>3. Len(pairs) \in 0 .. Len(pairs)
  OBVIOUS
<1> QED BY <1>2, <1>3, OfIsLaid

(* No pairs, nothing laid down. *)
LEMMA OfNothing ==
  ASSUME NEW senders
  PROVE  Of(senders, <<>>) = <<>>
<1>1. <<>> \in Chunks({1}, {1})
  BY DEF Chunks
<1>2. IsLaid(Laid(senders, <<>>), {1}, senders, <<>>, Len(<<>>))
  BY <1>1, LaidIsLaid
<1>3. Len(<<>>) = 0
  OBVIOUS
<1>4. Laid(senders, <<>>)[0] = <<>>
  BY <1>2 DEF IsLaid
<1> QED BY <1>3, <1>4, OfIsLaid

(* A pair more at the end. *)
LEMMA OfAppend ==
  ASSUME NEW U, NEW X, NEW senders, NEW pairs \in Chunks(U, X),
         NEW u \in U, NEW x \in Seq(X)
  PROVE  /\ Of(senders, Append(pairs, <<u, x>>)) = LayDown(senders, Of(senders, pairs), <<u, x>>)
         /\ \A k \in 0 .. Len(pairs) :
              Laid(senders, Append(pairs, <<u, x>>))[k] = Laid(senders, pairs)[k]
<1>1. PICK more : more = Append(pairs, <<u, x>>)
  OBVIOUS
<1>2. PICK n \in Nat : n = Len(pairs)
  OBVIOUS
<1>3. <<u, x>> \in U \X Seq(X)
  OBVIOUS
<1>4. more \in Chunks(U, X) /\ Len(more) = n + 1 /\ more[n + 1] = <<u, x>>
  BY <1>1, <1>2, <1>3, AppendProperties DEF Chunks
<1>5. \A i \in 1 .. n : more[i] = pairs[i]
  BY <1>1, <1>2, <1>3, AppendProperties
<1>6. ASSUME NEW k \in 0 .. n PROVE Laid(senders, more)[k] = Laid(senders, pairs)[k]
  <2>1. Agree(senders, more, pairs, k)
    BY <1>5 DEF Agree
  <2>2. k \in Nat /\ k <= Len(more) /\ k <= Len(pairs)
    BY <1>2, <1>4
  <2>3. more \in Chunks(U, X)
    BY <1>4
  <2> QED BY <2>1, <2>2, <2>3, LaidAgrees
<1>7. Of(senders, pairs) = Laid(senders, more)[n]
  <2>1. n \in 0 .. n
    OBVIOUS
  <2> QED BY <1>2, <1>6, <2>1, OfIsLaid
<1>8. Of(senders, more) = Laid(senders, more)[n + 1]
  BY <1>4, OfIsLaid
<1>9. IsLaid(Laid(senders, more), X, senders, more, n + 1)
  <2>1. more \in Chunks(U, X)
    BY <1>4
  <2>2. IsLaid(Laid(senders, more), X, senders, more, Len(more))
    BY <2>1, LaidIsLaid
  <2> QED BY <1>4, <2>2
<1>10. Laid(senders, more)[n + 1] = LayDown(senders, Laid(senders, more)[n], <<u, x>>)
  <2>1. n + 1 \in 1 .. n + 1 /\ (n + 1) - 1 = n
    OBVIOUS
  <2> QED BY <1>4, <1>9, <2>1 DEF IsLaid
<1>11. \A k \in 0 .. Len(pairs) : Laid(senders, more)[k] = Laid(senders, pairs)[k]
  BY <1>2, <1>6
<1> QED BY <1>1, <1>7, <1>8, <1>10, <1>11

-----------------------------------------------------------------------------
(* The packets the parser finds.                                           *)

\* A packet as PacketAt puts it together.
ParsedPacket == [type : Byte, command : Byte, payload_length : Nat, payload : Seq(Byte)]

\* The parser waits at offset i for bytes that are not there.
Waits(bytes, i) == i + HEADER_LENGTH > Len(bytes) \/ FrameEnd(bytes, i) > Len(bytes)

Found(bytes, i) == IF FrameAccepted(bytes, i) THEN <<PacketAt(bytes, i)>> ELSE <<>>

\* What it finds from offset i on, given what it finds behind the frame there.
ParseFrom(f, bytes, i) ==
  IF Waits(bytes, i) THEN [packets |-> <<>>, rest |-> i]
  ELSE [packets |-> Found(bytes, i) \o f[FrameEnd(bytes, i)].packets,
        rest |-> f[FrameEnd(bytes, i)].rest]

\* f holds what it finds from each offset from m on.
IsRun(f, bytes, m) ==
  /\ f \in [m .. Len(bytes) -> [packets : Seq(ParsedPacket), rest : Nat]]
  /\ \A i \in m .. Len(bytes) : f[i] = ParseFrom(f, bytes, i)

(* The packets a caller may send are such. *)
LEMMA PacketIsParsed ==
  ASSUME NEW p, IsPacket(p)
  PROVE  p \in ParsedPacket /\ <<p>> \in Seq(ParsedPacket)
<1>1. p \in ParsedPacket
  BY DEF IsPacket, PacketRecord, ParsedPacket, Byte, Word, LITHIUM_I_MESSAGE, LITHIUM_O_MESSAGE,
         LITHIUM_COMMAND_count
<1> QED BY <1>1

(* A header behind offset i is eight of the bytes. *)
LEMMA HeaderAtType ==
  ASSUME NEW bytes \in Seq(Byte), NEW i \in Nat, i + HEADER_LENGTH <= Len(bytes)
  PROVE  /\ HeaderAt(bytes, i) \in Seq(Byte) /\ Len(HeaderAt(bytes, i)) = HEADER_LENGTH
         /\ \A j \in 1 .. HEADER_LENGTH : HeaderAt(bytes, i)[j] = bytes[i + j]
         /\ PayloadLength(HeaderAt(bytes, i)) \in Nat
         /\ RemainingBytes(HeaderAt(bytes, i)) \in Nat
<1>1. HEADER_LENGTH = 8
  BY Sizes
<1>2. PICK m \in Nat, n \in Nat : m = i + 1 /\ n = i + 8
  OBVIOUS
<1>3. HeaderAt(bytes, i) = SubSeq(bytes, m, n)
  BY <1>1, <1>2 DEF HeaderAt
<1>4. 1 <= m /\ m <= n /\ n <= Len(bytes) /\ n - m + 1 = 8
  BY <1>1, <1>2
<1>5. /\ SubSeq(bytes, m, n) \in Seq(Byte) /\ Len(SubSeq(bytes, m, n)) = 8
      /\ \A j \in 1 .. 8 : SubSeq(bytes, m, n)[j] = bytes[m + j - 1]
  BY <1>4, Slice
<1>6. \A j \in 1 .. 8 : SubSeq(bytes, m, n)[j] = bytes[i + j]
  BY <1>2, <1>5
<1>7. PICK h \in Seq(Byte) : h = SubSeq(bytes, m, n) /\ Len(h) = 8
  BY <1>5
<1>8. h[5] \in Byte /\ h[6] \in Byte
  BY <1>7
<1>9. PayloadLength(h) \in Nat
  <2>1. PICK a \in Byte, b \in Byte : a = h[5] /\ b = h[6]
    BY <1>8
  <2>2. PayloadLength(h) = (256 * a) + b
    BY <2>1 DEF PayloadLength
  <2> QED BY <2>2 DEF Byte
<1>10. RemainingBytes(h) \in Nat
  BY <1>9 DEF RemainingBytes, CHECKSUM_LENGTH
<1> QED BY <1>1, <1>3, <1>5, <1>6, <1>7, <1>9, <1>10

(* A receive takes at least a header. *)
LEMMA FrameEndType ==
  ASSUME NEW bytes \in Seq(Byte), NEW i \in Nat, i + HEADER_LENGTH <= Len(bytes)
  PROVE  FrameEnd(bytes, i) \in Nat /\ i < FrameEnd(bytes, i)
<1>1. RemainingBytes(HeaderAt(bytes, i)) \in Nat
  BY HeaderAtType
<1>2. HEADER_LENGTH = 8
  BY Sizes
<1> QED BY <1>1, <1>2 DEF FrameEnd

(* Where the parser does not wait, the next receive begins further on. *)
LEMMA NextReceive ==
  ASSUME NEW bytes \in Seq(Byte), NEW i \in Nat, ~Waits(bytes, i)
  PROVE  /\ i + HEADER_LENGTH <= Len(bytes)
         /\ FrameEnd(bytes, i) \in i + 1 .. Len(bytes)
<1>1. PICK n \in Nat : n = Len(bytes)
  OBVIOUS
<1>2. HEADER_LENGTH = 8
  BY Sizes
<1>3. i + HEADER_LENGTH <= n
  BY <1>1, <1>2 DEF Waits
<1>4. FrameEnd(bytes, i) \in Nat /\ i < FrameEnd(bytes, i)
  BY <1>1, <1>3, FrameEndType
<1> QED BY <1>1, <1>3, <1>4 DEF Waits

(* An accepted frame is a packet. *)
LEMMA FoundType ==
  ASSUME NEW bytes \in Seq(Byte), NEW i \in Nat, ~Waits(bytes, i)
  PROVE  Found(bytes, i) \in Seq(ParsedPacket)
<1>1. PICK n \in Nat : n = Len(bytes)
  OBVIOUS
<1>2. HEADER_LENGTH = 8
  BY Sizes
<1>3. i + 8 <= n /\ FrameEnd(bytes, i) \in Nat /\ FrameEnd(bytes, i) <= n
  <2>1. i + HEADER_LENGTH <= Len(bytes) /\ FrameEnd(bytes, i) \in i + 1 .. Len(bytes)
    BY NextReceive
  <2> QED BY <1>1, <1>2, <2>1
<1>4. PICK h : h = HeaderAt(bytes, i)
  OBVIOUS
<1>5. PayloadLength(h) \in Nat /\ RemainingBytes(h) \in Nat
  BY <1>1, <1>2, <1>3, <1>4, HeaderAtType
<1>6. SUFFICES ASSUME FrameAccepted(bytes, i) PROVE PacketAt(bytes, i) \in ParsedPacket
  BY DEF Found
<1>7. FrameEnd(bytes, i) = i + 8 + RemainingBytes(h)
  BY <1>2, <1>4, <1>6 DEF FrameEnd, FrameAccepted
<1>8. bytes[i + 3] \in Byte /\ bytes[i + 4] \in Byte
  <2>1. i + 3 \in 1 .. Len(bytes) /\ i + 4 \in 1 .. Len(bytes)
    BY <1>1, <1>3
  <2> QED BY <2>1, ElementOfSeq
<1>9. PICK payload : payload = IF RemainingBytes(h) = 0 THEN <<>>
                               ELSE SubSeq(bytes, i + HEADER_LENGTH + 1, FrameEnd(bytes, i) - CHECKSUM_LENGTH)
  OBVIOUS
<1>10. payload \in Seq(Byte)
  <2>1. CASE RemainingBytes(h) = 0
    <3>1. payload = <<>>
      BY <1>9, <2>1
    <3> QED BY <3>1
  <2>2. CASE RemainingBytes(h) # 0
    <3>1. PICK a \in Nat, b \in Nat : a = i + 9 /\ b = FrameEnd(bytes, i) - 2
      <4>1. PICK r \in Nat : r = RemainingBytes(h)
        BY <1>5
      <4>2. FrameEnd(bytes, i) - 2 = i + 6 + r
        BY <1>7, <4>1
      <4>3. i + 9 \in Nat /\ i + 6 + r \in Nat
        OBVIOUS
      <4> QED BY <4>2, <4>3, Zenon
    <3>2. payload = SubSeq(bytes, a, b)
      BY <1>2, <1>9, <2>2, <3>1 DEF CHECKSUM_LENGTH
    <3>3. 1 <= a /\ b <= Len(bytes)
      BY <1>1, <1>3, <3>1
    <3> QED BY <3>2, <3>3, SliceType
  <2> QED BY <2>1, <2>2
<1>11. PacketAt(bytes, i) = [type |-> bytes[i + 3], command |-> bytes[i + 4],
                             payload_length |-> PayloadLength(h), payload |-> payload]
  BY <1>4, <1>9 DEF PacketAt
<1> QED BY <1>5, <1>8, <1>10, <1>11 DEF ParsedPacket

(* What is found from one offset, from what is found behind it. *)
LEMMA ParseFromType ==
  ASSUME NEW bytes \in Seq(Byte), NEW m \in 0 .. Len(bytes), NEW f,
         f \in [m + 1 .. Len(bytes) -> [packets : Seq(ParsedPacket), rest : Nat]]
  PROVE  ParseFrom(f, bytes, m) \in [packets : Seq(ParsedPacket), rest : Nat]
<1>1. CASE Waits(bytes, m)
  <2>1. ParseFrom(f, bytes, m) = [packets |-> <<>>, rest |-> m]
    BY <1>1 DEF ParseFrom
  <2> QED BY <2>1
<1>2. CASE ~Waits(bytes, m)
  <2>1. Found(bytes, m) \in Seq(ParsedPacket)
    BY <1>2, FoundType
  <2>2. FrameEnd(bytes, m) \in m + 1 .. Len(bytes)
    BY <1>2, NextReceive
  <2>3. PICK later \in [packets : Seq(ParsedPacket), rest : Nat] : later = f[FrameEnd(bytes, m)]
    BY <2>2
  <2>4. Found(bytes, m) \o later.packets \in Seq(ParsedPacket)
    BY <2>1, <2>3, ConcatProperties
  <2>5. ParseFrom(f, bytes, m) = [packets |-> Found(bytes, m) \o later.packets, rest |-> later.rest]
    BY <1>2, <2>3 DEF ParseFrom
  <2> QED BY <2>3, <2>4, <2>5
<1> QED BY <1>1, <1>2

(* The parser's run over the bytes is well defined. *)
LEMMA RunExists ==
  ASSUME NEW bytes \in Seq(Byte)
  PROVE  \E f : IsRun(f, bytes, 0)
<1> DEFINE T == {n \in 0 .. Len(bytes) + 1 : ~ \E f : IsRun(f, bytes, Len(bytes) + 1 - n)}
<1>0. PICK L \in Nat : L = Len(bytes)
  OBVIOUS
<1> SUFFICES ASSUME T # {} PROVE FALSE
  <2>1. L + 1 \in 0 .. L + 1 /\ L + 1 - (L + 1) = 0
    OBVIOUS
  <2> QED BY <1>0, <2>1
<1>1. PICK n \in T : \A k \in T : n <= k
  <2>1. T \in SUBSET Nat
    BY <1>0
  <2> QED BY <2>1, LeastNatural
<1>2. n \in 0 .. L + 1 /\ ~ \E f : IsRun(f, bytes, L + 1 - n)
  BY <1>0
<1>3. CASE n = 0
  <2>1. L + 1 .. L = {}
    OBVIOUS
  <2>2. IsRun([i \in L + 1 .. L |-> 0], bytes, L + 1)
    BY <1>0, <2>1 DEF IsRun
  <2> QED BY <1>2, <1>3, <2>2
<1>4. CASE n > 0
  <2>1. PICK m \in Nat : m = L + 1 - n
    BY <1>2
  <2>2. m \in 0 .. L /\ L + 1 - (n - 1) = m + 1
    BY <1>2, <1>4, <2>1
  <2>3. n - 1 \notin T /\ n - 1 \in 0 .. L + 1
    BY <1>1, <1>2, <1>4
  <2>4. PICK f : IsRun(f, bytes, m + 1)
    BY <1>0, <2>2, <2>3
  <2> HIDE DEF T
  <2> DEFINE S == [packets : Seq(ParsedPacket), rest : Nat]
             first == ParseFrom(f, bytes, m)
             g == [i \in m .. L |-> IF i = m THEN first ELSE f[i]]
  <2>5. f \in [m + 1 .. L -> S]
    BY <1>0, <2>4 DEF IsRun
  <2>6. first \in S
    BY <1>0, <2>2, <2>5, ParseFromType
  <2> HIDE DEF S, first
  <2>7. g \in [m .. L -> S]
    BY <2>2, <2>5, <2>6
  <2>8. \A i \in m + 1 .. L : g[i] = f[i]
    BY <2>2
  <2>9. g[m] = first
    BY <2>2
  <2> HIDE DEF g
  <2>10. ASSUME NEW i \in m .. L PROVE ParseFrom(g, bytes, i) = ParseFrom(f, bytes, i)
    <3>1. CASE Waits(bytes, i)
      BY <3>1 DEF ParseFrom
    <3>2. CASE ~Waits(bytes, i)
      <4>1. FrameEnd(bytes, i) \in i + 1 .. L
        BY <1>0, <2>2, <3>2, NextReceive
      <4>2. FrameEnd(bytes, i) \in m + 1 .. L
        BY <2>2, <4>1
      <4>3. g[FrameEnd(bytes, i)] = f[FrameEnd(bytes, i)]
        BY <2>8, <4>2
      <4> QED BY <3>2, <4>3 DEF ParseFrom
    <3> QED BY <3>1, <3>2
  <2>11. ASSUME NEW i \in m .. L PROVE g[i] = ParseFrom(g, bytes, i)
    <3>1. CASE i = m
      BY <2>9, <2>10, <3>1 DEF first
    <3>2. CASE i # m
      <4>1. i \in m + 1 .. L
        BY <2>2, <3>2
      <4>2. f[i] = ParseFrom(f, bytes, i)
        BY <1>0, <2>4, <4>1 DEF IsRun
      <4> QED BY <2>8, <2>10, <4>1, <4>2
    <3> QED BY <3>1, <3>2
  <2>12. IsRun(g, bytes, m)
    BY <1>0, <2>7, <2>11 DEF IsRun, S
  <2> QED BY <1>2, <2>1, <2>12
<1> QED BY <1>2, <1>3, <1>4

\* The run of Parsed.
Run(bytes) ==
  LET run[i \in 0 .. Len(bytes)] ==
        IF i + HEADER_LENGTH > Len(bytes) \/ FrameEnd(bytes, i) > Len(bytes)
        THEN [packets |-> <<>>, rest |-> i]
        ELSE LET later == run[FrameEnd(bytes, i)]
                 found == IF FrameAccepted(bytes, i) THEN <<PacketAt(bytes, i)>> ELSE <<>>
             IN  [packets |-> found \o later.packets, rest |-> later.rest]
  IN  run

(* Parsed is what the run finds from the first byte on. *)
LEMMA ParsedIsRun ==
  ASSUME NEW bytes
  PROVE  Parsed(bytes) = Run(bytes)[0]
BY Zenon DEF Parsed, Run

(* The recursive function is what its equations say. *)
LEMMA RunEquation ==
  ASSUME NEW bytes \in Seq(Byte), NEW i \in 0 .. Len(bytes)
  PROVE  Run(bytes)[i] = ParseFrom(Run(bytes), bytes, i)
<1> DEFINE Body(f, j) ==
        IF j + HEADER_LENGTH > Len(bytes) \/ FrameEnd(bytes, j) > Len(bytes)
        THEN [packets |-> <<>>, rest |-> j]
        ELSE LET later == f[FrameEnd(bytes, j)]
                 found == IF FrameAccepted(bytes, j) THEN <<PacketAt(bytes, j)>> ELSE <<>>
             IN  [packets |-> found \o later.packets, rest |-> later.rest]
<1>1. PICK f : IsRun(f, bytes, 0)
  BY RunExists
<1>2. ASSUME NEW g, NEW j PROVE Body(g, j) = ParseFrom(g, bytes, j)
  BY Zenon DEF ParseFrom, Waits, Found
<1>3. f = [j \in 0 .. Len(bytes) |-> Body(f, j)]
  <2>1. ASSUME NEW j \in 0 .. Len(bytes) PROVE f[j] = Body(f, j)
    BY <1>1, <1>2, Zenon DEF IsRun
  <2>2. f = [j \in 0 .. Len(bytes) |-> f[j]]
    BY <1>1 DEF IsRun
  <2> HIDE DEF Body
  <2> QED BY <2>1, <2>2
<1> DEFINE s == Run(bytes)
<1>4. s = [j \in 0 .. Len(bytes) |-> Body(s, j)]
  BY <1>3, Zenon DEF Run
<1> HIDE DEF s, Body
<1>5. s[i] = Body(s, i)
  BY <1>4
<1> QED BY <1>2, <1>5 DEF s

(* What the run has at each offset is a sequence of packets and an offset. *)
LEMMA RunType ==
  ASSUME NEW bytes \in Seq(Byte), NEW i \in 0 .. Len(bytes)
  PROVE  Run(bytes)[i] \in [packets : Seq(ParsedPacket), rest : Nat]
<1>0. PICK L \in Nat : L = Len(bytes)
  OBVIOUS
<1> DEFINE S == [packets : Seq(ParsedPacket), rest : Nat]
           f == Run(bytes)
           T == {n \in 0 .. L : f[L - n] \notin S}
<1>1. \A j \in 0 .. L : f[j] = ParseFrom(f, bytes, j)
  BY <1>0, RunEquation
<1> HIDE DEF f
<1> SUFFICES ASSUME T # {} PROVE FALSE
  <2>1. L - i \in 0 .. L /\ L - (L - i) = i
    BY <1>0
  <2> QED BY <2>1 DEF f
<1>2. PICK n \in T : \A k \in T : n <= k
  <2>1. T \in SUBSET Nat
    OBVIOUS
  <2> QED BY <2>1, LeastNatural
<1>3. PICK m \in 0 .. L : m = L - n
  BY <1>2
<1>4. ASSUME NEW j \in m + 1 .. L PROVE f[j] \in S
  <2>1. PICK k \in 0 .. L : k = L - j /\ k < n /\ L - k = j
    BY <1>2, <1>3
  <2>2. k \notin T
    <3>1. n \in 0 .. L
      BY <1>2
    <3> HIDE DEF T
    <3> QED BY <1>2, <2>1, <3>1
  <2>3. f[L - k] \in S
    BY <2>2
  <2> QED BY <2>1, <2>3
<1>5. f[m] \notin S
  BY <1>2, <1>3
<1> HIDE DEF T
<1> DEFINE g == [j \in m + 1 .. L |-> f[j]]
<1>6. g \in [m + 1 .. L -> S]
  <2> HIDE DEF S
  <2> QED BY <1>4
<1>7. \A j \in m + 1 .. L : g[j] = f[j]
  OBVIOUS
<1> HIDE DEF g
<1>8. ParseFrom(g, bytes, m) \in S
  BY <1>0, <1>6, ParseFromType
<1>9. ParseFrom(g, bytes, m) = ParseFrom(f, bytes, m)
  <2>1. CASE Waits(bytes, m)
    BY <2>1 DEF ParseFrom
  <2>2. CASE ~Waits(bytes, m)
    <3>1. FrameEnd(bytes, m) \in m + 1 .. L
      BY <1>0, <2>2, NextReceive
    <3>2. g[FrameEnd(bytes, m)] = f[FrameEnd(bytes, m)]
      BY <1>7, <3>1
    <3> QED BY <2>2, <3>2 DEF ParseFrom
  <2> QED BY <2>1, <2>2
<1> QED BY <1>1, <1>5, <1>8, <1>9

(* A frame that is there is not read otherwise when more bytes follow. *)
LEMMA SameFrame ==
  ASSUME NEW bytes \in Seq(Byte), NEW tail \in Seq(Byte), NEW i \in Nat, ~Waits(bytes, i)
  PROVE  /\ ~Waits(bytes \o tail, i)
         /\ FrameEnd(bytes \o tail, i) = FrameEnd(bytes, i)
         /\ Found(bytes \o tail, i) = Found(bytes, i)
<1>1. PICK L \in Nat, M \in Nat : L = Len(bytes) /\ M = Len(tail)
  OBVIOUS
<1>2. PICK more \in Seq(Byte) : more = bytes \o tail
  BY Concatenation
<1>3. Len(more) = L + M /\ \A j \in 1 .. L : more[j] = bytes[j]
  BY <1>1, <1>2, Concatenation
<1>4. HEADER_LENGTH = 8
  BY Sizes
<1>5. PICK e \in Nat : e = FrameEnd(bytes, i) /\ i < e /\ e <= L /\ i + 8 <= L
  BY <1>1, <1>4, NextReceive
<1>6. \A m \in Nat, n \in Nat : 1 <= m /\ m <= n /\ n <= L => SubSeq(more, m, n) = SubSeq(bytes, m, n)
  BY <1>1, <1>2, SliceOfFirst
<1>7. PICK h : h = HeaderAt(bytes, i)
  OBVIOUS
<1>8. HeaderAt(more, i) = h
  <2>1. i + 1 \in Nat /\ i + 8 \in Nat /\ 1 <= i + 1 /\ i + 1 <= i + 8 /\ i + 8 <= L
    BY <1>5
  <2> QED BY <1>4, <1>6, <1>7, <2>1 DEF HeaderAt
<1>9. FrameEnd(more, i) = e
  BY <1>5, <1>7, <1>8 DEF FrameEnd, HeaderParses
<1>10. ~Waits(more, i)
  BY <1>3, <1>4, <1>5, <1>9 DEF Waits
<1>11. SubSeq(more, i + 1, e) = SubSeq(bytes, i + 1, e)
  <2>1. i + 1 \in Nat /\ 1 <= i + 1 /\ i + 1 <= e
    BY <1>5
  <2> QED BY <1>5, <1>6, <2>1
<1>12. FrameAccepted(more, i) <=> FrameAccepted(bytes, i)
  BY <1>5, <1>7, <1>8, <1>9, <1>11, Zenon DEF FrameAccepted, HeaderParses
<1>13. ASSUME FrameAccepted(bytes, i) PROVE PacketAt(more, i) = PacketAt(bytes, i)
  <2>1. more[i + 3] = bytes[i + 3] /\ more[i + 4] = bytes[i + 4]
    BY <1>3, <1>5
  <2>2. CASE RemainingBytes(h) = 0
    BY <1>7, <1>8, <2>1, <2>2 DEF PacketAt
  <2>3. CASE RemainingBytes(h) # 0
    <3>1. PICK n \in Nat : n = PayloadLength(h)
      BY <1>1, <1>4, <1>5, <1>7, HeaderAtType
    <3>2. n # 0 /\ RemainingBytes(h) = n + 2
      BY <2>3, <3>1 DEF RemainingBytes, CHECKSUM_LENGTH
    <3>3. e = i + 8 + (n + 2)
      BY <1>4, <1>5, <1>7, <1>13, <3>2 DEF FrameEnd, FrameAccepted
    <3>4. i + 9 \in Nat /\ e - 2 \in Nat /\ 1 <= i + 9 /\ i + 9 <= e - 2 /\ e - 2 <= L
      BY <1>5, <3>2, <3>3
    <3>5. SubSeq(more, i + 9, e - 2) = SubSeq(bytes, i + 9, e - 2)
      BY <1>6, <3>4
    <3>6. (i + HEADER_LENGTH) + 1 = i + 9 /\ CHECKSUM_LENGTH = 2
      BY <1>4 DEF CHECKSUM_LENGTH
    <3> QED BY <1>5, <1>7, <1>8, <1>9, <2>1, <3>5, <3>6 DEF PacketAt
  <2> QED BY <2>2, <2>3
<1>14. Found(more, i) = Found(bytes, i)
  BY <1>12, <1>13, Zenon DEF Found
<1> QED BY <1>2, <1>5, <1>9, <1>10, <1>14

(* Behind bytes that were read, the frame of a packet is read as the packet. *)
LEMMA FrameFound ==
  ASSUME NEW bytes \in Seq(Byte), NEW p, IsPacket(p)
  PROVE  LET more == bytes \o RadioFrame(p)
             L == Len(bytes)
         IN  /\ more \in Seq(Byte)
             /\ ~Waits(more, L)
             /\ FrameEnd(more, L) = Len(more)
             /\ Found(more, L) = <<p>>
<1>1. PICK F, h : F = RadioFrame(p) /\ h = SubSeq(F, 1, HEADER_LENGTH)
  OBVIOUS
<1>2. /\ F \in Seq(Byte)
      /\ Len(F) = HEADER_LENGTH + RemainingBytes(h)
      /\ IsHeaderOf(h, p.type, p.command, p.payload_length)
      /\ p.payload # <<>> =>
           /\ lithium_parse_body(F, p.payload_length) = "NO_ERROR"
           /\ SubSeq(F, HEADER_LENGTH + 1, HEADER_LENGTH + p.payload_length) = p.payload
  BY <1>1, FrameRoundTrip, Zenon
<1>3. HEADER_LENGTH = 8
  BY Sizes
<1>4. /\ p = [type |-> p.type, command |-> p.command,
              payload_length |-> p.payload_length, payload |-> p.payload]
      /\ p.payload \in Seq(Byte)
  BY DEF IsPacket, PacketRecord
<1>5. PICK n \in Nat : n = Len(p.payload)
  BY <1>4
<1>6. n = 0 <=> p.payload = <<>>
  BY <1>4, <1>5, EmptySeq
<1>7. /\ lithium_parse_header(h) = "NO_ERROR"
      /\ PayloadLength(h) = p.payload_length
      /\ RemainingBytes(h) = IF p.payload = <<>> THEN 0 ELSE n + 2
  BY <1>2, <1>5, HeaderRoundTrip
<1>8. n # 0 => p.payload_length = n
  BY <1>5, <1>6 DEF IsPacket
<1>9. PICK L \in Nat, M \in Nat : L = Len(bytes) /\ M = Len(F)
  BY <1>2
<1>10. M = IF n = 0 THEN 8 ELSE 8 + n + 2
  BY <1>2, <1>3, <1>6, <1>7, <1>9
<1>11. PICK more \in Seq(Byte) : more = bytes \o F
  BY <1>2, Concatenation
<1>12. Len(more) = L + M /\ \A j \in 1 .. M : more[L + j] = F[j]
  <2>1. /\ Len(bytes \o F) = L + M
        /\ \A j \in 1 .. L + M : (bytes \o F)[j] = IF j <= L THEN bytes[j] ELSE F[j - L]
    BY <1>2, <1>9, Concatenation
  <2>2. ASSUME NEW j \in 1 .. M PROVE more[L + j] = F[j]
    <3>1. L + j \in 1 .. L + M /\ ~(L + j <= L) /\ (L + j) - L = j
      OBVIOUS
    <3> QED BY <1>11, <2>1, <3>1
  <2> QED BY <1>11, <2>1, <2>2
<1>13. ASSUME NEW a \in Nat, NEW b \in Nat, 1 <= a, a <= b, b <= M
       PROVE  SubSeq(more, L + a, L + b) = SubSeq(F, a, b)
  <2>1. b <= Len(F)
    BY <1>9, <1>13
  <2>2. SubSeq(bytes \o F, Len(bytes) + a, Len(bytes) + b) = SubSeq(F, a, b)
    BY <1>2, <1>13, <2>1, SliceOfSecond
  <2> QED BY <1>9, <1>11, <2>2
<1>14. HeaderAt(more, L) = h
  <2>1. 1 \in Nat /\ 8 \in Nat /\ 1 <= 1 /\ 1 <= 8 /\ 8 <= M
    BY <1>10
  <2>2. SubSeq(more, L + 1, L + 8) = SubSeq(F, 1, 8)
    BY <1>13, <2>1, Zenon
  <2> QED BY <1>1, <1>3, <2>2 DEF HeaderAt
<1>15. FrameEnd(more, L) = L + M
  <2>1. HeaderParses(more, L)
    BY <1>7, <1>14 DEF HeaderParses
  <2>2. PICK r \in Nat : r = RemainingBytes(h)
    BY <1>7
  <2>3. FrameEnd(more, L) = L + HEADER_LENGTH + r
    BY <1>14, <2>1, <2>2 DEF FrameEnd
  <2>4. M = 8 + r
    BY <1>2, <1>3, <1>9, <2>2
  <2> QED BY <1>3, <2>3, <2>4
<1>16. ~Waits(more, L)
  BY <1>3, <1>10, <1>12, <1>15 DEF Waits
<1>17. n # 0 => SubSeq(more, L + 1, L + M) = F
  <2>1. 1 \in Nat /\ M \in Nat /\ 1 <= 1 /\ 1 <= M /\ M <= M
    BY <1>10
  <2>2. SubSeq(more, L + 1, L + M) = SubSeq(F, 1, M)
    BY <1>13, <2>1, Zenon
  <2> QED BY <1>2, <1>9, <2>2, WholeSlice
<1>18. FrameAccepted(more, L)
  <2>1. CASE n = 0
    BY <1>6, <1>7, <1>14, <2>1 DEF FrameAccepted, HeaderParses
  <2>2. CASE n # 0
    BY <1>2, <1>6, <1>7, <1>14, <1>15, <1>17, <2>2 DEF FrameAccepted, HeaderParses
  <2> QED BY <2>1, <2>2
<1>19. more[L + 3] = p.type /\ more[L + 4] = p.command
  <2>1. h[3] = p.type /\ h[4] = p.command
    BY <1>2 DEF IsHeaderOf
  <2>2. 1 <= 8 /\ 8 <= Len(F)
    BY <1>9, <1>10
  <2>3. \A j \in 1 .. 8 - 1 + 1 : SubSeq(F, 1, 8)[j] = F[1 + j - 1]
    BY <1>2, <2>2, Slice
  <2>4. h[3] = F[3] /\ h[4] = F[4]
    BY <1>1, <1>3, <2>3
  <2> QED BY <1>10, <1>12, <2>1, <2>4
<1>20. PacketAt(more, L) = p
  <2>1. CASE n = 0
    BY <1>4, <1>6, <1>7, <1>14, <1>19, <2>1 DEF PacketAt
  <2>2. CASE n # 0
    <3>1. L + HEADER_LENGTH + 1 = L + 9 /\ FrameEnd(more, L) - CHECKSUM_LENGTH = L + (8 + n)
      BY <1>3, <1>10, <1>15, <2>2 DEF CHECKSUM_LENGTH
    <3>2. SubSeq(more, L + 9, L + (8 + n)) = SubSeq(F, 9, 8 + n)
      <4>1. 9 \in Nat /\ 8 + n \in Nat /\ 1 <= 9 /\ 9 <= 8 + n /\ 8 + n <= M
        BY <1>10, <2>2
      <4> QED BY <1>13, <4>1, Zenon
    <3>3. SubSeq(F, 9, 8 + n) = p.payload
      BY <1>2, <1>3, <1>6, <1>8, <2>2
    <3>4. RemainingBytes(h) # 0
      BY <1>6, <1>7, <2>2
    <3>5. PacketAt(more, L) = [type |-> more[L + 3], command |-> more[L + 4],
                               payload_length |-> PayloadLength(h), payload |-> p.payload]
      BY <1>14, <3>1, <3>2, <3>3, <3>4 DEF PacketAt
    <3> QED BY <1>4, <1>7, <1>19, <3>5
  <2> QED BY <2>1, <2>2
<1> QED BY <1>1, <1>9, <1>11, <1>12, <1>15, <1>16, <1>18, <1>20 DEF Found

\* The parser makes these packets of the bytes and has none left over.
ParsesTo(bytes, packets) == Parsed(bytes) = [packets |-> packets, rest |-> Len(bytes)]

(* It makes no packet of no bytes. *)
LEMMA ParseNothing ==
  ParsesTo(<<>>, <<>>)
<1>1. <<>> \in Seq(Byte) /\ Len(<<>>) = 0
  OBVIOUS
<1>2. Run(<<>>)[0] = ParseFrom(Run(<<>>), <<>>, 0)
  <2>1. 0 \in 0 .. Len(<<>>)
    BY <1>1
  <2> QED BY <1>1, <2>1, RunEquation
<1>3. Waits(<<>>, 0)
  BY <1>1, Sizes DEF Waits
<1> QED BY <1>1, <1>2, <1>3, ParsedIsRun DEF ParsesTo, ParseFrom

(* Packets in a row, however they are grouped. *)
LEMMA PacketsInARow ==
  ASSUME NEW a \in Seq(ParsedPacket), NEW b \in Seq(ParsedPacket), NEW c \in Seq(ParsedPacket)
  PROVE  a \o (b \o c) = (a \o b) \o c
BY ConcatAssociative

(* Where the bytes so far parse to some packets, those bytes and the frame of
   one more parse to those packets and the one. *)
THEOREM ParseOneMore ==
  ASSUME NEW bytes \in Seq(Byte), NEW packets, ParsesTo(bytes, packets),
         NEW p, IsPacket(p)
  PROVE  /\ packets \in Seq(ParsedPacket)
         /\ ParsesTo(bytes \o RadioFrame(p), packets \o <<p>>)
<1>1. PICK L \in Nat : L = Len(bytes)
  OBVIOUS
<1>2. PICK F \in Seq(Byte) : F = RadioFrame(p)
  BY FrameRoundTrip
<1>3. PICK more : more = bytes \o F
  OBVIOUS
<1>4. more \in Seq(Byte) /\ ~Waits(more, L) /\ FrameEnd(more, L) = Len(more) /\ Found(more, L) = <<p>>
  BY <1>1, <1>2, <1>3, FrameFound
<1>5. PICK M \in Nat : M = Len(more)
  BY <1>4
<1>6. L <= M
  BY <1>1, <1>3, <1>5, Concatenation
<1> DEFINE f == Run(bytes)
           g == Run(more)
<1>7. /\ \A i \in 0 .. L : f[i] = ParseFrom(f, bytes, i)
      /\ \A i \in 0 .. L : f[i] \in [packets : Seq(ParsedPacket), rest : Nat]
  BY <1>1, RunEquation, RunType, Zenon
<1>8. \A i \in 0 .. M : g[i] = ParseFrom(g, more, i)
  BY <1>4, <1>5, RunEquation, Zenon
<1>9. f[0] = [packets |-> packets, rest |-> L]
  BY <1>1, ParsedIsRun DEF ParsesTo
<1>10. Parsed(more) = g[0]
  BY ParsedIsRun
<1> HIDE DEF f, g
<1>11. p \in ParsedPacket
  BY PacketIsParsed
<1>12. g[M] = [packets |-> <<>>, rest |-> M]
  <2>1. Waits(more, M)
    BY <1>5, Sizes DEF Waits
  <2>2. M \in 0 .. M
    OBVIOUS
  <2>3. g[M] = ParseFrom(g, more, M)
    BY <1>8, <2>2, Zenon
  <2> QED BY <2>1, <2>3 DEF ParseFrom
\* The claim, from each offset from which the parser gets to the end of bytes.
<1> DEFINE After(i) == g[i] = [packets |-> f[i].packets \o <<p>>, rest |-> M]
           T == {n \in 0 .. L : f[L - n].rest = L /\ ~After(L - n)}
<1>13. T = {}
  <2> SUFFICES ASSUME T # {} PROVE FALSE
    OBVIOUS
  <2>1. PICK n \in T : \A k \in T : n <= k
    <3>1. T \in SUBSET Nat
      OBVIOUS
    <3> QED BY <3>1, LeastNatural
  <2>2. PICK i \in 0 .. L : i = L - n /\ f[i].rest = L /\ ~After(i)
    <3>1. n \in 0 .. L /\ f[L - n].rest = L /\ ~After(L - n)
      BY <2>1
    <3>2. L - n \in 0 .. L
      BY <3>1
    <3> HIDE DEF After
    <3> QED BY <3>1, <3>2
  <2>3. f[i] = ParseFrom(f, bytes, i) /\ g[i] = ParseFrom(g, more, i)
    BY <1>6, <1>7, <1>8
  <2>4. CASE i = L
    <3>1. Waits(bytes, L)
      BY <1>1, Sizes DEF Waits
    <3>2. f[L].packets = <<>>
      BY <2>3, <2>4, <3>1 DEF ParseFrom
    <3>3. g[L] = [packets |-> <<p>> \o <<>>, rest |-> M]
      BY <1>4, <1>5, <1>12, <2>3, <2>4 DEF ParseFrom
    <3>4. <<p>> \o <<>> = <<p>> /\ <<>> \o <<p>> = <<p>>
      <4>1. <<p>> \in Seq({p})
        OBVIOUS
      <4> QED BY <4>1, ConcatEmptySeq
    <3> QED BY <2>2, <2>4, <3>2, <3>3, <3>4
  <2>5. CASE i # L
    <3>1. ~Waits(bytes, i)
      BY <2>2, <2>3, <2>5 DEF ParseFrom
    <3>2. PICK e \in i + 1 .. L : e = FrameEnd(bytes, i)
      BY <1>1, <3>1, NextReceive
    <3>3. ~Waits(more, i) /\ FrameEnd(more, i) = e /\ Found(more, i) = Found(bytes, i)
      BY <1>3, <3>1, <3>2, SameFrame
    <3>4. f[i] = [packets |-> Found(bytes, i) \o f[e].packets, rest |-> f[e].rest]
      BY <2>3, <3>1, <3>2 DEF ParseFrom
    <3>5. g[i] = [packets |-> Found(bytes, i) \o g[e].packets, rest |-> g[e].rest]
      BY <2>3, <3>3 DEF ParseFrom
    <3>6. After(e)
      <4>1. f[e].rest = L
        BY <2>2, <3>4
      <4>2. PICK k \in 0 .. L : k = L - e /\ L - k = e /\ k < n
        BY <2>1, <2>2, <3>2
      <4>3. k \notin T
        <5>1. n \in 0 .. L
          BY <2>1
        <5> HIDE DEF T
        <5> QED BY <2>1, <4>2, <5>1
      <4> QED BY <4>1, <4>2, <4>3
    <3>7. Found(bytes, i) \in Seq(ParsedPacket) /\ f[e].packets \in Seq(ParsedPacket)
          /\ <<p>> \in Seq(ParsedPacket)
      <4>1. Found(bytes, i) \in Seq(ParsedPacket)
        BY <3>1, FoundType
      <4>2. e \in 0 .. L
        BY <3>2
      <4>3. f[e].packets \in Seq(ParsedPacket)
        BY <1>7, <4>2
      <4> QED BY <1>11, <4>1, <4>3
    <3>8. Found(bytes, i) \o (f[e].packets \o <<p>>) = (Found(bytes, i) \o f[e].packets) \o <<p>>
      <4>1. PICK a \in Seq(ParsedPacket), b \in Seq(ParsedPacket), c \in Seq(ParsedPacket) :
               a = Found(bytes, i) /\ b = f[e].packets /\ c = <<p>>
        BY <3>7
      <4>2. a \o (b \o c) = (a \o b) \o c
        BY PacketsInARow
      <4> QED BY <4>1, <4>2
    <3>9. After(i)
      <4>1. g[e].packets = f[e].packets \o <<p>> /\ g[e].rest = M
        BY <3>6, SMTT(30)
      <4>2. f[i].packets = Found(bytes, i) \o f[e].packets
        BY <3>4, SMTT(30)
      <4> QED BY <3>5, <3>8, <4>1, <4>2
    <3> QED BY <2>2, <3>9
  <2> QED BY <2>4, <2>5
<1>14. After(0)
  <2>1. L \in 0 .. L /\ L - L = 0
    OBVIOUS
  <2>2. f[0].rest = L
    BY <1>9
  <2> QED BY <1>13, <2>1, <2>2
<1>15. packets \in Seq(ParsedPacket)
  <2>1. 0 \in 0 .. L
    OBVIOUS
  <2> QED BY <1>7, <1>9, <2>1
<1> QED BY <1>2, <1>3, <1>5, <1>9, <1>10, <1>14, <1>15 DEF ParsesTo

-----------------------------------------------------------------------------
(* The frames that calls send.                                             *)

(***************************************************************************)
(* No caller asks for an empty payload: EMIT_SEND_PAYLOAD would put a body *)
(* behind a header that announces none (see SendPayload).                  *)
(***************************************************************************)
NoEmptyPayload == 0 \notin DataLengths \cup {ConfigLength, RfConfigLength}

\* A call that sends p has frame in raw_packet.
IsFrame(p, frame) ==
  /\ IsPacket(p)
  /\ frame \in Seq(Byte) /\ Len(frame) \in 1 .. MAX_PACKET_LENGTH
  /\ NoEmptyPayload => frame = RadioFrame(p)

(* The fields of a packet have the widths that the encoder writes. *)
LEMMA PacketFields ==
  ASSUME NEW p, IsPacket(p)
  PROVE  /\ p.type \in Byte /\ p.command \in Byte /\ p.payload_length \in Word
         /\ p.payload \in Seq(Byte) /\ Len(p.payload) <= MAX_PAYLOAD_LENGTH
<1>1. p \in PacketRecord
  BY DEF IsPacket
<1>2. p.payload \in Seq(Byte)
  BY <1>1 DEF PacketRecord
<1>3. Len(p.payload) <= MAX_PAYLOAD_LENGTH
  <2>1. CASE p.payload = <<>>
    BY <2>1 DEF MAX_PAYLOAD_LENGTH
  <2>2. CASE p.payload # <<>>
    BY <2>2 DEF IsPacket
  <2> QED BY <2>1, <2>2
<1> QED BY <1>1, <1>2, <1>3
        DEF PacketRecord, Byte, LITHIUM_I_MESSAGE, LITHIUM_O_MESSAGE, LITHIUM_COMMAND_count

(* What a call encodes fits into raw_packet. *)
LEMMA SendFrameType ==
  ASSUME NEW p, IsPacket(p), NEW b \in BOOLEAN
  PROVE  SendFrame(p, b) \in Seq(Byte) /\ Len(SendFrame(p, b)) \in 1 .. MAX_PACKET_LENGTH
<1>1. PICK h : h = encode_header(p.type, p.command, p.payload_length)
  OBVIOUS
<1>2. h \in Seq(Byte) /\ Len(h) = 8
  BY <1>1, PacketFields, HeaderShape, Sizes
<1>3. PICK payload \in Seq(Byte), n \in Nat : payload = p.payload /\ n = Len(payload) /\ n <= 255
  BY PacketFields DEF MAX_PAYLOAD_LENGTH
<1>4. SubSeq(h, SYNC_BYTES_LENGTH + 1, HEADER_LENGTH) \o payload \in Seq(Byte)
  <2>1. SYNC_BYTES_LENGTH + 1 = 3 /\ HEADER_LENGTH = 8
    BY Sizes DEF SYNC_BYTES_LENGTH
  <2>2. SubSeq(h, 3, 8) \in Seq(Byte)
    <3>1. 3 \in Nat /\ 8 \in Nat /\ 1 <= 3 /\ 8 <= Len(h)
      BY <1>2
    <3> QED BY <1>2, <3>1, SliceType, Zenon
  <2> QED BY <2>1, <2>2
<1>5. PICK c \in Byte, d \in Byte :
         compute_checksum(SubSeq(h, SYNC_BYTES_LENGTH + 1, HEADER_LENGTH) \o payload) = <<c, d>>
  <2>1. compute_checksum(SubSeq(h, SYNC_BYTES_LENGTH + 1, HEADER_LENGTH) \o payload) \in Byte \X Byte
    BY <1>4, ChecksumType
  <2> QED BY <2>1
<1>6. encode_body(p.payload, h) = payload \o <<c, d>>
  BY <1>3, <1>5 DEF encode_body
<1>7. payload \o <<c, d>> \in Seq(Byte) /\ Len(payload \o <<c, d>>) = n + 2
  <2>1. <<c, d>> \in Seq(Byte) /\ Len(<<c, d>>) = 2
    OBVIOUS
  <2> QED BY <1>3, <2>1, Concatenation
<1>8. h \o (payload \o <<c, d>>) \in Seq(Byte) /\ Len(h \o (payload \o <<c, d>>)) = 8 + (n + 2)
  BY <1>2, <1>7, Concatenation, ZenonT(30)
<1>9. MAX_PACKET_LENGTH = 265
  BY Sizes DEF MAX_PACKET_LENGTH, MAX_PAYLOAD_LENGTH, CHECKSUM_LENGTH
<1>10. CASE b
  <2>1. SendFrame(p, b) = h \o (payload \o <<c, d>>)
    BY <1>1, <1>6, <1>10 DEF SendFrame
  <2>2. 8 + (n + 2) \in 1 .. MAX_PACKET_LENGTH
    <3>1. PICK m \in Nat : m = MAX_PACKET_LENGTH /\ m >= 265
      BY <1>9
    <3>2. 8 + (n + 2) \in 1 .. m
      BY <1>3, <3>1
    <3> QED BY <3>1, <3>2
  <2> QED BY <1>8, <2>1, <2>2, Zenon
<1>11. CASE ~b
  <2>1. SendFrame(p, b) = h
    BY <1>1, <1>11 DEF SendFrame
  <2> QED BY <1>2, <1>9, <2>1
<1> QED BY <1>10, <1>11

(* Where the body is encoded exactly for a payload that is not empty, the
   frame is the one a radio would send. *)
LEMMA SendFrameIsRadioFrame ==
  ASSUME NEW p, NEW b \in BOOLEAN, b <=> p.payload # <<>>
  PROVE  SendFrame(p, b) = RadioFrame(p)
<1>1. CASE b
  BY <1>1 DEF SendFrame, RadioFrame
<1>2. CASE ~b
  BY <1>2 DEF SendFrame, RadioFrame
<1> QED BY <1>1, <1>2

(* What EMIT_SEND_PAYLOAD may be asked to send. *)
LEMMA PayloadLengthsType ==
  ASSUME NEW command, NEW length \in PayloadLengths(command)
  PROVE  /\ command \in 0 .. LITHIUM_COMMAND_count - 1
         /\ length \in 0 .. MAX_PAYLOAD_LENGTH
         /\ NoEmptyPayload => length # 0
<1>1. command \in {3, 16, 21, 8, 19, 20, 17, 32, 6, 9}
  BY DEF PayloadLengths, WRITE_OVER_AIR_KEY
<1>2. length \in DataLengths \cup {16, 1, ConfigLength, RfConfigLength}
  BY DEF PayloadLengths, WRITE_OVER_AIR_KEY
<1>3. length \in 0 .. MAX_PAYLOAD_LENGTH
  BY <1>2, LengthsAssumption DEF MAX_PAYLOAD_LENGTH
<1>4. NoEmptyPayload => length # 0
  BY <1>2 DEF NoEmptyPayload
<1> QED BY <1>1, <1>3, <1>4 DEF LITHIUM_COMMAND_count

(* Every call sends the frame of a packet. *)
LEMMA CallsSendFrames ==
  ASSUME NEW s \in Senders,
         \/ \E command \in HeaderCommands \cap UserCommands : SendCommand(s, command)
         \/ \E command \in UserCommands : \E data \in Memories, length \in PayloadLengths(command) :
              SendPayload(s, command, data, length)
         \/ \E p \in UserPackets : lithium_send_packet(s, p)
  PROVE  \E p, b : IsFrame(p, SendFrame(p, b)) /\ Call(s, p, b)
<1>1. ASSUME NEW command \in HeaderCommands, SendCommand(s, command)
      PROVE  \E p, b : IsFrame(p, SendFrame(p, b)) /\ Call(s, p, b)
  <2>1. PICK p : p = Packet(LITHIUM_I_MESSAGE, command, <<>>)
    OBVIOUS
  <2>2. command \in 0 .. LITHIUM_COMMAND_count - 1
    BY DEF HeaderCommands, LITHIUM_COMMAND_count
  <2>3. p.payload = <<>> /\ IsPacket(p)
    BY <2>1, <2>2 DEF Packet, IsPacket, PacketRecord, Word, MAX_PAYLOAD_LENGTH
  <2>4. IsFrame(p, SendFrame(p, FALSE))
    BY <2>3, SendFrameType, SendFrameIsRadioFrame DEF IsFrame
  <2> QED BY <1>1, <2>1, <2>4 DEF SendCommand
<1>2. ASSUME NEW command, NEW data \in Memories, NEW length \in PayloadLengths(command),
             SendPayload(s, command, data, length)
      PROVE  \E p, b : IsFrame(p, SendFrame(p, b)) /\ Call(s, p, b)
  <2>1. PICK payload : payload = SubSeq(data, 1, length)
    OBVIOUS
  <2>2. PICK p : p = Packet(LITHIUM_I_MESSAGE, command, payload)
    OBVIOUS
  <2>3. data \in Seq(Byte) /\ Len(data) = 255
    BY MemoriesAssumption DEF MAX_PAYLOAD_LENGTH
  <2>4. command \in 0 .. LITHIUM_COMMAND_count - 1 /\ length \in Nat /\ length <= 255
    BY PayloadLengthsType DEF MAX_PAYLOAD_LENGTH
  <2>5. payload \in Seq(Byte) /\ Len(payload) = length
    <3>1. payload \in Seq(Byte)
      <4>1. PICK first \in Nat : first = 1 /\ 1 <= first
        OBVIOUS
      <4>2. length <= Len(data) /\ data \in Seq(Byte)
        BY <2>3, <2>4
      <4>3. SubSeq(data, first, length) \in Seq(Byte)
        BY <2>4, <4>1, <4>2, SliceType
      <4> QED BY <2>1, <4>1, <4>3
    <3>2. CASE length = 0
      BY <2>1, <2>3, <3>2
    <3>3. CASE length # 0
      <4>1. Len(SubSeq(data, 1, length)) = length - 1 + 1
        <5>1. 1 \in Nat /\ length \in Nat /\ 1 <= 1 /\ 1 <= length /\ length <= Len(data)
          BY <2>3, <2>4, <3>3
        <5> QED BY <2>3, <5>1, Slice
      <4>2. length - 1 + 1 = length
        BY <2>4
      <4> QED BY <2>1, <3>1, <4>1, <4>2
    <3> QED BY <3>1, <3>2, <3>3
  <2>6. IsPacket(p) /\ p.payload = payload
    BY <2>2, <2>4, <2>5 DEF Packet, IsPacket, PacketRecord, Word, MAX_PAYLOAD_LENGTH
  <2>7. NoEmptyPayload => p.payload # <<>>
    <3>1. NoEmptyPayload => length # 0
      BY PayloadLengthsType
    <3> QED BY <2>5, <2>6, <3>1
  <2>8. IsFrame(p, SendFrame(p, TRUE))
    BY <2>6, <2>7, SendFrameType, SendFrameIsRadioFrame DEF IsFrame
  <2> QED BY <1>2, <2>1, <2>2, <2>8 DEF SendPayload
<1>3. ASSUME NEW p \in UserPackets, lithium_send_packet(s, p)
      PROVE  \E q, b : IsFrame(q, SendFrame(q, b)) /\ Call(s, q, b)
  <2>1. IsPacket(p) /\ p.payload_length = Len(p.payload)
    BY UserPacketsAssumption
  <2>2. p.payload_length > 0 <=> p.payload # <<>>
    <3>1. p.payload \in Seq(Byte)
      BY <2>1, PacketFields
    <3> QED BY <2>1, <3>1, EmptySeq
  <2>3. IsFrame(p, SendFrame(p, p.payload_length > 0))
    <3>1. (p.payload_length > 0) \in BOOLEAN
      OBVIOUS
    <3> QED BY <2>1, <2>2, <3>1, SendFrameType, SendFrameIsRadioFrame DEF IsFrame
  <2> QED BY <1>3, <2>3 DEF lithium_send_packet
<1> QED BY <1>1, <1>2, <1>3

-----------------------------------------------------------------------------
(* The last call of a sender.                                              *)

IsLast(w, s, k) ==
  k \in DOMAIN w /\ w[k][1] = s /\ \A j \in DOMAIN w : w[j][1] = s => j <= k

(* A sender that has a call has a last one. *)
LEMMA LastExists ==
  ASSUME NEW w \in Chunks(Senders, Byte), NEW s, NEW i \in DOMAIN w, w[i][1] = s
  PROVE  \E k : IsLast(w, s, k)
<1>1. PICK L \in Nat : L = Len(w) /\ DOMAIN w = 1 .. L
  BY DEF Chunks
<1> DEFINE T == {n \in 0 .. L : \E j \in DOMAIN w : w[j][1] = s /\ n = L - j}
<1>2. PICK n \in T : \A m \in T : n <= m
  <2>1. L - i \in T
    BY <1>1
  <2>2. T \in SUBSET Nat
    OBVIOUS
  <2> QED BY <2>1, <2>2, LeastNatural
<1>3. PICK k \in 1 .. L : w[k][1] = s /\ n = L - k
  BY <1>1, <1>2
<1>4. ASSUME NEW j \in 1 .. L, w[j][1] = s PROVE j <= k
  <2>1. L - j \in T
    BY <1>1, <1>4
  <2> HIDE DEF T
  <2>2. n <= L - j
    BY <1>2, <2>1
  <2> QED BY <1>3, <2>2
<1> QED BY <1>1, <1>3, <1>4 DEF IsLast

(* LastCall finds it. *)
LEMMA LastCallIsLast ==
  ASSUME NEW w \in Chunks(Senders, Byte), NEW s, NEW k, IsLast(w, s, k)
  PROVE  k = CHOOSE i \in DOMAIN w : w[i][1] = s /\ \A j \in DOMAIN w : w[j][1] = s => j <= i
<1>1. DOMAIN w \subseteq Nat
  BY DEF Chunks
<1>2. \A i \in DOMAIN w : (w[i][1] = s /\ \A j \in DOMAIN w : w[j][1] = s => j <= i) => i = k
  BY <1>1 DEF IsLast
<1> QED BY <1>2, Zenon DEF IsLast

(* There is one last call at most. *)
LEMMA LastUnique ==
  ASSUME NEW w \in Chunks(Senders, Byte), NEW s, NEW k, NEW l, IsLast(w, s, k), IsLast(w, s, l)
  PROVE  k = l
<1>1. DOMAIN w \subseteq Nat
  BY DEF Chunks
<1> QED BY <1>1 DEF IsLast

(* A new call is its sender's last, and no other's. *)
LEMMA LastOfMore ==
  ASSUME NEW w \in Chunks(Senders, Byte), NEW u \in Senders,
         NEW v, v = Append(w, <<u, <<>>>>)
  PROVE  /\ v \in Chunks(Senders, Byte) /\ Len(v) = Len(w) + 1
         /\ \A i \in 1 .. Len(w) : v[i] = w[i]
         /\ v[Len(w) + 1] = <<u, <<>>>>
         /\ IsLast(v, u, Len(w) + 1)
         /\ \A s, k : s # u => (IsLast(v, s, k) <=> IsLast(w, s, k))
<1>1. <<u, <<>>>> \in Senders \X Seq(Byte)
  <2>1. <<>> \in Seq(Byte)
    BY EmptySeq
  <2> QED BY <2>1
<1>2. PICK n \in Nat : n = Len(w) /\ DOMAIN w = 1 .. n
  BY DEF Chunks
<1>3. /\ v \in Chunks(Senders, Byte) /\ Len(v) = n + 1 /\ DOMAIN v = 1 .. n + 1
      /\ v[n + 1] = <<u, <<>>>>
  BY <1>1, <1>2, AppendProperties DEF Chunks
<1>4. \A i \in 1 .. n : v[i] = w[i]
  BY <1>1, <1>2, AppendProperties DEF Chunks
<1>5. v[n + 1][1] = u
  BY <1>3
<1>6. IsLast(v, u, n + 1)
  BY <1>3, <1>5 DEF IsLast
<1>7. ASSUME NEW s, NEW k, s # u PROVE IsLast(v, s, k) <=> IsLast(w, s, k)
  <2>1. ASSUME IsLast(v, s, k) PROVE IsLast(w, s, k)
    <3>1. k \in 1 .. n
      BY <1>3, <1>5, <1>7, <2>1 DEF IsLast
    <3> QED BY <1>2, <1>3, <1>4, <2>1, <3>1 DEF IsLast
  <2>2. ASSUME IsLast(w, s, k) PROVE IsLast(v, s, k)
    BY <1>2, <1>3, <1>4, <1>5, <1>7, <2>2 DEF IsLast
  <2> QED BY <2>1, <2>2
<1> QED BY <1>2, <1>3, <1>4, <1>6, <1>7

\* v has another chunk in call c, of sender u.
IsLonger(v, w, c, u, chunk) == v = [w EXCEPT ![c] = <<u, chunk>>]

(* A byte more in a call leaves every call where it is. *)
LEMMA LastOfLonger ==
  ASSUME NEW w \in Chunks(Senders, Byte), NEW u \in Senders, NEW c \in 1 .. Len(w), w[c][1] = u,
         NEW chunk \in Seq(Byte), NEW v, IsLonger(v, w, c, u, chunk)
  PROVE  /\ v \in Chunks(Senders, Byte) /\ Len(v) = Len(w)
         /\ v[c] = <<u, chunk>>
         /\ \A i \in 1 .. Len(w) : i # c => v[i] = w[i]
         /\ \A s, k : IsLast(v, s, k) <=> IsLast(w, s, k)
<1>1. <<u, chunk>> \in Senders \X Seq(Byte)
  OBVIOUS
<1>2. PICK n \in Nat : n = Len(w) /\ DOMAIN w = 1 .. n
  BY DEF Chunks
<1>3. v \in Chunks(Senders, Byte) /\ Len(v) = n /\ DOMAIN v = 1 .. n
  BY <1>1, <1>2 DEF Chunks, IsLonger
<1>4. v[c] = <<u, chunk>> /\ \A i \in 1 .. n : i # c => v[i] = w[i]
  BY <1>2 DEF IsLonger
<1>5. \A i \in 1 .. n : v[i][1] = w[i][1]
  BY <1>4
<1>6. \A s, k : IsLast(v, s, k) <=> IsLast(w, s, k)
  BY <1>2, <1>3, <1>5 DEF IsLast
<1> QED BY <1>2, <1>3, <1>4, <1>6

-----------------------------------------------------------------------------
(* The inductive invariant.                                                *)

\* The functions of TypeOK have a value for every sender, and the calls in
\* done sent packets.
Shape ==
  /\ raw_packet \in [Senders -> Seq(Byte)]
  /\ pos \in [Senders -> Nat]
  /\ result \in [Senders -> {"NONE", "NO_ERROR", "BAD_COMMUNICATION"}]
  /\ DOMAIN last_packet = Senders
  /\ done \in Chunks(Senders, ParsedPacket)

(***************************************************************************)
(* Each call is in wire once, and in done only when it has returned.       *)
(***************************************************************************)
CountInv == IsFiniteSet(Calling) /\ Len(done) + Cardinality(Calling) <= Len(wire)

(***************************************************************************)
(* What the last call of a sender has put on the line is as much of its    *)
(* frame as it has written, and all of it when it returned                 *)
(* LITHIUM_NO_ERROR.                                                       *)
(***************************************************************************)
SentInv ==
  \A s \in Senders :
    /\ s \in Calling \/ result[s] = "NO_ERROR" => \E k : IsLast(wire, s, k)
    /\ s \in Calling =>
         /\ result[s] = "NONE"
         /\ NoEmptyPayload => raw_packet[s] = RadioFrame(last_packet[s])
    /\ \A k : IsLast(wire, s, k) =>
         /\ s \in Calling => wire[k][2] = SubSeq(raw_packet[s], 1, pos[s])
         /\ result[s] = "NO_ERROR" /\ NoEmptyPayload => wire[k][2] = RadioFrame(last_packet[s])

(***************************************************************************)
(* What these senders have put on the line parses to the packets of their  *)
(* calls that returned LITHIUM_NO_ERROR.  While one of them is inside a    *)
(* call, that call is their last, and what parses is all before it.        *)
(***************************************************************************)
ParseInv(senders) ==
  senders \cap torn = {} =>
    \/ /\ senders \cap Calling = {}
       /\ ParsesTo(Of(senders, wire), Of(senders, done))
    \/ \E s \in senders, k \in 1 .. Len(wire) :
         /\ senders \cap Calling = {s}
         /\ IsLast(wire, s, k)
         /\ \A j \in k + 1 .. Len(wire) : wire[j][1] \notin senders
         /\ ParsesTo(Laid(senders, wire)[k - 1], Of(senders, done))

IInv ==
  /\ TypeOK /\ Shape /\ CountInv /\ SentInv
  /\ NoEmptyPayload => /\ \A s \in Senders : ParseInv({s})
                       /\ ~mixed => ParseInv(Senders)

(* Initially nothing is on the line. *)
LEMMA InitInv ==
  Init => IInv
<1> SUFFICES ASSUME Init PROVE IInv
  OBVIOUS
<1>1. /\ wire = <<>> /\ done = <<>> /\ torn = {} /\ Calling = {}
      /\ \A s \in Senders : raw_packet[s] = <<>> /\ pos[s] = 0 /\ result[s] = "NONE"
  BY DEF Init, Calling
<1>2. Len(<<>>) = 0 /\ \A S : <<>> \in Seq(S)
  OBVIOUS
<1>3. IsPacket(Packet(LITHIUM_I_MESSAGE, 1, <<>>))
  <2>1. 1 \in 0 .. LITHIUM_COMMAND_count - 1
    BY DEF LITHIUM_COMMAND_count
  <2> QED BY <2>1 DEF Packet, IsPacket, PacketRecord, Word, MAX_PAYLOAD_LENGTH
<1>4. TypeOK
  <2>1. \A s \in Senders : IsPacket(last_packet[s])
    BY <1>3 DEF Init
  <2>2. wire \in Seq(Senders \X Seq(Byte))
    BY <1>1, <1>2, Zenon
  <2>3. uart_open \in BOOLEAN /\ mixed \in BOOLEAN /\ torn \subseteq Senders
    BY Zenon DEF Init
  <2>4. Len(done) <= Len(wire)
    BY <1>1, <1>2
  <2>5. MAX_PACKET_LENGTH \in Nat
    BY Sizes DEF MAX_PACKET_LENGTH, MAX_PAYLOAD_LENGTH, CHECKSUM_LENGTH
  <2>6. ASSUME NEW s \in Senders
        PROVE  /\ raw_packet[s] \in Seq(Byte) /\ Len(raw_packet[s]) <= MAX_PACKET_LENGTH
               /\ pos[s] \in 0 .. Len(raw_packet[s])
               /\ pos[s] = Len(raw_packet[s]) => raw_packet[s] = <<>>
               /\ result[s] \in {"NONE", "NO_ERROR", "BAD_COMMUNICATION"}
    <3>1. <<>> \in Seq(Byte) /\ 0 <= MAX_PACKET_LENGTH /\ 0 \in 0 .. 0
      BY <1>2, <2>5
    <3>2. raw_packet[s] = <<>> /\ Len(raw_packet[s]) = 0 /\ pos[s] = 0 /\ result[s] = "NONE"
      BY <1>1, <1>2
    <3> QED BY <3>1, <3>2, Zenon
  <2> QED BY <2>1, <2>2, <2>3, <2>4, <2>6 DEF TypeOK
<1>5. Shape
  BY <1>2 DEF Init, Shape, Chunks
<1>6. CountInv
  BY <1>1, <1>2, FS_EmptySet DEF CountInv
<1>7. SentInv
  BY <1>1 DEF SentInv, IsLast
<1>8. ASSUME NEW S PROVE ParseInv(S)
  BY <1>1, OfNothing, ParseNothing DEF ParseInv
<1> QED BY <1>4, <1>5, <1>6, <1>7, <1>8 DEF IInv

-----------------------------------------------------------------------------
(* A call.                                                                 *)

(* What a call leaves is of the right types. *)
LEMMA CallTypes ==
  ASSUME TypeOK, Shape, CountInv, NEW u \in Senders, NEW p, NEW b, IsFrame(p, SendFrame(p, b)),
         Call(u, p, b)
  PROVE  TypeOK' /\ Shape' /\ CountInv' /\ u \notin Calling /\ Calling' = Calling \cup {u}
<1>1. PICK F \in Seq(Byte) : F = SendFrame(p, b) /\ Len(F) <= MAX_PACKET_LENGTH /\ Len(F) > 0 /\ F # <<>>
  BY DEF IsFrame
<1>2. /\ raw_packet[u] = <<>>
      /\ raw_packet' = [raw_packet EXCEPT ![u] = F]
      /\ last_packet' = [last_packet EXCEPT ![u] = p]
      /\ result' = [result EXCEPT ![u] = "NONE"]
      /\ wire' = Append(wire, <<u, <<>>>>)
      /\ mixed' = (mixed \/ Calling # {})
      /\ pos' = pos /\ done' = done /\ torn' = torn /\ uart_open' = uart_open
  BY <1>1 DEF Call
<1>3. wire' \in Chunks(Senders, Byte) /\ Len(wire') = Len(wire) + 1 /\ Len(wire) \in Nat
  BY <1>2, LastOfMore DEF TypeOK, Chunks
<1>4. u \notin Calling /\ Calling' = Calling \cup {u}
  BY <1>1, <1>2 DEF Calling, Shape
<1>5. Shape'
  BY <1>1, <1>2 DEF Shape
<1>6. CountInv'
  <2>1. IsFiniteSet(Calling) /\ Len(done) + Cardinality(Calling) <= Len(wire)
    BY DEF CountInv
  <2>2. IsFiniteSet(Calling') /\ Cardinality(Calling') = Cardinality(Calling) + 1
    BY <1>4, <2>1, FS_AddElement
  <2>3. Cardinality(Calling) \in Nat /\ Len(done) \in Nat
    BY <2>1, FS_CardinalityType DEF Shape, Chunks
  <2> QED BY <1>2, <1>3, <2>1, <2>2, <2>3 DEF CountInv
<1>7. TypeOK'
  <2>1. wire' \in Seq(Senders \X Seq(Byte))
    BY <1>3 DEF Chunks
  <2>2. uart_open' \in BOOLEAN /\ torn' \subseteq Senders
    BY <1>2 DEF TypeOK
  <2>3. mixed' \in BOOLEAN
    BY <1>2
  <2>4. Len(done') <= Len(wire')
    BY <1>2, <1>3 DEF TypeOK, Shape, Chunks
  <2>5. ASSUME NEW s \in Senders
        PROVE  /\ raw_packet'[s] \in Seq(Byte) /\ Len(raw_packet'[s]) <= MAX_PACKET_LENGTH
               /\ pos'[s] \in 0 .. Len(raw_packet'[s])
               /\ pos'[s] = Len(raw_packet'[s]) => raw_packet'[s] = <<>>
               /\ result'[s] \in {"NONE", "NO_ERROR", "BAD_COMMUNICATION"}
               /\ IsPacket(last_packet'[s])
    <3>1. CASE s = u
      <4>1. pos[u] = 0
        BY <1>2 DEF TypeOK
      <4>2. raw_packet'[u] = F /\ pos'[u] = 0 /\ result'[u] = "NONE" /\ last_packet'[u] = p
        BY <1>2, <4>1 DEF Shape
      <4>3. IsPacket(p)
        BY DEF IsFrame
      <4> QED BY <1>1, <3>1, <4>2, <4>3
    <3>2. CASE s # u
      <4>1. raw_packet'[s] = raw_packet[s] /\ pos'[s] = pos[s] /\ result'[s] = result[s]
            /\ last_packet'[s] = last_packet[s]
        BY <1>2, <3>2 DEF Shape
      <4> QED BY <4>1 DEF TypeOK
    <3> QED BY <3>1, <3>2
  <2> QED BY <2>1, <2>2, <2>3, <2>4, <2>5 DEF TypeOK
<1> QED BY <1>4, <1>5, <1>6, <1>7

(* A call has put nothing on the line yet. *)
LEMMA CallSent ==
  ASSUME TypeOK, Shape, SentInv, NEW u \in Senders, NEW p, NEW b, IsFrame(p, SendFrame(p, b)),
         Call(u, p, b)
  PROVE  SentInv'
<1>1. PICK F \in Seq(Byte) : F = SendFrame(p, b) /\ F # <<>> /\ (NoEmptyPayload => F = RadioFrame(p))
  BY DEF IsFrame
<1>2. /\ raw_packet[u] = <<>>
      /\ raw_packet' = [raw_packet EXCEPT ![u] = F]
      /\ last_packet' = [last_packet EXCEPT ![u] = p]
      /\ result' = [result EXCEPT ![u] = "NONE"]
      /\ wire' = Append(wire, <<u, <<>>>>)
      /\ pos' = pos
  BY <1>1 DEF Call
<1>3. PICK n \in Nat : n = Len(wire)
  BY DEF TypeOK
<1>4. /\ wire' \in Chunks(Senders, Byte)
      /\ \A i \in 1 .. n : wire'[i] = wire[i]
      /\ wire'[n + 1] = <<u, <<>>>>
      /\ IsLast(wire', u, n + 1)
      /\ \A s, k : s # u => (IsLast(wire', s, k) <=> IsLast(wire, s, k))
  <2>1. wire \in Chunks(Senders, Byte)
    BY DEF TypeOK, Chunks
  <2> QED BY <1>2, <1>3, <2>1, LastOfMore
<1>5. ASSUME NEW s \in Senders
      PROVE  /\ (s \in Calling)' \/ result'[s] = "NO_ERROR" => \E k : IsLast(wire', s, k)
             /\ (s \in Calling)' =>
                  /\ result'[s] = "NONE"
                  /\ NoEmptyPayload => raw_packet'[s] = RadioFrame(last_packet'[s])
             /\ \A k : IsLast(wire', s, k) =>
                  /\ (s \in Calling)' => wire'[k][2] = SubSeq(raw_packet'[s], 1, pos'[s])
                  /\ result'[s] = "NO_ERROR" /\ NoEmptyPayload => wire'[k][2] = RadioFrame(last_packet'[s])
  <2>1. CASE s = u
    <3>1. raw_packet'[u] = F /\ pos'[u] = 0 /\ result'[u] = "NONE" /\ last_packet'[u] = p
      <4>1. pos[u] = 0
        BY <1>2 DEF TypeOK
      <4> QED BY <1>2, <4>1 DEF Shape
    <3>2. SubSeq(F, 1, 0) = <<>>
      OBVIOUS
    <3>3. ASSUME NEW k, IsLast(wire', u, k) PROVE wire'[k][2] = <<>>
      <4>1. k = n + 1
        BY <1>4, <3>3, LastUnique
      <4> QED BY <1>4, <4>1
    <3> QED BY <1>1, <1>4, <2>1, <3>1, <3>2, <3>3
  <2>2. CASE s # u
    <3>1. raw_packet'[s] = raw_packet[s] /\ pos'[s] = pos[s] /\ result'[s] = result[s]
          /\ last_packet'[s] = last_packet[s]
      BY <1>2, <2>2 DEF Shape
    <3>2. (s \in Calling)' <=> s \in Calling
      BY <3>1 DEF Calling
    <3>3. \A k : IsLast(wire', s, k) => IsLast(wire, s, k) /\ wire'[k] = wire[k]
      <4>1. DOMAIN wire = 1 .. n
        BY <1>3 DEF TypeOK
      <4> QED BY <1>4, <2>2, <4>1 DEF IsLast
    <3>4. (\E k : IsLast(wire, s, k)) => \E k : IsLast(wire', s, k)
      BY <1>4, <2>2
    <3> QED BY <3>1, <3>2, <3>3, <3>4 DEF SentInv
  <2> QED BY <2>1, <2>2
<1> QED BY <1>5 DEF SentInv

(* A call of one of the senders begins behind bytes that parse; a call of
   another does not matter. *)
LEMMA CallParse ==
  ASSUME TypeOK, Shape, CountInv, NEW u \in Senders, NEW p, NEW b, IsFrame(p, SendFrame(p, b)),
         Call(u, p, b),
         NEW S, ParseInv(S), u \in S => S \cap Calling = {}
  PROVE  ParseInv(S)'
<1>1. u \notin Calling /\ Calling' = Calling \cup {u}
  BY CallTypes
<1>2. wire' = Append(wire, <<u, <<>>>>) /\ done' = done /\ torn' = torn
  BY DEF Call
<1>3. wire \in Chunks(Senders, Byte)
  BY DEF TypeOK, Chunks
<1>4. PICK n \in Nat : n = Len(wire)
  BY DEF TypeOK
<1>5. /\ wire' \in Chunks(Senders, Byte) /\ Len(wire') = n + 1
      /\ \A i \in 1 .. n : wire'[i] = wire[i]
      /\ wire'[n + 1] = <<u, <<>>>>
      /\ IsLast(wire', u, n + 1)
      /\ \A s, k : s # u => (IsLast(wire', s, k) <=> IsLast(wire, s, k))
  BY <1>2, <1>3, <1>4, LastOfMore, ZenonT(30)
<1>6. PICK nothing \in Seq(Byte) : nothing = <<>>
  BY EmptySeq, Zenon
<1>7. /\ u \notin S => Of(S, wire') = Of(S, wire)
      /\ \A k \in 0 .. n : Laid(S, wire')[k] = Laid(S, wire)[k]
  <2>1. /\ Of(S, Append(wire, <<u, nothing>>)) = LayDown(S, Of(S, wire), <<u, nothing>>)
        /\ \A k \in 0 .. Len(wire) : Laid(S, Append(wire, <<u, nothing>>))[k] = Laid(S, wire)[k]
    BY <1>3, OfAppend
  <2>2. u \notin S => LayDown(S, Of(S, wire), <<u, nothing>>) = Of(S, wire)
    BY DEF LayDown
  <2> QED BY <1>2, <1>4, <1>6, <2>1, <2>2
<1> SUFFICES ASSUME S \cap torn = {}
             PROVE  \/ /\ S \cap Calling' = {}
                       /\ ParsesTo(Of(S, wire'), Of(S, done))
                    \/ \E s \in S, k \in 1 .. n + 1 :
                         /\ S \cap Calling' = {s}
                         /\ IsLast(wire', s, k)
                         /\ \A j \in k + 1 .. n + 1 : wire'[j][1] \notin S
                         /\ ParsesTo(Laid(S, wire')[k - 1], Of(S, done))
  BY <1>2, <1>5 DEF ParseInv
<1>8. CASE u \notin S
  <2>1. S \cap Calling' = S \cap Calling
    BY <1>1, <1>8
  <2>2. CASE S \cap Calling = {} /\ ParsesTo(Of(S, wire), Of(S, done))
    BY <1>7, <1>8, <2>1, <2>2
  <2>3. CASE \E s \in S, k \in 1 .. n :
               /\ S \cap Calling = {s} /\ IsLast(wire, s, k)
               /\ \A j \in k + 1 .. n : wire[j][1] \notin S
               /\ ParsesTo(Laid(S, wire)[k - 1], Of(S, done))
    <3>1. PICK s \in S, k \in 1 .. n :
               /\ S \cap Calling = {s} /\ IsLast(wire, s, k)
               /\ \A j \in k + 1 .. n : wire[j][1] \notin S
               /\ ParsesTo(Laid(S, wire)[k - 1], Of(S, done))
      BY <2>3
    <3>2. IsLast(wire', s, k)
      BY <1>5, <1>8, <3>1
    <3>3. \A j \in k + 1 .. n + 1 : wire'[j][1] \notin S
      BY <1>5, <1>8, <3>1
    <3>4. Laid(S, wire')[k - 1] = Laid(S, wire)[k - 1]
      BY <1>7
    <3>5. k \in 1 .. n + 1
      OBVIOUS
    <3> QED BY <2>1, <3>1, <3>2, <3>3, <3>4, <3>5
  <2> QED BY <1>4, <2>2, <2>3 DEF ParseInv
<1>9. CASE u \in S
  <2>1. S \cap Calling = {} /\ S \cap Calling' = {u}
    BY <1>1, <1>9
  <2>2. ParsesTo(Of(S, wire), Of(S, done))
    BY <2>1 DEF ParseInv
  <2>3. Laid(S, wire')[n] = Of(S, wire)
    <3>1. n \in 0 .. n
      OBVIOUS
    <3> QED BY <1>4, <1>7, <3>1, OfIsLaid
  <2>4. n + 1 \in 1 .. n + 1 /\ (n + 1) - 1 = n
    OBVIOUS
  <2>5. \A j \in (n + 1) + 1 .. n + 1 : wire'[j][1] \notin S
    OBVIOUS
  <2> QED BY <1>5, <1>9, <2>1, <2>2, <2>3, <2>4, <2>5
<1> QED BY <1>8, <1>9

(* A call keeps the invariant: when it overlaps another, mixed says so. *)
LEMMA CallInv ==
  ASSUME IInv, NEW u \in Senders, NEW p, NEW b, IsFrame(p, SendFrame(p, b)), Call(u, p, b)
  PROVE  IInv'
<1>1. TypeOK /\ Shape /\ CountInv /\ SentInv
  BY DEF IInv
<1>2. TypeOK' /\ Shape' /\ CountInv' /\ SentInv' /\ u \notin Calling
  BY <1>1, CallTypes, CallSent
<1>3. ASSUME NoEmptyPayload, NEW s \in Senders PROVE ParseInv({s})'
  <2>1. ParseInv({s})
    BY <1>3 DEF IInv
  <2>2. u \in {s} => {s} \cap Calling = {}
    BY <1>2
  <2> QED BY <1>1, <2>1, <2>2, CallParse
<1>4. ASSUME NoEmptyPayload, ~mixed' PROVE ParseInv(Senders)'
  <2>1. ~mixed /\ Calling = {}
    BY <1>4 DEF Call
  <2>2. ParseInv(Senders)
    BY <1>4, <2>1 DEF IInv
  <2> QED BY <1>1, <2>1, <2>2, CallParse
<1> QED BY <1>2, <1>3, <1>4 DEF IInv

-----------------------------------------------------------------------------
(* A turn of the loop of uart_write_bytes.                                 *)

\* The channel is closed.
Fails(s) ==
  /\ Return(s, "BAD_COMMUNICATION")
  /\ torn' = IF pos[s] > 0 THEN torn \cup {s} ELSE torn
  /\ wire' = wire /\ done' = done

\* One byte more of the frame is on the line, in call k.
PutsNext(s, k) ==
  /\ wire' = [wire EXCEPT ![k] = <<s, SubSeq(raw_packet[s], 1, pos[s] + 1)>>]
  /\ torn' = torn
  /\ Written(s)

(* A pair with another second component. *)
LEMMA OtherChunk ==
  ASSUME NEW pair \in Senders \X Seq(Byte), NEW x
  PROVE  [pair EXCEPT ![2] = x] = <<pair[1], x>>
OBVIOUS

(* What the turn does, and that there is a byte to write. *)
LEMMA WriteByteEffect ==
  ASSUME TypeOK, Shape, SentInv, NEW u \in Senders, WriteByte(u)
  PROVE  /\ u \in Calling /\ pos[u] < Len(raw_packet[u])
         /\ last_packet' = last_packet /\ uart_open' = uart_open /\ mixed' = mixed
         /\ \E k \in 1 .. Len(wire) :
              /\ IsLast(wire, u, k)
              /\ wire[k] \in Senders \X Seq(Byte) /\ wire[k][1] = u
              /\ Fails(u) \/ PutsNext(u, k)
<1>1. u \in Calling
  BY DEF WriteByte, Calling
<1>2. raw_packet[u] \in Seq(Byte) /\ pos[u] \in Nat /\ pos[u] < Len(raw_packet[u])
  <2>1. /\ raw_packet[u] \in Seq(Byte) /\ pos[u] \in 0 .. Len(raw_packet[u])
        /\ pos[u] # Len(raw_packet[u])
    BY <1>1 DEF TypeOK, Calling
  <2> QED BY <2>1
<1>3. last_packet' = last_packet /\ uart_open' = uart_open /\ mixed' = mixed
  BY DEF WriteByte
<1>4. wire \in Chunks(Senders, Byte) /\ DOMAIN wire = 1 .. Len(wire)
  BY DEF TypeOK, Chunks
<1>5. PICK k : IsLast(wire, u, k)
  BY <1>1 DEF SentInv
<1>6. k \in 1 .. Len(wire) /\ wire[k] \in Senders \X Seq(Byte) /\ wire[k][1] = u
  <2>1. k \in 1 .. Len(wire) /\ wire[k][1] = u
    BY <1>4, <1>5 DEF IsLast
  <2> QED BY <1>4, <2>1, ElementOfSeq DEF Chunks
<1>7. LastCall(u) = k
  BY <1>4, <1>5, LastCallIsLast, Zenon DEF LastCall
<1>8. CASE ~uart_open
  <2>1. Fails(u)
    BY <1>8 DEF WriteByte, Fails
  <2> QED BY <1>1, <1>2, <1>3, <1>5, <1>6, <2>1
<1>9. CASE uart_open
  <2>1. Puts(u) /\ Written(u) /\ torn' = torn
    BY <1>9 DEF WriteByte
  <2>2. PICK d \in Nat : d = pos[u] /\ d < Len(raw_packet[u])
    BY <1>2
  <2>3. wire[k][2] = SubSeq(raw_packet[u], 1, d)
    BY <1>1, <1>5, <2>2 DEF SentInv
  <2>4. Append(wire[k][2], raw_packet[u][d + 1]) = SubSeq(raw_packet[u], 1, d + 1)
    BY <1>2, <2>2, <2>3, PrefixGrows
  <2>5. wire' = [wire EXCEPT ![k] = [wire[k] EXCEPT ![2] = Append(wire[k][2], raw_packet[u][d + 1])]]
    BY <1>7, <2>1, <2>2 DEF Puts
  <2>6. [wire[k] EXCEPT ![2] = Append(wire[k][2], raw_packet[u][d + 1])] =
          <<u, SubSeq(raw_packet[u], 1, d + 1)>>
    BY <1>6, <2>4, OtherChunk, SMTT(30)
  <2>7. PutsNext(u, k)
    BY <2>1, <2>2, <2>5, <2>6 DEF PutsNext
  <2> QED BY <1>1, <1>2, <1>3, <1>5, <1>6, <2>7
<1> QED BY <1>8, <1>9

(* After the turn the call has returned, with the channel closed or its whole
   frame written, or has one byte less to write. *)
LEMMA WriteByteCases ==
  ASSUME TypeOK, Shape, SentInv, NEW u \in Senders, WriteByte(u)
  PROVE  /\ \/ /\ Fails(u)
               /\ Calling' = Calling \ {u} /\ result'[u] = "BAD_COMMUNICATION" /\ done' = done
            \/ /\ \E k \in 1 .. Len(wire) : PutsNext(u, k)
               /\ pos[u] + 1 = Len(raw_packet[u])
               /\ Calling' = Calling \ {u} /\ result'[u] = "NO_ERROR"
               /\ done' = Append(done, <<u, <<last_packet[u]>>>>)
            \/ /\ \E k \in 1 .. Len(wire) : PutsNext(u, k)
               /\ pos[u] + 1 < Len(raw_packet[u])
               /\ Calling' = Calling /\ raw_packet' = raw_packet /\ result' = result
               /\ pos'[u] = pos[u] + 1 /\ done' = done
         /\ u \in Calling' \/ (raw_packet'[u] = <<>> /\ pos'[u] = 0)
         /\ raw_packet' \in [Senders -> Seq(Byte)] /\ pos' \in [Senders -> Nat]
         /\ result' \in [Senders -> {"NONE", "NO_ERROR", "BAD_COMMUNICATION"}]
         /\ \A s \in Senders : s # u =>
              /\ raw_packet'[s] = raw_packet[s] /\ pos'[s] = pos[s] /\ result'[s] = result[s]
              /\ s \in Calling' <=> s \in Calling
<1>1. /\ u \in Calling /\ pos[u] < Len(raw_packet[u])
      /\ \E k \in 1 .. Len(wire) : Fails(u) \/ PutsNext(u, k)
  BY WriteByteEffect
<1>2. raw_packet[u] \in Seq(Byte) /\ pos[u] \in Nat /\ raw_packet[u] # <<>>
  BY <1>1 DEF Shape, Calling
<1>3. ASSUME NEW x \in {"NO_ERROR", "BAD_COMMUNICATION"}, Return(u, x)
      PROVE  /\ raw_packet'[u] = <<>> /\ pos'[u] = 0 /\ result'[u] = x
             /\ Calling' = Calling \ {u}
             /\ raw_packet' \in [Senders -> Seq(Byte)] /\ pos' \in [Senders -> Nat]
             /\ result' \in [Senders -> {"NONE", "NO_ERROR", "BAD_COMMUNICATION"}]
             /\ \A s \in Senders : s # u =>
                  /\ raw_packet'[s] = raw_packet[s] /\ pos'[s] = pos[s] /\ result'[s] = result[s]
                  /\ s \in Calling' <=> s \in Calling
  <2>1. /\ raw_packet' = [raw_packet EXCEPT ![u] = <<>>]
        /\ pos' = [pos EXCEPT ![u] = 0]
        /\ result' = [result EXCEPT ![u] = x]
    BY <1>3 DEF Return
  <2>2. <<>> \in Seq(Byte)
    BY EmptySeq
  <2>3. raw_packet'[u] = <<>> /\ pos'[u] = 0 /\ result'[u] = x
    BY <2>1 DEF Shape
  <2>4. raw_packet' \in [Senders -> Seq(Byte)] /\ pos' \in [Senders -> Nat]
    BY <2>1, <2>2 DEF Shape
  <2>5. result' \in [Senders -> {"NONE", "NO_ERROR", "BAD_COMMUNICATION"}]
    BY <2>1 DEF Shape
  <2>6. \A s \in Senders : s # u =>
          raw_packet'[s] = raw_packet[s] /\ pos'[s] = pos[s] /\ result'[s] = result[s]
    BY <2>1 DEF Shape
  <2>7. Calling' = Calling \ {u}
    BY <2>3, <2>6 DEF Calling
  <2> QED BY <2>3, <2>4, <2>5, <2>6, <2>7
<1>4. CASE Fails(u)
  BY <1>3, <1>4 DEF Fails
<1>5. CASE \E k \in 1 .. Len(wire) : PutsNext(u, k)
  <2>1. Written(u)
    BY <1>5 DEF PutsNext
  <2>2. CASE pos[u] + 1 = Len(raw_packet[u])
    <3>1. Return(u, "NO_ERROR") /\ done' = Append(done, <<u, <<last_packet[u]>>>>)
      BY <2>1, <2>2 DEF Written
    <3> QED BY <1>3, <1>5, <2>2, <3>1
  <2>3. CASE pos[u] + 1 # Len(raw_packet[u])
    <3>1. /\ pos' = [pos EXCEPT ![u] = pos[u] + 1]
          /\ raw_packet' = raw_packet /\ result' = result /\ done' = done
      BY <2>1, <2>3 DEF Written
    <3>2. pos[u] + 1 < Len(raw_packet[u])
      <4>1. Len(raw_packet[u]) \in Nat
        BY <1>2
      <4> QED BY <1>1, <1>2, <2>3, <4>1
    <3>3. Calling' = Calling
      BY <3>1 DEF Calling
    <3>4. pos'[u] = pos[u] + 1 /\ pos' \in [Senders -> Nat]
      BY <1>2, <3>1 DEF Shape
    <3>5. \A s \in Senders : s # u => pos'[s] = pos[s]
      BY <3>1 DEF Shape
    <3>6. /\ raw_packet' \in [Senders -> Seq(Byte)]
          /\ result' \in [Senders -> {"NONE", "NO_ERROR", "BAD_COMMUNICATION"}]
      BY <3>1 DEF Shape
    <3> QED BY <1>1, <1>5, <3>1, <3>2, <3>3, <3>4, <3>5, <3>6
  <2> QED BY <2>2, <2>3
<1> QED BY <1>1, <1>4, <1>5

(* The calls stay where they are in wire, and but for call k as they are. *)
LEMMA WriteByteWire ==
  ASSUME TypeOK, Shape, NEW u \in Senders, u \in Calling, pos[u] < Len(raw_packet[u]),
         NEW k \in 1 .. Len(wire), wire[k][1] = u, Fails(u) \/ PutsNext(u, k)
  PROVE  /\ wire' \in Chunks(Senders, Byte) /\ Len(wire') = Len(wire)
         /\ \A i \in 1 .. Len(wire) : i # k => wire'[i] = wire[i]
         /\ wire'[k][1] = u
         /\ \A s, i : IsLast(wire', s, i) <=> IsLast(wire, s, i)
         /\ PutsNext(u, k) => wire'[k][2] = SubSeq(raw_packet[u], 1, pos[u] + 1)
<1>1. wire \in Chunks(Senders, Byte) /\ DOMAIN wire = 1 .. Len(wire)
  BY DEF TypeOK, Chunks
<1>2. CASE PutsNext(u, k)
  <2>1. PICK chunk : chunk = SubSeq(raw_packet[u], 1, pos[u] + 1)
    OBVIOUS
  <2>2. chunk \in Seq(Byte)
    <3>1. PICK first \in Nat, last \in Nat : first = 1 /\ 1 <= first /\ last = pos[u] + 1
      <4>1. pos[u] \in Nat
        BY DEF Shape
      <4>2. pos[u] + 1 \in Nat
        BY <4>1
      <4> QED BY <4>2, SMTT(30)
    <3>2. raw_packet[u] \in Seq(Byte) /\ last <= Len(raw_packet[u])
      <4>1. raw_packet[u] \in Seq(Byte) /\ pos[u] \in Nat
        BY DEF Shape
      <4> QED BY <3>1, <4>1
    <3>3. SubSeq(raw_packet[u], first, last) \in Seq(Byte)
      BY <3>1, <3>2, SliceType
    <3> QED BY <2>1, <3>1, <3>3
  <2>3. IsLonger(wire', wire, k, u, chunk)
    BY <1>2, <2>1 DEF PutsNext, IsLonger
  <2>4. /\ wire' \in Chunks(Senders, Byte) /\ Len(wire') = Len(wire)
        /\ wire'[k] = <<u, chunk>>
        /\ \A i \in 1 .. Len(wire) : i # k => wire'[i] = wire[i]
        /\ \A s, i : IsLast(wire', s, i) <=> IsLast(wire, s, i)
    BY <1>1, <2>2, <2>3, LastOfLonger
  <2>5. wire'[k][1] = u /\ wire'[k][2] = chunk
    BY <2>4
  <2> QED BY <2>1, <2>4, <2>5, Zenon
<1>3. CASE Fails(u) /\ ~PutsNext(u, k)
  <2>1. wire' = wire
    BY <1>3 DEF Fails
  <2> QED BY <1>1, <1>3, <2>1
<1> QED BY <1>2, <1>3

(* What a turn leaves is of the right types. *)
LEMMA WriteByteTypes ==
  ASSUME TypeOK, Shape, CountInv, SentInv, NEW u \in Senders, WriteByte(u)
  PROVE  TypeOK' /\ Shape' /\ CountInv'
<1>1. PICK k \in 1 .. Len(wire) :
         /\ u \in Calling /\ pos[u] < Len(raw_packet[u])
         /\ last_packet' = last_packet /\ uart_open' = uart_open /\ mixed' = mixed
         /\ IsLast(wire, u, k) /\ wire[k][1] = u /\ (Fails(u) \/ PutsNext(u, k))
  BY WriteByteEffect
<1>2. wire' \in Chunks(Senders, Byte) /\ Len(wire') = Len(wire) /\ Len(wire) \in Nat
  BY <1>1, WriteByteWire DEF TypeOK
<1>3. /\ raw_packet' \in [Senders -> Seq(Byte)] /\ pos' \in [Senders -> Nat]
      /\ result' \in [Senders -> {"NONE", "NO_ERROR", "BAD_COMMUNICATION"}]
  BY WriteByteCases
<1>4. \/ Calling' = Calling \ {u} /\ done' = done
      \/ Calling' = Calling \ {u} /\ done' = Append(done, <<u, <<last_packet[u]>>>>)
      \/ Calling' = Calling /\ done' = done
  BY WriteByteCases, Zenon
<1>5. done \in Chunks(Senders, ParsedPacket) /\ Len(done) \in Nat
  BY DEF Shape, Chunks
<1>6. ASSUME done' = Append(done, <<u, <<last_packet[u]>>>>)
      PROVE  done' \in Chunks(Senders, ParsedPacket) /\ Len(done') = Len(done) + 1
  <2>1. IsPacket(last_packet[u])
    BY DEF TypeOK
  <2>2. <<last_packet[u]>> \in Seq(ParsedPacket)
    BY <2>1, PacketIsParsed
  <2>3. PICK pair \in Senders \X Seq(ParsedPacket) : pair = <<u, <<last_packet[u]>>>>
    BY <2>2, Zenon
  <2> QED BY <1>5, <1>6, <2>3, AppendProperties DEF Chunks
<1>7. Shape'
  <2>1. done' \in Chunks(Senders, ParsedPacket)
    BY <1>4, <1>5, <1>6
  <2>2. DOMAIN last_packet' = Senders
    BY <1>1 DEF Shape
  <2> QED BY <1>3, <2>1, <2>2 DEF Shape
<1>8. IsFiniteSet(Calling) /\ Len(done) + Cardinality(Calling) <= Len(wire) /\ Cardinality(Calling) \in Nat
  BY FS_CardinalityType DEF CountInv
<1>9. /\ IsFiniteSet(Calling \ {u})
      /\ Cardinality(Calling \ {u}) = Cardinality(Calling) - 1
  BY <1>1, <1>8, FS_RemoveElement
<1>10. CountInv'
  <2>1. CASE Calling' = Calling \ {u} /\ done' = done
    BY <1>2, <1>5, <1>8, <1>9, <2>1 DEF CountInv
  <2>2. CASE Calling' = Calling \ {u} /\ done' = Append(done, <<u, <<last_packet[u]>>>>)
    BY <1>2, <1>5, <1>6, <1>8, <1>9, <2>2 DEF CountInv
  <2>3. CASE Calling' = Calling /\ done' = done
    BY <1>2, <1>5, <1>8, <2>3 DEF CountInv
  <2> QED BY <1>4, <2>1, <2>2, <2>3
<1>11. TypeOK'
  <2>1. wire' \in Seq(Senders \X Seq(Byte))
    BY <1>2 DEF Chunks
  <2>2. uart_open' \in BOOLEAN /\ mixed' \in BOOLEAN
    BY <1>1 DEF TypeOK
  <2>3. torn' \subseteq Senders
    BY <1>1 DEF TypeOK, Fails, PutsNext
  <2>4. Len(done') <= Len(wire')
    <3>1. Len(done') \in Nat /\ Cardinality(Calling') \in Nat
      BY <1>7, <1>10, FS_CardinalityType DEF Shape, Chunks, CountInv
    <3> QED BY <1>2, <1>10, <3>1 DEF CountInv
  <2>5. ASSUME NEW s \in Senders
        PROVE  /\ raw_packet'[s] \in Seq(Byte) /\ Len(raw_packet'[s]) <= MAX_PACKET_LENGTH
               /\ pos'[s] \in 0 .. Len(raw_packet'[s])
               /\ pos'[s] = Len(raw_packet'[s]) => raw_packet'[s] = <<>>
               /\ result'[s] \in {"NONE", "NO_ERROR", "BAD_COMMUNICATION"}
               /\ IsPacket(last_packet'[s])
    <3>1. result'[s] \in {"NONE", "NO_ERROR", "BAD_COMMUNICATION"}
      BY <1>3
    <3>2. IsPacket(last_packet'[s])
      BY <1>1 DEF TypeOK
    <3>3. CASE s # u
      <4>1. raw_packet'[s] = raw_packet[s] /\ pos'[s] = pos[s]
        BY <3>3, WriteByteCases
      <4> QED BY <3>1, <3>2, <4>1 DEF TypeOK
    <3>4. CASE s = u /\ raw_packet'[u] = <<>> /\ pos'[u] = 0
      <4>1. <<>> \in Seq(Byte) /\ Len(<<>>) = 0 /\ 0 \in 0 .. 0
        OBVIOUS
      <4>2. 0 <= MAX_PACKET_LENGTH
        BY Sizes DEF MAX_PACKET_LENGTH, MAX_PAYLOAD_LENGTH, CHECKSUM_LENGTH
      <4> QED BY <3>1, <3>2, <3>4, <4>1, <4>2, Zenon
    <3>5. CASE s = u /\ u \in Calling'
      <4>1. raw_packet'[u] = raw_packet[u] /\ pos'[u] = pos[u] + 1 /\ pos[u] + 1 < Len(raw_packet[u])
        <5>1. u \notin Calling \ {u}
          OBVIOUS
        <5>2. pos[u] + 1 < Len(raw_packet[u]) /\ raw_packet' = raw_packet /\ pos'[u] = pos[u] + 1
          BY <3>5, <5>1, WriteByteCases, Zenon
        <5> QED BY <5>2
      <4>2. raw_packet[u] \in Seq(Byte) /\ pos[u] \in Nat /\ Len(raw_packet[u]) <= MAX_PACKET_LENGTH
        BY DEF TypeOK, Shape
      <4>3. pos[u] + 1 \in 0 .. Len(raw_packet[u]) /\ pos[u] + 1 # Len(raw_packet[u])
        BY <4>1, <4>2
      <4> QED BY <3>1, <3>2, <3>5, <4>1, <4>2, <4>3, Zenon
    <3> QED BY <3>3, <3>4, <3>5, WriteByteCases, Zenon
  <2> QED BY <2>1, <2>2, <2>3, <2>4, <2>5 DEF TypeOK
<1> QED BY <1>7, <1>10, <1>11

(* A turn keeps what is on the line in step with what was written. *)
LEMMA WriteByteSent ==
  ASSUME TypeOK, Shape, SentInv, NEW u \in Senders, WriteByte(u)
  PROVE  SentInv'
<1>1. PICK k \in 1 .. Len(wire) :
         /\ u \in Calling /\ pos[u] < Len(raw_packet[u])
         /\ last_packet' = last_packet
         /\ IsLast(wire, u, k) /\ wire[k][1] = u /\ (Fails(u) \/ PutsNext(u, k))
  BY WriteByteEffect
<1>2. /\ wire' \in Chunks(Senders, Byte)
      /\ \A i \in 1 .. Len(wire) : i # k => wire'[i] = wire[i]
      /\ \A s, i : IsLast(wire', s, i) <=> IsLast(wire, s, i)
      /\ PutsNext(u, k) => wire'[k][2] = SubSeq(raw_packet[u], 1, pos[u] + 1)
  BY <1>1, WriteByteWire
<1>3. raw_packet[u] \in Seq(Byte) /\ SubSeq(raw_packet[u], 1, Len(raw_packet[u])) = raw_packet[u]
  BY WholeSlice DEF Shape
<1>4. wire \in Chunks(Senders, Byte) /\ DOMAIN wire = 1 .. Len(wire)
  BY DEF TypeOK, Chunks
<1>5. ASSUME NEW s \in Senders
      PROVE  /\ (s \in Calling)' \/ result'[s] = "NO_ERROR" => \E i : IsLast(wire', s, i)
             /\ (s \in Calling)' =>
                  /\ result'[s] = "NONE"
                  /\ NoEmptyPayload => raw_packet'[s] = RadioFrame(last_packet'[s])
             /\ \A i : IsLast(wire', s, i) =>
                  /\ (s \in Calling)' => wire'[i][2] = SubSeq(raw_packet'[s], 1, pos'[s])
                  /\ result'[s] = "NO_ERROR" /\ NoEmptyPayload => wire'[i][2] = RadioFrame(last_packet'[s])
  <2>1. CASE s # u
    <3>1. /\ raw_packet'[s] = raw_packet[s] /\ pos'[s] = pos[s] /\ result'[s] = result[s]
          /\ s \in Calling' <=> s \in Calling
      BY <2>1, WriteByteCases
    <3>2. ASSUME NEW i, IsLast(wire', s, i) PROVE IsLast(wire, s, i) /\ wire'[i] = wire[i]
      <4>1. IsLast(wire, s, i)
        BY <1>2, <3>2
      <4>2. i # k /\ i \in 1 .. Len(wire)
        BY <1>1, <1>4, <2>1, <4>1 DEF IsLast
      <4> QED BY <1>2, <4>1, <4>2
    <3>3. (\E i : IsLast(wire, s, i)) => \E i : IsLast(wire', s, i)
      BY <1>2
    <3>4. last_packet'[s] = last_packet[s]
      BY <1>1
    <3> QED BY <3>1, <3>2, <3>3, <3>4 DEF SentInv
  <2>2. CASE s = u
    <3>1. IsLast(wire', u, k)
      BY <1>1, <1>2
    <3>2. \A i : IsLast(wire', u, i) => i = k
      BY <1>2, <3>1, LastUnique
    <3>3. result[u] = "NONE" /\ (NoEmptyPayload => raw_packet[u] = RadioFrame(last_packet[u]))
      BY <1>1 DEF SentInv
    <3>4. ASSUME NEW i \in 1 .. Len(wire), PutsNext(u, i) PROVE PutsNext(u, k)
      <4>1. CASE Fails(u)
        <5>1. result'[u] = "BAD_COMMUNICATION" /\ raw_packet'[u] = <<>>
          BY <4>1 DEF Fails, Return, Shape
        <5>2. ~Written(u)
          <6>1. Written(u) => result'[u] = "NO_ERROR" \/ raw_packet' = raw_packet
            BY DEF Written, Return, Shape
          <6>2. raw_packet[u] # <<>>
            BY <1>1 DEF Calling
          <6> QED BY <5>1, <6>1, <6>2
        <5> QED BY <3>4, <5>2 DEF PutsNext
      <4> QED BY <1>1, <4>1
    <3>5. u \notin Calling \ {u}
      OBVIOUS
    <3>6. CASE u \notin Calling' /\ result'[u] = "BAD_COMMUNICATION"
      BY <2>2, <3>6
    <3>7. CASE /\ PutsNext(u, k) /\ pos[u] + 1 = Len(raw_packet[u])
               /\ u \notin Calling' /\ result'[u] = "NO_ERROR"
      <4>1. wire'[k][2] = raw_packet[u]
        BY <1>2, <1>3, <3>7
      <4> QED BY <1>1, <2>2, <3>1, <3>2, <3>3, <3>7, <4>1
    <3>8. CASE /\ PutsNext(u, k)
               /\ u \in Calling' /\ raw_packet' = raw_packet /\ result' = result
               /\ pos'[u] = pos[u] + 1
      BY <1>1, <1>2, <2>2, <3>1, <3>2, <3>3, <3>8
    <3> QED BY <1>1, <3>4, <3>5, <3>6, <3>7, <3>8, WriteByteCases, Zenon
  <2> QED BY <2>1, <2>2
<1> QED BY <1>5 DEF SentInv

(* A turn of another sender changes nothing of what these have sent. *)
LEMMA OthersByteParse ==
  ASSUME TypeOK, Shape, SentInv, NEW u \in Senders, WriteByte(u),
         NEW S, ParseInv(S), u \notin S
  PROVE  ParseInv(S)'
<1>1. PICK k \in 1 .. Len(wire) :
         /\ u \in Calling /\ pos[u] < Len(raw_packet[u])
         /\ wire[k][1] = u /\ (Fails(u) \/ PutsNext(u, k))
  BY WriteByteEffect
<1>2. PICK n \in Nat : n = Len(wire)
  BY DEF TypeOK
<1>3. wire \in Chunks(Senders, Byte)
  BY DEF TypeOK, Chunks
<1>4. /\ wire' \in Chunks(Senders, Byte) /\ Len(wire') = n
      /\ \A i \in 1 .. n : i # k => wire'[i] = wire[i]
      /\ wire'[k][1] = u
      /\ \A s, i : IsLast(wire', s, i) <=> IsLast(wire, s, i)
  BY <1>1, <1>2, WriteByteWire
<1>5. ASSUME NEW i \in 0 .. n PROVE Laid(S, wire')[i] = Laid(S, wire)[i]
  <2>1. Agree(S, wire', wire, i)
    BY <1>1, <1>4 DEF Agree
  <2>2. i \in Nat /\ i <= Len(wire') /\ i <= Len(wire)
    BY <1>2, <1>4
  <2> QED BY <1>3, <1>4, <2>1, <2>2, LaidAgrees
<1>6. Of(S, wire') = Of(S, wire)
  <2>1. n \in 0 .. n
    OBVIOUS
  <2> QED BY <1>2, <1>4, <1>5, <2>1, OfIsLaid
<1>7. Of(S, done') = Of(S, done)
  <2>1. CASE done' = done
    BY <2>1
  <2>2. CASE done' = Append(done, <<u, <<last_packet[u]>>>>)
    <3>1. IsPacket(last_packet[u])
      BY DEF TypeOK
    <3>2. PICK x \in Seq(ParsedPacket) : x = <<last_packet[u]>>
      BY <3>1, PacketIsParsed, Zenon
    <3>3. done \in Chunks(Senders, ParsedPacket)
      BY DEF Shape
    <3>4. Of(S, Append(done, <<u, x>>)) = LayDown(S, Of(S, done), <<u, x>>)
      BY <3>3, OfAppend
    <3>5. LayDown(S, Of(S, done), <<u, x>>) = Of(S, done)
      BY DEF LayDown
    <3> QED BY <2>2, <3>2, <3>4, <3>5
  <2> QED BY <2>1, <2>2, WriteByteCases, Zenon
<1>8. S \cap Calling' = S \cap Calling
  <2>1. Calling' = Calling \/ Calling' = Calling \ {u}
    BY WriteByteCases, Zenon
  <2> QED BY <2>1
<1>9. torn' = torn
      \/ torn' = torn \cup {u}
  BY <1>1 DEF Fails, PutsNext
<1>10. S \cap torn' = S \cap torn
  BY <1>9
<1>11. ASSUME NEW i \in 1 .. n, wire[i][1] \notin S PROVE wire'[i][1] \notin S
  BY <1>4, <1>11
<1>12. ASSUME NEW s \in S, NEW i \in 1 .. n,
              S \cap Calling = {s}, IsLast(wire, s, i),
              \A j \in i + 1 .. n : wire[j][1] \notin S,
              ParsesTo(Laid(S, wire)[i - 1], Of(S, done))
       PROVE  /\ S \cap Calling' = {s} /\ IsLast(wire', s, i)
              /\ \A j \in i + 1 .. n : wire'[j][1] \notin S
              /\ ParsesTo(Laid(S, wire')[i - 1], Of(S, done'))
  <2>1. Laid(S, wire')[i - 1] = Laid(S, wire)[i - 1]
    BY <1>5
  <2>2. \A j \in i + 1 .. n : wire'[j][1] \notin S
    BY <1>11, <1>12
  <2> QED BY <1>4, <1>7, <1>8, <1>12, <2>1, <2>2
<1>13. S \cap torn = {} =>
         \/ S \cap Calling = {} /\ ParsesTo(Of(S, wire), Of(S, done))
         \/ \E s \in S, i \in 1 .. n :
              /\ S \cap Calling = {s} /\ IsLast(wire, s, i)
              /\ \A j \in i + 1 .. n : wire[j][1] \notin S
              /\ ParsesTo(Laid(S, wire)[i - 1], Of(S, done))
  BY <1>2 DEF ParseInv
<1>14. S \cap torn' = {} =>
         \/ S \cap Calling' = {} /\ ParsesTo(Of(S, wire'), Of(S, done'))
         \/ \E s \in S, i \in 1 .. n :
              /\ S \cap Calling' = {s} /\ IsLast(wire', s, i)
              /\ \A j \in i + 1 .. n : wire'[j][1] \notin S
              /\ ParsesTo(Laid(S, wire')[i - 1], Of(S, done'))
  BY <1>6, <1>7, <1>8, <1>10, <1>12, <1>13, Zenon
<1> QED BY <1>4, <1>14, Zenon DEF ParseInv

(* A turn of one of them leaves bytes that parse, with its call in progress or
   returned: the whole frame is one packet more. *)
LEMMA OwnByteParse ==
  ASSUME TypeOK, Shape, SentInv, NoEmptyPayload, NEW u \in Senders, WriteByte(u),
         NEW S, ParseInv(S), u \in S
  PROVE  ParseInv(S)'
<1>1. PICK k \in 1 .. Len(wire) :
         /\ u \in Calling /\ pos[u] < Len(raw_packet[u])
         /\ IsLast(wire, u, k) /\ wire[k][1] = u /\ (Fails(u) \/ PutsNext(u, k))
  BY WriteByteEffect
<1>2. PICK n \in Nat : n = Len(wire)
  BY DEF TypeOK
<1>3. wire \in Chunks(Senders, Byte)
  BY DEF TypeOK, Chunks
<1>4. /\ wire' \in Chunks(Senders, Byte) /\ Len(wire') = n
      /\ \A i \in 1 .. n : i # k => wire'[i] = wire[i]
      /\ wire'[k][1] = u
      /\ \A s, i : IsLast(wire', s, i) <=> IsLast(wire, s, i)
      /\ PutsNext(u, k) => wire'[k][2] = SubSeq(raw_packet[u], 1, pos[u] + 1)
  BY <1>1, <1>2, WriteByteWire
<1>5. raw_packet[u] \in Seq(Byte) /\ pos[u] \in Nat
  BY DEF Shape
<1> SUFFICES ASSUME S \cap torn' = {}
             PROVE  \/ S \cap Calling' = {} /\ ParsesTo(Of(S, wire'), Of(S, done'))
                    \/ \E s \in S, i \in 1 .. n :
                         /\ S \cap Calling' = {s} /\ IsLast(wire', s, i)
                         /\ \A j \in i + 1 .. n : wire'[j][1] \notin S
                         /\ ParsesTo(Laid(S, wire')[i - 1], Of(S, done'))
  BY <1>4, Zenon DEF ParseInv
<1>6. S \cap torn = {}
  BY <1>1 DEF Fails, PutsNext
<1>7. /\ S \cap Calling = {u}
      /\ \A j \in k + 1 .. n : wire[j][1] \notin S
      /\ ParsesTo(Laid(S, wire)[k - 1], Of(S, done))
  <2>1. PICK s \in S, i \in 1 .. n :
              /\ S \cap Calling = {s} /\ IsLast(wire, s, i)
              /\ \A j \in i + 1 .. n : wire[j][1] \notin S
              /\ ParsesTo(Laid(S, wire)[i - 1], Of(S, done))
    BY <1>1, <1>2, <1>6 DEF ParseInv
  <2>2. s = u
    BY <1>1, <2>1
  <2>3. i = k
    BY <1>1, <1>3, <2>1, <2>2, LastUnique
  <2> QED BY <2>1, <2>2, <2>3
<1>8. \A j \in k + 1 .. n : wire'[j][1] \notin S
  BY <1>1, <1>2, <1>4, <1>7
<1>9. PICK before \in Seq(Byte) :
         before = Laid(S, wire)[k - 1] /\ before = Laid(S, wire')[k - 1]
  <2>1. Agree(S, wire', wire, k - 1)
    BY <1>1, <1>2, <1>4 DEF Agree
  <2>2. k - 1 \in Nat /\ k - 1 <= Len(wire') /\ k - 1 <= Len(wire) /\ k - 1 \in 0 .. Len(wire)
    BY <1>2, <1>4
  <2>3. Laid(S, wire')[k - 1] = Laid(S, wire)[k - 1]
    BY <1>3, <1>4, <2>1, <2>2, LaidAgrees
  <2>4. Laid(S, wire)[k - 1] \in Seq(Byte)
    BY <1>3, <2>2, LaidType
  <2> QED BY <2>3, <2>4
<1>10. Of(S, wire') = before \o wire'[k][2]
  <2>1. k \in 0 .. Len(wire') /\ k \in 1 .. Len(wire')
    BY <1>2, <1>4
  <2>2. \A j \in k + 1 .. Len(wire') : wire'[j][1] \notin S
    BY <1>4, <1>8
  <2>3. Of(S, wire') = Laid(S, wire')[k]
    BY <1>4, <2>1, <2>2, LaidStays
  <2>4. Laid(S, wire')[k] = Laid(S, wire')[k - 1] \o wire'[k][2]
    <3>1. Laid(S, wire')[k] = LayDown(S, Laid(S, wire')[k - 1], wire'[k])
      BY <1>4, <2>1, LaidGrows
    <3> QED BY <1>4, <3>1 DEF LayDown
  <2> QED BY <1>9, <2>3, <2>4
<1>11. CASE Fails(u) /\ Calling' = Calling \ {u} /\ done' = done
  <2>1. wire' = wire /\ pos[u] = 0
    BY <1>5, <1>11 DEF Fails
  <2>2. wire'[k][2] = <<>>
    <3>1. wire[k][2] = SubSeq(raw_packet[u], 1, pos[u])
      BY <1>1 DEF SentInv
    <3>2. SubSeq(raw_packet[u], 1, 0) = <<>>
      BY <1>5
    <3> QED BY <2>1, <3>1, <3>2
  <2>3. Of(S, wire') = before
    BY <1>9, <1>10, <2>2, ConcatEmptySeq
  <2>4. S \cap Calling' = {}
    BY <1>7, <1>11
  <2> QED BY <1>7, <1>9, <1>11, <2>3, <2>4
<1>12. CASE /\ \E i \in 1 .. Len(wire) : PutsNext(u, i)
            /\ pos[u] + 1 = Len(raw_packet[u])
            /\ Calling' = Calling \ {u} /\ result'[u] = "NO_ERROR"
            /\ done' = Append(done, <<u, <<last_packet[u]>>>>)
  <2>1. PutsNext(u, k)
    <3>1. ~Fails(u)
      BY <1>12 DEF Fails, Return, Shape
    <3> QED BY <1>1, <3>1
  <2>2. PICK p : p = last_packet[u] /\ IsPacket(p)
    BY DEF TypeOK
  <2>3. wire'[k][2] = RadioFrame(p)
    <3>1. SubSeq(raw_packet[u], 1, Len(raw_packet[u])) = raw_packet[u]
      BY <1>5, WholeSlice
    <3>2. raw_packet[u] = RadioFrame(p)
      BY <1>1, <2>2 DEF SentInv
    <3> QED BY <1>4, <1>12, <2>1, <3>1, <3>2
  <2>4. Of(S, done') = Of(S, done) \o <<p>>
    <3>1. PICK x \in Seq(ParsedPacket) : x = <<p>>
      BY <2>2, PacketIsParsed, Zenon
    <3>2. done \in Chunks(Senders, ParsedPacket)
      BY DEF Shape
    <3>3. Of(S, Append(done, <<u, x>>)) = LayDown(S, Of(S, done), <<u, x>>)
      BY <3>2, OfAppend
    <3>4. LayDown(S, Of(S, done), <<u, x>>) = Of(S, done) \o x
      BY DEF LayDown
    <3> QED BY <1>12, <2>2, <3>1, <3>3, <3>4
  <2>5. ParsesTo(before \o RadioFrame(p), Of(S, done) \o <<p>>)
    BY <1>7, <1>9, <2>2, ParseOneMore
  <2>6. S \cap Calling' = {}
    BY <1>7, <1>12
  <2> QED BY <1>10, <2>3, <2>4, <2>5, <2>6
<1>13. CASE Calling' = Calling /\ done' = done
  <2>1. S \cap Calling' = {u} /\ IsLast(wire', u, k)
    BY <1>1, <1>4, <1>7, <1>13
  <2>2. ParsesTo(Laid(S, wire')[k - 1], Of(S, done'))
    BY <1>7, <1>9, <1>13
  <2>3. k \in 1 .. n
    BY <1>2
  <2> QED BY <1>8, <2>1, <2>2, <2>3, Zenon
<1> QED BY <1>11, <1>12, <1>13, WriteByteCases, Zenon

(* A turn keeps the invariant. *)
LEMMA WriteByteInv ==
  ASSUME IInv, NEW u \in Senders, WriteByte(u)
  PROVE  IInv'
<1>1. TypeOK /\ Shape /\ CountInv /\ SentInv
  BY DEF IInv
<1>2. TypeOK' /\ Shape' /\ CountInv' /\ SentInv' /\ mixed' = mixed
  BY <1>1, WriteByteTypes, WriteByteSent, WriteByteEffect
<1>3. ASSUME NoEmptyPayload, NEW S, ParseInv(S) PROVE ParseInv(S)'
  BY <1>1, <1>3, OwnByteParse, OthersByteParse
<1>4. ASSUME NoEmptyPayload, NEW s \in Senders PROVE ParseInv({s})'
  <2>1. ParseInv({s})
    BY <1>4 DEF IInv
  <2> QED BY <1>3, <1>4, <2>1
<1>5. ASSUME NoEmptyPayload, ~mixed' PROVE ParseInv(Senders)'
  <2>1. ParseInv(Senders)
    BY <1>2, <1>5 DEF IInv
  <2> QED BY <1>3, <1>5, <2>1
<1> QED BY <1>2, <1>4, <1>5 DEF IInv

-----------------------------------------------------------------------------
(* The theorems.                                                           *)

(* Nothing of the invariant depends on whether the channel is open. *)
LEMMA ChannelInv ==
  ASSUME IInv, uart_open' \in BOOLEAN,
         UNCHANGED <<wire, raw_packet, pos, result, last_packet, done, torn, mixed>>
  PROVE  IInv'
<1>1. Calling' = Calling
  BY DEF Calling
<1>2. TypeOK' /\ Shape'
  BY DEF IInv, TypeOK, Shape
<1>3. CountInv'
  BY <1>1 DEF IInv, CountInv
<1>4. SentInv'
  BY <1>1, Zenon DEF IInv, SentInv
<1>5. ASSUME NEW S, ParseInv(S) PROVE ParseInv(S)'
  BY <1>1, <1>5, Zenon DEF ParseInv
<1> QED BY <1>2, <1>3, <1>4, <1>5, Zenon DEF IInv

(* The invariant is inductive. *)
LEMMA NextInv ==
  IInv /\ [Next]_vars => IInv'
<1> SUFFICES ASSUME IInv, [Next]_vars PROVE IInv'
  OBVIOUS
<1>1. ASSUME NEW s \in Senders,
             \/ \E command \in HeaderCommands \cap UserCommands : SendCommand(s, command)
             \/ \E command \in UserCommands : \E data \in Memories, length \in PayloadLengths(command) :
                  SendPayload(s, command, data, length)
             \/ \E p \in UserPackets : lithium_send_packet(s, p)
      PROVE  IInv'
  <2>1. PICK p, b : IsFrame(p, SendFrame(p, b)) /\ Call(s, p, b)
    BY <1>1, CallsSendFrames
  <2> QED BY <2>1, CallInv
<1>2. ASSUME NEW s \in Senders, WriteByte(s) PROVE IInv'
  BY <1>2, WriteByteInv
<1>3. ASSUME lithium_close \/ lithium_open PROVE IInv'
  BY <1>3, ChannelInv DEF lithium_close, lithium_open
<1>4. ASSUME UNCHANGED vars PROVE IInv'
  <2>1. uart_open' \in BOOLEAN
    BY <1>4 DEF IInv, TypeOK, vars
  <2> QED BY <1>4, <2>1, ChannelInv DEF vars
<1> QED BY <1>1, <1>2, <1>3, <1>4, Zenon DEF Next

(* The invariant holds in every reachable state. *)
LEMMA SendInvariant ==
  Spec => []IInv
BY InitInv, NextInv, PTL DEF Spec

(***************************************************************************)
(* Every frame fits into raw_packet, uart_write_bytes stays within it, and *)
(* no call is counted as done twice.                                       *)
(***************************************************************************)
THEOREM SendTypeCorrect ==
  Spec => []TypeOK
<1>1. IInv => TypeOK
  BY DEF IInv
<1> QED BY <1>1, SendInvariant, PTL

(***************************************************************************)
(* A call that returned LITHIUM_NO_ERROR has put its whole frame on the    *)
(* line, for all payloads but the empty one of EMIT_SEND_PAYLOAD.          *)
(***************************************************************************)
THEOREM NoErrorWholeFrame ==
  ASSUME NoEmptyPayload
  PROVE  Spec => []NoErrorMeansSent
<1>1. IInv => NoErrorMeansSent
  <2> SUFFICES ASSUME IInv PROVE NoErrorMeansSent
    OBVIOUS
  <2>1. wire \in Chunks(Senders, Byte)
    BY DEF IInv, TypeOK, Chunks
  <2>2. ASSUME NEW s \in Senders, result[s] = "NO_ERROR"
        PROVE  wire[LastCall(s)][2] = RadioFrame(last_packet[s])
    <3>1. PICK k : IsLast(wire, s, k)
      BY <2>2 DEF IInv, SentInv
    <3>2. wire[k][2] = RadioFrame(last_packet[s])
      BY <2>2, <3>1 DEF IInv, SentInv
    <3>3. LastCall(s) = k
      BY <2>1, <3>1, LastCallIsLast, Zenon DEF LastCall
    <3> QED BY <3>2, <3>3
  <2> QED BY <2>2 DEF NoErrorMeansSent
<1> QED BY <1>1, SendInvariant, PTL

(***************************************************************************)
(* While no two calls overlapped and none failed half way, the parser of   *)
(* the driver reads the packets of the calls that returned                 *)
(* LITHIUM_NO_ERROR, in their order, off the line.                         *)
(***************************************************************************)
THEOREM DriverReadsItself ==
  ASSUME NoEmptyPayload
  PROVE  Spec => []WireParsesBack
<1>1. IInv => WireParsesBack
  <2> SUFFICES ASSUME IInv PROVE WireParsesBack
    OBVIOUS
  <2>1. ASSUME torn = {}, ~mixed, Calling = {}
        PROVE  ParsesTo(Of(Senders, wire), Of(Senders, done))
    BY <2>1 DEF IInv, ParseInv
  <2> QED BY <2>1 DEF WireParsesBack, ParsesTo
<1> QED BY <1>1, SendInvariant, PTL

(***************************************************************************)
(* However calls overlap, the bytes of each sender by themselves are the   *)
(* frames of its own calls.                                                *)
(***************************************************************************)
THEOREM SenderReadsItself ==
  ASSUME NoEmptyPayload
  PROVE  Spec => []OwnBytesParseBack
<1>1. IInv => OwnBytesParseBack
  <2> SUFFICES ASSUME IInv PROVE OwnBytesParseBack
    OBVIOUS
  <2>1. ASSUME NEW s \in Senders \ (torn \cup Calling)
        PROVE  ParsesTo(Of({s}, wire), Of({s}, done))
    <3>1. ParseInv({s})
      BY DEF IInv
    <3>2. {s} \cap torn = {} /\ {s} \cap Calling = {}
      OBVIOUS
    <3> QED BY <3>1, <3>2 DEF ParseInv
  <2> QED BY <2>1 DEF OwnBytesParseBack, ParsesTo
<1> QED BY <1>1, SendInvariant, PTL
=============================================================================
