------------------------- MODULE LithiumCodecProofs --------------------------
(***************************************************************************)
(* Facts about the wire format, for data of every length: what             *)
(* compute_checksum returns and detects, and that the parser of            *)
(* data_board/common/lithium.c reads back what its encoder writes.         *)
(***************************************************************************)
EXTENDS LithiumCodec, WellFoundedInduction, SequenceTheorems, TLAPS


-----------------------------------------------------------------------------
(* The Fletcher sums. *)

(* The well-founded order on the naturals, as a set of pairs. *)
NatLess == {ss \in Nat \X Nat : ss[1] < ss[2]}

(* Every non-empty set of naturals has a least element. *)
LEMMA LeastNatural ==
  ASSUME NEW T \in SUBSET Nat, T # {}
  PROVE  \E m \in T : \A n \in T : m <= n
<1>1. IsWellFoundedOn(NatLess, Nat)
  BY NatLessThanWellFounded, Zenon DEF OpToRel, NatLess
<1>2. PICK m \in T : \A n \in T : ~ (<<n, m>> \in NatLess)
  BY <1>1, WFMin
<1>3. ASSUME NEW n \in T PROVE ~(n < m)
  BY <1>2 DEF NatLess
<1> QED BY <1>3

(* One round of the loop in compute_checksum. *)
Accumulate(sum, byte) ==
  LET a == (sum[1] + byte) % 256
  IN  <<a, (sum[2] + a) % 256>>

(* f holds the two accumulators of compute_checksum after each of the first n
   bytes of data. *)
IsSums(f, data, n) ==
  /\ f \in [0 .. n -> Byte \X Byte]
  /\ f[0] = <<0, 0>>
  /\ \A i \in 1 .. n : f[i] = Accumulate(f[i - 1], data[i])

(* uint8_t arithmetic stays in uint8_t. *)
LEMMA ModByte ==
  ASSUME NEW n \in Int
  PROVE  n % 256 \in Byte
  BY DEF Byte

(* A round of the loop keeps both accumulators in uint8_t. *)
LEMMA AccumulateType ==
  ASSUME NEW s \in Byte \X Byte, NEW b \in Byte
  PROVE  Accumulate(s, b) \in Byte \X Byte
<1>1. s[1] \in Byte /\ s[2] \in Byte
  OBVIOUS
<1> DEFINE a == (s[1] + b) % 256
<1>2. s[1] + b \in Int
  BY <1>1 DEF Byte
<1>3. a \in Byte
  BY <1>2, ModByte
<1>4. s[2] + a \in Int
  <2> HIDE DEF a
  <2> QED BY <1>1, <1>3 DEF Byte
<1>5. (s[2] + a) % 256 \in Byte
  BY <1>4, ModByte
<1> QED BY <1>3, <1>5 DEF Accumulate

(* The rounds of the loop are well defined for data of every length. *)
LEMMA SumsExist ==
  ASSUME NEW data \in Seq(Byte)
  PROVE  \E f : IsSums(f, data, Len(data))
<1> DEFINE T == {n \in 0 .. Len(data) : ~ \E f : IsSums(f, data, n)}
<1> SUFFICES ASSUME T # {} PROVE FALSE
  <2>1. Len(data) \in 0 .. Len(data)
    OBVIOUS
  <2> QED BY <2>1
<1>1. PICK m \in T : \A n \in T : m <= n
  <2>1. T \in SUBSET Nat
    OBVIOUS
  <2> QED BY <2>1, LeastNatural
<1> HIDE DEF T
<1>2. m \in 0 .. Len(data) /\ ~ \E f : IsSums(f, data, m)
  BY DEF T
<1>3. CASE m = 0
  <2>1. IsSums([i \in 0 .. 0 |-> <<0, 0>>], data, 0)
    BY DEF IsSums, Byte
  <2> QED BY <2>1, <1>2, <1>3
<1>4. CASE m > 0
  <2>1. m - 1 \notin T /\ m - 1 \in 0 .. Len(data)
    BY <1>1, <1>2, <1>4
  <2>2. PICK f : IsSums(f, data, m - 1)
    BY <2>1 DEF T
  <2> DEFINE g == [i \in 0 .. m |-> IF i = m THEN Accumulate(f[m - 1], data[m]) ELSE f[i]]
  <2>3. data[m] \in Byte /\ f[m - 1] \in Byte \X Byte
    BY <1>2, <1>4, <2>2 DEF IsSums
  <2>4. g \in [0 .. m -> Byte \X Byte]
    <3>1. Accumulate(f[m - 1], data[m]) \in Byte \X Byte
      BY <2>3, AccumulateType
    <3> QED BY <3>1, <2>2, <1>2 DEF IsSums
  <2>5. g[0] = <<0, 0>>
    BY <1>2, <1>4, <2>2 DEF IsSums
  <2>6. ASSUME NEW i \in 1 .. m PROVE g[i] = Accumulate(g[i - 1], data[i])
    BY <1>2, <1>4, <2>2 DEF IsSums
  <2>7. IsSums(g, data, m)
    BY <2>4, <2>5, <2>6 DEF IsSums
  <2> QED BY <2>7, <1>2
<1> QED BY <1>2, <1>3, <1>4

(* The recursive function ChecksumSums is the accumulators round by round. *)
LEMMA ChecksumSumsIsSums ==
  ASSUME NEW data \in Seq(Byte)
  PROVE  IsSums(ChecksumSums(data), data, Len(data))
<1> DEFINE Body(f, i) == IF i = 0 THEN <<0, 0>>
        ELSE LET prev == f[i - 1]
                 a == (prev[1] + data[i]) % 256
             IN  <<a, (prev[2] + a) % 256>>
<1>1. PICK f : IsSums(f, data, Len(data))
  BY SumsExist
<1>2. f = [i \in 0 .. Len(data) |-> Body(f, i)]
  <2>1. ASSUME NEW i \in 0 .. Len(data) PROVE f[i] = Body(f, i)
    <3>1. CASE i = 0
      BY <3>1, <1>1 DEF IsSums
    <3>2. CASE i # 0
      BY <3>2, <1>1 DEF IsSums, Accumulate
    <3> QED BY <3>1, <3>2
  <2>2. f = [i \in 0 .. Len(data) |-> f[i]]
    BY <1>1 DEF IsSums
  <2> QED BY <2>1, <2>2
<1> DEFINE s == ChecksumSums(data)
<1>3. s = [i \in 0 .. Len(data) |-> Body(s, i)]
  BY <1>2, ZenonT(30) DEF ChecksumSums
<1> HIDE DEF s
<1>4. s[0] = <<0, 0>>
  BY <1>3
<1>5. ASSUME NEW i \in 1 .. Len(data) PROVE s[i] = Accumulate(s[i - 1], data[i])
  <2>1. i \in 0 .. Len(data) /\ i # 0
    OBVIOUS
  <2>2. s[i] = Body(s, i)
    BY <1>3, <2>1
  <2> QED BY <2>1, <2>2 DEF Accumulate
<1>6. s \in [0 .. Len(data) -> Byte \X Byte]
  <2> DEFINE T == {i \in 0 .. Len(data) : s[i] \notin Byte \X Byte}
  <2> SUFFICES ASSUME T # {} PROVE FALSE
    BY <1>3
  <2>1. T \in SUBSET Nat
    OBVIOUS
  <2>2. PICK m \in T : \A n \in T : m <= n
    BY <2>1, LeastNatural
  <2>3. <<0, 0>> \in Byte \X Byte
    BY DEF Byte
  <2>4. m # 0
    BY <1>4, <2>3
  <2>5. m \in 1 .. Len(data) /\ m - 1 \in 0 .. Len(data) /\ m - 1 \notin T
    BY <2>2, <2>4
  <2>6. s[m - 1] \in Byte \X Byte /\ data[m] \in Byte
    BY <2>5
  <2>7. s[m] \in Byte \X Byte
    BY <1>5, <2>5, <2>6, AccumulateType
  <2> QED BY <2>2, <2>7
<1> QED BY <1>4, <1>5, <1>6 DEF IsSums, s

(* compute_checksum returns two bytes, whatever the data. *)
THEOREM ChecksumType ==
  ASSUME NEW data \in Seq(Byte)
  PROVE  compute_checksum(data) \in Byte \X Byte
  BY ChecksumSumsIsSums DEF IsSums, compute_checksum

(* The accumulators before and after byte i. *)
LEMMA SumsStep ==
  ASSUME NEW data \in Seq(Byte), NEW i \in 1 .. Len(data)
  PROVE  LET s == ChecksumSums(data)
         IN  /\ s[i - 1][1] \in Byte /\ s[i - 1][2] \in Byte
             /\ s[i][1] = (s[i - 1][1] + data[i]) % 256
             /\ s[i][2] = (s[i - 1][2] + s[i][1]) % 256
<1> DEFINE s == ChecksumSums(data)
<1>1. IsSums(s, data, Len(data))
  BY ChecksumSumsIsSums
<1> HIDE DEF s
<1>2. s[i - 1] \in Byte \X Byte /\ s[i] = Accumulate(s[i - 1], data[i])
  BY <1>1 DEF IsSums
<1>3. s[i - 1][1] \in Byte /\ s[i - 1][2] \in Byte
  BY <1>2
<1>4. s[i][1] = (s[i - 1][1] + data[i]) % 256 /\ s[i][2] = (s[i - 1][2] + s[i][1]) % 256
  BY <1>2 DEF Accumulate
<1> QED BY <1>3, <1>4 DEF s

(* Four rounds of the loop in closed form. *)
LEMMA FourByteArithmetic ==
  ASSUME NEW d1 \in Byte, NEW d2 \in Byte, NEW d3 \in Byte, NEW d4 \in Byte,
         NEW a1, NEW a2, NEW a3, NEW a4, NEW b1, NEW b2, NEW b3, NEW b4,
         a1 = (0 + d1) % 256, a2 = (a1 + d2) % 256, a3 = (a2 + d3) % 256, a4 = (a3 + d4) % 256,
         b1 = (0 + a1) % 256, b2 = (b1 + a2) % 256, b3 = (b2 + a3) % 256, b4 = (b3 + a4) % 256
  PROVE  /\ a4 = (d1 + d2 + d3 + d4) % 256
         /\ b4 = (4 * d1 + 3 * d2 + 2 * d3 + d4) % 256
  BY DEF Byte

(* The checksum of the four data bytes of a header in closed form. *)
LEMMA HeaderChecksum ==
  ASSUME NEW d1 \in Byte, NEW d2 \in Byte, NEW d3 \in Byte, NEW d4 \in Byte
  PROVE  compute_checksum(<<d1, d2, d3, d4>>) =
           <<(d1 + d2 + d3 + d4) % 256, (4 * d1 + 3 * d2 + 2 * d3 + d4) % 256>>
<1> DEFINE data == <<d1, d2, d3, d4>>
           s == ChecksumSums(data)
<1>1. data \in Seq(Byte) /\ Len(data) = 4
  OBVIOUS
<1>2. data[1] = d1 /\ data[2] = d2 /\ data[3] = d3 /\ data[4] = d4
  OBVIOUS
<1>3. IsSums(s, data, 4)
  BY <1>1, ChecksumSumsIsSums
<1>4. s[0][1] = 0 /\ s[0][2] = 0
  BY <1>3 DEF IsSums
<1>5. ASSUME NEW i \in 1 .. 4
      PROVE  /\ s[i][1] = (s[i - 1][1] + data[i]) % 256
             /\ s[i][2] = (s[i - 1][2] + s[i][1]) % 256
  <2>1. s[i - 1] \in Byte \X Byte /\ s[i] = Accumulate(s[i - 1], data[i])
    <3> HIDE DEF s, data
    <3> QED BY <1>3 DEF IsSums
  <2> HIDE DEF s, data
  <2> QED BY <2>1 DEF Accumulate
<1> HIDE DEF s, data
<1>6. /\ s[1][1] = (0 + d1) % 256 /\ s[1][2] = (0 + s[1][1]) % 256
      /\ s[2][1] = (s[1][1] + d2) % 256 /\ s[2][2] = (s[1][2] + s[2][1]) % 256
      /\ s[3][1] = (s[2][1] + d3) % 256 /\ s[3][2] = (s[2][2] + s[3][1]) % 256
      /\ s[4][1] = (s[3][1] + d4) % 256 /\ s[4][2] = (s[3][2] + s[4][1]) % 256
  BY <1>2, <1>4, <1>5
<1>7. /\ s[4][1] = (d1 + d2 + d3 + d4) % 256
      /\ s[4][2] = (4 * d1 + 3 * d2 + 2 * d3 + d4) % 256
  BY <1>6, FourByteArithmetic
<1>8. s[4] = <<s[4][1], s[4][2]>>
  BY <1>3 DEF IsSums
<1>9. compute_checksum(data) = s[4]
  BY <1>1 DEF compute_checksum, s
<1> QED BY <1>7, <1>8, <1>9 DEF data

(* Sums of bytes that differ in one summand differ modulo 256. *)
LEMMA UnequalSums ==
  ASSUME NEW x \in Byte, NEW y \in Byte, NEW d \in Byte, NEW e \in Byte,
         (x = y /\ d # e) \/ (x # y /\ d = e)
  PROVE  (x + d) % 256 # (y + e) % 256
<1>1. x \in Int /\ y \in Int /\ d \in Int /\ e \in Int
  BY DEF Byte
<1>2. x + d # y + e /\ x + d < y + e + 256 /\ y + e < x + d + 256
  BY <1>1 DEF Byte
<1> DEFINE u == x + d
           v == y + e
<1>3. u \in Int /\ v \in Int
  BY <1>1
<1> HIDE DEF u, v
<1>4. u # v /\ u < v + 256 /\ v < u + 256
  BY <1>2 DEF u, v
<1>5. u % 256 # v % 256
  BY <1>3, <1>4
<1> QED BY <1>5 DEF u, v

(* Whatever the length of the data, changing any one byte of it changes the
   first byte of compute_checksum: a body with one corrupted byte never passes
   the check of lithium_parse_body. *)
THEOREM OneBadByteChangesChecksum ==
  ASSUME NEW data \in Seq(Byte), NEW k \in 1 .. Len(data),
         NEW b \in Byte, b # data[k]
  PROVE  compute_checksum([data EXCEPT ![k] = b])[1] # compute_checksum(data)[1]
<1> DEFINE bad == [data EXCEPT ![k] = b]
           n == Len(data)
           s == ChecksumSums(data)
           t == ChecksumSums(bad)
<1>1. bad \in Seq(Byte) /\ Len(bad) = n
  OBVIOUS
<1>2. bad[k] # data[k] /\ \A i \in 1 .. n : i # k => bad[i] = data[i]
  OBVIOUS
<1>3. \A i \in 1 .. n : bad[i] \in Byte /\ data[i] \in Byte
  BY <1>1
<1> HIDE DEF bad, n
<1>4. IsSums(s, data, n) /\ IsSums(t, bad, n)
  BY <1>1, ChecksumSumsIsSums DEF n
<1>5. s[0][1] = 0 /\ t[0][1] = 0
  BY <1>4 DEF IsSums
<1>6. \A i \in 1 .. n : /\ s[i - 1][1] \in Byte /\ t[i - 1][1] \in Byte
                        /\ s[i][1] = (s[i - 1][1] + data[i]) % 256
                        /\ t[i][1] = (t[i - 1][1] + bad[i]) % 256
  BY <1>1, SumsStep DEF n
<1> HIDE DEF s, t
<1>7. n \in Nat /\ k \in 1 .. n
  BY DEF n
<1> DEFINE Wrong == {i \in 0 .. n : (s[i][1] = t[i][1]) # (i < k)}
<1>8. Wrong = {}
  <2> SUFFICES ASSUME Wrong # {} PROVE FALSE
    OBVIOUS
  <2>1. Wrong \in SUBSET Nat
    BY <1>7
  <2>2. PICK m \in Wrong : \A i \in Wrong : m <= i
    BY <2>1, LeastNatural
  <2>3. m # 0
    BY <1>5, <1>7, <2>2
  <2>4. m \in 1 .. n /\ m - 1 \in 0 .. n /\ m - 1 \notin Wrong
    BY <1>7, <2>2, <2>3
  <2>5. (s[m - 1][1] = t[m - 1][1]) = (m - 1 < k)
    BY <2>4
  <2>6. CASE m < k
    <3>1. s[m - 1][1] = t[m - 1][1] /\ data[m] = bad[m]
      BY <1>2, <1>7, <2>4, <2>5, <2>6
    <3>2. s[m][1] = t[m][1]
      BY <1>6, <2>4, <3>1
    <3> QED BY <2>2, <2>6, <3>2
  <2>7. CASE m >= k
    <3>1. \/ s[m - 1][1] = t[m - 1][1] /\ data[m] # bad[m]
          \/ s[m - 1][1] # t[m - 1][1] /\ data[m] = bad[m]
      BY <1>2, <1>7, <2>4, <2>5, <2>7
    <3>2. s[m][1] # t[m][1]
      <4>1. /\ s[m - 1][1] \in Byte /\ t[m - 1][1] \in Byte
            /\ data[m] \in Byte /\ bad[m] \in Byte
        BY <1>3, <1>6, <2>4
      <4>2. (s[m - 1][1] + data[m]) % 256 # (t[m - 1][1] + bad[m]) % 256
        BY <3>1, <4>1, UnequalSums
      <4> QED BY <1>6, <2>4, <4>2
    <3> QED BY <2>2, <2>7, <3>2, <1>7
  <2> QED BY <2>4, <2>6, <2>7, <1>7
<1>9. s[n][1] # t[n][1]
  <2>1. n \in 0 .. n /\ ~(n < k)
    BY <1>7
  <2> QED BY <1>8, <2>1
<1> QED BY <1>1, <1>9 DEF compute_checksum, s, t, n, bad

-----------------------------------------------------------------------------
(* Slices of byte sequences. *)

(* What SubSeq returns inside a byte sequence. *)
LEMMA Slice ==
  ASSUME NEW s \in Seq(Byte), NEW m \in Nat, NEW n \in Nat, 1 <= m, m <= n, n <= Len(s)
  PROVE  /\ SubSeq(s, m, n) \in Seq(Byte)
         /\ Len(SubSeq(s, m, n)) = n - m + 1
         /\ \A i \in 1 .. n - m + 1 : SubSeq(s, m, n)[i] = s[m + i - 1]
  OBVIOUS

(* How a slice is recognised, byte by byte. *)
LEMMA SameSlice ==
  ASSUME NEW s \in Seq(Byte), NEW t \in Seq(Byte), NEW m \in Nat, NEW n \in Nat,
         1 <= m, m <= n, n <= Len(s), Len(t) = n - m + 1,
         \A i \in 1 .. n - m + 1 : s[m + i - 1] = t[i]
  PROVE  SubSeq(s, m, n) = t
<1> DEFINE u == SubSeq(s, m, n)
<1>1. u \in Seq(Byte) /\ Len(u) = Len(t)
  BY Slice
<1>2. \A i \in 1 .. Len(u) : u[i] = t[i]
  BY <1>1, Slice
<1> HIDE DEF u
<1>3. u = t
  BY <1>1, <1>2, SeqEqual
<1> QED BY <1>3 DEF u

(* What the concatenation of byte sequences returns. *)
LEMMA Concatenation ==
  ASSUME NEW s \in Seq(Byte), NEW t \in Seq(Byte)
  PROVE  /\ s \o t \in Seq(Byte) /\ Len(s \o t) = Len(s) + Len(t)
         /\ \A j \in 1 .. Len(s) + Len(t) : (s \o t)[j] = IF j <= Len(s) THEN s[j] ELSE t[j - Len(s)]
  BY ConcatProperties, Zenon

(* A slice within the first of two concatenated sequences. *)
LEMMA SliceOfFirst ==
  ASSUME NEW s \in Seq(Byte), NEW t \in Seq(Byte), NEW m \in Nat, NEW n \in Nat,
         1 <= m, m <= n, n <= Len(s)
  PROVE  SubSeq(s \o t, m, n) = SubSeq(s, m, n)
<1>1. PICK u : u = s \o t
  OBVIOUS
<1>2. /\ u \in Seq(Byte) /\ Len(u) = Len(s) + Len(t)
      /\ \A j \in 1 .. Len(s) + Len(t) : u[j] = IF j <= Len(s) THEN s[j] ELSE t[j - Len(s)]
  BY <1>1, Concatenation, Zenon
<1>3. PICK v : v = SubSeq(s, m, n)
  OBVIOUS
<1>4. v \in Seq(Byte) /\ Len(v) = n - m + 1 /\ \A i \in 1 .. n - m + 1 : v[i] = s[m + i - 1]
  BY <1>3, Slice, Zenon
<1>5. Len(s) \in Nat /\ Len(t) \in Nat
  OBVIOUS
<1>6. n <= Len(u)
  BY <1>2, <1>5
<1>7. ASSUME NEW i \in 1 .. n - m + 1 PROVE u[m + i - 1] = v[i]
  <2>1. PICK j \in 1 .. Len(s) + Len(t) : j = m + i - 1 /\ j <= Len(s)
    BY <1>5
  <2>2. u[j] = s[j]
    BY <1>2, <2>1
  <2> QED BY <1>4, <2>1, <2>2
<1>8. SubSeq(u, m, n) = v
  BY <1>2, <1>4, <1>6, <1>7, SameSlice, Zenon
<1> QED BY <1>1, <1>3, <1>8

(* A slice within the second of two concatenated sequences. *)
LEMMA SliceOfSecond ==
  ASSUME NEW s \in Seq(Byte), NEW t \in Seq(Byte), NEW m \in Nat, NEW n \in Nat,
         1 <= m, m <= n, n <= Len(t)
  PROVE  SubSeq(s \o t, Len(s) + m, Len(s) + n) = SubSeq(t, m, n)
<1>1. PICK u : u = s \o t
  OBVIOUS
<1>2. /\ u \in Seq(Byte) /\ Len(u) = Len(s) + Len(t)
      /\ \A j \in 1 .. Len(s) + Len(t) : u[j] = IF j <= Len(s) THEN s[j] ELSE t[j - Len(s)]
  BY <1>1, Concatenation, Zenon
<1>3. PICK v : v = SubSeq(t, m, n)
  OBVIOUS
<1>4. v \in Seq(Byte) /\ Len(v) = n - m + 1 /\ \A i \in 1 .. n - m + 1 : v[i] = t[m + i - 1]
  BY <1>3, Slice, Zenon
<1>5. PICK k \in Nat, l \in Nat : k = Len(s) /\ l = Len(t)
  OBVIOUS
<1>6. PICK lo \in Nat, hi \in Nat : lo = k + m /\ hi = k + n
  <2>1. k + m \in Nat /\ k + n \in Nat
    OBVIOUS
  <2> QED BY <2>1, Zenon
<1>7. 1 <= lo /\ lo <= hi /\ hi <= Len(u) /\ hi - lo + 1 = n - m + 1
  BY <1>2, <1>5, <1>6
<1>8. ASSUME NEW i \in 1 .. hi - lo + 1 PROVE u[lo + i - 1] = v[i]
  <2>1. i \in 1 .. n - m + 1
    BY <1>7
  <2>2. lo + i - 1 \in 1 .. k + l /\ ~(lo + i - 1 <= k) /\ lo + i - 1 - k = m + i - 1
    BY <1>5, <1>6, <2>1
  <2>3. u[lo + i - 1] = t[m + i - 1]
    <3>1. PICK j \in 1 .. k + l : j = lo + i - 1
      BY <2>2
    <3>2. u[j] = t[j - k]
      BY <1>2, <1>5, <2>2, <3>1
    <3> QED BY <2>2, <3>1, <3>2
  <2> QED BY <1>4, <2>1, <2>3
<1>9. Len(v) = hi - lo + 1
  BY <1>4, <1>7
<1>10. SubSeq(u, lo, hi) = v
  <2>1. /\ 1 <= lo /\ lo <= hi /\ hi <= Len(u) /\ u \in Seq(Byte) /\ v \in Seq(Byte)
        /\ \A i \in 1 .. hi - lo + 1 : u[lo + i - 1] = v[i]
    BY <1>2, <1>4, <1>7, <1>8
  <2> QED BY <1>9, <2>1, SameSlice, ZenonT(30)
<1> QED BY <1>1, <1>3, <1>5, <1>6, <1>10

(* A slice across the seam of two concatenated sequences. *)
LEMMA SliceAcross ==
  ASSUME NEW s \in Seq(Byte), NEW t \in Seq(Byte), NEW m \in Nat, NEW n \in Nat,
         1 <= m, m <= Len(s), 1 <= n, n <= Len(t)
  PROVE  SubSeq(s \o t, m, Len(s) + n) = SubSeq(s, m, Len(s)) \o SubSeq(t, 1, n)
<1>1. PICK u : u = s \o t
  OBVIOUS
<1>2. /\ u \in Seq(Byte) /\ Len(u) = Len(s) + Len(t)
      /\ \A j \in 1 .. Len(s) + Len(t) : u[j] = IF j <= Len(s) THEN s[j] ELSE t[j - Len(s)]
  BY <1>1, Concatenation, Zenon
<1>3. PICK k \in Nat, l \in Nat : k = Len(s) /\ l = Len(t)
  OBVIOUS
<1>4. PICK v, w : v = SubSeq(s, m, k) /\ w = SubSeq(t, 1, n)
  OBVIOUS
<1>5. v \in Seq(Byte) /\ Len(v) = k - m + 1 /\ \A i \in 1 .. k - m + 1 : v[i] = s[m + i - 1]
  <2>1. k <= Len(s) /\ m <= k
    BY <1>3
  <2> QED BY <1>4, <2>1, Slice, Zenon
<1>6. w \in Seq(Byte) /\ Len(w) = n /\ \A i \in 1 .. n : w[i] = t[i]
  BY <1>4
<1>7. PICK x : x = v \o w
  OBVIOUS
<1>8. /\ x \in Seq(Byte) /\ Len(x) = Len(v) + Len(w)
      /\ \A j \in 1 .. Len(v) + Len(w) : x[j] = IF j <= Len(v) THEN v[j] ELSE w[j - Len(v)]
  BY <1>5, <1>6, <1>7, Concatenation, Zenon
<1>9. PICK hi \in Nat : hi = k + n
  BY k + n \in Nat, Zenon
<1>10. m <= hi /\ hi <= Len(u) /\ Len(x) = hi - m + 1
  BY <1>2, <1>3, <1>5, <1>6, <1>8, <1>9
<1>11. ASSUME NEW i \in 1 .. hi - m + 1 PROVE u[m + i - 1] = x[i]
  <2>1. PICK j \in 1 .. k + l : j = m + i - 1
    BY <1>3, <1>9
  <2>2. i \in 1 .. Len(v) + Len(w)
    BY <1>10, <1>8, <1>5, <1>6, <1>9, <1>3
  <2>3. CASE i <= k - m + 1
    <3>1. j <= k /\ i \in 1 .. k - m + 1
      BY <2>1, <2>3
    <3>2. u[j] = s[j] /\ x[i] = v[i] /\ v[i] = s[m + i - 1]
      BY <1>2, <1>3, <1>5, <1>8, <2>1, <2>2, <2>3, <3>1
    <3> QED BY <2>1, <3>2
  <2>4. CASE i > k - m + 1
    <3>1. ~(j <= k) /\ ~(i <= Len(v)) /\ i - Len(v) = j - k /\ j - k \in 1 .. n
      BY <1>3, <1>5, <1>9, <2>1, <2>4
    <3>2. u[j] = t[j - k] /\ x[i] = w[i - Len(v)]
      BY <1>2, <1>3, <1>8, <2>1, <2>2, <3>1
    <3> QED BY <1>6, <2>1, <3>1, <3>2
  <2>5. i \in Int /\ k - m + 1 \in Int
    OBVIOUS
  <2> QED BY <2>3, <2>4, <2>5
<1>12. SubSeq(u, m, hi) = x
  <2>1. /\ 1 <= m /\ m <= hi /\ hi <= Len(u) /\ u \in Seq(Byte) /\ x \in Seq(Byte)
        /\ Len(x) = hi - m + 1 /\ \A i \in 1 .. hi - m + 1 : u[m + i - 1] = x[i]
    BY <1>2, <1>8, <1>10, <1>11
  <2> QED BY <2>1, SameSlice, ZenonT(30)
<1> QED BY <1>1, <1>3, <1>4, <1>7, <1>9, <1>12
(* f is a frame with the header h, the payload and the checksum sum, cut the way
   lithium_parse_body cuts it. *)
IsFrameOf(f, h, payload, sum) ==
  /\ f \in Seq(Byte) /\ Len(f) = HEADER_LENGTH + Len(payload) + 2
  /\ SubSeq(f, 1, HEADER_LENGTH) = h
  /\ SubSeq(f, HEADER_LENGTH + 1, HEADER_LENGTH + Len(payload)) = payload
  /\ SubSeq(f, SYNC_BYTES_LENGTH + 1, HEADER_LENGTH + Len(payload)) =
        SubSeq(h, SYNC_BYTES_LENGTH + 1, HEADER_LENGTH) \o payload
  /\ <<f[HEADER_LENGTH + Len(payload) + 1], f[HEADER_LENGTH + Len(payload) + 2]>> = sum

(* Header, payload and checksum are found again at their places in a frame. *)
LEMMA BodyShape ==
  ASSUME NEW h \in Seq(Byte), Len(h) = HEADER_LENGTH,
         NEW payload \in Seq(Byte), payload # <<>>,
         NEW sum \in Byte \X Byte
  PROVE  IsFrameOf(h \o (payload \o sum), h, payload, sum)
<1>1. PICK k \in Nat, c \in Nat :
         k = HEADER_LENGTH /\ c = SYNC_BYTES_LENGTH /\ c < k
  BY DEF HEADER_LENGTH, SYNC_BYTES_LENGTH, HEADER_DATA_LENGTH, CHECKSUM_LENGTH
<1>2. Len(h) = k /\ c < k
  BY <1>1
<1>3. PICK f : f = h \o (payload \o sum)
  OBVIOUS
<1>4. PICK n \in Nat : n = Len(payload) /\ n >= 1
  BY EmptySeq
<1>5. PICK a \in Byte, b \in Byte : sum = <<a, b>>
  OBVIOUS
<1>6. PICK body : body = payload \o sum
  OBVIOUS
<1>7. sum \in Seq(Byte) /\ Len(sum) = 2
  BY <1>5
<1>8. /\ body \in Seq(Byte) /\ Len(body) = n + 2
      /\ \A j \in 1 .. n + 2 : body[j] = IF j <= n THEN payload[j] ELSE sum[j - n]
  <2>1. PICK r : r = Len(sum)
    OBVIOUS
  <2>2. /\ body \in Seq(Byte) /\ Len(body) = n + r
        /\ \A j \in 1 .. n + r : body[j] = IF j <= n THEN payload[j] ELSE sum[j - n]
    BY <1>4, <1>6, <1>7, <2>1, Concatenation, Zenon
  <2> QED BY <1>7, <2>1, <2>2, Zenon
<1>9. SubSeq(body, 1, n) = payload
  <2>1. SubSeq(body, 1, n) = SubSeq(payload, 1, n)
    BY <1>4, <1>6, <1>7, SliceOfFirst
  <2> QED BY <1>4, <2>1
<1>10. f = h \o body
  BY <1>3, <1>6
<1>11. /\ f \in Seq(Byte) /\ Len(f) = k + Len(body)
       /\ \A j \in 1 .. k + Len(body) : f[j] = IF j <= k THEN h[j] ELSE body[j - k]
  <2>1. k = Len(h) /\ body \in Seq(Byte)
    BY <1>2, <1>8
  <2>2. /\ h \o body \in Seq(Byte) /\ Len(h \o body) = Len(h) + Len(body)
        /\ \A j \in 1 .. Len(h) + Len(body) :
              (h \o body)[j] = IF j <= Len(h) THEN h[j] ELSE body[j - Len(h)]
    BY <2>1, Concatenation
  <2> QED BY <1>10, <2>1, <2>2, Zenon
<1>12. Len(f) = k + n + 2
  BY <1>8, <1>11
<1>13. SubSeq(f, 1, k) = h
  <2>1. 1 <= k /\ k <= Len(h)
    BY <1>2
  <2>2. SubSeq(h \o body, 1, k) = SubSeq(h, 1, k)
    BY <1>8, <2>1, SliceOfFirst
  <2>3. SubSeq(h, 1, k) = h
    BY <1>2
  <2> QED BY <1>10, <2>2, <2>3
<1>14. SubSeq(f, k + 1, k + n) = payload
  <2>1. 1 <= n /\ n <= Len(body)
    BY <1>4, <1>8
  <2>2. SubSeq(h \o body, Len(h) + 1, Len(h) + n) = SubSeq(body, 1, n)
    BY <1>8, <2>1, SliceOfSecond
  <2> QED BY <1>2, <1>9, <1>10, <2>2
<1>15. SubSeq(f, c + 1, k + n) = SubSeq(h, c + 1, k) \o payload
  <2>1. PICK m \in Nat : m = c + 1
    OBVIOUS
  <2>2. 1 <= n /\ n <= Len(body) /\ 1 <= m /\ m <= Len(h) /\ body \in Seq(Byte)
    BY <1>2, <1>4, <1>8, <2>1
  <2>3. SubSeq(h \o body, m, Len(h) + n) = SubSeq(h, m, Len(h)) \o SubSeq(body, 1, n)
    BY <2>2, SliceAcross, ZenonT(30)
  <2> QED BY <1>2, <1>9, <1>10, <2>1, <2>3
<1>16. f[k + n + 1] = a /\ f[k + n + 2] = b
  <2>1. body[n + 1] = a /\ body[n + 2] = b
    BY <1>5, <1>8
  <2>2. PICK i \in 1 .. k + Len(body) : i = k + n + 1
    BY <1>8
  <2>3. PICK j \in 1 .. k + Len(body) : j = k + n + 2
    BY <1>8
  <2>4. ~(i <= k) /\ ~(j <= k) /\ i - k = n + 1 /\ j - k = n + 2
    BY <1>4, <2>2, <2>3
  <2>5. f[i] = body[n + 1] /\ f[j] = body[n + 2]
    BY <1>11, <2>4
  <2> QED BY <2>1, <2>2, <2>3, <2>5
<1> QED BY <1>1, <1>3, <1>4, <1>5, <1>11, <1>12, <1>13, <1>14, <1>15, <1>16, Zenon DEF IsFrameOf

(* A slice that does not run over the end holds bytes. *)
LEMMA SliceType ==
  ASSUME NEW s \in Seq(Byte), NEW m \in Nat, NEW n \in Nat, 1 <= m, n <= Len(s)
  PROVE  SubSeq(s, m, n) \in Seq(Byte)
  OBVIOUS

(* A slice of a slice. *)
LEMMA SliceOfSlice ==
  ASSUME NEW s \in Seq(Byte), NEW m \in Nat, NEW n \in Nat, 1 <= m, m <= n, n <= Len(s),
         NEW i \in Nat, NEW j \in Nat, 1 <= i, i <= j, j <= n - m + 1
  PROVE  SubSeq(SubSeq(s, m, n), i, j) = SubSeq(s, m + i - 1, m + j - 1)
<1>1. PICK u : u = SubSeq(s, m, n)
  OBVIOUS
<1>2. u \in Seq(Byte) /\ Len(u) = n - m + 1 /\ \A l \in 1 .. n - m + 1 : u[l] = s[m + l - 1]
  BY <1>1, Slice, Zenon
<1>3. PICK lo \in Nat, hi \in Nat : lo = m + i - 1 /\ hi = m + j - 1
  <2>1. m + i - 1 \in Nat /\ m + j - 1 \in Nat
    OBVIOUS
  <2> QED BY <2>1, Zenon
<1>4. PICK v : v = SubSeq(u, i, j)
  OBVIOUS
<1>5. v \in Seq(Byte) /\ Len(v) = j - i + 1 /\ \A l \in 1 .. j - i + 1 : v[l] = u[i + l - 1]
  <2>1. j <= Len(u)
    BY <1>2
  <2> QED BY <1>2, <1>4, <2>1, Slice, ZenonT(30)
<1>6. 1 <= lo /\ lo <= hi /\ hi <= Len(s) /\ Len(v) = hi - lo + 1
  BY <1>3, <1>5
<1>7. ASSUME NEW l \in 1 .. hi - lo + 1 PROVE s[lo + l - 1] = v[l]
  <2>1. l \in 1 .. j - i + 1
    BY <1>3
  <2>2. PICK q \in 1 .. n - m + 1 : q = i + l - 1
    BY <2>1
  <2>3. v[l] = u[q] /\ u[q] = s[m + q - 1]
    BY <1>2, <1>5, <2>1, <2>2
  <2>4. m + q - 1 = lo + l - 1
    BY <1>3, <2>1, <2>2
  <2> QED BY <2>3, <2>4
<1>8. SubSeq(s, lo, hi) = v
  <2>1. \A l \in 1 .. hi - lo + 1 : s[lo + l - 1] = v[l]
    BY <1>7
  <2> QED BY <1>5, <1>6, <2>1, SameSlice, ZenonT(30)
<1> QED BY <1>1, <1>3, <1>4, <1>8

(* A slice cut in two. *)
LEMMA SplitSlice ==
  ASSUME NEW s \in Seq(Byte), NEW m \in Nat, NEW k \in Nat, NEW n \in Nat,
         1 <= m, m <= k, k < n, n <= Len(s)
  PROVE  SubSeq(s, m, k) \o SubSeq(s, k + 1, n) = SubSeq(s, m, n)
<1>1. PICK u : u = SubSeq(s, m, k)
  OBVIOUS
<1>2. k <= Len(s) /\ k + 1 \in Nat /\ 1 <= k + 1 /\ k + 1 <= n
  OBVIOUS
<1>3. u \in Seq(Byte) /\ Len(u) = k - m + 1 /\ \A l \in 1 .. k - m + 1 : u[l] = s[m + l - 1]
  BY <1>1, <1>2, Slice, Zenon
<1>4. PICK k1 \in Nat : k1 = k + 1
  BY <1>2
<1>5. PICK v : v = SubSeq(s, k1, n)
  OBVIOUS
<1>6. v \in Seq(Byte) /\ Len(v) = n - k1 + 1 /\ \A l \in 1 .. n - k1 + 1 : v[l] = s[k1 + l - 1]
  <2>1. 1 <= k1 /\ k1 <= n
    BY <1>4
  <2> QED BY <1>5, <2>1, Slice, Zenon
<1>7. PICK w : w = u \o v
  OBVIOUS
<1>8. /\ w \in Seq(Byte) /\ Len(w) = Len(u) + Len(v)
      /\ \A l \in 1 .. Len(u) + Len(v) : w[l] = IF l <= Len(u) THEN u[l] ELSE v[l - Len(u)]
  BY <1>3, <1>6, <1>7, Concatenation, Zenon
<1>9. Len(w) = n - m + 1 /\ m <= n
  BY <1>3, <1>4, <1>6, <1>8
<1>10. ASSUME NEW l \in 1 .. n - m + 1 PROVE s[m + l - 1] = w[l]
  <2>1. l \in 1 .. Len(u) + Len(v)
    BY <1>8, <1>9
  <2>2. CASE l <= Len(u)
    <3>1. l \in 1 .. k - m + 1
      BY <1>3, <2>2
    <3> QED BY <1>3, <1>8, <2>1, <2>2, <3>1
  <2>3. CASE ~(l <= Len(u))
    <3>1. PICK q \in 1 .. n - k1 + 1 : q = l - Len(u)
      BY <1>3, <1>4, <2>3
    <3>2. w[l] = v[q] /\ v[q] = s[k1 + q - 1]
      BY <1>6, <1>8, <2>1, <2>3, <3>1
    <3>3. k1 + q - 1 = m + l - 1
      BY <1>3, <1>4, <3>1
    <3> QED BY <3>2, <3>3
  <2> QED BY <2>2, <2>3
<1>11. SubSeq(s, m, n) = w
  <2>1. \A l \in 1 .. n - m + 1 : s[m + l - 1] = w[l]
    BY <1>10
  <2> QED BY <1>8, <1>9, <2>1, SameSlice, ZenonT(30)
<1> QED BY <1>1, <1>4, <1>5, <1>7, <1>11

(* The slice from end to end. *)
LEMMA WholeSlice ==
  ASSUME NEW s \in Seq(Byte)
  PROVE  SubSeq(s, 1, Len(s)) = s
  OBVIOUS

(* The next longer prefix. *)
LEMMA PrefixGrows ==
  ASSUME NEW S, NEW s \in Seq(S), NEW d \in Nat, d < Len(s)
  PROVE  Append(SubSeq(s, 1, d), s[d + 1]) = SubSeq(s, 1, d + 1)
  OBVIOUS

(* Appending leaves the prefixes as they are. *)
LEMMA PrefixStays ==
  ASSUME NEW S, NEW s \in Seq(S), NEW x \in S, NEW d \in Nat, d <= Len(s)
  PROVE  SubSeq(Append(s, x), 1, d) = SubSeq(s, 1, d)
  OBVIOUS

-----------------------------------------------------------------------------
(* Headers and frames. *)

(* The two bytes of the payload length and back. *)
LEMMA BytesOfLength ==
  ASSUME NEW n \in Word
  PROVE  /\ n \div 256 \in Byte /\ n % 256 \in Byte
         /\ 256 * (n \div 256) + (n % 256) = n
  BY DEF Byte, Word

(* h holds the bytes encode_header writes for these fields. *)
IsHeaderOf(h, type, command, n) ==
  /\ h[1] = SYNC_1 /\ h[2] = SYNC_2 /\ h[3] = type /\ h[4] = command
  /\ h[5] = n \div 256 /\ h[6] = n % 256
  /\ <<h[7], h[8]>> = compute_checksum(<<h[3], h[4], h[5], h[6]>>)

(* The sizes of lithium_internal.h. *)
LEMMA Sizes ==
  /\ HEADER_LENGTH = 8 /\ SYNC_BYTES_LENGTH = 2 /\ CHECKSUM_LENGTH = 2
  /\ HEADER_LENGTH \in Nat /\ SYNC_BYTES_LENGTH \in Nat /\ SYNC_BYTES_LENGTH < HEADER_LENGTH
  BY DEF HEADER_LENGTH, SYNC_BYTES_LENGTH, HEADER_DATA_LENGTH, CHECKSUM_LENGTH

(* encode_header writes HEADER_LENGTH bytes, at the places the parser reads. *)
LEMMA HeaderShape ==
  ASSUME NEW type \in Byte, NEW command \in Byte, NEW n \in Word
  PROVE  /\ encode_header(type, command, n) \in Seq(Byte)
         /\ Len(encode_header(type, command, n)) = HEADER_LENGTH
         /\ IsHeaderOf(encode_header(type, command, n), type, command, n)
<1>1. PICK hi \in Byte, lo \in Byte : hi = n \div 256 /\ lo = n % 256
  BY BytesOfLength
<1>2. compute_checksum(<<type, command, hi, lo>>) \in Byte \X Byte
  <2>1. <<type, command, hi, lo>> \in Seq(Byte)
    OBVIOUS
  <2> QED BY <2>1, ChecksumType
<1>3. PICK a \in Byte, b \in Byte : compute_checksum(<<type, command, hi, lo>>) = <<a, b>>
  BY <1>2
<1>4. SYNC_1 \in Byte /\ SYNC_2 \in Byte
  BY DEF Byte, SYNC_1, SYNC_2
<1>5. encode_header(type, command, n) = <<SYNC_1, SYNC_2, type, command, hi, lo, a, b>>
  BY <1>1, <1>3 DEF encode_header
<1>6. <<SYNC_1, SYNC_2, type, command, hi, lo, a, b>> \in Seq(Byte)
  BY <1>4
<1> QED BY <1>1, <1>3, <1>5, <1>6, Sizes DEF IsHeaderOf

(* lithium_parse_header accepts every header of a valid packet and reads back
   its length. *)
LEMMA HeaderAccepted ==
  ASSUME NEW type \in {LITHIUM_I_MESSAGE, LITHIUM_O_MESSAGE},
         NEW command \in 0 .. LITHIUM_COMMAND_count - 1,
         NEW n \in Word, IsAckNack(type, n) \/ n <= MAX_PAYLOAD_LENGTH,
         NEW raw, IsHeaderOf(raw, type, command, n)
  PROVE  lithium_parse_header(raw) = "NO_ERROR" /\ PayloadLength(raw) = n
<1>1. PayloadLength(raw) = n
  <2>1. raw[5] = n \div 256 /\ raw[6] = n % 256
    BY DEF IsHeaderOf
  <2>2. 256 * (n \div 256) + (n % 256) = n
    BY BytesOfLength
  <2> QED BY <2>1, <2>2 DEF PayloadLength
<1>2. /\ raw[1] = SYNC_1 /\ raw[2] = SYNC_2 /\ raw[3] = type /\ raw[4] = command
      /\ HeaderChecksumMatches(raw)
  BY DEF IsHeaderOf, HeaderChecksumMatches
<1>3. command < LITHIUM_COMMAND_count
  BY DEF LITHIUM_COMMAND_count
<1>4. IsPlausibleHeader(raw)
  BY <1>1, <1>2, <1>3 DEF IsPlausibleHeader
<1> QED BY <1>1, <1>2, <1>4 DEF lithium_parse_header

(* The same for the header of a packet, with the number of remaining bytes. *)
LEMMA HeaderRoundTrip ==
  ASSUME NEW p, IsPacket(p),
         NEW raw, IsHeaderOf(raw, p.type, p.command, p.payload_length)
  PROVE  /\ lithium_parse_header(raw) = "NO_ERROR"
         /\ PayloadLength(raw) = p.payload_length
         /\ RemainingBytes(raw) = IF p.payload = <<>> THEN 0 ELSE Len(p.payload) + 2
<1>1. /\ p.type \in {LITHIUM_I_MESSAGE, LITHIUM_O_MESSAGE}
      /\ p.command \in 0 .. LITHIUM_COMMAND_count - 1
      /\ p.payload_length \in Word /\ p.payload \in Seq(Byte)
  BY DEF IsPacket, PacketRecord
<1>2. \/ p.payload_length = Len(p.payload) /\ Len(p.payload) <= MAX_PAYLOAD_LENGTH
      \/ IsAckNack(p.type, p.payload_length) /\ p.payload = <<>>
  BY DEF IsPacket
<1>3. lithium_parse_header(raw) = "NO_ERROR" /\ PayloadLength(raw) = p.payload_length
  <2>1. IsAckNack(p.type, p.payload_length) \/ p.payload_length <= MAX_PAYLOAD_LENGTH
    BY <1>2
  <2> QED BY <1>1, <2>1, HeaderAccepted
<1>4. raw[3] = p.type
  BY DEF IsHeaderOf
<1>5. CASE IsAckNack(p.type, p.payload_length) /\ p.payload = <<>>
  BY <1>3, <1>4, <1>5 DEF RemainingBytes
<1>6. CASE p.payload_length = Len(p.payload) /\ Len(p.payload) <= MAX_PAYLOAD_LENGTH
  <2>1. ~IsAckNack(p.type, p.payload_length)
    <3>1. Len(p.payload) \in Nat
      BY <1>1
    <3>2. p.payload_length \in Nat /\ p.payload_length <= 255
      BY <1>6, <3>1 DEF MAX_PAYLOAD_LENGTH
    <3> QED BY <3>2 DEF IsAckNack, ACK_LENGTH, NACK_LENGTH
  <2>2. p.payload = <<>> <=> Len(p.payload) = 0
    BY <1>1, EmptySeq
  <2> QED BY <1>3, <1>4, <1>6, <2>1, <2>2 DEF RemainingBytes, CHECKSUM_LENGTH
<1> QED BY <1>2, <1>5, <1>6

(* lithium_parse_header and lithium_parse_body accept the frame of every valid
   packet, and the payload, the fields and the number of bytes that follow the
   header come out as they went in. *)
THEOREM FrameRoundTrip ==
  ASSUME NEW p, IsPacket(p)
  PROVE  LET F == RadioFrame(p)
             h == SubSeq(F, 1, HEADER_LENGTH)
         IN  /\ F \in Seq(Byte)
             /\ Len(F) = HEADER_LENGTH + RemainingBytes(h)
             /\ IsHeaderOf(h, p.type, p.command, p.payload_length)
             /\ p.payload # <<>> =>
                  /\ lithium_parse_body(F, p.payload_length) = "NO_ERROR"
                  /\ SubSeq(F, HEADER_LENGTH + 1, HEADER_LENGTH + p.payload_length) = p.payload
<1>1. PICK h : h = encode_header(p.type, p.command, p.payload_length)
  OBVIOUS
<1>2. p.type \in Byte /\ p.command \in Byte /\ p.payload_length \in Word /\ p.payload \in Seq(Byte)
  <2>1. p \in PacketRecord
    BY DEF IsPacket
  <2> QED BY <2>1 DEF PacketRecord, Byte, LITHIUM_I_MESSAGE, LITHIUM_O_MESSAGE, LITHIUM_COMMAND_count
<1>3. h \in Seq(Byte) /\ Len(h) = HEADER_LENGTH /\ IsHeaderOf(h, p.type, p.command, p.payload_length)
  BY <1>1, <1>2, HeaderShape
<1>4. PICK k \in Nat, c \in Nat : k = HEADER_LENGTH /\ c = SYNC_BYTES_LENGTH /\ c < k /\ Len(h) = k
  BY <1>3, Sizes
<1>5. RemainingBytes(h) = IF p.payload = <<>> THEN 0 ELSE Len(p.payload) + 2
  BY <1>3, HeaderRoundTrip
<1>6. SubSeq(h, 1, k) = h
  BY <1>3, <1>4
<1>7. CASE p.payload = <<>>
  <2>1. RadioFrame(p) = h
    BY <1>1, <1>7 DEF RadioFrame
  <2>2. Len(h) = k + RemainingBytes(h)
    BY <1>4, <1>5, <1>7
  <2>3. SubSeq(RadioFrame(p), 1, HEADER_LENGTH) = h
    BY <1>4, <1>6, <2>1
  <2> QED BY <1>3, <1>4, <1>7, <2>1, <2>2, <2>3, Zenon
<1>8. CASE p.payload # <<>>
  <2>1. PICK payload \in Seq(Byte) : payload = p.payload
    BY <1>2
  <2>2. PICK tail : tail = SubSeq(h, SYNC_BYTES_LENGTH + 1, HEADER_LENGTH)
    OBVIOUS
  <2>3. tail \in Seq(Byte)
    <3>1. PICK m \in Nat : m = c + 1
      OBVIOUS
    <3>2. 1 <= m /\ m <= k /\ k <= Len(h)
      BY <1>4, <3>1
    <3>3. SubSeq(h, m, k) \in Seq(Byte)
      BY <1>3, <3>2, Slice
    <3> QED BY <1>4, <2>2, <3>1, <3>3
  <2>4. tail \o payload \in Seq(Byte)
    BY <2>3
  <2>5. PICK sum \in Byte \X Byte : sum = compute_checksum(tail \o payload)
    BY <2>4, ChecksumType
  <2>6. PICK F : F = h \o (payload \o sum)
    OBVIOUS
  <2>7. RadioFrame(p) = F
    BY <1>1, <1>8, <2>1, <2>2, <2>5, <2>6 DEF RadioFrame, encode_body
  <2>8. /\ F \in Seq(Byte) /\ Len(F) = HEADER_LENGTH + Len(payload) + 2
        /\ SubSeq(F, 1, HEADER_LENGTH) = h
        /\ SubSeq(F, HEADER_LENGTH + 1, HEADER_LENGTH + Len(payload)) = payload
        /\ SubSeq(F, SYNC_BYTES_LENGTH + 1, HEADER_LENGTH + Len(payload)) =
              SubSeq(h, SYNC_BYTES_LENGTH + 1, HEADER_LENGTH) \o payload
        /\ <<F[HEADER_LENGTH + Len(payload) + 1], F[HEADER_LENGTH + Len(payload) + 2]>> = sum
    <3>1. h \in Seq(Byte) /\ Len(h) = HEADER_LENGTH /\ payload # <<>>
      BY <1>3, <1>8, <2>1
    <3>2. IsFrameOf(h \o (payload \o sum), h, payload, sum)
      BY <3>1, BodyShape, Zenon
    <3> QED BY <2>6, <3>2, Zenon DEF IsFrameOf
  <2>9. p.payload_length = Len(payload)
    BY <1>8, <2>1 DEF IsPacket
  <2>10. lithium_parse_body(F, p.payload_length) = "NO_ERROR"
    BY <2>2, <2>5, <2>8, <2>9, Zenon DEF lithium_parse_body
  <2>11. Len(F) = HEADER_LENGTH + RemainingBytes(h)
    BY <1>4, <1>5, <1>8, <2>1, <2>8
  <2> QED BY <1>3, <1>8, <2>1, <2>7, <2>8, <2>9, <2>10, <2>11, Zenon
<1> QED BY <1>7, <1>8
=============================================================================
