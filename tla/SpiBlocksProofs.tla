--------------------------- MODULE SpiBlocksProofs ---------------------------
(***************************************************************************)
(* Proofs about SpiBlocks, for every set of devices, every base addresses  *)
(* and every clock: the types; and, for the eUSCI driver, that a channel   *)
(* is its own block and no other, and that an open channel's block runs at *)
(* the rate it was opened with.  The USCI driver keeps its types only: its *)
(* table leads to no block (spi_blocks_usci).                              *)
(***************************************************************************)
EXTENDS SpiBlocks, TLAPS

Injective(s) == \A i, j \in 1 .. Len(s) : s[i] = s[j] => i = j

\* No block occurs twice in the list, and all of them are in S.
ListOf(s, S) == s \in Seq(S) /\ Injective(s)

-----------------------------------------------------------------------------
(* The enumeration.                                                        *)

(***************************************************************************)
(* A list without repetitions stays one when an entry is added for a block *)
(* that is not in it, if the device has that block.                        *)
(***************************************************************************)
LEMMA OneMoreEntry ==
  ASSUME NEW S, NEW s, ListOf(s, S), NEW b, b \notin S
  PROVE  ListOf(s \o IfPresent(b, b), S \cup {b})
<1>1. s \in Seq(S) /\ s \in Seq(S \cup {b}) /\ Len(s) \in Nat /\ \A i \in 1 .. Len(s) : s[i] \in S
  BY DEF ListOf
<1>2. CASE b \in device
  <2> DEFINE t == s \o <<b>>
  <2>1. t \in Seq(S \cup {b}) /\ Len(t) = Len(s) + 1
    BY <1>1
  <2>2. \A i \in 1 .. Len(t) : t[i] = IF i <= Len(s) THEN s[i] ELSE b
    BY <1>1
  <2>3. Injective(t)
    <3> HIDE DEF t
    <3> SUFFICES ASSUME NEW i \in 1 .. Len(t), NEW j \in 1 .. Len(t), t[i] = t[j]
                 PROVE  i = j
      BY DEF Injective
    <3> QED
      BY <1>1, <2>1, <2>2 DEF ListOf, Injective
  <2> QED
    BY <1>2, <2>1, <2>3 DEF ListOf, IfPresent
<1>3. CASE b \notin device
  <2>1. s \o IfPresent(b, b) = s
    BY <1>1, <1>3 DEF IfPresent
  <2> QED
    BY <1>1, <2>1 DEF ListOf
<1> QED
  BY <1>2, <1>3

(***************************************************************************)
(* The enumeration names blocks of the device, none of them twice.         *)
(***************************************************************************)
LEMMA EnumerationLists ==
  ASSUME device \subseteq Blocks
  PROVE  ListOf(Enumeration, device)
<1> DEFINE s1 == IfPresent("A0", "A0")
           s2 == s1 \o IfPresent("A1", "A1")
           s3 == s2 \o IfPresent("A2", "A2")
           s4 == s3 \o IfPresent("A3", "A3")
           s5 == s4 \o IfPresent("B0", "B0")
           s6 == s5 \o IfPresent("B1", "B1")
           s7 == s6 \o IfPresent("B2", "B2")
           s8 == s7 \o IfPresent("B3", "B3")
<1>1. Enumeration = s8
  BY DEF Enumeration
<1>2. \A b : IfPresent(b, b) \in Seq(device)
  BY DEF IfPresent
<1>3. s8 \in Seq(device)
  BY <1>2
<1>4. ListOf(s1, {"A0"})
  <2>1. CASE "A0" \in device
    BY <2>1 DEF ListOf, Injective, IfPresent
  <2>2. CASE "A0" \notin device
    BY <2>2 DEF ListOf, Injective, IfPresent
  <2> QED
    BY <2>1, <2>2
<1> HIDE DEF s1
<1>5. ListOf(s2, {"A0", "A1"})
  BY <1>4, OneMoreEntry
<1> HIDE DEF s2
<1>6. ListOf(s3, {"A0", "A1", "A2"})
  BY <1>5, OneMoreEntry
<1> HIDE DEF s3
<1>7. ListOf(s4, {"A0", "A1", "A2", "A3"})
  BY <1>6, OneMoreEntry
<1> HIDE DEF s4
<1>8. ListOf(s5, {"A0", "A1", "A2", "A3", "B0"})
  BY <1>7, OneMoreEntry
<1> HIDE DEF s5
<1>9. ListOf(s6, {"A0", "A1", "A2", "A3", "B0", "B1"})
  BY <1>8, OneMoreEntry
<1> HIDE DEF s6
<1>10. ListOf(s7, {"A0", "A1", "A2", "A3", "B0", "B1", "B2"})
  BY <1>9, OneMoreEntry
<1> HIDE DEF s7
<1>11. ListOf(s8, {"A0", "A1", "A2", "A3", "B0", "B1", "B2", "B3"})
  BY <1>10, OneMoreEntry
<1> HIDE DEF s8
<1> QED
  BY <1>1, <1>3, <1>11 DEF ListOf

(***************************************************************************)
(* Two enumeration values name two blocks of the device.                   *)
(***************************************************************************)
LEMMA NamesDiffer ==
  ASSUME device \subseteq Blocks
  PROVE  /\ \A value \in Values : value \in Nat /\ Named(value) \in device
         /\ \A value, other \in Values : Named(value) = Named(other) => value = other
<1>1. ListOf(Enumeration, device) /\ Len(Enumeration) \in Nat
  BY EnumerationLists DEF ListOf
<1>2. \A value \in Values : value \in Nat /\ value + 1 \in 1 .. Len(Enumeration)
  BY <1>1 DEF Values
<1>3. \A i \in 1 .. Len(Enumeration) : Enumeration[i] \in device
  BY <1>1 DEF ListOf
<1>4. \A value \in Values : value \in Nat /\ Named(value) \in device
  BY <1>2, <1>3 DEF Named
<1>5. ASSUME NEW value \in Values, NEW other \in Values, Named(value) = Named(other)
      PROVE  value = other
  <2>1. value + 1 = other + 1
    BY <1>1, <1>2, <1>5 DEF ListOf, Injective, Named
  <2> QED
    BY <1>2, <2>1
<1> QED
  BY <1>4, <1>5

-----------------------------------------------------------------------------
(* The table of base addresses.                                            *)

\* t has, for each block that s names, the base address of that block.
AddressesOf(t, s) ==
  /\ s \in Seq(Blocks) /\ t \in Seq(Nat)
  /\ Len(t) = Len(s)
  /\ \A i \in 1 .. Len(s) : t[i] = Base[s[i]]

(***************************************************************************)
(* A table stays one of the addresses of a list when an entry for the same *)
(* block, with the same #ifdef around it, is added to both.                *)
(***************************************************************************)
LEMMA OneMoreAddress ==
  ASSUME NEW s, NEW t, AddressesOf(t, s), NEW b \in Blocks
  PROVE  AddressesOf(t \o IfPresent(b, Base[b]), s \o IfPresent(b, b))
<1>1. s \in Seq(Blocks) /\ t \in Seq(Nat) /\ Len(t) = Len(s) /\ Len(s) \in Nat
  BY DEF AddressesOf
<1>2. Base[b] \in Nat
  BY BaseAssumption
<1>3. CASE b \in device
  <2> DEFINE s1 == s \o <<b>>
             t1 == t \o <<Base[b]>>
  <2>1. s1 \in Seq(Blocks) /\ t1 \in Seq(Nat) /\ Len(s1) = Len(s) + 1 /\ Len(t1) = Len(s) + 1
    BY <1>1, <1>2
  <2>2. \A i \in 1 .. Len(s) + 1 : s1[i] = IF i <= Len(s) THEN s[i] ELSE b
    BY <1>1
  <2>3. \A i \in 1 .. Len(s) + 1 : t1[i] = IF i <= Len(s) THEN t[i] ELSE Base[b]
    BY <1>1, <1>2
  <2>4. s \o IfPresent(b, b) = s1 /\ t \o IfPresent(b, Base[b]) = t1
    BY <1>3 DEF IfPresent
  <2> HIDE DEF s1, t1
  <2>5. ASSUME NEW i \in 1 .. Len(s1)
        PROVE  t1[i] = Base[s1[i]]
    <3>1. CASE i <= Len(s)
      <4>1. i \in 1 .. Len(s) /\ s1[i] = s[i] /\ t1[i] = t[i]
        BY <1>1, <2>1, <2>2, <2>3, <3>1
      <4> QED
        BY <4>1 DEF AddressesOf
    <3>2. CASE i > Len(s)
      BY <1>1, <2>1, <2>2, <2>3, <3>2
    <3> QED
      BY <1>1, <2>1, <3>1, <3>2
  <2> QED
    BY <2>1, <2>4, <2>5 DEF AddressesOf
<1>4. CASE b \notin device
  <2>1. s \o IfPresent(b, b) = s /\ t \o IfPresent(b, Base[b]) = t
    BY <1>1, <1>4 DEF IfPresent
  <2> QED
    BY <2>1
<1> QED
  BY <1>3, <1>4

(***************************************************************************)
(* The eUSCI table and the enumeration agree on every device.              *)
(***************************************************************************)
LEMMA TableAgrees ==
  AddressesOf(eusci_BASE_ADDRESSES, Enumeration)
<1> DEFINE s1 == <<>> \o IfPresent("A0", "A0")
           t1 == <<>> \o IfPresent("A0", Base["A0"])
           s2 == s1 \o IfPresent("A1", "A1")
           t2 == t1 \o IfPresent("A1", Base["A1"])
           s3 == s2 \o IfPresent("A2", "A2")
           t3 == t2 \o IfPresent("A2", Base["A2"])
           s4 == s3 \o IfPresent("A3", "A3")
           t4 == t3 \o IfPresent("A3", Base["A3"])
           s5 == s4 \o IfPresent("B0", "B0")
           t5 == t4 \o IfPresent("B0", Base["B0"])
           s6 == s5 \o IfPresent("B1", "B1")
           t6 == t5 \o IfPresent("B1", Base["B1"])
           s7 == s6 \o IfPresent("B2", "B2")
           t7 == t6 \o IfPresent("B2", Base["B2"])
           s8 == s7 \o IfPresent("B3", "B3")
           t8 == t7 \o IfPresent("B3", Base["B3"])
<1>1. \A b \in Blocks : IfPresent(b, b) \in Seq(Blocks) /\ IfPresent(b, Base[b]) \in Seq(Nat)
  BY BaseAssumption DEF IfPresent
<1>2. "A0" \in Blocks /\ "A1" \in Blocks /\ "A2" \in Blocks /\ "A3" \in Blocks
  BY DEF Blocks, ABlocks
<1>3. "B0" \in Blocks /\ "B1" \in Blocks /\ "B2" \in Blocks /\ "B3" \in Blocks
  BY DEF Blocks, ABlocks
<1>4. s1 = IfPresent("A0", "A0") /\ t1 = IfPresent("A0", Base["A0"])
  BY <1>1, <1>2
<1>5. Enumeration = s8 /\ eusci_BASE_ADDRESSES = t8
  BY <1>4, Zenon DEF Enumeration, eusci_BASE_ADDRESSES
<1>6. AddressesOf(<<>>, <<>>)
  BY DEF AddressesOf
<1>7. AddressesOf(t1, s1)
  BY <1>6, <1>2, OneMoreAddress
<1> HIDE DEF s1, t1
<1>8. AddressesOf(t2, s2)
  BY <1>7, <1>2, OneMoreAddress
<1> HIDE DEF s2, t2
<1>9. AddressesOf(t3, s3)
  BY <1>8, <1>2, OneMoreAddress
<1> HIDE DEF s3, t3
<1>10. AddressesOf(t4, s4)
  BY <1>9, <1>2, OneMoreAddress
<1> HIDE DEF s4, t4
<1>11. AddressesOf(t5, s5)
  BY <1>10, <1>3, OneMoreAddress
<1> HIDE DEF s5, t5
<1>12. AddressesOf(t6, s6)
  BY <1>11, <1>3, OneMoreAddress
<1> HIDE DEF s6, t6
<1>13. AddressesOf(t7, s7)
  BY <1>12, <1>3, OneMoreAddress
<1> HIDE DEF s7, t7
<1>14. AddressesOf(t8, s8)
  BY <1>13, <1>3, OneMoreAddress
<1> HIDE DEF s8, t8
<1> QED
  BY <1>5, <1>14

(***************************************************************************)
(* With the eUSCI table every enumeration value leads to the registers of  *)
(* the block it names, and to those of no other: the list of A blocks has  *)
(* the A blocks of the device and no B block.                              *)
(***************************************************************************)
LEMMA ReachesItsBlock ==
  ASSUME Family = "EUSCI", device \subseteq Blocks, NEW value \in Values
  PROVE  Reached(value) = {Named(value)}
<1> DEFINE base_address == BASE_ADDRESSES(value)
<1>1. Named(value) \in device /\ Named(value) \in Blocks
  BY NamesDiffer
<1>2. base_address = Base[Named(value)]
  <2>1. value + 1 \in 1 .. Len(Enumeration)
    <3>1. Enumeration \in Seq(Blocks) /\ Len(Enumeration) \in Nat
      BY TableAgrees DEF AddressesOf
    <3> QED
      BY <3>1 DEF Values
  <2> QED
    BY <2>1, TableAgrees DEF AddressesOf, BASE_ADDRESSES, Named
<1>3. \A b \in Blocks : Base[b] = base_address <=> b = Named(value)
  BY <1>1, <1>2, BaseAssumption
<1> HIDE DEF base_address
<1>4. is_a_block(base_address) <=> Named(value) \in {"A0", "A1", "A2", "A3"}
  <2>1. \A b \in Blocks : Compares(b, base_address) <=> b = Named(value)
    BY <1>1, <1>3 DEF Compares
  <2> QED
    BY <2>1 DEF is_a_block, Blocks, ABlocks
<1>5. Kind(Named(value)) = IF is_a_block(base_address) THEN "A" ELSE "B"
  BY <1>4 DEF Kind, ABlocks
<1>6. Reached(value) = {b \in device : /\ Base[b] = base_address
                                       /\ Kind(b) = IF is_a_block(base_address) THEN "A" ELSE "B"}
  BY DEF Reached, base_address
<1> QED
  BY <1>1, <1>3, <1>5, <1>6

-----------------------------------------------------------------------------
(* The invariant.                                                          *)

\* The block of an open channel has the divider of the call that opened it.
Configured ==
  \A value \in Values : rate[value] # 0 => UCBRW[Named(value)] = Divider(rate[value])

IInv ==
  /\ TypeOK
  /\ Family = "EUSCI" => ChannelsReachTheirBlocks /\ Configured

(***************************************************************************)
(* What initMaster writes fits the register.                               *)
(***************************************************************************)
LEMMA DividerFits ==
  ASSUME NEW clock_rate \in Rates
  PROVE  Divider(clock_rate) \in Word
<1>1. ACLK \in Nat /\ clock_rate \in Nat /\ clock_rate > 0
  BY RatesAssumption
<1>2. ACLK \div clock_rate \in Nat
  BY <1>1
<1>3. PICK max \in Nat : max = 65535
  OBVIOUS
<1>4. Word = 0 .. max
  BY <1>3, SMT DEF Word
<1>5. \A n \in Nat : n % 65536 \in Nat /\ n % 65536 <= max
  BY <1>3
<1>6. \A n \in Nat : n <= max => n \in 0 .. max
  OBVIOUS
<1> QED
  BY <1>2, <1>4, <1>5, <1>6 DEF Divider

(***************************************************************************)
(* A step that keeps the device keeps its enumeration and its tables.      *)
(***************************************************************************)
LEMMA SameDevice ==
  ASSUME device' = device
  PROVE  /\ Values' = Values
         /\ \A value : (Named(value))' = Named(value)
<1>1. Enumeration' = Enumeration
  BY DEF Enumeration, IfPresent
<1> QED
  BY <1>1 DEF Values, Named

LEMMA InitIInv ==
  Init => IInv
<1> SUFFICES ASSUME Init PROVE IInv
  OBVIOUS
<1>1. device \in Devices /\ device \subseteq Blocks
  BY DevicesAssumption DEF Init
<1>2. TypeOK
  <2>1. transferred \in Seq(Values) /\ sent \in Seq(SUBSET device)
    BY DEF Init
  <2>2. 0 \in Word
    BY DEF Word
  <2> QED
    BY <1>1, <2>1, <2>2 DEF Init, TypeOK
<1>3. ChannelsReachTheirBlocks
  <2>1. \A value \in Values : rate[value] = 0 /\ UCSWRST[Named(value)]
    BY <1>1, NamesDiffer DEF Init
  <2>2. sent = [i \in 1 .. Len(transferred) |-> {Named(transferred[i])}]
    BY DEF Init
  <2> QED
    BY <2>1, <2>2 DEF ChannelsReachTheirBlocks
<1>4. Configured
  BY DEF Configured, Init
<1> QED
  BY <1>2, <1>3, <1>4 DEF IInv

(***************************************************************************)
(* spi_open: the block it takes was that of a closed channel, so that no   *)
(* open one's divider changes.                                             *)
(***************************************************************************)
LEMMA OpenKeepsIInv ==
  ASSUME IInv, NEW h \in Handles, NEW value \in Values, NEW clock_rate \in Rates,
         spi_open(h, value, clock_rate)
  PROVE  IInv'
<1>1. device' = device /\ device \in Devices /\ device \subseteq Blocks
  BY DevicesAssumption DEF IInv, TypeOK, spi_open
<1>2. Values' = Values /\ \A v : (Named(v))' = Named(v)
  BY <1>1, SameDevice
<1>3. Divider(clock_rate) \in Word
  BY DividerFits
<1>4. clock_rate # 0
  BY RatesAssumption
<1>5. TypeOK'
  <2>1. (UCSWRST \in [device -> BOOLEAN])'
    BY <1>1 DEF IInv, TypeOK, spi_open
  <2>2. (UCBRW \in [device -> Word])'
    BY <1>1, <1>3 DEF IInv, TypeOK, spi_open
  <2>3. (spi \in [Handles -> Values \cup {Unset}] /\ rate \in [Values -> Rates \cup {0}])'
    BY <1>2 DEF IInv, TypeOK, spi_open
  <2>4. (transferred \in Seq(Values) /\ sent \in Seq(SUBSET device))'
    BY <1>1, <1>2 DEF IInv, TypeOK, spi_open
  <2> QED
    BY <1>1, <2>1, <2>2, <2>3, <2>4 DEF TypeOK
<1>6. ASSUME Family = "EUSCI"
      PROVE  ChannelsReachTheirBlocks' /\ Configured'
  <2>1. Reached(value) = {Named(value)}
    BY <1>1, <1>6, ReachesItsBlock
  <2>2. \A v \in Values : Named(v) \in device /\ (Named(v) = Named(value) => v = value)
    BY <1>1, NamesDiffer
  <2>3. \A v \in Values : rate'[v] = IF v = value THEN clock_rate ELSE rate[v]
    BY DEF IInv, TypeOK, spi_open
  <2>4. \A v \in Values : UCSWRST'[Named(v)] <=> UCSWRST[Named(v)] /\ v # value
    <3>1. UCSWRST' = [b \in device |-> UCSWRST[b] /\ b # Named(value)]
      BY <2>1, Zenon DEF spi_open
    <3> QED
      BY <2>2, <3>1
  <2>5. \A v \in Values : UCBRW'[Named(v)] = IF v = value THEN Divider(clock_rate)
                                                          ELSE UCBRW[Named(v)]
    <3>1. UCBRW' = [b \in device |-> IF b = Named(value) THEN Divider(clock_rate) ELSE UCBRW[b]]
      BY <2>1 DEF spi_open
    <3> QED
      BY <2>2, <3>1
  <2>6. (\A v \in Values : rate[v] # 0 <=> ~UCSWRST[Named(v)])'
    <3>1. \A v \in Values : rate[v] # 0 <=> ~UCSWRST[Named(v)]
      BY <1>6 DEF IInv, ChannelsReachTheirBlocks
    <3> QED
      BY <1>2, <1>4, <2>3, <2>4, <3>1
  <2>7. (sent = [i \in 1 .. Len(transferred) |-> {Named(transferred[i])}])'
    BY <1>2, <1>6 DEF IInv, ChannelsReachTheirBlocks, spi_open
  <2>8. Configured'
    <3>1. \A v : (Divider(v))' = Divider(v)
      BY DEF Divider
    <3> QED
      BY <1>2, <1>4, <1>6, <2>3, <2>5, <3>1 DEF IInv, Configured
  <2> QED
    BY <2>6, <2>7, <2>8 DEF ChannelsReachTheirBlocks
<1> QED
  BY <1>5, <1>6 DEF IInv

(***************************************************************************)
(* spi_close: whichever handle the call is made with, it closes the one    *)
(* channel of the handle's value.                                          *)
(***************************************************************************)
LEMMA CloseKeepsIInv ==
  ASSUME IInv, NEW h \in Handles, spi_close(h)
  PROVE  IInv'
<1>1. device' = device /\ device \in Devices /\ device \subseteq Blocks
  BY DevicesAssumption DEF IInv, TypeOK, spi_close
<1>2. Values' = Values /\ \A v : (Named(v))' = Named(v)
  BY <1>1, SameDevice
<1>3. spi[h] \in Values
  BY DEF IInv, TypeOK, spi_close
<1>4. TypeOK'
  <2>1. (UCSWRST \in [device -> BOOLEAN] /\ UCBRW \in [device -> Word])'
    BY <1>1 DEF IInv, TypeOK, spi_close
  <2>2. (spi \in [Handles -> Values \cup {Unset}] /\ rate \in [Values -> Rates \cup {0}])'
    BY <1>2 DEF IInv, TypeOK, spi_close
  <2>3. (transferred \in Seq(Values) /\ sent \in Seq(SUBSET device))'
    BY <1>1, <1>2 DEF IInv, TypeOK, spi_close
  <2> QED
    BY <1>1, <2>1, <2>2, <2>3 DEF TypeOK
<1>5. ASSUME Family = "EUSCI"
      PROVE  ChannelsReachTheirBlocks' /\ Configured'
  <2>1. Reached(spi[h]) = {Named(spi[h])}
    BY <1>1, <1>3, <1>5, ReachesItsBlock
  <2>2. \A v \in Values : Named(v) \in device /\ (Named(v) = Named(spi[h]) => v = spi[h])
    BY <1>1, <1>3, NamesDiffer
  <2>3. \A v \in Values : rate'[v] = IF v = spi[h] THEN 0 ELSE rate[v]
    BY DEF IInv, TypeOK, spi_close
  <2>4. \A v \in Values : UCSWRST'[Named(v)] <=> UCSWRST[Named(v)] \/ v = spi[h]
    <3>1. UCSWRST' = [b \in device |-> UCSWRST[b] \/ b = Named(spi[h])]
      BY <2>1, Zenon DEF spi_close
    <3> QED
      BY <2>2, <3>1
  <2>5. (\A v \in Values : rate[v] # 0 <=> ~UCSWRST[Named(v)])'
    <3>1. \A v \in Values : rate[v] # 0 <=> ~UCSWRST[Named(v)]
      BY <1>5 DEF IInv, ChannelsReachTheirBlocks
    <3> QED
      BY <1>2, <2>3, <2>4, <3>1
  <2>6. (sent = [i \in 1 .. Len(transferred) |-> {Named(transferred[i])}])'
    BY <1>2, <1>5 DEF IInv, ChannelsReachTheirBlocks, spi_close
  <2>7. Configured'
    <3>1. \A v : (Divider(v))' = Divider(v)
      BY DEF Divider
    <3>2. UCBRW' = UCBRW
      BY DEF spi_close
    <3> QED
      BY <1>2, <1>5, <2>3, <3>1, <3>2 DEF IInv, Configured
  <2> QED
    BY <2>5, <2>6, <2>7 DEF ChannelsReachTheirBlocks
<1> QED
  BY <1>4, <1>5 DEF IInv

(***************************************************************************)
(* spi_transfer_byte: one more byte, to the block of the handle's value.   *)
(***************************************************************************)
LEMMA TransferKeepsIInv ==
  ASSUME IInv, NEW h \in Handles, spi_transfer_byte(h)
  PROVE  IInv'
<1>1. device' = device /\ device \in Devices /\ device \subseteq Blocks
  BY DevicesAssumption DEF IInv, TypeOK, spi_transfer_byte
<1>2. Values' = Values /\ \A v : (Named(v))' = Named(v)
  BY <1>1, SameDevice
<1>3. spi[h] \in Values /\ Reached(spi[h]) \in SUBSET device
  BY DEF IInv, TypeOK, spi_transfer_byte, Reached
<1>4. TypeOK'
  <2>1. (UCSWRST \in [device -> BOOLEAN] /\ UCBRW \in [device -> Word])'
    BY <1>1 DEF IInv, TypeOK, spi_transfer_byte
  <2>2. (spi \in [Handles -> Values \cup {Unset}] /\ rate \in [Values -> Rates \cup {0}])'
    BY <1>2 DEF IInv, TypeOK, spi_transfer_byte
  <2>3. (transferred \in Seq(Values))'
    BY <1>2, <1>3 DEF IInv, TypeOK, spi_transfer_byte
  <2>4. (sent \in Seq(SUBSET device))'
    <3>1. sent \in Seq(SUBSET device) /\ sent' = Append(sent, Reached(spi[h]))
      BY DEF IInv, TypeOK, spi_transfer_byte
    <3> QED
      BY <1>1, <1>3, <3>1
  <2> QED
    BY <1>1, <2>1, <2>2, <2>3, <2>4 DEF TypeOK
<1>5. ASSUME Family = "EUSCI"
      PROVE  ChannelsReachTheirBlocks' /\ Configured'
  <2>1. Reached(spi[h]) = {Named(spi[h])}
    BY <1>1, <1>3, <1>5, ReachesItsBlock
  <2>2. transferred \in Seq(Values) /\ transferred' = Append(transferred, spi[h])
    BY DEF IInv, TypeOK, spi_transfer_byte
  <2>3. sent = [i \in 1 .. Len(transferred) |-> {Named(transferred[i])}]
    BY <1>5 DEF IInv, ChannelsReachTheirBlocks
  <2>4. sent' = Append(sent, {Named(spi[h])})
    BY <2>1 DEF spi_transfer_byte
  <2>5. (sent = [i \in 1 .. Len(transferred) |-> {Named(transferred[i])}])'
    <3> DEFINE n == Len(transferred)
    <3>1. n \in Nat /\ Len(transferred') = n + 1
      BY <1>3, <2>2
    <3>2. \A i \in 1 .. n + 1 : transferred'[i] = IF i = n + 1 THEN spi[h] ELSE transferred[i]
      BY <1>3, <2>2
    <3>3. Len(sent) = n /\ sent \in Seq(SUBSET device)
      BY <2>3, <3>1 DEF IInv, TypeOK
    <3>4. sent' = [i \in 1 .. n + 1 |-> IF i = n + 1 THEN {Named(spi[h])} ELSE sent[i]]
      BY <2>4, <3>1, <3>3
    <3> HIDE DEF n
    <3>5. \A i \in 1 .. n + 1 : i # n + 1 => i \in 1 .. n
      BY <3>1
    <3>6. \A i \in 1 .. n : sent[i] = {Named(transferred[i])}
      BY <2>3 DEF n
    <3>7. \A i \in 1 .. n + 1 : sent'[i] = {Named(transferred'[i])}
      BY <3>2, <3>4, <3>5, <3>6
    <3>8. sent' = [i \in 1 .. n + 1 |-> {Named(transferred'[i])}]
      BY <3>4, <3>7
    <3> QED
      BY <1>2, <3>1, <3>8
  <2>6. rate' = rate /\ UCSWRST' = UCSWRST /\ UCBRW' = UCBRW
    BY DEF spi_transfer_byte
  <2>7. (\A v \in Values : rate[v] # 0 <=> ~UCSWRST[Named(v)])'
    BY <1>2, <1>5, <2>6 DEF IInv, ChannelsReachTheirBlocks
  <2>8. Configured'
    <3>1. \A v : (Divider(v))' = Divider(v)
      BY DEF Divider
    <3> QED
      BY <1>2, <1>5, <2>6, <3>1 DEF IInv, Configured
  <2> QED
    BY <2>5, <2>7, <2>8 DEF ChannelsReachTheirBlocks
<1> QED
  BY <1>4, <1>5 DEF IInv

(***************************************************************************)
(* IInv is an invariant.                                                   *)
(***************************************************************************)
THEOREM Invariant ==
  Spec => []IInv
<1>1. IInv /\ [Next]_vars => IInv'
  <2> SUFFICES ASSUME IInv, [Next]_vars PROVE IInv'
    OBVIOUS
  <2>1. CASE Next
    <3> PICK h \in Handles :
          \/ \E value \in Values, clock_rate \in Rates : spi_open(h, value, clock_rate)
          \/ spi_close(h)
          \/ spi_transfer_byte(h)
      BY <2>1 DEF Next
    <3> QED
      BY OpenKeepsIInv, CloseKeepsIInv, TransferKeepsIInv
  <2>2. CASE UNCHANGED vars
    <3>1. device' = device /\ UNCHANGED <<UCSWRST, UCBRW, spi, rate, transferred, sent>>
      BY <2>2 DEF vars
    <3>2. Values' = Values /\ \A v : (Named(v))' = Named(v)
      BY <3>1, SameDevice
    <3>3. \A v : (Divider(v))' = Divider(v)
      BY DEF Divider
    <3> QED
      BY <3>1, <3>2, <3>3 DEF IInv, TypeOK, ChannelsReachTheirBlocks, Configured
  <2> QED
    BY <2>1, <2>2
<1> QED
  BY <1>1, InitIInv, PTL DEF Spec

-----------------------------------------------------------------------------
(* What follows.                                                           *)

(***************************************************************************)
(* A quotient is below its fraction by less than one.                      *)
(***************************************************************************)
LEMMA QuotientBounds ==
  ASSUME NEW n \in Nat, NEW m \in Nat, m > 0
  PROVE  LET q == n \div m
         IN  q \in Nat /\ q <= n /\ m * q <= n /\ n < (m * q) + m
<1> DEFINE q == n \div m
           r == n % m
<1>1. q \in Nat /\ r \in Nat /\ r < m /\ n = (m * q) + r
  OBVIOUS
<1> HIDE DEF q, r
<1>2. m * q \in Nat /\ q <= m * q
  <2>1. (m - 1) \in Nat /\ (m - 1) * q \in Nat /\ m * q = ((m - 1) * q) + q
    BY <1>1
  <2> QED
    BY <1>1, <2>1
<1>3. q <= n /\ m * q <= n /\ n < (m * q) + m
  BY <1>1, <1>2
<1> QED
  BY <1>1, <1>3 DEF q

(***************************************************************************)
(* If the clock fits 16 bits the register holds every quotient.  On the    *)
(* dev board it is 32768 (main.c:134).                                     *)
(***************************************************************************)
LEMMA DividerIsQuotient ==
  ASSUME ACLK < 65536, NEW clock_rate \in Rates
  PROVE  Divider(clock_rate) = ACLK \div clock_rate
<1>1. ACLK \in Nat /\ clock_rate \in Nat /\ clock_rate > 0
  BY RatesAssumption
<1>2. ACLK \div clock_rate \in Nat /\ ACLK \div clock_rate <= ACLK
  BY <1>1, QuotientBounds
<1>3. ASSUME NEW n \in Nat, n < 65536
      PROVE  n % 65536 = n
  BY <1>3
<1> QED
  BY <1>1, <1>2, <1>3 DEF Divider

\* aclk / divider is no slower than the rate asked for, or than aclk, and less than twice as fast.
WithinTwo(aclk, clock_rate, divider) ==
  LET asked == IF clock_rate < aclk THEN clock_rate ELSE aclk
  IN  asked * divider <= aclk /\ aclk < 2 * asked * divider

(***************************************************************************)
(* The divider of a rate, with 0 counted as 1, gives the clock that was    *)
(* asked for or one that is faster by less than twice.                     *)
(***************************************************************************)
LEMMA QuotientWithinTwo ==
  ASSUME NEW aclk \in Nat, aclk > 0, NEW clock_rate \in Nat, clock_rate > 0
  PROVE  WithinTwo(aclk, clock_rate, IF aclk \div clock_rate = 0 THEN 1 ELSE aclk \div clock_rate)
<1> DEFINE q == aclk \div clock_rate
           divider == IF q = 0 THEN 1 ELSE q
           asked == IF clock_rate < aclk THEN clock_rate ELSE aclk
<1>1. q \in Nat /\ clock_rate * q <= aclk /\ aclk < (clock_rate * q) + clock_rate
  BY QuotientBounds
<1> HIDE DEF q
<1>2. CASE q = 0
  <2>1. aclk < clock_rate
    BY <1>1, <1>2
  <2>2. asked = aclk /\ divider = 1
    BY <1>2, <2>1
  <2> QED
    BY <2>2 DEF q, WithinTwo
<1>3. CASE q # 0
  <2>1. q >= 1 /\ clock_rate * q \in Nat /\ clock_rate * q >= clock_rate
    <3> DEFINE p == clock_rate * (q - 1)
    <3>1. q - 1 \in Nat /\ p \in Nat
      BY <1>1, <1>3
    <3>2. clock_rate * q = p + clock_rate
      BY <1>1, <3>1
    <3> HIDE DEF p
    <3> QED
      BY <1>1, <1>3, <3>1, <3>2
  <2>2. clock_rate <= aclk /\ asked = clock_rate
    BY <1>1, <2>1
  <2>3. divider = q
    BY <1>3
  <2>4. 2 * clock_rate * q = (clock_rate * q) + (clock_rate * q)
    BY <1>1
  <2>5. clock_rate * q <= aclk /\ aclk < 2 * clock_rate * q
    BY <1>1, <2>1, <2>4
  <2> QED
    BY <2>2, <2>3, <2>5 DEF q, WithinTwo
<1> QED
  BY <1>2, <1>3

(***************************************************************************)
(* TypeOK holds of either driver, whatever the blocks, their addresses and *)
(* the rates.                                                              *)
(***************************************************************************)
THEOREM BlocksTypeCorrect ==
  Spec => []TypeOK
<1>1. IInv => TypeOK
  BY DEF IInv
<1> QED
  BY <1>1, Invariant, PTL

(***************************************************************************)
(* ChannelsReachTheirBlocks holds of the eUSCI driver on every device: the *)
(* enumeration, the table and the list of A blocks agree whatever their    *)
(* #ifdefs leave of them, so that the blocks out of reset are those of the *)
(* open channels, and each byte went to the one block its channel is named *)
(* after.                                                                  *)
(***************************************************************************)
THEOREM ChannelIsItsBlock ==
  ASSUME Family = "EUSCI"
  PROVE  Spec => []ChannelsReachTheirBlocks
<1>1. IInv => ChannelsReachTheirBlocks
  BY DEF IInv
<1> QED
  BY <1>1, Invariant, PTL

(***************************************************************************)
(* RateWithinTwo holds of the eUSCI driver for every clock that fits 16    *)
(* bits and every rate: an open channel's block runs no slower than asked  *)
(* and less than twice as fast.                                            *)
(***************************************************************************)
THEOREM OpenKeepsItsRate ==
  ASSUME Family = "EUSCI", ACLK < 65536
  PROVE  Spec => []RateWithinTwo
<1>1. IInv => RateWithinTwo
  <2> SUFFICES ASSUME IInv, NEW value \in Values, rate[value] # 0
               PROVE  LET asked == IF rate[value] < ACLK THEN rate[value] ELSE ACLK
                      IN  asked * DividesBy(value) <= ACLK /\ ACLK < 2 * asked * DividesBy(value)
    BY DEF RateWithinTwo
  <2>1. rate[value] \in Rates
    BY DEF IInv, TypeOK
  <2>2. rate[value] \in Nat /\ rate[value] > 0 /\ ACLK \in Nat /\ ACLK > 0
    <3>1. ACLK \in Nat /\ ACLK > 0
      BY RatesAssumption
    <3>2. \A r \in Rates : r \in Nat /\ r > 0
      BY RatesAssumption
    <3> QED
      BY <2>1, <3>1, <3>2
  <2>3. UCBRW[Named(value)] = ACLK \div rate[value]
    BY <2>1, DividerIsQuotient DEF IInv, Configured
  <2>4. DividesBy(value) = IF ACLK \div rate[value] = 0 THEN 1 ELSE ACLK \div rate[value]
    BY <2>3 DEF DividesBy
  <2> QED
    <3>1. WithinTwo(ACLK, rate[value], DividesBy(value))
      BY <2>2, <2>4, QuotientWithinTwo
    <3> QED
      BY <3>1 DEF WithinTwo
<1> QED
  BY <1>1, Invariant, PTL
=============================================================================
