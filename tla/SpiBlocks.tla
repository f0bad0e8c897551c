------------------------------ MODULE SpiBlocks ------------------------------
(***************************************************************************)
(* Which block of registers a SPI channel reaches.  A channel is known by  *)
(* its place in an enumeration of the blocks its device has; spi_open,     *)
(* spi_close and spi_transfer_byte look up a base address there, ask       *)
(* whether it is an A or a B block's, and use the registers of that kind   *)
(* at that address.  The enumeration, the table and the list of A blocks   *)
(* are three lists with an #ifdef around each entry.  The eUSCI and the    *)
(* USCI driver are one text in which only the table's entries differ.      *)
(*                                                                         *)
(* Calls are atomic here: what happens inside one block while a call is in *)
(* progress is SpiMaster's subject.                                        *)
(***************************************************************************)
EXTENDS Naturals, Sequences

CONSTANTS
  Family,    \* the driver that is built: "EUSCI" or "USCI"
  Devices,   \* the sets of blocks that devices have
  Base,      \* the base address of a block
  Handles,   \* the spi_t that the program keeps
  ACLK,      \* the frequency of the clock that drives the blocks
  Rates,     \* the clock rates that spi_open is called with
  MaxBytes   \* bound: bytes transferred

ABlocks == {"A0", "A1", "A2", "A3"}
Blocks == ABlocks \cup {"B0", "B1", "B2", "B3"}
Kind(block) == IF block \in ABlocks THEN "A" ELSE "B"

ASSUME FamilyAssumption == Family \in {"EUSCI", "USCI"}
ASSUME DevicesAssumption == \A d \in Devices : d \subseteq Blocks /\ d # {}
\* No block is at the lowest addresses, where the special registers are.
ASSUME BaseAssumption ==
  /\ Base \in [Blocks -> Nat \ (0 .. 7)]
  /\ \A b, c \in Blocks : Base[b] = Base[c] => b = c
\* A rate of 0 is a division by zero.
ASSUME RatesAssumption == ACLK \in Nat \ {0} /\ Rates \subseteq Nat \ {0}
ASSUME MaxBytesAssumption == MaxBytes \in Nat

VARIABLES
  device,      \* the blocks of the device the program is built for
  UCSWRST,     \* for each of them: held in reset
  UCBRW,       \* for each of them: what ACLK is divided by
  spi,         \* for each handle the enumeration value in it, Unset before
  \* History.
  rate,        \* for each value the rate its channel was opened with, 0 when closed
  transferred, \* the values of the transfers that returned SPI_NO_ERROR
  sent         \* for each of them the blocks that the byte was written to

vars == <<device, UCSWRST, UCBRW, spi, rate, transferred, sent>>

Unset == 8   \* no enumeration value

-----------------------------------------------------------------------------
(* The tables.                                                             *)

\* What an #ifdef on a block leaves of a list's entry.
IfPresent(block, entry) == IF block \in device THEN <<entry>> ELSE <<>>

\* The enumeration: the blocks the device has, counted from 0.
Enumeration ==
  IfPresent("A0", "A0") \o IfPresent("A1", "A1") \o IfPresent("A2", "A2") \o IfPresent("A3", "A3") \o
  IfPresent("B0", "B0") \o IfPresent("B1", "B1") \o IfPresent("B2", "B2") \o IfPresent("B3", "B3")
Values == 0 .. Len(Enumeration) - 1
Named(value) == Enumeration[value + 1]

\* Mutant: the table is in the order of the addresses.
eusci_BASE_ADDRESSES_Interleaved ==
  IfPresent("A0", Base["A0"]) \o IfPresent("B0", Base["B0"]) \o
  IfPresent("A1", Base["A1"]) \o IfPresent("B1", Base["B1"]) \o
  IfPresent("A2", Base["A2"]) \o IfPresent("B2", Base["B2"]) \o
  IfPresent("A3", Base["A3"]) \o IfPresent("B3", Base["B3"])

eusci_BASE_ADDRESSES ==
  IfPresent("A0", Base["A0"]) \o IfPresent("A1", Base["A1"]) \o
  IfPresent("A2", Base["A2"]) \o IfPresent("A3", Base["A3"]) \o
  IfPresent("B0", Base["B0"]) \o IfPresent("B1", Base["B1"]) \o
  IfPresent("B2", Base["B2"]) \o IfPresent("B3", Base["B3"])

\* The value of a constant of the enumeration.
Constant(block) == CHOOSE value \in Values : Named(value) = block

\* The entries of this table are the enumeration's own constants.
usci_BASE_ADDRESSES ==
  IfPresent("A0", Constant("A0")) \o IfPresent("A1", Constant("A1")) \o
  IfPresent("A2", Constant("A2")) \o IfPresent("A3", Constant("A3")) \o
  IfPresent("B0", Constant("B0")) \o IfPresent("B1", Constant("B1")) \o
  IfPresent("B2", Constant("B2")) \o IfPresent("B3", Constant("B3"))

BASE_ADDRESSES(value) ==
  (IF Family = "EUSCI" THEN eusci_BASE_ADDRESSES ELSE usci_BASE_ADDRESSES)[value + 1]

\* The comparison an #ifdef on a block leaves of a list of them.
Compares(block, base_address) == block \in device /\ base_address = Base[block]

is_a_block(base_address) ==
  \/ Compares("A0", base_address)
  \/ Compares("A1", base_address)
  \/ Compares("A2", base_address)
  \/ Compares("A3", base_address)

\* The block whose registers the A or B half of the driver then uses, if any.
Reached(value) ==
  LET base_address == BASE_ADDRESSES(value)
      half == IF is_a_block(base_address) THEN "A" ELSE "B"
  IN  {b \in device : Base[b] = base_address /\ Kind(b) = half}

\* What UCSWRST may read as: anything in a register that is no block's.
ReadsReset(value, bit) == \A b \in Reached(value) : bit = UCSWRST[b]

-----------------------------------------------------------------------------
(* The calls.                                                              *)

Word == 0 .. 65535   \* what a register of 16 bits holds

\* What initMaster writes into that register.
Divider(clock_rate) == (ACLK \div clock_rate) % 65536

\* Mutant: the base address is kept instead of the enumeration value.
spi_open_KeepsAddress(h, value, clock_rate) ==
  /\ ReadsReset(value, TRUE)
  /\ UCSWRST' = [b \in device |-> UCSWRST[b] /\ b \notin Reached(value)]
  /\ UCBRW' = [b \in device |-> IF b \in Reached(value) THEN Divider(clock_rate) ELSE UCBRW[b]]
  /\ spi' = [spi EXCEPT ![h] = BASE_ADDRESSES(value)]
  /\ rate' = [rate EXCEPT ![value] = clock_rate]
  /\ UNCHANGED <<device, transferred, sent>>

\* Mutant: the block is configured before it is found to be in use.
spi_open_TestsLate(h, value, clock_rate) ==
  LET free == ReadsReset(value, TRUE)
  IN  /\ UCSWRST' = [b \in device |-> UCSWRST[b] /\ b \notin Reached(value)]
      /\ UCBRW' = [b \in device |-> IF b \in Reached(value) THEN Divider(clock_rate) ELSE UCBRW[b]]
      /\ spi' = IF free THEN [spi EXCEPT ![h] = value] ELSE spi
      /\ rate' = IF free THEN [rate EXCEPT ![value] = clock_rate] ELSE rate
      /\ UNCHANGED <<device, transferred, sent>>

\* A spi_open that succeeds; one that finds UCSWRST clear changes nothing.
spi_open(h, value, clock_rate) ==
  /\ ReadsReset(value, TRUE)
  /\ UCSWRST' = [b \in device |-> UCSWRST[b] /\ b \notin Reached(value)]
  /\ UCBRW' = [b \in device |-> IF b \in Reached(value) THEN Divider(clock_rate) ELSE UCBRW[b]]
  /\ spi' = [spi EXCEPT ![h] = value]
  /\ rate' = [rate EXCEPT ![value] = clock_rate]
  /\ UNCHANGED <<device, transferred, sent>>

spi_close(h) ==
  /\ spi[h] # Unset
  /\ UCSWRST' = [b \in device |-> UCSWRST[b] \/ b \in Reached(spi[h])]
  /\ rate' = [rate EXCEPT ![spi[h]] = 0]
  /\ UNCHANGED <<device, UCBRW, spi, transferred, sent>>

\* A transfer that finds UCSWRST clear; otherwise it is SPI_CHANNEL_CLOSED.
spi_transfer_byte(h) ==
  /\ spi[h] # Unset
  /\ Len(transferred) < MaxBytes
  /\ ReadsReset(spi[h], FALSE)
  /\ transferred' = Append(transferred, spi[h])
  /\ sent' = Append(sent, Reached(spi[h]))
  /\ UNCHANGED <<device, UCSWRST, UCBRW, spi, rate>>

Init ==
  /\ device \in Devices
  /\ UCSWRST = [b \in device |-> TRUE]
  /\ UCBRW = [b \in device |-> 0]
  /\ spi = [h \in Handles |-> Unset]
  /\ rate = [value \in Values |-> 0]
  /\ transferred = <<>> /\ sent = <<>>

Next ==
  \E h \in Handles :
    \/ \E value \in Values, clock_rate \in Rates : spi_open(h, value, clock_rate)
    \/ spi_close(h)
    \/ spi_transfer_byte(h)

Spec == Init /\ [][Next]_vars

-----------------------------------------------------------------------------
(* Properties.                                                             *)

TypeOK ==
  /\ device \in Devices
  /\ UCSWRST \in [device -> BOOLEAN] /\ UCBRW \in [device -> Word]
  /\ spi \in [Handles -> Values \cup {Unset}]
  /\ rate \in [Values -> Rates \cup {0}]
  /\ transferred \in Seq(Values)
  /\ sent \in Seq(SUBSET device)

(***************************************************************************)
(* Whatever blocks a device has, a channel is its own block and no other,  *)
(* so that the enumeration, the table of base addresses and the list of A  *)
(* blocks agree once the #ifdefs have taken their entries out: the blocks  *)
(* out of reset are those of the channels opened and not closed since, and *)
(* each byte went to the one block its channel is named after, through the *)
(* registers of that block's kind.                                         *)
(***************************************************************************)
ChannelsReachTheirBlocks ==
  /\ \A value \in Values : rate[value] # 0 <=> ~UCSWRST[Named(value)]
  /\ sent = [i \in 1 .. Len(transferred) |-> {Named(transferred[i])}]

\* What the block of a channel divides ACLK by; a divider of 0 counts as 1.
DividesBy(value) == IF UCBRW[Named(value)] = 0 THEN 1 ELSE UCBRW[Named(value)]

(***************************************************************************)
(* While a channel is open its block runs at the rate of the call that     *)
(* opened it, whatever other calls failed since: never slower than asked,  *)
(* unless more than ACLK was asked, and less than twice as fast.           *)
(***************************************************************************)
RateWithinTwo ==
  \A value \in Values : rate[value] # 0 =>
    LET asked == IF rate[value] < ACLK THEN rate[value] ELSE ACLK
    IN  asked * DividesBy(value) <= ACLK /\ ACLK < 2 * asked * DividesBy(value)

(***************************************************************************)
(* What spi_open is called for, "The USCI channel to use"                  *)
(* (spi_usci_native.h:20), leads to the registers of that block, whatever  *)
(* those of no block may contain.                                          *)
(***************************************************************************)
EveryChannelHasItsBlock == \A value \in Values : Reached(value) = {Named(value)}
=============================================================================
