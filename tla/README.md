# A TLA+ model of the VT-VCC flight software

The repository holds the software of three boards of a small satellite: drivers for a UART, a SPI bus and the
Lithium radio, one real program (the dev board's, on FreeRTOS) and two placeholder programs. This directory
holds TLA+ modules of the parts that carry logic, TLC configurations that check them on small instances, and
TLAPS proofs for every value of the constants. `PROJECT.json` lists, for machines and for readers, which
definition models which lines (`map`), the runs, one mutation of the code per checked property (`mutants`), the
hazards, the findings and the theorems.

To repeat the checks, in this directory:

    tlc -workers 2 -config MCLithiumRadio_faults.cfg MCLithiumRadio
    tlapm LithiumRadioProofs.tla

## 1. Inventory

Paths are relative to `src/`. "Hard" is what tests of this code hardly reach, "correct" what would make the
component right.

**Lithium wire format** (`data_board/common/lithium.c` 134-292, `lithium.h`, `lithium_internal.h`).
No state. `compute_checksum` (Fletcher-16 with two wrapping `uint8_t`), `encode_header`, `encode_body`,
`lithium_parse_header`, `lithium_parse_body`, `lithium_is_ack`, `lithium_is_nack`.
Hard: lengths that are no lengths (ACK is 0x0a0a, NACK 0xffff), 0 and 255; checksums that wrap; an order of
checks that decides between INVALID_PACKET and INVALID_CHECKSUM. Correct: what is encoded is parsed back, what
is corrupted is refused, and the parser's `remaining_bytes` is the number of bytes the sender has sent.

**Lithium driver, receive path** (`lithium_receive_packet`, lines 101-131, `lithium_open`, `lithium_close`).
State: the UART channel in `radio->uart`, the caller's `lithium_packet_t`. It reads 8 bytes, parses them, stores
the fields in the caller's packet, then reads the body. It calls `uart_read_bytes` twice.
Hard: bytes come at the line's pace, between the two reads too; a byte is lost or corrupted and the driver, which
never searches for the sync bytes, is out of step; a header is consumed and its body is not; a close drops what
was buffered. Correct: every packet once and in order on a clean line, nothing invented on any line.

**Lithium driver, send path** (`lithium_send_packet`, the macros `EMIT_SEND` and `EMIT_SEND_PAYLOAD` and the
functions they generate, `send_data`). State: a frame on the stack, the channel.
Hard: a write that fails in the middle of a frame; payload lengths 0, 255 and beyond; two senders. Correct: the
line carries whole frames that the other end can parse, and LITHIUM_NO_ERROR means that the frame was written.

**UART, common part** (`board_common/common/uart.c`): `uart_write_bytes` and `uart_write_string`, loops over
`uart_write_byte` that end with the first error. It is called by the radio driver (bytes) and by the dev board
(strings).

**UART on eUSCI** (`board_common/native/uart_eusci_native.c`). State: the registers, the global `read_byte`.
The receive interrupts of A0 and A1 store into `read_byte`; `uart_write_byte` polls UCTXIFG, writes the byte and,
if `read_byte` is not 0, blinks a LED 32 times and clears it.
Hard: the interrupt against the writer; three seconds in a write, once inside a critical section.

**UART on USCI** (`uart_usci_native.c`): three stubs that assert. **UART for tests** (`board_common/test/impl`):
the only UART that can read; a queue of bytes filled by `push_byte`, emptied by `uart_read_bytes`, which takes all
it was asked for or nothing. It is a vector filled at its front and emptied at its back; `push_bytes` inserts its
group as it is, so that the group's last byte is read first. Correct: each byte is read once and in the order that
follows from the pushes, whatever the calls it is read with. The native builds have no `uart_close` and no reading function.

**SPI, common part** (`board_common/common/spi.c`): loops over `spi_transfer_byte` that end with the first error.
**SPI master on eUSCI** (`spi_eusci_native.c`): `spi_open` tests UCSWRST, configures the block, clears it;
`spi_close` sets it; `spi_transfer_byte` polls UCTXIFG, writes UCxxTXBUF, reads UCxxRXBUF. State: the registers,
shared by every task that uses the block. **SPI master on USCI** (`spi_usci_native.c`): the same for the older
peripheral. **SPI for tests**: a stub that answers each byte with its successor.
Hard: the transmitter is double-buffered, so three bytes are in play; a flag that is tested and then acted upon;
polling without a bound. Correct: bytes go out in order, each once; an answer belongs to the byte it is returned
for; one owner per block; an open channel's clock is what it was opened with; every call returns.

**Dev board program** (`dev_board/native/main.c`). `main` opens the UART, creates a queue (unused) and two tasks,
writes a text and starts FreeRTOS. `task_transmit_blink_signal` (priority 2) writes a text in a critical section
and then "T2" every 10 ticks; `task_blink_led` (priority 1) toggles a pin every tick; the idle hook clears it.
Hard: two tasks, the idle task, the tick and the receive interrupt in every order; a write
that takes seconds. Correct: texts come out whole and in order, both tasks go on for ever.

**Data and sensor board programs**: a loop that toggles a pin. **factorial, gcd**: pure arithmetic that only a test
calls; what is hard in gcd is C's % of negative numbers. **Vendored**: FreeRTOS, MSP430 driverlib, Catch.

The components interact by calls alone: programs call drivers, drivers call the channel they were opened on. The
only shared state is that of the peripherals, `read_byte`, and the kernel's. No program calls the radio driver yet.

## 2. The modules

| Module | Models | Kind |
|---|---|---|
| `LithiumCodec` | wire format | constant operators |
| `LithiumHeaderNoise` | an encoded header on a line that corrupts its bytes, and the parser | state machine |
| `LithiumRadio` | line, UART buffer, `lithium_receive_packet`, open, close | state machine |
| `LossyFifo` | what a receive path promises on any line | abstract specification |
| `LithiumSend` | the send functions, `uart_write_bytes`, open, close, for several senders | state machine |
| `Uart` | the UART that can read, and the common part on top of it | state machine |
| `ByteFifo` | what a serial channel promises | abstract specification |
| `SpiMaster` | one eUSCI block and the tasks that use it | state machine |
| `SpiBlocks` | which block a channel reaches, for both SPI drivers | state machine |
| `DevBoard` | the dev board's program, UART, interrupt, tick | state machine |
| `Gcd` | `gcd` | state machine |
| `LithiumCodecProofs`, `LithiumHeaderNoiseProofs`, `LithiumRadioProofs`, `LithiumSendProofs`, `SpiMasterProofs`, `SpiBlocksProofs`, `DevBoardProofs`, `GcdProofs` | theorems about the module they are named after | proofs |
| `MC...` | values for the constants | instances |

`LithiumRadio` and `LithiumSend` extend `LithiumCodec`; `LithiumRadio` has an instance of `LossyFifo` with a
refinement mapping, `SpiMaster` one of `ByteFifo`. An operator whose name ends in `_Something`
and whose comment begins with "Mutant" is a plausible mistake in the definition below it; nothing uses it.

### LithiumCodec

A C array is a sequence, so `raw_packet[i]` is `raw[i + 1]`. `ChecksumSums(data)[i]` is the pair of accumulators
after `i` bytes, a recursive function and not a RECURSIVE operator, which the prover cannot handle. `PacketRecord`
and `IsPacket` describe the packets a user of the driver sees: the 255 byte array is cut to the bytes in use, and
an ACK or a NACK has none. `RadioFrame` is the frame the radio sends, as `data_board/test/lithium.cpp` has it: a
packet without payload is a header alone. The NULL checks, which every caller in the code passes, and
`lithium_parse_body`'s check of the buffer's length, which its one caller always passes, are left out.

### LithiumHeaderNoise

`encode_header`'s bytes, and a step `CorruptByte(i, b)` for each byte not yet hit; at most two are.

### LithiumRadio

`stream` holds all bytes the radio has put on the line; `arrived` and `rd` cut it into the bytes the driver has
taken, those in the UART's queue (`uart_impl`'s buffer), and those on their way. `lithium_receive_packet` is two
actions because bytes and a `lithium_close` come between its two `uart_read_bytes`: `ReceiveHeader` (to line 117)
and `ReceiveBody`. Each action has one disjunct per way the code leaves it. `packet` is the caller's struct:
the header's fields are stored in it before the body is read, and a body overlays the first bytes of its array, as
the code's `memcpy` does. The struct is the same in every call, as with a caller that keeps one on its stack.
`Received(p)` is what such a caller makes of it.

The line (`RadioTransmit`, `LoseByte`, `CorruptByte`, `ByteArrives`, `ByteUnheard`) is external. Histories: `sent`,
`starts` (where each frame begins), `delivered`, `faults` and `clean`.

Between `uart_close` and the next `uart_open` the code has no channel object at all; the model keeps one
`uart_open` flag, and a byte that comes meanwhile is gone.

### LithiumSend

Every function that sends is one of three shapes: `SendCommand` (`EMIT_SEND`), `SendPayload`
(`EMIT_SEND_PAYLOAD`, body unconditional, line 63) and `lithium_send_packet` (body only when the length is not
zero). Each encodes a frame in an array of its own; `WriteByte` is one turn of the loop of `uart_write_bytes`, with
other senders' calls and turns, `lithium_close` and `lithium_open` between any two turns. Nothing locks the channel.
`wire` has, for each call in the order of their beginnings, the bytes it has put on the line: of calls that do not
overlap (`mixed` is FALSE) that is the line from its beginning to its end; of calls that do, the order in which their
bytes alternate is left out, as nothing can be said about it. `PayloadLengths` has the lengths of every function;
`sizeof(lithium_config_t)` and `sizeof(lithium_rf_config_t)`, which the code takes from the compiler, are constants.
`Parsed(bytes)` runs the driver's own parser over bytes: a recursive function of the offset, with `FrameEnd`,
`FrameAccepted` and `PacketAt` for what one receive does there. `done` has the packets of the calls that returned
LITHIUM_NO_ERROR, each with its sender, and `Of` picks what some senders have in `wire` and in `done`.

### Uart

One thread uses the test channel, so a call is a step. `input` is the vector as the code has it, its last element
read first. The history `pushed` has what was pushed as it was pushed, a group as a group; `Due` turns each group
round and says in what order its bytes must be read. This is not the queue that the name `push_bytes` suggests:
`data_board/test/lithium.cpp` 7-11 sets `input` by hand and reverses it. `uart_write_string` of an empty string may return anything
(`Garbage`). `LithiumRadio` and `LithiumSend` have their own, smaller picture of this channel, byte by byte.

### SpiMaster

A byte is named by its number in the order of writes to UCxxTXBUF, and the slave's answer to byte n is n. That is
enough to tell which answer a transfer has got. `txbuf`, `shift` and `rxbuf` are the three registers; `LoadShift`
and `ShiftOut` are the transmitter. UCTXIFG is set exactly when `txbuf` is empty. `spi_open` is three steps (test,
configure, enable) and `spi_transfer_byte` four (check, wait, transmit, receive), which is where another task or the
transmitter can come in. The five block functions of `spi.c` are one action with a length: they differ in data
only. UCxxRXBUF is not cleared by anything in the code, so it keeps an answer over a close. `mixed` is set once a
task calls while another is inside a call. From then on the driver, which has no lock, promises little: two
tasks that both found UCTXIFG set write over each other's byte, which line 146 of the driver calls undefined
behaviour. What it does promise is `OneByteIntoClosed` and `CallsReturn`.
That a byte is lost when another task fills the buffer between the test and the write is a step of the model and the
subject of no property.

### SpiBlocks

The eUSCI and USCI drivers are one text over different tables. A channel is its place in the enumeration of the blocks
that the device has; the driver looks up a base address (`BASE_ADDRESSES`), asks `is_a_block` and uses the A or B
registers there. `Enumeration`, the two tables and `is_a_block` are four lists of the source, each translated by
itself, entry for entry with the `#ifdef` around it (`IfPresent`, `Compares`): that they agree on every device is what
`ChannelsReachTheirBlocks` checks, and two entries exchanged or one left out in any of the eUSCI lists violate it. Which
blocks are A blocks in the hardware (`Kind`) is a fact of its own. `Reached` is the block those
are, or none: a register that belongs to no block may read as anything (`ReadsReset`). The calls are atomic, and those
that change nothing (an open of an open block, a transfer on a closed one) are left out, as they are stuttering. Base
addresses themselves come from the compiler's device headers and are a constant. `Divider` is what the driver library
writes to UCBRW; an open that finds the block in use must leave it alone. A rate that does not divide ACLK comes out
faster, by less than twice, and a rate above ACLK is ACLK: `RateWithinTwo` is as much as the code can promise of
`clock_rate`, "the clock rate at which we will run".

### DevBoard

`main` begins with `hardware_config`, `test_aclk` and `uart_open`, one step each, as nothing else runs before the
channel receives. P1OUT is not reset by a restart, so `led` may be either at first.
Texts are sequences of two or three characters in place of seventeen: what matters is that they have a first, a
middle and a last character. `uart_write_byte` is `Put` (the poll and the write), `CheckReadByte` and
`ClearReadByte` (the end of the 32 delays). `TransmitRuns`, `BlinkRuns` and `IdleRuns` say who has the processor:
the ready task of the highest priority. FreeRTOS leaves interrupts off from the first critical section until
the scheduler starts (its nesting count starts at 10), so `CreateTasks` clears GIE and `vTaskStartScheduler`
sets it. `EnterCritical` and `ExitCritical` are the task's own critical section.

### Gcd

The loop with C's remainder, which has the sign of its first operand. It is the one module without a run: its two
properties are theorems for all integers.

## 3. What the runs check

| Run | Properties | Bounds | Shows |
|---|---|---|---|
| `header_noise` | TypeOK, TwoBadBytesRejected | 2 commands, 4 lengths, 10 noise values, 2 hits | an encoded header is accepted, and refused with one or two bytes corrupted |
| `radio_faults` | TypeOK, CleanFifo, ImplementsLossyFifo | 3 packets, 3 frames, 1 fault | in order and complete on a clean line; at worst incomplete on any other |
| `send_calls` | TypeOK, WireParsesBack, OwnBytesParseBack, NoErrorMeansSent | 2 senders, 3 calls of every shape | what is sent can be parsed, each sender's own bytes also when calls overlap; NO_ERROR means sent |
| `uart_fifo` | EachGroupBackwards | 2 values, 5 bytes in, 3 out, reads of 0 to 3 | each byte is read once, groups in order and each backwards |
| `spi_calls` | TypeOK, NoOverrun, AnswerLag, OneByteIntoClosed, ImplementsByteFifo, CallsReturn | 2 tasks, blocks of 1 and 3, 4 bytes | without overlap a channel of two bytes with answers at most two late; at most one byte into a block closed under a task; calls return |
| `spi_blocks` | TypeOK, ChannelsReachTheirBlocks, RateWithinTwo | devices of up to 3 blocks and one of 4, 2 handles, a rate below and one above ACLK, 2 bytes | enumeration, table and list of A blocks agree, so that a channel is its own block on every device; it runs at its own rate |
| `dev_board` | TypeOK, TextsIntact, SignalsForever, LedBlinks, BytesBlink | a zero and a non-zero byte, the code's delay of 10 | texts come out whole, both tasks go on, bytes that come in are noticed |
| `send_empty` | WireParsesBack | 1 call, length 0 | violated: finding 1 |
| `send_key` | KeyIsFourBytes | 1 call | violated: finding 2 |
| `spi_answer` | AnswersOwnByte | 1 task, 2 bytes | violated: finding 3 |
| `spi_open` | OneOpener | 2 tasks | violated: finding 4 |
| `spi_blocks_usci` | EveryChannelHasItsBlock | as `spi_blocks` | violated: finding 5 |

Why the bounds are enough.

- `header_noise`: commands 0 and 32 are the ends of the range, the lengths are both ends of the payload's and
  the two that mean something else; the noise contains all the values that turn one valid field into another and
  the pairs of changes that cancel in sums modulo 256. The theorem `NoiseDetected` removes the bounds.
- `radio_faults`: an ACK, a NACK and a packet with a body of two bytes, three frames, so that there is one before and one after
  the frame that is hit. The noise values include a sync byte. Losses by close and by a body read that comes too
  early are not bounded. One fault only: two changed bytes of a *body* can cancel in the 8 bit sums (the top bits
  of two bytes an even distance apart), and then the driver delivers a packet nobody sent. That is a limit of the
  code's checksum and not of the model, and it is why `ImplementsLossyFifo` is not a theorem.
  The length 255 is left to the theorem `RadioIsFifo`.
  A payload that looks like a frame could be taken for one by a receiver that is out of step; the payloads of
  this instance cannot, for the same reason.
- `send_calls`: two calls can leave something between them, the third finds it; two senders overlap in every way, and a
  third would add no new kind of overlap. Two senders are interchangeable (symmetry). The memory behind a caller's
  pointer is one pattern, as no decision depends on it.
- `uart_fifo`: five bytes are more than the longest read and the longest group, so that reads cross the groups they
  were pushed in.
- `spi_calls`: a block of three is longer than the two registers, four bytes allow a block and a transfer behind or
  inside it with a close and an open anywhere. Two tasks are all that a test and the write behind it can have between
  them.
- `spi_blocks`: two lists that disagree do so for some two blocks, and which blocks exist is all that the lists depend
  on; two handles, so that one can be used after the other has closed the block; the handles are interchangeable
  (symmetry).
- `dev_board`: not bounded; the state space is finite.

`send_calls` leaves length 0 out of `DataLengths` because of finding 1, which is what `send_empty` shows.

`header_noise` says CHECK_DEADLOCK FALSE: it ends when two bytes have been hit. The other passing runs check for
deadlock: a radio, a bus and a program always have something that can happen.

### Fairness

- `SpiMaster`: the clock of an enabled block runs (weak fairness of `LoadShift` and `ShiftOut`) and a task inside
  a call gets the processor (weak fairness of its steps). No task must begin a call. That two tasks' calls return
  rests on the bound on bytes as well: of two tasks that send for ever, one could find the buffer full each time it
  looks, and nothing in the driver is fair between them.
- `DevBoard`: the transmitter runs (weak). The tick, the interrupt, the writer and the blink task are strongly
  fair: a tick is 100 ms (`configTICK_RATE_HZ` 10) and a step a few instructions at 8 MHz, so whatever is enabled
  again and again is done, although ticks, interrupts and critical sections disable it in between.
- `LithiumRadio`, `LithiumSend` and `Uart` have none: nothing in the repository calls the driver in a loop, so there is
  no progress the code could promise. They state safety only.

## 4. What is proved

All theorems hold for every value of the constants that satisfies the named assumptions, which TLC evaluates on every
run. They say what the program can have: commands, lengths and noise (`HeadersAssumption`, `NoiseAssumption`,
`NoiseBytesAssumption`), packets as the header describes them (`RadioPacketsAssumption`, `UserPacketsAssumption`), a
caller's memory and lengths within the 255 bytes of a payload (`MemoriesAssumption`, `LengthsAssumption` of
`LithiumSend`), block transfers of one byte or more (`LengthsAssumption` of `SpiMaster`), base addresses that differ
and lie above the special registers (`BaseAssumption`), rates other than 0 (`RatesAssumption`), received bytes and a
delay of a tick or more (`RxBytesAssumption`, `DelayAssumption`), and bounds that are numbers. Three theorems about
`LithiumSend` and two about `SpiBlocks` have a hypothesis of their own, given below. Each inductive invariant was an
invariant of a TLC run before it was proved.

**LithiumCodecProofs.** `ChecksumType`: two bytes for data of any length. `OneBadByteChangesChecksum`: a change of
one byte of data of any length changes the checksum. `FrameRoundTrip`: the parser accepts the frame of every packet
and finds its fields, its length and its payload in it. The sums are a recursive function, and an argument about
"every length" would be an induction over a formula, which the installed provers cannot take. Instead `SumsExist`
and the one-bad-byte theorem take the *least* number at which a claim fails (`LeastNatural`) and derive a
contradiction with the step before it.

**LithiumHeaderNoiseProofs.** `NoiseTypeCorrect`, `NoiseDetected`: no one or two corrupted bytes turn an encoded
header into an accepted one. The inductive invariant `IInv` says that `header` is what `encode_header` has made of
some fields, that `line` differs from it at most at the places in `hits`, at each of which it does differ, and that
there are at most two. `CodeDistance` is the arithmetic: two accepted headers that differ do so in three places
or more. The sums alone would not give it; the checks of type, command and length are needed.

**LithiumRadioProofs.** `RadioTypeCorrect`. TypeOK is not inductive: in the middle of a receive the payload length in
the caller's packet must be the one of the header at `start`, or `ReceiveBody` would read outside of the frame.
`BodyInv` says so, and that a receive between calls begins where the last one ended; `TypeInv` is both.
`RadioIsFifo`: `CleanFifo` for any set of packets, any number of frames, and every interleaving. The invariant
`CleanInv` says of a clean line that the channel is open, that `stream` is the frames of `sent` laid end to end with
`starts` as their offsets (`Layout`), and that the driver stands at the start of, or inside, the frame of the next
packet to deliver (`Delivery`). There is one lemma per action; `CurrentFrame` connects the bytes under the
driver's hand with `FrameRoundTrip`.

**LithiumSendProofs.** `SendTypeCorrect`, without a hypothesis. `NoErrorWholeFrame`, `DriverReadsItself` and
`SenderReadsItself` (NoErrorMeansSent, WireParsesBack, OwnBytesParseBack) for any senders and any number of calls,
under the hypothesis `NoEmptyPayload`: no payload function is called with length 0. Finding 1 is that case, so the
hypothesis cannot be dropped; `send_calls` satisfies it. `ParseOneMore` is the theorem about the parser they rest on:
if bytes parse to some packets with nothing left over, these bytes and the frame of one packet more parse to those
packets and that one. What `Parsed` computes depends on all that follows an offset, so its proof goes from the end of
the bytes to the front, by the offset nearest to the end at which the claim fails (`LeastNatural` again), and meets
`FrameRoundTrip` at the new frame. Overlapping calls add bytes to different entries of `wire`; `Laid` and `LayDown`
say how what `Of` lays end to end changes when one entry grows or one is appended. The invariant: `Shape` has the
types of what TypeOK leaves open; `CountInv` that a call is in `done` only after it was in `wire` and ended; `SentInv`
that the entry of a sender's last call is the first `pos` bytes of its frame, and all of them after LITHIUM_NO_ERROR;
`ParseInv(senders)` that what these senders have on the line parses to their packets, or does up to the one call that
is still sending, which is their last. It holds of each sender alone, and of all senders until calls have overlapped.
With a sender in `torn` it says nothing, as the properties do.

**SpiMasterProofs.** For any tasks, block lengths and bound on bytes. `SpiTypeCorrect` needs `LeftInv` (inside a
transfer bytes are left). `OneByteIntoClosedBlock` is the promise that holds also when calls overlap; its invariant
`LostInv` says that after one lost byte the block is in reset and the task has yet to look whether it is, before it
may write again. `AnswersLateByTwo`, `NoByteOverruns` and `SpiIsByteFifo` speak of calls that do not overlap.
`AloneInv`: one task is inside a call, what it has seen of UCSWRST and UCTXIFG still holds, and the numbers of bytes
begun, asked for and written agree. `InARow`: the bytes sent since the open are those the slave has heard, then the
one in the shift register, then the one in the buffer, without a gap. `SpiIsByteFifo` is the refinement, step by step:
`Transmit` is a Put, `ShiftOut` a Take, `enable` an Open, `spi_close` and `initMaster` a Close, and every other step
is a stutter.

**SpiBlocksProofs.** `BlocksTypeCorrect` holds of both drivers. `ChannelIsItsBlock` and `OpenKeepsItsRate` have the
hypothesis that the driver is the eUSCI one, since the USCI table leads to no block (finding 5), and the second also
that ACLK is less than 65536, so that no divider is cut to 16 bits: main.c:134 tests that it is 32768.
`EnumerationLists`: on any device the enumeration has the device's blocks once each. `TableAgrees`: whatever the
`#ifdef`s leave of the two lists, the table has as many entries, and at each place the address of the block that the
enumeration names there; the proof adds one entry to both lists at a time (`OneMoreAddress`). `ReachesItsBlock`: so a
channel's address is that of one block, and the list of A blocks gives its kind. TypeOK and ChannelsReachTheirBlocks do not say
what a divider is; the invariant adds `Configured`, that an open channel's block has the divider of the call that
opened it. `QuotientWithinTwo` is the arithmetic of an integer division.

**DevBoardProofs.** `DevTypeCorrect` and `TextsStayIntact`, for any received bytes and any delay of the signal task.
`WriterInv` says where the one writer is: which text was begun last (`Writes`), that it is all on its way or heard,
and that it has left `uart_write_string` before `main`, the critical section or the loop goes on to the next, with its
last character perhaps still in the transmitter. `TextInv` has the types of the texts.

**GcdProofs.** `GcdCorrect`: the result of gcd is a greatest common divisor, up to its sign, of all integers. The
invariant `IInv` is that a and b have the same common divisors as the arguments; `SameCommonDivisors` is one turn of
the loop. `GcdEnds`: each turn brings a nearer to 0, in which the end of the loop lies, although the prover cannot
state it as liveness. `ResultIsGcd` bounds its quantifiers so that it can be evaluated; `DividesAny` shows that the
bounds leave nothing out. The one pair on which C leaves % undefined, INT_MIN and -1, is beside the integers of the
model.

**Only model-checked.** `ImplementsLossyFifo` (see above; it is false for some lines), `EachGroupBackwards`, and all
liveness (`CallsReturn`, `SignalsForever`, `LedBlinks`, `BytesBlink`): fairness and ENABLED are out of
the prover's reach. So is induction over data as such; the theorems about recursive functions (`ChecksumSums`,
`Parsed`, `Of`) go by a least counterexample instead. Every other property of a passing run is a theorem.

## 5. Findings

1. `EMIT_SEND_PAYLOAD` sends a body whatever its length. With length 0 two checksum bytes follow a header for which
   the driver's own parser counts none.
2. `lithium_send_write_dio_key` sends 16 bytes from the pointer; `lithium.h:367` says the key has 4.
3. `spi_transfer_byte` reads the receive buffer before its byte has been exchanged, against `spi.h:75` and
   the expectation of `test/spi.cpp:11`.
4. `spi_open` tests UCSWRST and clears it later without a lock: two tasks can both be told that they opened it.
5. The USCI driver's table of base addresses holds the enumeration's constants, so every SPI operation of the
   F5xx/F6xx build uses the registers at the lowest addresses, and the B layout for A blocks.

Smaller disagreements that the models have but no run is given to: `uart.h:126` calls `uart_read_bytes` blocking, and
the only implementation gives up at once when bytes are missing (`ReceiveBody` then loses the header it has read);
`uart_write_string` returns an unset variable for an empty string; `push_bytes`, which no test calls, has its bytes
read in the order opposite to that of as many `push_byte`s.

## 6. Not modelled

- Memory safety of calls that break a precondition: a length above 255, `lithium_send_packet` with an ACK or NACK
  as it was received. The assumptions of `LithiumSend` state the preconditions, and the hazards list the lines.
- The UART on USCI, a stub. What an operation does inside a USCI block has no module of its own: the steps are
  those of `SpiMaster`.
- The A1 receive interrupt, which stores into the same `read_byte`, of a channel no program opens; the baud rate's
  registers and the pins but one; the run time statistics timer of the dev board, which
  `configGENERATE_RUN_TIME_STATS` 0 turns off; its static memory callbacks and its unused queue.
- A use of the caller's `uart_t` after `lithium_open` has copied it and `lithium_close` has deleted what it points to,
  and a block given to both `uart_open` and `spi_open`: nothing in the code does either.
- Crashes and restarts as such: nothing is persisted, and a restart is the initial state of each module.
- A link of two drivers: the driver speaks to a radio and never to another driver. What one side would have to find in
  what the other sends is `WireParsesBack`.
- `factorial.c`, which nothing calls.
- Data and sensor board programs (one actor, one pin), error names, test matchers and printers, vendored code.

## 7. Plan

Every module is checked, and all safety invariants of the runs but one are theorems. What is left:

1. `EachGroupBackwards` for any groups and counts: it needs what `Reverse` does to a concatenation and to a prefix, and
   what `FlattenSeq` does when a group is appended.
2. `ImplementsLossyFifo` as a theorem for lines that only lose by closing and early reads, if its invariant (a
   receiver out of step accepts nothing) can be had from an assumption on payloads.
