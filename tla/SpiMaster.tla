------------------------------ MODULE SpiMaster ------------------------------
(***************************************************************************)
(* One eUSCI block used as a SPI master: board_common/native/              *)
(* spi_eusci_native.c and the block transfers of board_common/common/spi.c *)
(* as tasks call them, against the hardware's double-buffered transmitter. *)
(*                                                                         *)
(* A byte is named by its place in the order in which bytes are written to *)
(* UCxxTXBUF: byte n is the n-th.  The slave's answer to byte n, clocked   *)
(* in while byte n is clocked out, is named n as well.  0 is no byte.      *)
(***************************************************************************)
EXTENDS Naturals, Sequences, FiniteSets

CONSTANTS
  Tasks,       \* the tasks that hold the spi_t
  Lengths,     \* the lengths of the blocks they transfer
  MaxBytes     \* bound: bytes they transfer in all

ASSUME TasksAssumption == Tasks # {}
ASSUME LengthsAssumption == Lengths \subseteq Nat \ {0}
ASSUME MaxBytesAssumption == MaxBytes \in Nat

VARIABLES
  \* The block's registers.
  UCSWRST,   \* held in reset
  txbuf,     \* UCxxTXBUF; UCTXIFG is set while it is empty
  shift,     \* the byte being clocked out and in
  rxbuf,     \* UCxxRXBUF: the answer that came last
  \* The tasks.
  pc,        \* where the task is inside spi_open or a transfer, or "idle"
  left,      \* bytes of its block still to be transferred
  result,    \* what its last call returned
  asked,     \* the byte its last spi_transfer_byte sent
  answer,    \* what that stored in *receive_byte
  \* History.
  begun,     \* bytes asked for by block transfers
  written,   \* bytes written to UCxxTXBUF
  base,      \* how many of them came before the block was last configured
  mosi,      \* the bytes the slave has heard since
  holders,   \* the tasks whose spi_open succeeded since the block was last closed
  lost,      \* bytes each task has written into the block while it was in reset
             \* since it was last enabled
  mixed      \* a task has called while another was inside a call

hardware == <<UCSWRST, txbuf, shift, rxbuf, mosi>>
tasks == <<pc, left, result, asked, answer, begun, written, base, holders, lost, mixed>>
vars == <<UCSWRST, txbuf, shift, rxbuf, pc, left, result, asked, answer,
          begun, written, base, mosi, holders, lost, mixed>>

Goto(t, label) == pc' = [pc EXCEPT ![t] = label]
Return(t, res) ==
  /\ Goto(t, "idle")
  /\ result' = [result EXCEPT ![t] = res]

\* t makes a call.
Calls(t) ==
  /\ pc[t] = "idle"
  /\ mixed' = (mixed \/ \E u \in Tasks : pc[u] # "idle")

-----------------------------------------------------------------------------
(* The hardware: UCxxTXBUF moves to the shift register when that is free,  *)
(* and eight clocks later the answer is in UCxxRXBUF.  Setting UCSWRST     *)
(* stops the state machine and sets UCTXIFG: both bytes are gone.          *)

LoadShift ==
  /\ ~UCSWRST
  /\ txbuf # 0 /\ shift = 0
  /\ shift' = txbuf
  /\ txbuf' = 0
  /\ UNCHANGED <<UCSWRST, rxbuf, mosi, tasks>>

ShiftOut ==
  /\ ~UCSWRST
  /\ shift # 0
  /\ rxbuf' = shift
  /\ mosi' = Append(mosi, shift)
  /\ shift' = 0
  /\ UNCHANGED <<UCSWRST, txbuf, tasks>>

SetReset ==
  /\ UCSWRST' = TRUE
  /\ txbuf' = 0 /\ shift' = 0
  /\ UNCHANGED rxbuf

-----------------------------------------------------------------------------
(* Opening and closing.                                                    *)

spi_open(t) ==
  /\ Calls(t)
  /\ IF UCSWRST
     THEN Goto(t, "initMaster") /\ UNCHANGED result
     ELSE Return(t, "false")
  /\ UNCHANGED <<hardware, left, asked, answer, begun, written, base, holders, lost>>

\* EUSCI_A_SPI_initMaster sets UCSWRST first, then writes the configuration.
initMaster(t) ==
  /\ pc[t] = "initMaster"
  /\ SetReset
  /\ Goto(t, "enable")
  /\ UNCHANGED <<left, result, asked, answer, begun, written, base, mosi, holders, lost, mixed>>

enable(t) ==
  /\ pc[t] = "enable"
  /\ UCSWRST' = FALSE
  /\ Return(t, "true")
  /\ base' = written
  /\ mosi' = <<>>
  /\ holders' = holders \cup {t}
  /\ lost' = [u \in Tasks |-> 0]
  /\ UNCHANGED <<txbuf, shift, rxbuf, left, asked, answer, begun, written, mixed>>

\* Mutant: the block's clock is stopped, and what it was sending is kept.
spi_close_StopsTheClock(t) ==
  /\ Calls(t)
  /\ UCSWRST' = TRUE
  /\ holders' = {}
  /\ UNCHANGED <<txbuf, shift, rxbuf, pc, left, result, asked, answer, begun, written, base, mosi, lost>>

spi_close(t) ==
  /\ Calls(t)
  /\ SetReset
  /\ holders' = {}
  /\ UNCHANGED <<pc, left, result, asked, answer, begun, written, base, mosi, lost>>

-----------------------------------------------------------------------------
(* Transfers.  spi_send_byte, spi_receive_byte, spi_send_bytes,            *)
(* spi_receive_bytes and spi_transfer_bytes differ in the bytes they send  *)
(* and in what they do with the answers: all are a loop of                 *)
(* spi_transfer_byte that ends with the first error.                       *)

spi_transfer_bytes(t, length) ==
  /\ Calls(t)
  /\ begun + length <= MaxBytes
  /\ begun' = begun + length
  /\ left' = [left EXCEPT ![t] = length]
  /\ Goto(t, "check")
  /\ UNCHANGED <<hardware, result, asked, answer, written, base, holders, lost>>

\* Is the bus enabled?
Check(t) ==
  /\ pc[t] = "check"
  /\ IF UCSWRST THEN Return(t, "CHANNEL_CLOSED") ELSE Goto(t, "wait") /\ UNCHANGED result
  /\ UNCHANGED <<hardware, left, asked, answer, begun, written, base, holders, lost, mixed>>

\* Mutant: the task does not wait for UCTXIFG.
Wait_Never(t) ==
  /\ pc[t] = "wait"
  /\ Goto(t, "transmit")
  /\ UNCHANGED <<hardware, left, result, asked, answer, begun, written, base, holders, lost, mixed>>

\* Mutant: it waits for the answer that only the transfer can bring.
Wait_ForAnswer(t) ==
  /\ pc[t] = "wait"
  /\ rxbuf = written + 1
  /\ Goto(t, "transmit")
  /\ UNCHANGED <<hardware, left, result, asked, answer, begun, written, base, holders, lost, mixed>>

\* while (!UCTXIFG);
Wait(t) ==
  /\ pc[t] = "wait"
  /\ txbuf = 0
  /\ Goto(t, "transmit")
  /\ UNCHANGED <<hardware, left, result, asked, answer, begun, written, base, holders, lost, mixed>>

\* A byte written while the block is held in reset is not sent.
Transmit(t) ==
  /\ pc[t] = "transmit"
  /\ written' = written + 1
  /\ txbuf' = IF UCSWRST THEN 0 ELSE written + 1
  /\ asked' = [asked EXCEPT ![t] = written + 1]
  /\ lost' = IF UCSWRST THEN [lost EXCEPT ![t] = @ + 1] ELSE lost
  /\ Goto(t, "receive")
  /\ UNCHANGED <<UCSWRST, shift, rxbuf, left, result, answer, begun, base, mosi, holders, mixed>>

\* Mutant: only the first byte of a block finds out whether the bus is enabled.
Receive_ChecksOnce(t) ==
  /\ pc[t] = "receive"
  /\ answer' = [answer EXCEPT ![t] = rxbuf]
  /\ left' = [left EXCEPT ![t] = @ - 1]
  /\ IF left[t] = 1 THEN Return(t, "NO_ERROR") ELSE Goto(t, "wait") /\ UNCHANGED result
  /\ UNCHANGED <<hardware, asked, begun, written, base, holders, lost, mixed>>

\* Mutant: the loop runs once too often.
Receive_OneMore(t) ==
  /\ pc[t] = "receive"
  /\ answer' = [answer EXCEPT ![t] = rxbuf]
  /\ left' = [left EXCEPT ![t] = @ - 1]
  /\ IF left[t] = 0 THEN Return(t, "NO_ERROR") ELSE Goto(t, "check") /\ UNCHANGED result
  /\ UNCHANGED <<hardware, asked, begun, written, base, holders, lost, mixed>>

\* Reads UCxxRXBUF and goes on to the next byte of the block.
Receive(t) ==
  /\ pc[t] = "receive"
  /\ answer' = [answer EXCEPT ![t] = rxbuf]
  /\ left' = [left EXCEPT ![t] = @ - 1]
  /\ IF left[t] = 1 THEN Return(t, "NO_ERROR") ELSE Goto(t, "check") /\ UNCHANGED result
  /\ UNCHANGED <<hardware, asked, begun, written, base, holders, lost, mixed>>

-----------------------------------------------------------------------------
Init ==
  /\ UCSWRST = TRUE /\ txbuf = 0 /\ shift = 0 /\ rxbuf = 0
  /\ pc = [t \in Tasks |-> "idle"]
  /\ left = [t \in Tasks |-> 0]
  /\ result = [t \in Tasks |-> "NONE"]
  /\ asked = [t \in Tasks |-> 0] /\ answer = [t \in Tasks |-> 0]
  /\ begun = 0 /\ written = 0 /\ base = 0
  /\ mosi = <<>>
  /\ holders = {}
  /\ lost = [t \in Tasks |-> 0]
  /\ mixed = FALSE

Inside(t) == initMaster(t) \/ enable(t) \/ Check(t) \/ Wait(t) \/ Transmit(t) \/ Receive(t)

Next ==
  \/ LoadShift
  \/ ShiftOut
  \/ \E t \in Tasks :
       \/ spi_open(t)
       \/ spi_close(t)
       \/ \E length \in Lengths : spi_transfer_bytes(t, length)
       \/ Inside(t)

Spec == Init /\ [][Next]_vars

\* The clock of an enabled block runs, and a task inside a call gets the CPU.
Fairness ==
  /\ WF_vars(LoadShift) /\ WF_vars(ShiftOut)
  /\ \A t \in Tasks : WF_vars(Inside(t))

FairSpec == Spec /\ Fairness

-----------------------------------------------------------------------------
(* Properties.                                                             *)

Places == {"idle", "initMaster", "enable", "check", "wait", "transmit", "receive"}
Outcomes == {"NONE", "true", "false", "NO_ERROR", "CHANNEL_CLOSED"}

TypeOK ==
  /\ UCSWRST \in BOOLEAN
  /\ {txbuf, shift, rxbuf, base} \subseteq 0 .. written
  /\ pc \in [Tasks -> Places]
  /\ left \in [Tasks -> Nat]
  /\ result \in [Tasks -> Outcomes]
  /\ asked \in [Tasks -> 0 .. written] /\ answer \in [Tasks -> 0 .. written]
  /\ begun \in Nat /\ written \in Nat
  /\ mosi \in Seq(1 .. written)
  /\ holders \subseteq Tasks
  /\ lost \in [Tasks -> 0 .. written]
  /\ mixed \in BOOLEAN

Byte(register) == IF register = 0 THEN <<>> ELSE <<register>>

(***************************************************************************)
(* As long as no two calls overlap, no byte overruns another: what the     *)
(* slave has heard since the block was configured, the byte on its way and *)
(* the byte in the buffer are all the bytes that transfers have sent since,*)
(* in order.  Each spi_transfer_byte waits for the buffer, not for the     *)
(* byte.                                                                   *)
(***************************************************************************)
NoOverrun ==
  ~UCSWRST /\ ~mixed =>
    mosi \o Byte(shift) \o Byte(txbuf) = [i \in 1 .. written - base |-> base + i]

(***************************************************************************)
(* As long as no two calls overlap, the block is a channel of two bytes:   *)
(* what the slave hears is what transfers have sent, in order, and a close *)
(* loses the two bytes at most whose transfers have returned without       *)
(* waiting, and leaves nothing for the next open to send.                  *)
(***************************************************************************)
Fifo == INSTANCE ByteFifo WITH
  Bytes <- 1 .. MaxBytes, Capacity <- 2,
  open <- ~UCSWRST, queue <- Byte(shift) \o Byte(txbuf), taken <- mosi

ImplementsByteFifo ==
  Fifo!FifoInit /\ [][Fifo!FifoNext \/ mixed']_(Fifo!fifoVars)

(***************************************************************************)
(* A task under whose transfer another one closes the block sends at most  *)
(* one byte into it, whatever it has still to send: the next one is told   *)
(* SPI_CHANNEL_CLOSED.                                                     *)
(***************************************************************************)
OneByteIntoClosed == \A t \in Tasks : lost[t] <= 1

(***************************************************************************)
(* As long as no two calls overlap, the answer a transfer returns is late  *)
(* by at most two bytes, once two bytes have been sent since the open, and *)
(* never one of a transfer that is still to come.                          *)
(***************************************************************************)
AnswerLag ==
  \A t \in Tasks : ~mixed /\ pc[t] # "receive" /\ asked[t] > base =>
    /\ answer[t] <= asked[t]
    /\ asked[t] > base + 2 => answer[t] >= asked[t] - 2

(***************************************************************************)
(* A call that has begun returns: the wait for UCTXIFG ends, also when     *)
(* another task refills the buffer, or closes or reopens the block.        *)
(***************************************************************************)
CallsReturn == \A t \in Tasks : pc[t] # "idle" ~> pc[t] = "idle"

(***************************************************************************)
(* spi.h:75 has spi_transfer_byte "save the return byte", the comment at   *)
(* spi_eusci_native.c:145 has the receive buffer ready together with the   *)
(* transmit buffer, and board_common/test/spi.cpp:11 requires of a stub    *)
(* the answer to the very byte sent.                                       *)
(***************************************************************************)
AnswersOwnByte ==
  \A t \in Tasks : result[t] = "NO_ERROR" /\ pc[t] = "idle" => answer[t] = asked[t]

(***************************************************************************)
(* spi_eusci_native.c:51 "Check if the SPI bus is already enabled": while  *)
(* one task has the block open, no other task's spi_open succeeds.         *)
(***************************************************************************)
OneOpener == Cardinality(holders) <= 1
=============================================================================
