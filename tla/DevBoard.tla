------------------------------ MODULE DevBoard ------------------------------
(***************************************************************************)
(* The dev board's program (dev_board/native/main.c) on the eUSCI UART     *)
(* (board_common/native/uart_eusci_native.c): main, the two tasks it       *)
(* starts, the idle task with its hook, the receive interrupt, the tick,   *)
(* and the UART's transmitter.  The FreeRTOS kernel is external: the ready *)
(* task of the highest priority runs, a tick ends the wait of vTaskDelay.  *)
(***************************************************************************)
EXTENDS Naturals, Sequences

CONSTANTS
  RxBytes,        \* the bytes that may come in
  TransmitDelay   \* the ticks task_transmit_blink_signal waits: 10

ASSUME RxBytesAssumption == RxBytes \subseteq 0 .. 255
ASSUME DelayAssumption == TransmitDelay \in Nat \ {0}

\* The strings written, each character by its place.
Text(line) ==
  CASE line = "Tasks initialized" -> <<"i", "n">>
    [] line = "Starting signal task" -> <<"s", "n">>
    [] line = "T2" -> <<"T", "2", "n">>

\* What the line is after a complete one.
LineAfter(line) ==
  CASE line = "none" -> "Tasks initialized"
    [] line = "Tasks initialized" -> "Starting signal task"
    [] OTHER -> "T2"

None == "none"   \* no character
NoByte == 256    \* no byte

VARIABLES
  \* The processor and the kernel.
  GIE,         \* interrupts are enabled
  started,     \* vTaskStartScheduler has been called
  delay,       \* the ticks that the two tasks still wait
  \* The UART and its interrupt.
  txbuf,       \* UCA0TXBUF, None while UCTXIFG is set
  rxbuf,       \* UCA0RXBUF, NoByte while UCRXIFG is clear
  read_byte,   \* the global the interrupt leaves the byte in
  \* The program.
  main,        \* where main is
  transmit,    \* where task_transmit_blink_signal is
  text,        \* what uart_write_string has still to write
  step,        \* where uart_write_byte is
  led,         \* bit 0 of P1OUT
  \* History: what is heard at the other end of the line.
  line,        \* the last complete text
  heard        \* the characters since

cpu == <<GIE, started, delay>>
rx == <<rxbuf, read_byte>>
writer == <<text, step>>
far == <<line, heard>>
vars == <<GIE, started, delay, txbuf, rxbuf, read_byte, main, transmit, text, step, led, line, heard>>

-----------------------------------------------------------------------------
(* The hardware.                                                           *)

\* A character has left the line's end: the far side hears it.
CharacterSent ==
  /\ txbuf # None
  /\ txbuf' = None
  /\ LET now == Append(heard, txbuf)
     IN  IF now = Text(LineAfter(line))
         THEN line' = LineAfter(line) /\ heard' = <<>>
         ELSE heard' = now /\ UNCHANGED line
  /\ UNCHANGED <<cpu, rx, main, transmit, writer, led>>

\* A byte that comes before the last one was taken replaces it.
CharacterComes(b) ==
  /\ main \notin {"config", "test", "open"}
  /\ rxbuf' = b
  /\ UNCHANGED <<cpu, txbuf, read_byte, main, transmit, writer, led, far>>

USCI_A0_ISR ==
  /\ GIE /\ rxbuf # NoByte
  /\ read_byte' = rxbuf
  /\ rxbuf' = NoByte
  /\ UNCHANGED <<cpu, txbuf, main, transmit, writer, led, far>>

\* vPortPreemptiveTickISR
Tick ==
  /\ GIE /\ started
  /\ delay' = [t \in DOMAIN delay |-> IF delay[t] > 0 THEN delay[t] - 1 ELSE 0]
  /\ UNCHANGED <<GIE, started, txbuf, rx, main, transmit, writer, led, far>>

-----------------------------------------------------------------------------
(* Who runs: the signal task has priority 2, the blink task 1, idle 0.     *)

TransmitRuns == started /\ delay["transmit"] = 0
BlinkRuns == started /\ delay["transmit"] > 0 /\ delay["blink"] = 0
IdleRuns == started /\ delay["transmit"] > 0 /\ delay["blink"] > 0

\* main and the signal task are the ones that write, never both at once.
WriterRuns == IF started THEN TransmitRuns ELSE TRUE

-----------------------------------------------------------------------------
(* uart_write_string, one character after the other.                       *)

StartWriting(s) == text' = Text(s) /\ step' = "put"

\* EUSCI_A_UART_transmitData polls UCTXIFG, then writes UCA0TXBUF.
Put ==
  /\ WriterRuns /\ text # <<>> /\ step = "put"
  /\ txbuf = None
  /\ txbuf' = Head(text)
  /\ step' = "check"
  /\ UNCHANGED <<cpu, rx, main, transmit, text, led, far>>

\* Mutant: the loop of uart_write_string ends inside uart_write_byte.
NextCharacter_Checked == text' = Tail(text) /\ step' = "check"

NextCharacter == text' = Tail(text) /\ step' = "put"

\* Mutant: read_byte is cleared before it is looked at.
CheckReadByte_ClearsFirst ==
  /\ WriterRuns /\ step = "check"
  /\ read_byte' = 0
  /\ NextCharacter
  /\ UNCHANGED <<cpu, txbuf, rxbuf, main, transmit, led, far>>

\* if (read_byte) ...
CheckReadByte ==
  /\ WriterRuns /\ step = "check"
  /\ IF read_byte = 0 THEN NextCharacter ELSE step' = "blink 32 times" /\ UNCHANGED text
  /\ UNCHANGED <<cpu, txbuf, rx, main, transmit, led, far>>

\* Mutant: read_byte is not cleared, and looked at again.
ClearReadByte_Again ==
  /\ WriterRuns /\ step = "blink 32 times"
  /\ step' = "check"
  /\ UNCHANGED <<cpu, txbuf, rx, text, main, transmit, led, far>>

\* The loop of 32 delays is over: read_byte = 0, whatever came meanwhile.
ClearReadByte ==
  /\ WriterRuns /\ step = "blink 32 times"
  /\ read_byte' = 0
  /\ NextCharacter
  /\ UNCHANGED <<cpu, txbuf, rxbuf, main, transmit, led, far>>

-----------------------------------------------------------------------------
(* main.                                                                   *)

\* P1OUT |= 0xFF, which main does before test_aclk and again after it.
PinsHigh == led' = TRUE

\* It sets the pins low; main then sets them high.
hardware_config ==
  /\ main = "config"
  /\ GIE' = TRUE
  /\ PinsHigh
  /\ main' = "test"
  /\ UNCHANGED <<started, delay, txbuf, rx, transmit, writer, far>>

\* Ten flashes of this LED, which leave it off, or of another if ACLK is wrong.
test_aclk ==
  /\ main = "test"
  /\ led' \in {FALSE, led}
  /\ main' = "open"
  /\ UNCHANGED <<cpu, txbuf, rx, transmit, writer, far>>

\* Disabled and enabled again, the block has empty buffers; from now on it
\* receives.  main sets the pins high before.
uart_open ==
  /\ main = "open"
  /\ PinsHigh
  /\ txbuf' = None /\ rxbuf' = NoByte
  /\ main' = "create"
  /\ UNCHANGED <<cpu, read_byte, transmit, writer, far>>

\* xQueueCreateStatic and xTaskCreateStatic enter a critical section, which
\* the port leaves for good only when the scheduler starts the first task.
CreateTasks ==
  /\ main = "create"
  /\ GIE' = FALSE
  /\ StartWriting("Tasks initialized")
  /\ main' = "write"
  /\ UNCHANGED <<started, delay, txbuf, rx, transmit, led, far>>

vTaskStartScheduler ==
  /\ main = "write" /\ text = <<>>
  /\ main' = "done"
  /\ started' = TRUE
  /\ GIE' = TRUE
  /\ UNCHANGED <<delay, txbuf, rx, transmit, writer, led, far>>

-----------------------------------------------------------------------------
(* The tasks.                                                              *)

EnterCritical ==
  /\ TransmitRuns /\ transmit = "enter"
  /\ GIE' = FALSE
  /\ StartWriting("Starting signal task")
  /\ transmit' = "critical"
  /\ UNCHANGED <<started, delay, txbuf, rx, main, led, far>>

ExitCritical ==
  /\ TransmitRuns /\ transmit = "critical" /\ text = <<>>
  /\ GIE' = TRUE
  /\ transmit' = "loop"
  /\ UNCHANGED <<started, delay, txbuf, rx, main, writer, led, far>>

WriteT2 ==
  /\ TransmitRuns /\ transmit = "loop"
  /\ StartWriting("T2")
  /\ transmit' = "line"
  /\ UNCHANGED <<cpu, txbuf, rx, main, led, far>>

\* Mutant: the signal task does not wait between two lines.
DelayTransmit_None ==
  /\ TransmitRuns /\ transmit = "line" /\ text = <<>>
  /\ transmit' = "loop"
  /\ UNCHANGED <<cpu, txbuf, rx, main, writer, led, far>>

\* vTaskDelay(10)
DelayTransmit ==
  /\ TransmitRuns /\ transmit = "line" /\ text = <<>>
  /\ delay' = [delay EXCEPT !["transmit"] = TransmitDelay]
  /\ transmit' = "loop"
  /\ UNCHANGED <<GIE, started, txbuf, rx, main, writer, led, far>>

\* Mutant: the blink task writes to the UART too.
task_blink_led_Writes ==
  /\ BlinkRuns
  /\ txbuf = None
  /\ txbuf' = "T"
  /\ led' = ~led
  /\ delay' = [delay EXCEPT !["blink"] = 1]
  /\ UNCHANGED <<GIE, started, rx, main, transmit, writer, far>>

task_blink_led ==
  /\ BlinkRuns
  /\ led' = ~led
  /\ delay' = [delay EXCEPT !["blink"] = 1]
  /\ UNCHANGED <<GIE, started, txbuf, rx, main, transmit, writer, far>>

\* P1OUT = 0
vApplicationIdleHook ==
  /\ IdleRuns
  /\ led' = FALSE
  /\ UNCHANGED <<cpu, txbuf, rx, main, transmit, writer, far>>

-----------------------------------------------------------------------------
Init ==
  /\ GIE = FALSE /\ started = FALSE
  /\ delay = [transmit |-> 0, blink |-> 0]
  /\ txbuf = None /\ rxbuf = NoByte /\ read_byte = 0
  /\ main = "config" /\ transmit = "enter"
  /\ text = <<>> /\ step = "put"
  /\ led \in BOOLEAN   \* P1OUT is not reset
  /\ line = "none" /\ heard = <<>>

WriterStep ==
  \/ Put \/ CheckReadByte \/ ClearReadByte
  \/ hardware_config \/ test_aclk \/ uart_open \/ CreateTasks \/ vTaskStartScheduler
  \/ EnterCritical \/ ExitCritical \/ WriteT2 \/ DelayTransmit

Next ==
  \/ CharacterSent
  \/ \E b \in RxBytes : CharacterComes(b)
  \/ USCI_A0_ISR
  \/ Tick
  \/ WriterStep
  \/ task_blink_led
  \/ vApplicationIdleHook

Spec == Init /\ [][Next]_vars

(***************************************************************************)
(* The transmitter and the timer run.  A tick is 100 ms (configTICK_RATE_HZ*)
(* 10) and a step of a task a few instructions at 8 MHz, so a task that is *)
(* ready again and again gets its steps done; the same goes for an         *)
(* interrupt that is pending.                                              *)
(***************************************************************************)
Fairness ==
  /\ WF_vars(CharacterSent) /\ SF_vars(Tick) /\ SF_vars(USCI_A0_ISR)
  /\ SF_vars(WriterStep) /\ SF_vars(task_blink_led)

FairSpec == Spec /\ Fairness

-----------------------------------------------------------------------------
(* Properties.                                                             *)

IsPrefix(s, t) == Len(s) <= Len(t) /\ s = SubSeq(t, 1, Len(s))

TypeOK ==
  /\ {GIE, started, led} \subseteq BOOLEAN
  /\ delay \in [transmit : 0 .. TransmitDelay, blink : 0 .. 1]
  /\ txbuf \in {None, "i", "s", "n", "T", "2"}
  /\ rxbuf \in RxBytes \cup {NoByte} /\ read_byte \in RxBytes \cup {0}
  /\ main \in {"config", "test", "open", "create", "write", "done"}
  /\ transmit \in {"enter", "critical", "loop", "line"}
  /\ step \in {"put", "check", "blink 32 times"}
  /\ step # "put" => text # <<>>

(***************************************************************************)
(* The texts of main and of the signal task reach the far side whole, in   *)
(* their order, and no character of one inside another, although "T2" is   *)
(* written with the scheduler running and nothing locks the UART: of the   *)
(* two tasks only one writes.                                              *)
(***************************************************************************)
TextsIntact == IsPrefix(heard, Text(LineAfter(line)))

(***************************************************************************)
(* The signal task writes its line for ever, whatever bytes come in.       *)
(***************************************************************************)
SignalsForever == []<>(line = "T2" /\ heard = <<>>) /\ []<>(heard # <<>>)

(***************************************************************************)
(* The lower task blinks for ever: the signal task, busy for seconds with  *)
(* each byte that has come in, does not starve it.  How long the LED is on *)
(* is not said: the idle hook may clear the pin right after the toggle.    *)
(***************************************************************************)
LedBlinks == []<>led /\ []<>~led

(***************************************************************************)
(* A byte other than 0 that comes in is answered with the blinking, its    *)
(* own or that of the byte before it, unless a byte 0 takes its place: the *)
(* interrupt, held off by critical sections, and the writer, which looks   *)
(* only behind a character it has put and clears what came meanwhile, do   *)
(* not miss it between them.                                               *)
(***************************************************************************)
BytesBlink == rxbuf \notin {NoByte, 0} ~> step = "blink 32 times" \/ rxbuf = 0
=============================================================================
