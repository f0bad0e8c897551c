-------------------------------- MODULE Uart --------------------------------
(***************************************************************************)
(* The UART that can read, board_common/test/impl/uart_test.cpp, with the  *)
(* common part on top of it, board_common/common/uart.c.  What is to be    *)
(* read waits in a vector, inserted at its front and taken from its back.  *)
(* One thread uses it: a call is one step.                                 *)
(***************************************************************************)
EXTENDS Naturals, SequencesExt

CONSTANTS
  Bytes,      \* the bytes pushed and written
  Groups,     \* the sequences of them pushed, written, or sent as a string
  Counts,     \* the numbers of bytes that uart_read_bytes is asked for
  Garbage,    \* what an uninitialized uart_error_t may hold
  MaxInput,   \* bound: bytes pushed since the channel was opened
  MaxOutput   \* bound: bytes written since the channel was opened

ASSUME GroupsAssumption == Groups \subseteq Seq(Bytes)
ASSUME CountsAssumption == Counts \subseteq Nat
ASSUME BoundsAssumption == {MaxInput, MaxOutput} \subseteq Nat

VARIABLES
  open,      \* _impl points to a uart_impl, whose members are:
  input,     \* the bytes waiting, the next one last
  output,    \* the bytes written
  result,    \* what the last call returned
  \* History.
  pushed,    \* the groups pushed since the channel was opened
  taken      \* the bytes read since then

vars == <<open, input, output, result, pushed, taken>>

-----------------------------------------------------------------------------
(* Opening and closing.  A uart_open always makes a new uart_impl, a       *)
(* uart_close deletes it with all it holds.                                *)

uart_open ==
  /\ open' = TRUE
  /\ input' = <<>> /\ output' = <<>>
  /\ pushed' = <<>> /\ taken' = <<>>
  /\ UNCHANGED result

uart_close ==
  /\ open
  /\ open' = FALSE
  /\ input' = <<>> /\ output' = <<>>
  /\ UNCHANGED <<result, pushed, taken>>

-----------------------------------------------------------------------------
(* The far side.                                                           *)

Room(n) == Len(taken) + Len(input) + n <= MaxInput

push_byte(b) ==
  /\ open /\ Room(1)
  /\ input' = <<b>> \o input
  /\ pushed' = Append(pushed, <<b>>)
  /\ UNCHANGED <<open, output, result, taken>>

\* The group goes to the front in its own order: its last byte is read first.
push_bytes(data) ==
  /\ open /\ Room(Len(data))
  /\ input' = data \o input
  /\ pushed' = IF data = <<>> THEN pushed ELSE Append(pushed, data)
  /\ UNCHANGED <<open, output, result, taken>>

-----------------------------------------------------------------------------
(* Reading.                                                                *)

Fails(error) == result' = error /\ UNCHANGED <<open, input, output, pushed, taken>>

\* The n bytes at the back are popped, the last one first.
Pops(n) ==
  /\ taken' = taken \o Reverse(SubSeq(input, Len(input) - n + 1, Len(input)))
  /\ input' = SubSeq(input, 1, Len(input) - n)
  /\ result' = "NO_ERROR"
  /\ UNCHANGED <<open, output, pushed>>

uart_read_byte ==
  \/ ~open /\ Fails("CHANNEL_CLOSED")
  \/ open /\ input = <<>> /\ Fails("SIGNAL_FAULT")
  \/ open /\ input # <<>> /\ Pops(1)

\* Mutant: the bytes there are are popped before one is found missing.
uart_read_bytes_UntilEmpty(n) ==
  \/ ~open /\ Fails("CHANNEL_CLOSED")
  \/ /\ open /\ Len(input) < n
     /\ input' = <<>>
     /\ result' = "SIGNAL_FAULT"
     /\ UNCHANGED <<open, output, pushed, taken>>
  \/ open /\ Len(input) >= n /\ Pops(n)

uart_read_bytes(n) ==
  \/ ~open /\ Fails("CHANNEL_CLOSED")
  \/ open /\ Len(input) < n /\ Fails("SIGNAL_FAULT")
  \/ open /\ Len(input) >= n /\ Pops(n)

-----------------------------------------------------------------------------
(* Writing.  The loops of the common part end with the first error, which  *)
(* on a closed channel is that of the first byte.                          *)

Pushes(bytes) ==
  /\ Len(output) + Len(bytes) <= MaxOutput
  /\ output' = output \o bytes
  /\ result' = "NO_ERROR"
  /\ UNCHANGED <<open, input, pushed, taken>>

uart_write_byte(b) ==
  \/ ~open /\ Fails("CHANNEL_CLOSED")
  \/ open /\ Pushes(<<b>>)

uart_write_bytes(bytes) ==
  \/ bytes # <<>> /\ ~open /\ Fails("CHANNEL_CLOSED")
  \/ (bytes = <<>> \/ open) /\ Pushes(bytes)

\* For the empty string, err is returned as it is.
uart_write_string(str) ==
  \/ str # <<>> /\ uart_write_bytes(str)
  \/ str = <<>> /\ \E err \in Garbage : Fails(err)

-----------------------------------------------------------------------------
\* A uart_t means nothing before its first uart_open.
Init ==
  /\ open = TRUE
  /\ input = <<>> /\ output = <<>>
  /\ pushed = <<>> /\ taken = <<>>
  /\ result = "NO_ERROR"

Next ==
  \/ uart_open \/ uart_close
  \/ \E b \in Bytes : push_byte(b) \/ uart_write_byte(b)
  \/ uart_read_byte
  \/ \E n \in Counts : uart_read_bytes(n)
  \/ \E g \in Groups : push_bytes(g) \/ uart_write_bytes(g) \/ uart_write_string(g)

Spec == Init /\ [][Next]_vars

-----------------------------------------------------------------------------
(* Properties.                                                             *)

uart_error_t == {"NO_ERROR", "CHANNEL_CLOSED", "SIGNAL_FAULT"}

\* The bytes pushed, in the order they are due: a group's last byte comes first.
Due == FlattenSeq([i \in DOMAIN pushed |-> Reverse(pushed[i])])

(***************************************************************************)
(* However pushes of one byte and of several, reads of one byte and of     *)
(* several, and reads that fail for want of bytes follow each other, each  *)
(* byte is read once: the groups in the order they were pushed, and each   *)
(* group from its last byte to its first, since push_bytes inserts it as a *)
(* whole where the next byte to be read is last.  A test that wants its    *)
(* bytes read in order has to reverse them (data_board/test/lithium.cpp    *)
(* 7-11).  What is left at a close is lost, and nothing else.              *)
(***************************************************************************)
EachGroupBackwards ==
  IF open THEN taken \o Reverse(input) = Due ELSE IsPrefix(taken, Due)

(***************************************************************************)
(* uart.h promises for each call, uart_write_string among them, the "UART  *)
(* error enumeration representing the error" (uart.h:122).                 *)
(***************************************************************************)
ResultIsAnError == result \in uart_error_t
=============================================================================
