------------------------- MODULE LithiumHeaderNoise -------------------------
(***************************************************************************)
(* How much line noise the header checks of lithium_parse_header detect.   *)
(* One encoded header travels a line that corrupts its bytes one by one;   *)
(* the parser looks at what has come of it.                                *)
(***************************************************************************)
EXTENDS LithiumCodec, FiniteSets

CONSTANTS
  Commands,   \* the commands of the headers sent
  Lengths,    \* their payload lengths
  Noise       \* what a corrupted byte may become

ASSUME HeadersAssumption ==
  /\ Commands \subseteq 0 .. LITHIUM_COMMAND_count - 1
  /\ Lengths \subseteq (0 .. MAX_PAYLOAD_LENGTH) \cup {ACK_LENGTH, NACK_LENGTH}
ASSUME NoiseAssumption == Noise \subseteq Byte

VARIABLES
  header,   \* the 8 bytes encode_header produced
  line,     \* what has become of them on the line
  hits      \* the positions corrupted so far

vars == <<header, line, hits>>

\* Only an O-message has the length of an ACK or a NACK.
Init ==
  /\ \E type \in {LITHIUM_I_MESSAGE, LITHIUM_O_MESSAGE}, command \in Commands, length \in Lengths :
       /\ length <= MAX_PAYLOAD_LENGTH \/ type = LITHIUM_O_MESSAGE
       /\ header = encode_header(type, command, length)
  /\ line = header
  /\ hits = {}

\* The bound: at most two bytes are hit.
CorruptByte(i, b) ==
  /\ i \notin hits /\ Cardinality(hits) < 2
  /\ line[i] # b
  /\ line' = [line EXCEPT ![i] = b]
  /\ hits' = hits \cup {i}
  /\ UNCHANGED header

Next == \E i \in 1 .. HEADER_LENGTH, b \in Noise : CorruptByte(i, b)

Spec == Init /\ [][Next]_vars

-----------------------------------------------------------------------------
TypeOK ==
  /\ header \in [1 .. HEADER_LENGTH -> Byte]
  /\ line \in [1 .. HEADER_LENGTH -> Byte]
  /\ hits \subseteq 1 .. HEADER_LENGTH

(***************************************************************************)
(* lithium_parse_header accepts what encode_header wrote and refuses it    *)
(* with one or two bytes corrupted.  The Fletcher sums alone would not do: *)
(* with 8 bit accumulators they miss the type and the high length byte     *)
(* both changed by 128; the checks of type, command and length catch it.   *)
(***************************************************************************)
TwoBadBytesRejected ==
  /\ hits = {} => lithium_parse_header(line) = "NO_ERROR"
  /\ hits # {} => lithium_parse_header(line) # "NO_ERROR"
=============================================================================
