------------------------------- MODULE MCUart -------------------------------
(* Instances of Uart for TLC. *)
EXTENDS Uart

MCGroups == {<<>>, <<1, 2>>, <<2, 1, 1>>}
MCGarbage == uart_error_t \cup {"garbage"}
=============================================================================
