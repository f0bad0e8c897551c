----------------------------- MODULE MCDevBoard -----------------------------
(* An instance of DevBoard for TLC: a zero byte, which the program takes    *)
(* for no byte, and one that is not.                                        *)
EXTENDS DevBoard
=============================================================================
