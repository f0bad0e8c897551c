-------------------------------- MODULE Gcd --------------------------------
(***************************************************************************)
(* gcd (dev_board/common/gcd.c): Euclid's loop on C's int, whose % rounds  *)
(* towards 0, so that remainders, and the result, may be negative.         *)
(***************************************************************************)
EXTENDS Integers

VARIABLES
  a, b,      \* the parameters, which the loop assigns to
  args,      \* history: the values that were passed
  returned   \* the loop is over, and b is the result

vars == <<a, b, args, returned>>

Abs(n) == IF n < 0 THEN -n ELSE n

\* C's n % m.
Remainder(n, m) == IF n < 0 THEN -(Abs(n) % Abs(m)) ELSE n % Abs(m)

Init ==
  /\ a \in Int /\ b \in Int
  /\ args = <<a, b>>
  /\ returned = FALSE

\* c = a; a = b % a; b = c;
Loop ==
  /\ ~returned /\ a # 0
  /\ a' = Remainder(b, a)
  /\ b' = a
  /\ UNCHANGED <<args, returned>>

Return ==
  /\ ~returned /\ a = 0
  /\ returned' = TRUE
  /\ UNCHANGED <<a, b, args>>

Next == Loop \/ Return

Spec == Init /\ [][Next]_vars

-----------------------------------------------------------------------------
(* Properties.                                                             *)

\* Stated without division, as gcd's own % cannot be its judge.
Divides(d, n) == \E k \in -Abs(n) .. Abs(n) : n = d * k

(***************************************************************************)
(* The result divides both arguments, and what divides both arguments      *)
(* divides the result: up to its sign it is their greatest common divisor, *)
(* for negative arguments and for 0 too.                                   *)
(***************************************************************************)
ResultIsGcd ==
  returned =>
    /\ Divides(b, args[1]) /\ Divides(b, args[2])
    /\ \A d \in -Abs(args[1]) .. Abs(args[1]) \cup -Abs(args[2]) .. Abs(args[2]) :
         Divides(d, args[1]) /\ Divides(d, args[2]) => Divides(d, b)

(***************************************************************************)
(* gcd ends, whatever it is called with: each turn of the loop brings a    *)
(* nearer to 0, also where the sign changes.                               *)
(***************************************************************************)
EachTurnNearer == [][Abs(a') < Abs(a) \/ returned']_vars
=============================================================================
