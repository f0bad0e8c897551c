----------------------------- MODULE GcdProofs -----------------------------
(***************************************************************************)
(* That gcd computes a greatest common divisor, for all integers.          *)
(***************************************************************************)
EXTENDS Gcd, TLAPS

-----------------------------------------------------------------------------
(* What divides what.                                                      *)

(***************************************************************************)
(* The bound on the quotient in Divides leaves nothing out.                *)
(***************************************************************************)
LEMMA DividesAny ==
  ASSUME NEW d \in Int, NEW n \in Int
  PROVE  Divides(d, n) <=> \E k \in Int : n = d * k
<1>1. ASSUME NEW k \in Int, n = d * k
      PROVE  Divides(d, n)
  <2>1. CASE d = 0
    <3>1. 0 \in -Abs(n) .. Abs(n) /\ n = d * 0
      BY <1>1, <2>1 DEF Abs
    <3> QED
      BY <3>1 DEF Divides
  <2>2. CASE d # 0
    <3>1. k <= Abs(n) /\ -k <= Abs(n)
      <4>1. CASE d >= 1 /\ k >= 0
        BY <1>1, <4>1 DEF Abs
      <4>2. CASE d >= 1 /\ k < 0
        BY <1>1, <4>2 DEF Abs
      <4>3. CASE d <= -1 /\ k >= 0
        BY <1>1, <4>3 DEF Abs
      <4>4. CASE d <= -1 /\ k < 0
        BY <1>1, <4>4 DEF Abs
      <4> QED
        BY <2>2, <4>1, <4>2, <4>3, <4>4
    <3>2. k \in -Abs(n) .. Abs(n)
      BY <3>1 DEF Abs
    <3> QED
      BY <1>1, <3>2 DEF Divides
  <2> QED
    BY <2>1, <2>2
<1>2. ASSUME Divides(d, n)
      PROVE  \E k \in Int : n = d * k
  BY <1>2 DEF Divides, Abs
<1> QED
  BY <1>1, <1>2

(***************************************************************************)
(* C's remainder takes a multiple of the divisor away.                     *)
(***************************************************************************)
LEMMA RemainderIsLess ==
  ASSUME NEW n \in Int, NEW m \in Int, m # 0
  PROVE  Remainder(n, m) \in Int /\ \E q \in Int : n = (m * q) + Remainder(n, m)
<1> DEFINE x == Abs(n)
           y == Abs(m)
           r == x % y
           p == x \div y
<1>1. x \in Int /\ x >= 0 /\ y \in Int /\ y > 0
  BY DEF Abs
<1>2. r \in Int /\ p \in Int /\ x = (y * p) + r
  <2> HIDE DEF x, y
  <2> QED
    BY <1>1
<1>3. Remainder(n, m) = IF n < 0 THEN -r ELSE r
  BY DEF Remainder, Abs
<1>4. (n >= 0 => x = n) /\ (n < 0 => n = -x) /\ (m > 0 => y = m) /\ (m < 0 => y = -m)
  BY DEF Abs
<1> HIDE DEF x, y, r, p
<1>5. m * p = IF m > 0 THEN y * p ELSE -(y * p)
  <2>1. CASE m > 0
    BY <1>4, <2>1
  <2>2. CASE m < 0
    <3>1. m = -y /\ y \in Int /\ p \in Int
      BY <1>1, <1>2, <1>4, <2>2
    <3>2. (-y) * p = -(y * p)
      BY <3>1
    <3> QED
      BY <2>2, <3>1, <3>2
  <2> QED
    BY <2>1, <2>2
<1>6. m * (-p) = -(m * p) /\ -p \in Int /\ m * p \in Int /\ y * p \in Int
  BY <1>1, <1>2
<1>7. CASE (n >= 0 /\ m > 0) \/ (n < 0 /\ m < 0)
  <2>1. n = (m * p) + Remainder(n, m)
    BY <1>1, <1>2, <1>3, <1>4, <1>5, <1>6, <1>7
  <2> QED
    BY <1>2, <1>3, <2>1
<1>8. CASE (n >= 0 /\ m < 0) \/ (n < 0 /\ m > 0)
  <2>1. n = (m * (-p)) + Remainder(n, m)
    BY <1>1, <1>2, <1>3, <1>4, <1>5, <1>6, <1>8
  <2> QED
    BY <1>2, <1>3, <1>6, <2>1
<1> QED
  BY <1>7, <1>8

(***************************************************************************)
(* C's remainder is nearer to 0 than the divisor.                          *)
(***************************************************************************)
LEMMA RemainderIsNearer ==
  ASSUME NEW n \in Int, NEW m \in Int, m # 0
  PROVE  Abs(Remainder(n, m)) < Abs(m)
<1> DEFINE r == Abs(n) % Abs(m)
<1>1. Abs(n) \in Int /\ Abs(m) \in Int /\ Abs(m) > 0
  BY DEF Abs
<1>2. r \in Int /\ 0 <= r /\ r < Abs(m)
  <2>1. ASSUME NEW x \in Int, NEW y \in Int, y > 0
        PROVE  x % y \in Int /\ 0 <= x % y /\ x % y < y
    BY <2>1
  <2> QED
    BY <1>1, <2>1
<1>3. Remainder(n, m) = IF n < 0 THEN -r ELSE r
  BY DEF Remainder, Abs
<1>4. Abs(-r) = r /\ Abs(r) = r
  BY <1>2 DEF Abs
<1> QED
  BY <1>2, <1>3, <1>4

(***************************************************************************)
(* One turn of the loop keeps the common divisors.                         *)
(***************************************************************************)
LEMMA SameCommonDivisors ==
  ASSUME NEW d \in Int, NEW n \in Int, NEW m \in Int, m # 0
  PROVE  Divides(d, m) /\ Divides(d, n) <=> Divides(d, Remainder(n, m)) /\ Divides(d, m)
<1> DEFINE r == Remainder(n, m)
<1>1. r \in Int
  BY RemainderIsLess
<1>2. PICK q \in Int : n = (m * q) + r
  BY RemainderIsLess
<1> HIDE DEF r
<1>3. ASSUME Divides(d, m), Divides(d, n)
      PROVE  Divides(d, r)
  <2>1. PICK i \in Int : m = d * i
    BY <1>3, DividesAny
  <2>2. PICK j \in Int : n = d * j
    BY <1>3, DividesAny
  <2>3. r = d * (j - (i * q)) /\ j - (i * q) \in Int
    BY <1>1, <1>2, <2>1, <2>2
  <2> QED
    BY <1>1, <2>3, DividesAny
<1>4. ASSUME Divides(d, r), Divides(d, m)
      PROVE  Divides(d, n)
  <2>1. PICK i \in Int : m = d * i
    BY <1>4, DividesAny
  <2>2. PICK j \in Int : r = d * j
    BY <1>1, <1>4, DividesAny
  <2>3. n = d * ((i * q) + j) /\ (i * q) + j \in Int
    BY <1>1, <1>2, <2>1, <2>2
  <2> QED
    BY <2>3, DividesAny
<1> QED
  BY <1>3, <1>4 DEF r

-----------------------------------------------------------------------------
(* The invariant: the loop's variables have the arguments' common divisors.*)

IInv ==
  /\ a \in Int /\ b \in Int
  /\ args \in Int \X Int
  /\ returned \in BOOLEAN
  /\ returned => a = 0
  /\ \A d \in Int :
       Divides(d, a) /\ Divides(d, b) <=> Divides(d, args[1]) /\ Divides(d, args[2])

LEMMA GcdInit == Init => IInv
<1> SUFFICES ASSUME Init
             PROVE  IInv
  OBVIOUS
<1>1. a \in Int /\ b \in Int /\ returned = FALSE
  BY DEF Init
<1>2. args \in Int \X Int /\ args[1] = a /\ args[2] = b
  BY <1>1 DEF Init
<1> QED
  BY <1>1, <1>2 DEF IInv

LEMMA GcdStep == IInv /\ [Next]_vars => IInv'
<1> SUFFICES ASSUME IInv, [Next]_vars
             PROVE  IInv'
  OBVIOUS
<1>1. CASE Loop
  <2>1. a' \in Int /\ b' \in Int /\ args' = args /\ returned' = FALSE /\ returned = FALSE
    BY <1>1, RemainderIsLess DEF IInv, Loop
  <2>2. ASSUME NEW d \in Int
        PROVE  Divides(d, a') /\ Divides(d, b') <=> Divides(d, args'[1]) /\ Divides(d, args'[2])
    <3>1. Divides(d, a) /\ Divides(d, b) <=> Divides(d, Remainder(b, a)) /\ Divides(d, a)
      BY <1>1, SameCommonDivisors DEF IInv, Loop
    <3>2. a' = Remainder(b, a) /\ b' = a
      BY <1>1 DEF Loop
    <3> QED
      BY <2>1, <3>1, <3>2 DEF IInv
  <2> QED
    BY <2>1, <2>2 DEF IInv
<1>2. CASE Return
  BY <1>2 DEF IInv, Return
<1>3. CASE UNCHANGED vars
  BY <1>3 DEF IInv, vars
<1> QED
  BY <1>1, <1>2, <1>3 DEF Next

LEMMA GcdDone == IInv => ResultIsGcd
<1> SUFFICES ASSUME IInv, returned
             PROVE  /\ Divides(b, args[1]) /\ Divides(b, args[2])
                    /\ \A d \in Int : Divides(d, args[1]) /\ Divides(d, args[2]) => Divides(d, b)
  BY DEF ResultIsGcd, IInv, Abs
<1>1. Divides(b, a) /\ Divides(b, b)
  <2>1. a \in Int /\ b \in Int /\ a = b * 0 /\ b = b * 1
    BY DEF IInv
  <2>2. (\E k \in Int : a = b * k) /\ (\E k \in Int : b = b * k)
    BY <2>1
  <2> QED
    BY <2>1, <2>2, DividesAny
<1> QED
  BY <1>1 DEF IInv

(***************************************************************************)
(* gcd returns a greatest common divisor, up to its sign, of all integers. *)
(***************************************************************************)
THEOREM GcdCorrect == Spec => []ResultIsGcd
<1>1. Spec => []IInv
  BY GcdInit, GcdStep, PTL DEF Spec
<1> QED
  BY <1>1, GcdDone, PTL

(***************************************************************************)
(* The loop ends for all integers: the distance of a from 0 is a natural   *)
(* number that each turn makes smaller.                                    *)
(***************************************************************************)
THEOREM GcdEnds == Spec => EachTurnNearer
<1>1. Spec => []IInv
  BY GcdInit, GcdStep, PTL DEF Spec
<1>2. ASSUME IInv, Next
      PROVE  Abs(a') < Abs(a) \/ returned'
  <2>1. CASE Loop
    BY <1>2, <2>1, RemainderIsNearer DEF IInv, Loop
  <2>2. CASE Return
    BY <2>2 DEF Return
  <2> QED
    BY <1>2, <2>1, <2>2 DEF Next
<1>3. IInv /\ [Next]_vars => [Abs(a') < Abs(a) \/ returned']_vars
  BY <1>2
<1> QED
  BY <1>1, <1>3, PTL DEF Spec, EachTurnNearer
=============================================================================
