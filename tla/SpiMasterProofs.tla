--------------------------- MODULE SpiMasterProofs ---------------------------
(***************************************************************************)
(* Theorems about SpiMaster, for any tasks, block lengths and bound.       *)
(***************************************************************************)
EXTENDS SpiMaster, SequenceTheorems, TLAPS

Transferring == {"check", "wait", "transmit", "receive"}

(***************************************************************************)
(* What a task that is inside a transfer relies on: it has bytes left.     *)
(***************************************************************************)
LeftInv == \A t \in Tasks : pc[t] \in Transferring => left[t] > 0

(***************************************************************************)
(* A byte was lost in a block that has been in reset since, and the task   *)
(* that lost it has yet to look whether the bus is enabled before it sends *)
(* another.                                                                *)
(***************************************************************************)
LostInv ==
  \A t \in Tasks :
    /\ lost[t] \in {0, 1}
    /\ lost[t] = 1 => UCSWRST /\ pc[t] \notin {"wait", "transmit"}

\* A block in reset holds no byte.
ResetInv == UCSWRST => txbuf = 0 /\ shift = 0

BusyWith(register) == IF register = 0 THEN 0 ELSE 1

(***************************************************************************)
(* While no two calls overlap: one task at most is inside a call, alone    *)
(* with the block; what it has seen of it still holds; and it stays within *)
(* the bytes that were asked for.                                          *)
(***************************************************************************)
AloneInv ==
  /\ \A t, u \in Tasks : pc[t] # "idle" /\ pc[u] # "idle" => t = u
  /\ begun <= MaxBytes /\ written <= begun
  /\ \A t \in Tasks :
       /\ pc[t] = "enable" => UCSWRST
       /\ pc[t] \in {"wait", "transmit", "receive"} => ~UCSWRST
       /\ pc[t] = "transmit" => txbuf = 0
       /\ pc[t] = "receive" => asked[t] = written /\ written + left[t] <= begun + 1
       /\ pc[t] \in {"check", "wait", "transmit"} => written + left[t] <= begun

(***************************************************************************)
(* The bytes sent since the block was configured are in a row: those the   *)
(* slave has heard, the one being clocked out, the one in the buffer.      *)
(***************************************************************************)
InARow ==
  /\ \A i \in 1 .. Len(mosi) : mosi[i] = base + i
  /\ shift # 0 => shift = base + Len(mosi) + 1
  /\ txbuf # 0 => txbuf = base + Len(mosi) + BusyWith(shift) + 1
  /\ written = base + Len(mosi) + BusyWith(shift) + BusyWith(txbuf)
  /\ mosi # <<>> => rxbuf = base + Len(mosi)

IInv ==
  /\ TypeOK /\ LeftInv /\ LostInv /\ ResetInv
  /\ ~mixed => AloneInv /\ AnswerLag
  /\ ~mixed /\ ~UCSWRST => InARow

-----------------------------------------------------------------------------
(* Types.                                                                  *)

(* Init has the types. *)
LEMMA TypeInit == Init => TypeOK /\ LeftInv
<1> SUFFICES ASSUME Init PROVE TypeOK /\ LeftInv
  OBVIOUS
<1>1. mosi \in Seq(1 .. written)
  BY EmptySeq DEF Init
<1>2. UCSWRST \in BOOLEAN /\ mixed \in BOOLEAN
  BY DEF Init
<1>3. QED
  BY <1>1, <1>2 DEF Init, TypeOK, LeftInv, Places, Outcomes, Transferring

(* A step of the clock keeps the types. *)
LEMMA TypeClock ==
  ASSUME TypeOK, LeftInv, LoadShift \/ ShiftOut
  PROVE  TypeOK' /\ LeftInv'
<1>1. CASE LoadShift
  BY <1>1 DEF LoadShift, tasks, TypeOK, LeftInv
<1>2. CASE ShiftOut
  <2>1. mosi' \in Seq(1 .. written)
    <3>1. shift \in 1 .. written /\ mosi \in Seq(1 .. written)
      BY <1>2 DEF ShiftOut, TypeOK
    <3>2. QED
      BY <1>2, <3>1, AppendProperties DEF ShiftOut
  <2>2. QED
    BY <1>2, <2>1 DEF ShiftOut, tasks, TypeOK, LeftInv
<1>3. QED
  BY <1>1, <1>2

(* So does a call, up to its first step inside the block. *)
LEMMA TypeCalls ==
  ASSUME TypeOK, LeftInv, NEW t \in Tasks,
         \/ spi_open(t)
         \/ spi_close(t)
         \/ \E length \in Lengths : spi_transfer_bytes(t, length)
  PROVE  TypeOK' /\ LeftInv'
<1>1. CASE spi_open(t)
  BY <1>1 DEF spi_open, Calls, Goto, Return, hardware, TypeOK, LeftInv, Transferring, Places, Outcomes
<1>2. CASE spi_close(t)
  BY <1>2 DEF spi_close, Calls, SetReset, TypeOK, LeftInv
<1>3. ASSUME NEW length \in Lengths, spi_transfer_bytes(t, length)
      PROVE  TypeOK' /\ LeftInv'
  <2>1. length \in Nat /\ length > 0
    BY LengthsAssumption
  <2>2. QED
    BY <1>3, <2>1 DEF spi_transfer_bytes, Calls, Goto, hardware, TypeOK, LeftInv, Transferring, Places
<1>4. QED
  BY <1>1, <1>2, <1>3

(* So does a step of a task that is inside a call. *)
LEMMA TypeInside ==
  ASSUME TypeOK, LeftInv, NEW t \in Tasks, Inside(t)
  PROVE  TypeOK' /\ LeftInv'
<1>1. CASE initMaster(t)
  BY <1>1 DEF initMaster, SetReset, Goto, TypeOK, LeftInv, Transferring, Places
<1>2. CASE enable(t)
  <2>1. mosi' \in Seq(1 .. written)
    BY <1>2, EmptySeq DEF enable
  <2>2. lost' \in [Tasks -> 0 .. written] /\ holders' \subseteq Tasks
    BY <1>2 DEF enable, TypeOK
  <2>3. pc' \in [Tasks -> Places] /\ result' \in [Tasks -> Outcomes] /\ LeftInv'
    BY <1>2 DEF enable, Return, Goto, TypeOK, LeftInv, Transferring, Places, Outcomes
  <2>4. {txbuf', shift', rxbuf', base'} \subseteq 0 .. written'
    BY <1>2 DEF enable, TypeOK
  <2>5. QED
    BY <1>2, <2>1, <2>2, <2>3, <2>4 DEF enable, TypeOK
<1>3. CASE Check(t)
  BY <1>3 DEF Check, Return, Goto, hardware, TypeOK, LeftInv, Transferring, Places, Outcomes
<1>4. CASE Wait(t)
  BY <1>4 DEF Wait, Goto, hardware, TypeOK, LeftInv, Transferring, Places
<1>5. CASE Transmit(t)
  <2>1. written \in Nat /\ written' = written + 1
    BY <1>5 DEF Transmit, TypeOK
  <2>2. 0 .. written \subseteq 0 .. written' /\ 1 .. written \subseteq 1 .. written'
    BY <2>1
  <2>3. mosi' \in Seq(1 .. written')
    BY <1>5, <2>2, SeqMonotonic DEF Transmit, TypeOK
  <2>4. asked' \in [Tasks -> 0 .. written'] /\ answer' \in [Tasks -> 0 .. written']
    BY <1>5, <2>1, <2>2 DEF Transmit, TypeOK
  <2>5. lost' \in [Tasks -> 0 .. written']
    BY <1>5, <2>1, <2>2 DEF Transmit, TypeOK
  <2>6. {txbuf', shift', rxbuf', base'} \subseteq 0 .. written'
    BY <1>5, <2>1, <2>2 DEF Transmit, TypeOK
  <2>7. pc' \in [Tasks -> Places] /\ LeftInv'
    BY <1>5 DEF Transmit, Goto, TypeOK, LeftInv, Transferring, Places
  <2>8. QED
    BY <1>5, <2>1, <2>3, <2>4, <2>5, <2>6, <2>7 DEF Transmit, TypeOK
<1>6. CASE Receive(t)
  <2>1. left[t] \in Nat /\ left[t] > 0
    BY <1>6 DEF Receive, TypeOK, LeftInv, Transferring
  <2>2. left' \in [Tasks -> Nat] /\ LeftInv'
    BY <1>6, <2>1 DEF Receive, Return, Goto, TypeOK, LeftInv, Transferring, Places
  <2>3. QED
    BY <1>6, <2>2 DEF Receive, Return, Goto, hardware, TypeOK, Places, Outcomes
<1>7. QED
  BY <1>1, <1>2, <1>3, <1>4, <1>5, <1>6 DEF Inside

(***************************************************************************)
(* A step keeps the types, and what a task inside a transfer relies on.    *)
(***************************************************************************)
LEMMA TypeStep == TypeOK /\ LeftInv /\ [Next]_vars => TypeOK' /\ LeftInv'
<1>1. ASSUME TypeOK, LeftInv, UNCHANGED vars
      PROVE  TypeOK' /\ LeftInv'
  BY <1>1 DEF vars, TypeOK, LeftInv
<1>2. QED
  BY <1>1, TypeClock, TypeCalls, TypeInside DEF Next

(***************************************************************************)
(* The registers and the driver's variables keep their types, whatever     *)
(* tasks do to each other.                                                 *)
(***************************************************************************)
THEOREM SpiTypeCorrect == Spec => []TypeOK
<1>1. Spec => [](TypeOK /\ LeftInv)
  BY TypeInit, TypeStep, PTL DEF Spec
<1>2. QED
  BY <1>1, PTL

-----------------------------------------------------------------------------
(* A block closed under a task.                                            *)

(***************************************************************************)
(* LostInv is inductive: a byte that goes into a block in reset takes the  *)
(* task past the wait, and behind it the task looks whether the bus is     *)
(* enabled; only enable ends the reset, and then no byte counts as lost.   *)
(***************************************************************************)
LEMMA LostStep == TypeOK /\ LostInv /\ [Next]_vars => LostInv'
<1> SUFFICES ASSUME TypeOK, LostInv, [Next]_vars
             PROVE  LostInv'
  OBVIOUS
<1>1. CASE LoadShift \/ ShiftOut \/ UNCHANGED vars
  BY <1>1 DEF LoadShift, ShiftOut, tasks, vars, LostInv
<1>2. ASSUME NEW t \in Tasks, spi_open(t)
      PROVE  LostInv'
  BY <1>2 DEF spi_open, Calls, Goto, Return, hardware, TypeOK, LostInv
<1>3. ASSUME NEW t \in Tasks, spi_close(t)
      PROVE  LostInv'
  BY <1>3 DEF spi_close, Calls, SetReset, LostInv
<1>4. ASSUME NEW t \in Tasks, NEW length \in Lengths, spi_transfer_bytes(t, length)
      PROVE  LostInv'
  BY <1>4 DEF spi_transfer_bytes, Calls, Goto, hardware, TypeOK, LostInv
<1>5. ASSUME NEW t \in Tasks, initMaster(t)
      PROVE  LostInv'
  BY <1>5 DEF initMaster, SetReset, Goto, TypeOK, LostInv
<1>6. ASSUME NEW t \in Tasks, enable(t)
      PROVE  LostInv'
  BY <1>6 DEF enable, LostInv
<1>7. ASSUME NEW t \in Tasks, Check(t)
      PROVE  LostInv'
  BY <1>7 DEF Check, Return, Goto, hardware, TypeOK, LostInv
<1>8. ASSUME NEW t \in Tasks, Wait(t)
      PROVE  LostInv'
  BY <1>8 DEF Wait, Goto, hardware, TypeOK, LostInv
<1>9. ASSUME NEW t \in Tasks, Transmit(t)
      PROVE  LostInv'
  BY <1>9 DEF Transmit, Goto, TypeOK, LostInv
<1>10. ASSUME NEW t \in Tasks, Receive(t)
       PROVE  LostInv'
  BY <1>10 DEF Receive, Return, Goto, hardware, TypeOK, LostInv
<1>11. QED
  BY <1>1, <1>2, <1>3, <1>4, <1>5, <1>6, <1>7, <1>8, <1>9, <1>10 DEF Next, Inside

(***************************************************************************)
(* A task under whose transfer another one closes the block sends at most  *)
(* one byte into it, for any number of tasks and blocks of any length.     *)
(***************************************************************************)
THEOREM OneByteIntoClosedBlock == Spec => []OneByteIntoClosed
<1>1. Init => LostInv
  BY DEF Init, LostInv
<1>2. LostInv => OneByteIntoClosed
  BY DEF LostInv, OneByteIntoClosed
<1>3. QED
  BY <1>1, <1>2, LostStep, SpiTypeCorrect, PTL DEF Spec

(* A block is emptied when it is put into reset, and holds nothing until   *)
(* it is enabled: the clock stands still and a byte that is written goes   *)
(* nowhere.                                                                *)
LEMMA ResetStep == TypeOK /\ ResetInv /\ [Next]_vars => ResetInv'
<1> SUFFICES ASSUME TypeOK, ResetInv, [Next]_vars
             PROVE  ResetInv'
  OBVIOUS
<1>1. CASE LoadShift \/ ShiftOut \/ UNCHANGED vars
  BY <1>1 DEF LoadShift, ShiftOut, tasks, vars, ResetInv
<1>2. ASSUME NEW t \in Tasks,
             \/ spi_open(t)
             \/ \E length \in Lengths : spi_transfer_bytes(t, length)
             \/ Check(t) \/ Wait(t) \/ Receive(t)
      PROVE  ResetInv'
  BY <1>2 DEF spi_open, spi_transfer_bytes, Check, Wait, Receive, hardware, ResetInv
<1>3. ASSUME NEW t \in Tasks, spi_close(t) \/ initMaster(t)
      PROVE  ResetInv'
  BY <1>3 DEF spi_close, initMaster, SetReset, ResetInv
<1>4. ASSUME NEW t \in Tasks, enable(t) \/ Transmit(t)
      PROVE  ResetInv'
  BY <1>4 DEF enable, Transmit, ResetInv
<1>5. QED
  BY <1>1, <1>2, <1>3, <1>4 DEF Next, Inside

-----------------------------------------------------------------------------
(* Calls that do not overlap.                                              *)

(* A step after which no two calls have overlapped began in such a state,  *)
(* and a call that it begins finds all tasks idle.                         *)
LEMMA NotMixedBefore ==
  ASSUME [Next]_vars, ~mixed'
  PROVE  /\ ~mixed
         /\ \A t \in Tasks : Calls(t) => \A u \in Tasks : pc[u] = "idle"
<1>1. \A t \in Tasks : Calls(t) => ~mixed /\ \A u \in Tasks : pc[u] = "idle"
  BY Zenon DEF Calls
<1>2. CASE mixed' = mixed
  BY <1>1, <1>2
<1>3. CASE \E t \in Tasks : Calls(t)
  BY <1>1, <1>3
<1>4. QED
  BY <1>2, <1>3 DEF Next, Inside, vars, tasks, LoadShift, ShiftOut, spi_open, spi_close, spi_transfer_bytes,
                    initMaster, enable, Check, Wait, Transmit, Receive

(***************************************************************************)
(* AloneInv is inductive.  A task alone with the block finds it as it left *)
(* it: out of reset behind the check, the buffer empty behind the wait.    *)
(***************************************************************************)
LEMMA AloneStep ==
  ASSUME TypeOK, LeftInv, AloneInv, [Next]_vars, ~mixed'
  PROVE  AloneInv'
<1>1. CASE LoadShift \/ ShiftOut \/ UNCHANGED vars
  BY <1>1 DEF LoadShift, ShiftOut, tasks, vars, TypeOK, AloneInv
<1>2. ASSUME NEW t \in Tasks, spi_open(t)
      PROVE  AloneInv'
  <2>1. \A u \in Tasks : pc[u] = "idle"
    BY <1>2, NotMixedBefore DEF spi_open
  <2>2. QED
    BY <1>2, <2>1 DEF spi_open, Goto, Return, hardware, TypeOK, AloneInv
<1>3. ASSUME NEW t \in Tasks, spi_close(t)
      PROVE  AloneInv'
  <2>1. \A u \in Tasks : pc[u] = "idle"
    BY <1>3, NotMixedBefore DEF spi_close
  <2>2. QED
    BY <1>3, <2>1 DEF spi_close, SetReset, AloneInv
<1>4. ASSUME NEW t \in Tasks, NEW length \in Lengths, spi_transfer_bytes(t, length)
      PROVE  AloneInv'
  <2>1. \A u \in Tasks : pc[u] = "idle"
    BY <1>4, NotMixedBefore DEF spi_transfer_bytes
  <2>2. length \in Nat
    BY LengthsAssumption
  <2>3. begun' = begun + length /\ begun' <= MaxBytes /\ written' = written /\ UCSWRST' = UCSWRST
    BY <1>4 DEF spi_transfer_bytes, hardware
  <2>4. pc' = [pc EXCEPT ![t] = "check"] /\ left' = [left EXCEPT ![t] = length]
    BY <1>4 DEF spi_transfer_bytes, Goto
  <2>5. QED
    BY <2>1, <2>2, <2>3, <2>4 DEF TypeOK, AloneInv
<1>5. ASSUME NEW t \in Tasks, initMaster(t)
      PROVE  AloneInv'
  BY <1>5 DEF initMaster, SetReset, Goto, TypeOK, AloneInv
<1>6. ASSUME NEW t \in Tasks, enable(t)
      PROVE  AloneInv'
  BY <1>6 DEF enable, Return, Goto, TypeOK, AloneInv
<1>7. ASSUME NEW t \in Tasks, Check(t)
      PROVE  AloneInv'
  BY <1>7 DEF Check, Return, Goto, hardware, TypeOK, AloneInv
<1>8. ASSUME NEW t \in Tasks, Wait(t)
      PROVE  AloneInv'
  BY <1>8 DEF Wait, Goto, hardware, TypeOK, AloneInv
<1>9. ASSUME NEW t \in Tasks, Transmit(t)
      PROVE  AloneInv'
  <2>1. \A u \in Tasks : u # t => pc[u] = "idle"
    BY <1>9 DEF Transmit, AloneInv
  <2>2. left[t] \in Nat /\ left[t] > 0 /\ written \in Nat /\ begun \in Nat
    BY <1>9 DEF Transmit, TypeOK, LeftInv, Transferring
  <2>3. written + left[t] <= begun /\ begun <= MaxBytes
    BY <1>9 DEF Transmit, AloneInv
  <2>4. pc' = [pc EXCEPT ![t] = "receive"] /\ asked' = [asked EXCEPT ![t] = written + 1]
    BY <1>9 DEF Transmit, Goto
  <2>5. written' = written + 1 /\ UNCHANGED <<left, begun, UCSWRST>> /\ ~UCSWRST
    BY <1>9 DEF Transmit, AloneInv
  <2>6. pc \in [Tasks -> Places] /\ asked \in [Tasks -> 0 .. written]
    BY DEF TypeOK
  <2>7. QED
    BY <2>1, <2>2, <2>3, <2>4, <2>5, <2>6, SMTT(30) DEF AloneInv
<1>10. ASSUME NEW t \in Tasks, Receive(t)
       PROVE  AloneInv'
  <2>1. \A u \in Tasks : u # t => pc[u] = "idle"
    BY <1>10 DEF Receive, AloneInv
  <2>2. left[t] \in Nat /\ left[t] > 0 /\ written \in Nat /\ begun \in Nat
    BY <1>10 DEF Receive, TypeOK, LeftInv, Transferring
  <2>3. written + left[t] <= begun + 1
    BY <1>10 DEF Receive, AloneInv
  <2>4. pc' = [pc EXCEPT ![t] = IF left[t] = 1 THEN "idle" ELSE "check"]
    BY <1>10 DEF Receive, Return, Goto
  <2>5. left' = [left EXCEPT ![t] = @ - 1] /\ UNCHANGED <<written, begun, asked, UCSWRST, txbuf>>
    BY <1>10 DEF Receive, hardware
  <2>6. pc \in [Tasks -> Places] /\ left \in [Tasks -> Nat]
    BY DEF TypeOK
  <2>7. QED
    BY <2>1, <2>2, <2>3, <2>4, <2>5, <2>6, SMTT(30) DEF AloneInv
<1>11. QED
  BY <1>1, <1>2, <1>3, <1>4, <1>5, <1>6, <1>7, <1>8, <1>9, <1>10 DEF Next, Inside

(***************************************************************************)
(* InARow is inductive: the clock moves bytes on, a transfer puts one      *)
(* behind them, and a block is enabled empty.                              *)
(***************************************************************************)
LEMMA RowStep ==
  ASSUME TypeOK, ResetInv, AloneInv, ~UCSWRST => InARow, [Next]_vars, ~UCSWRST'
  PROVE  InARow'
<1>1. /\ {txbuf, shift, rxbuf, base} \subseteq Nat /\ written \in Nat
      /\ mosi \in Seq(1 .. written) /\ Len(mosi) \in Nat
  BY DEF TypeOK
<1>2. CASE LoadShift
  BY <1>1, <1>2 DEF LoadShift, tasks, InARow, BusyWith
<1>3. CASE ShiftOut
  <2>1. /\ shift # 0 /\ ~UCSWRST /\ mosi' = Append(mosi, shift)
        /\ shift' = 0 /\ rxbuf' = shift /\ UNCHANGED <<txbuf, written, base>>
    BY <1>3 DEF ShiftOut, tasks
  <2>2. shift = base + Len(mosi) + 1 /\ shift \in 1 .. written
    BY <2>1 DEF InARow, TypeOK
  <2>3. /\ Len(mosi') = Len(mosi) + 1
        /\ \A i \in 1 .. Len(mosi) : mosi'[i] = mosi[i]
        /\ mosi'[Len(mosi) + 1] = shift
    BY <1>1, <2>1, <2>2, AppendProperties
  <2>4. ASSUME NEW i \in 1 .. Len(mosi')
        PROVE  mosi'[i] = base' + i
    <3>1. CASE i \in 1 .. Len(mosi)
      BY <2>1, <2>3, <3>1 DEF InARow
    <3>2. CASE i = Len(mosi) + 1
      BY <1>1, <2>1, <2>2, <2>3, <3>2
    <3>3. QED
      BY <1>1, <2>3, <3>1, <3>2
  <2>5. BusyWith(shift) = 1 /\ BusyWith(shift') = 0
    BY <2>1 DEF BusyWith
  <2>6. /\ txbuf' # 0 => txbuf' = base' + Len(mosi') + BusyWith(shift') + 1
        /\ written' = base' + Len(mosi') + BusyWith(shift') + BusyWith(txbuf')
        /\ rxbuf' = base' + Len(mosi')
    BY <1>1, <2>1, <2>2, <2>3, <2>5, SMTT(30) DEF InARow, BusyWith
  <2>7. QED
    BY <2>1, <2>4, <2>6 DEF InARow
<1>4. ASSUME NEW t \in Tasks,
             \/ spi_open(t)
             \/ \E length \in Lengths : spi_transfer_bytes(t, length)
             \/ Check(t) \/ Wait(t) \/ Receive(t)
      PROVE  InARow'
  <2>1. UNCHANGED <<hardware, base, written>>
    BY <1>4 DEF spi_open, spi_transfer_bytes, Check, Wait, Receive
  <2>2. QED
    BY <2>1 DEF hardware, InARow
<1>5. ASSUME NEW t \in Tasks, spi_close(t) \/ initMaster(t)
      PROVE  InARow'
  BY <1>5 DEF spi_close, initMaster, SetReset
<1>6. ASSUME NEW t \in Tasks, enable(t)
      PROVE  InARow'
  <2>1. txbuf = 0 /\ shift = 0
    BY <1>6 DEF enable, AloneInv, ResetInv
  <2>2. QED
    BY <1>1, <1>6, <2>1 DEF enable, InARow, BusyWith
<1>7. ASSUME NEW t \in Tasks, Transmit(t)
      PROVE  InARow'
  <2>1. txbuf = 0 /\ ~UCSWRST
    BY <1>7 DEF Transmit, AloneInv
  <2>2. /\ txbuf' = written + 1 /\ written' = written + 1
        /\ UNCHANGED <<shift, rxbuf, base, mosi>>
    BY <1>7, <2>1 DEF Transmit
  <2>3. QED
    BY <1>1, <2>1, <2>2 DEF InARow, BusyWith
<1>8. CASE UNCHANGED vars
  BY <1>8 DEF vars, InARow
<1>9. QED
  BY <1>2, <1>3, <1>4, <1>5, <1>6, <1>7, <1>8 DEF Next, Inside

(***************************************************************************)
(* AnswerLag is inductive: a transfer finds in the receive buffer the      *)
(* answer to the last byte that the slave has heard, and at most two bytes *)
(* are behind that one.                                                    *)
(***************************************************************************)
LEMMA AnswerStep ==
  ASSUME TypeOK, AloneInv, ~UCSWRST => InARow, AnswerLag, [Next]_vars, ~mixed, ~mixed'
  PROVE  AnswerLag'
<1>1. CASE UNCHANGED <<asked, answer, base>> /\ \A t \in Tasks : pc[t] = "receive" => pc'[t] = "receive"
  BY <1>1 DEF AnswerLag
<1>2. CASE LoadShift \/ ShiftOut \/ UNCHANGED vars
  BY <1>1, <1>2 DEF LoadShift, ShiftOut, tasks, vars
<1>3. ASSUME NEW t \in Tasks,
             \/ spi_open(t) \/ spi_close(t)
             \/ \E length \in Lengths : spi_transfer_bytes(t, length)
             \/ initMaster(t) \/ Check(t) \/ Wait(t)
      PROVE  AnswerLag'
  BY <1>1, <1>3 DEF spi_open, spi_close, spi_transfer_bytes, initMaster, Check, Wait, Calls, Goto, Return, TypeOK
<1>4. ASSUME NEW t \in Tasks, enable(t)
      PROVE  AnswerLag'
  <2>1. \A u \in Tasks : asked'[u] <= base'
    BY <1>4 DEF enable, TypeOK
  <2>2. \A u \in Tasks : ~(asked'[u] > base')
    BY <1>4, <2>1 DEF enable, TypeOK
  <2>3. QED
    BY <2>2 DEF AnswerLag
<1>5. ASSUME NEW t \in Tasks, Transmit(t)
      PROVE  AnswerLag'
  <2>1. pc'[t] = "receive"
    BY <1>5 DEF Transmit, Goto, TypeOK
  <2>2. \A u \in Tasks : u # t => pc'[u] = pc[u] /\ asked'[u] = asked[u]
    BY <1>5 DEF Transmit, Goto, TypeOK
  <2>3. UNCHANGED <<answer, base>>
    BY <1>5 DEF Transmit
  <2>4. QED
    BY <2>1, <2>2, <2>3 DEF AnswerLag
<1>6. ASSUME NEW t \in Tasks, Receive(t)
      PROVE  AnswerLag'
  <2>1. asked[t] = written /\ ~UCSWRST /\ InARow
    BY <1>6 DEF Receive, AloneInv
  <2>2. answer' = [answer EXCEPT ![t] = rxbuf] /\ UNCHANGED <<asked, base>>
    BY <1>6 DEF Receive, hardware
  <2>3. \A u \in Tasks : u # t => pc'[u] = pc[u] /\ answer'[u] = answer[u]
    BY <1>6, <2>2 DEF Receive, Goto, Return, TypeOK
  <2>4. answer'[t] = rxbuf
    BY <2>2 DEF TypeOK
  <2>5. rxbuf \in Nat /\ base \in Nat /\ written \in Nat /\ Len(mosi) \in Nat /\ rxbuf <= written
    BY DEF TypeOK
  <2>6. written > base + 2 => rxbuf >= written - 2
    <3>1. written <= base + Len(mosi) + 2
      BY <2>1, <2>5 DEF InARow, BusyWith
    <3>2. Len(mosi) > 0 => rxbuf = base + Len(mosi)
      BY <2>1 DEF InARow
    <3>3. QED
      BY <2>5, <3>1, <3>2
  <2>7. QED
    BY <2>1, <2>2, <2>3, <2>4, <2>5, <2>6 DEF AnswerLag
<1>7. QED
  BY <1>2, <1>3, <1>4, <1>5, <1>6 DEF Next, Inside

(***************************************************************************)
(* The invariant as a whole.                                               *)
(***************************************************************************)
LEMMA SpiInvariant == Spec => []IInv
<1>1. Init => IInv
  <2> SUFFICES ASSUME Init PROVE IInv
    OBVIOUS
  <2>1. LostInv /\ ResetInv /\ AloneInv /\ AnswerLag
    BY MaxBytesAssumption DEF Init, LostInv, ResetInv, AloneInv, AnswerLag
  <2>2. QED
    BY <2>1, TypeInit DEF Init, IInv
<1>2. IInv /\ [Next]_vars => IInv'
  <2> SUFFICES ASSUME IInv, [Next]_vars
               PROVE  IInv'
    OBVIOUS
  <2>1. TypeOK' /\ LeftInv' /\ LostInv' /\ ResetInv'
    BY TypeStep, LostStep, ResetStep DEF IInv
  <2>2. ASSUME ~mixed'
        PROVE  AloneInv' /\ AnswerLag' /\ (~UCSWRST' => InARow')
    <3>1. ~mixed
      BY <2>2, NotMixedBefore
    <3>2. TypeOK /\ LeftInv /\ ResetInv /\ AloneInv /\ AnswerLag /\ (~UCSWRST => InARow)
      BY <3>1 DEF IInv
    <3>3. QED
      BY <2>2, <3>1, <3>2, AloneStep, AnswerStep, RowStep
  <2>3. QED
    BY <2>1, <2>2 DEF IInv
<1>3. QED
  BY <1>1, <1>2, PTL DEF Spec

(***************************************************************************)
(* Without overlap, the answer a transfer returns is late by at most two   *)
(* bytes once two have been sent, and never early: for blocks of any       *)
(* length, closes and opens between the calls included.                    *)
(***************************************************************************)
THEOREM AnswersLateByTwo == Spec => []AnswerLag
<1>1. IInv => AnswerLag
  BY DEF IInv, AnswerLag
<1>2. QED
  BY <1>1, SpiInvariant, PTL

(* What a register holds, as a sequence. *)
LEMMA RegisterShape ==
  ASSUME NEW register \in Nat
  PROVE  /\ Byte(register) \in Seq(Nat)
         /\ Len(Byte(register)) = BusyWith(register)
         /\ register # 0 => Byte(register)[1] = register
  BY DEF Byte, BusyWith

(* The bytes in a row are the numbers behind base. *)
LEMMA RowIsInterval ==
  ASSUME TypeOK, InARow
  PROVE  mosi \o Byte(shift) \o Byte(txbuf) = [i \in 1 .. written - base |-> base + i]
<1> DEFINE m == Len(mosi)
           s == Byte(shift)
           x == Byte(txbuf)
           ms == mosi \o s
           all == ms \o x
<1>1. /\ shift \in Nat /\ txbuf \in Nat /\ base \in Nat /\ written \in Nat
      /\ mosi \in Seq(Nat) /\ m \in Nat
  BY SeqMonotonic DEF TypeOK
<1>2. /\ s \in Seq(Nat) /\ Len(s) = BusyWith(shift) /\ (shift # 0 => s[1] = shift)
      /\ x \in Seq(Nat) /\ Len(x) = BusyWith(txbuf) /\ (txbuf # 0 => x[1] = txbuf)
  BY <1>1, RegisterShape
<1>3. /\ Len(s) = IF shift = 0 THEN 0 ELSE 1
      /\ Len(x) = IF txbuf = 0 THEN 0 ELSE 1
  BY <1>2 DEF BusyWith
<1>4. /\ \A i \in 1 .. m : mosi[i] = base + i
      /\ shift # 0 => shift = base + m + 1
      /\ txbuf # 0 => txbuf = base + m + Len(s) + 1
      /\ written = base + m + Len(s) + Len(x)
  BY <1>2 DEF InARow
<1> HIDE DEF s, x
<1>5. /\ ms \in Seq(Nat) /\ Len(ms) = m + Len(s)
      /\ \A i \in 1 .. m + Len(s) : ms[i] = IF i <= m THEN mosi[i] ELSE s[i - m]
  BY <1>1, <1>2, ConcatProperties
<1> HIDE DEF ms
<1>6. /\ all \in Seq(Nat) /\ Len(all) = Len(ms) + Len(x)
      /\ \A i \in 1 .. Len(ms) + Len(x) : all[i] = IF i <= Len(ms) THEN ms[i] ELSE x[i - Len(ms)]
  <2>1. ms \in Seq(Nat) /\ x \in Seq(Nat)
    BY <1>2, <1>5
  <2>2. QED
    BY <2>1, ConcatProperties, Zenon
<1> HIDE DEF all, m
<1>7. Len(all) = written - base
  BY <1>1, <1>3, <1>4, <1>5, <1>6
<1>8. ASSUME NEW i \in 1 .. written - base
      PROVE  all[i] = base + i
  <2>1. i \in Nat /\ 1 <= i /\ i <= m + Len(s) + Len(x)
    BY <1>1, <1>3, <1>4
  <2>2. CASE i <= m
    <3>1. all[i] = ms[i] /\ ms[i] = mosi[i]
      BY <1>1, <1>3, <1>5, <1>6, <2>1, <2>2
    <3>2. QED
      BY <1>1, <1>4, <2>1, <2>2, <3>1
  <2>3. CASE i = m + 1 /\ shift # 0
    <3>1. all[i] = ms[i] /\ ms[i] = s[1]
      BY <1>1, <1>3, <1>5, <1>6, <2>1, <2>3
    <3>2. QED
      BY <1>1, <1>2, <1>4, <2>3, <3>1
  <2>4. CASE i = m + Len(s) + 1 /\ txbuf # 0
    <3>1. all[i] = x[1]
      BY <1>1, <1>3, <1>5, <1>6, <2>1, <2>4
    <3>2. QED
      BY <1>1, <1>2, <1>3, <1>4, <2>4, <3>1, SMTT(30)
  <2>5. QED
    BY <1>1, <1>3, <2>1, <2>2, <2>3, <2>4
<1>9. all = [i \in 1 .. written - base |-> base + i]
  BY <1>6, <1>7, <1>8
<1>10. QED
  BY <1>9 DEF all, ms, s, x

(***************************************************************************)
(* Without overlap no byte overruns another, in blocks of any length.      *)
(***************************************************************************)
THEOREM NoByteOverruns == Spec => []NoOverrun
<1>1. IInv => NoOverrun
  BY RowIsInterval DEF IInv, NoOverrun
<1>2. QED
  BY <1>1, SpiInvariant, PTL

-----------------------------------------------------------------------------
(* The block as a channel: SpiMaster implements ByteFifo.                  *)

(* The queue of the block with one byte and what is behind it. *)
LEMMA QueueShape ==
  ASSUME NEW x \in Nat, NEW r \in Nat
  PROVE  LET q == <<x>> \o Byte(r)
         IN  /\ Len(q) \in {1, 2}
             /\ SubSeq(q, 1, 1) = <<x>>
             /\ SubSeq(q, 2, Len(q)) = Byte(r)
<1> DEFINE s == <<x>>
           u == Byte(r)
<1>1. s \in Seq(Nat) /\ Len(s) = 1 /\ SubSeq(s, 1, 1) = s
  <2>1. s \in Seq(Nat) /\ Len(s) = 1
    OBVIOUS
  <2>2. QED
    BY <2>1, SubSeqFull
<1>2. u \in Seq(Nat) /\ Len(u) \in {0, 1} /\ SubSeq(u, 1, Len(u)) = u
  BY RegisterShape, SubSeqFull DEF BusyWith
<1> HIDE DEF s, u
<1>3. Len(s \o u) = Len(s) + Len(u)
  BY <1>1, <1>2, ConcatProperties
<1>4. SubSeq(s \o u, 1, 1) = s
  <2>1. s \in Seq(Nat) /\ u \in Seq(Nat) /\ 1 \in 1 .. Len(s)
    BY <1>1, <1>2
  <2>2. SubSeq(s \o u, 1, 1) = SubSeq(s, 1, 1)
    BY <2>1, SubSeqOfConcat1, Zenon
  <2>3. QED
    BY <1>1, <2>2
<1>5. SubSeq(s \o u, 2, Len(s \o u)) = u
  <2>1. CASE Len(u) = 0
    <3>1. u = <<>>
      BY <1>2, <2>1, EmptySeq
    <3>2. QED
      BY <1>1, <1>3, <2>1, <3>1, SubSeqEmpty
  <2>2. CASE Len(u) = 1
    BY <1>1, <1>2, <1>3, <2>2, SubSeqOfConcat2
  <2>3. QED
    BY <1>2, <2>1, <2>2
<1>6. Len(s \o u) \in {1, 2}
  BY <1>1, <1>2, <1>3, SMTT(30)
<1>7. QED
  BY <1>4, <1>5, <1>6 DEF s, u

(* The queues of an empty register and another. *)
LEMMA EmptyRegister ==
  ASSUME NEW r \in Nat
  PROVE  /\ Byte(0) \o Byte(r) = Byte(r) /\ Byte(r) \o Byte(0) = Byte(r)
         /\ Byte(0) = <<>>
  BY RegisterShape, ConcatEmptySeq DEF Byte

(* The end of a byte is a Take of one byte. *)
LEMMA ShiftOutTakes ==
  ASSUME TypeOK, ShiftOut
  PROVE  Fifo!FifoNext
<1> DEFINE queue == Byte(shift) \o Byte(txbuf)
<1>1. shift \in Nat /\ shift # 0 /\ txbuf \in Nat /\ mosi \in Seq(Nat) /\ written \in Nat
  BY SeqMonotonic DEF TypeOK, ShiftOut
<1>2. Byte(shift) = <<shift>>
  BY <1>1 DEF Byte
<1>3. /\ Len(queue) \in {1, 2}
      /\ SubSeq(queue, 1, 1) = <<shift>> /\ SubSeq(queue, 2, Len(queue)) = Byte(txbuf)
  BY <1>1, <1>2, QueueShape
<1>4. Byte(shift') \o Byte(txbuf') = SubSeq(queue, 1 + 1, Len(queue))
  <2>1. shift' = 0 /\ txbuf' = txbuf
    BY DEF ShiftOut
  <2>2. Byte(shift') \o Byte(txbuf') = Byte(txbuf)
    BY <1>1, <2>1, EmptyRegister
  <2>3. QED
    BY <1>3, <2>2
<1>5. mosi' = mosi \o SubSeq(queue, 1, 1)
  BY <1>1, <1>3, AppendIsConcat DEF ShiftOut
<1>6. ~UCSWRST /\ (~UCSWRST)' = ~UCSWRST
  BY DEF ShiftOut
<1>7. Fifo!Take(1)
  BY <1>4, <1>5, <1>6 DEF Fifo!Take
<1>8. 1 \in 1 .. Len(queue)
  BY <1>3
<1>9. QED
  BY <1>7, <1>8 DEF Fifo!FifoNext

(* The write to UCxxTXBUF is a Put of one byte, of those asked for. *)
LEMMA TransmitPuts ==
  ASSUME TypeOK, LeftInv, AloneInv, NEW t \in Tasks, Transmit(t)
  PROVE  Fifo!FifoNext
<1> DEFINE queue == Byte(shift) \o Byte(txbuf)
           byte == <<written + 1>>
<1>1. txbuf = 0 /\ ~UCSWRST /\ written + left[t] <= begun /\ begun <= MaxBytes
  BY DEF Transmit, AloneInv
<1>2. /\ shift \in Nat /\ written \in Nat /\ begun \in Nat /\ MaxBytes \in Nat
      /\ left[t] \in Nat /\ left[t] > 0
  BY MaxBytesAssumption DEF TypeOK, LeftInv, Transmit, Transferring
<1>3. queue = Byte(shift) /\ Len(queue) \in {0, 1}
  BY <1>1, <1>2, EmptyRegister, RegisterShape DEF BusyWith
<1>4. Byte(shift') \o Byte(txbuf') = queue \o byte
  BY <1>1, <1>2, <1>3 DEF Transmit, Byte
<1>5. (~UCSWRST)' = ~UCSWRST /\ mosi' = mosi
  BY DEF Transmit
<1>6. Fifo!Put(byte)
  BY <1>1, <1>4, <1>5 DEF Fifo!Put
<1>7. byte \in [1 .. 1 -> 1 .. MaxBytes]
  BY <1>1, <1>2
<1>8. 1 \in 1 .. 2 - Len(queue)
  BY <1>3
<1>9. QED
  BY <1>6, <1>7, <1>8 DEF Fifo!FifoNext

(* enable opens the channel, and it is empty. *)
LEMMA EnableOpens ==
  ASSUME ResetInv, AloneInv, NEW t \in Tasks, enable(t)
  PROVE  Fifo!FifoNext
<1>1. shift' = 0 /\ txbuf' = 0 /\ mosi' = <<>> /\ (~UCSWRST)' = TRUE
  BY DEF enable, ResetInv, AloneInv
<1>2. Byte(shift') \o Byte(txbuf') = <<>>
  BY <1>1, EmptyRegister
<1>3. Fifo!Open
  BY <1>1, <1>2 DEF Fifo!Open
<1>4. QED
  BY <1>3 DEF Fifo!FifoNext

(* Whatever puts the block into reset closes the channel. *)
LEMMA ResetCloses ==
  ASSUME NEW t \in Tasks, spi_close(t) \/ initMaster(t)
  PROVE  Fifo!FifoNext
<1>1. shift' = 0 /\ txbuf' = 0 /\ mosi' = mosi /\ (~UCSWRST)' = FALSE
  BY DEF spi_close, initMaster, SetReset
<1>2. Byte(shift') \o Byte(txbuf') = <<>>
  BY <1>1, EmptyRegister
<1>3. Fifo!Close
  BY <1>1, <1>2 DEF Fifo!Close
<1>4. QED
  BY <1>3 DEF Fifo!FifoNext

(* All other steps leave the channel as it is. *)
LEMMA OtherStepsStutter ==
  ASSUME TypeOK,
         \/ LoadShift
         \/ \E t \in Tasks :
              \/ spi_open(t)
              \/ \E length \in Lengths : spi_transfer_bytes(t, length)
              \/ Check(t) \/ Wait(t) \/ Receive(t)
         \/ UNCHANGED vars
  PROVE  UNCHANGED Fifo!fifoVars
<1>1. CASE LoadShift
  <2>1. shift = 0 /\ txbuf' = 0 /\ shift' = txbuf /\ txbuf \in Nat /\ UNCHANGED <<UCSWRST, mosi>>
    BY <1>1 DEF LoadShift, TypeOK
  <2>2. Byte(shift') \o Byte(txbuf') = Byte(shift) \o Byte(txbuf)
    BY <2>1, EmptyRegister
  <2>3. QED
    BY <2>1, <2>2 DEF Fifo!fifoVars
<1>2. CASE UNCHANGED hardware
  BY <1>2 DEF hardware, Fifo!fifoVars
<1>3. QED
  BY <1>1, <1>2 DEF vars, hardware, spi_open, spi_transfer_bytes, Check, Wait, Receive

(***************************************************************************)
(* As long as no two calls overlap, the driver and its block are a channel *)
(* of two bytes: each step of SpiMaster is a step of ByteFifo or none.     *)
(***************************************************************************)
THEOREM SpiIsByteFifo == Spec => ImplementsByteFifo
<1>1. Init => Fifo!FifoInit
  BY EmptyRegister DEF Init, Fifo!FifoInit
<1>2. IInv /\ [Next]_vars => [Fifo!FifoNext \/ mixed']_(Fifo!fifoVars)
  <2> SUFFICES ASSUME IInv, [Next]_vars, ~mixed'
               PROVE  Fifo!FifoNext \/ UNCHANGED Fifo!fifoVars
    OBVIOUS
  <2>1. TypeOK /\ LeftInv /\ ResetInv /\ AloneInv
    BY NotMixedBefore DEF IInv
  <2>2. CASE ShiftOut
    BY <2>1, <2>2, ShiftOutTakes
  <2>3. CASE \E t \in Tasks : Transmit(t)
    BY <2>1, <2>3, TransmitPuts
  <2>4. CASE \E t \in Tasks : enable(t)
    BY <2>1, <2>4, EnableOpens
  <2>5. CASE \E t \in Tasks : spi_close(t) \/ initMaster(t)
    BY <2>5, ResetCloses
  <2>6. QED
    BY <2>1, <2>2, <2>3, <2>4, <2>5, OtherStepsStutter DEF Next, Inside
<1>3. QED
  BY <1>1, <1>2, SpiInvariant, PTL DEF Spec, ImplementsByteFifo
=============================================================================
