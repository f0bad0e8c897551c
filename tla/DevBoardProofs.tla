---------------------------- MODULE DevBoardProofs ----------------------------
(***************************************************************************)
(* Theorems about DevBoard, for any bytes that come in and any delay of    *)
(* the signal task.                                                        *)
(***************************************************************************)
EXTENDS DevBoard, SequenceTheorems, TLAPS

Lines == {"Tasks initialized", "Starting signal task", "T2"}
Characters == {"i", "s", "n", "T", "2"}

(***************************************************************************)
(* What has been given to uart_write_string and not been heard yet: the    *)
(* character in the transmitter and what is still to be put there.         *)
(***************************************************************************)
Unheard ==
  (IF txbuf = None THEN <<>> ELSE <<txbuf>>) \o (IF step = "put" THEN text ELSE Tail(text))

(***************************************************************************)
(* The text of l is the last that has been begun: all of it has been       *)
(* heard; or it is on its way; or it has just been begun, and the last     *)
(* character of the text before it is still in the transmitter.            *)
(***************************************************************************)
Writes(l) ==
  \/ line = l /\ heard = <<>> /\ Unheard = <<>>
  \/ LineAfter(line) = l /\ heard \o Unheard = Text(l) /\ Unheard # <<>>
  \/ /\ LineAfter(LineAfter(line)) = l /\ text = Text(l) /\ step = "put"
     /\ txbuf # None /\ Append(heard, txbuf) = Text(LineAfter(line))

(***************************************************************************)
(* Where main and the signal task are tells which text was begun last, and *)
(* that it has been put when another may begin.                            *)
(***************************************************************************)
WriterInv ==
  /\ main \in {"config", "test", "open", "create"} =>
       line = "none" /\ heard = <<>> /\ text = <<>> /\ txbuf = None
  /\ main \in {"config", "test", "open", "create", "write"} => ~started /\ transmit = "enter"
  /\ main = "write" => Writes("Tasks initialized")
  /\ main = "done" =>
       /\ transmit = "enter" => text = <<>> /\ Writes("Tasks initialized")
       /\ transmit = "critical" => Writes("Starting signal task")
       /\ transmit = "loop" => text = <<>> /\ (Writes("Starting signal task") \/ Writes("T2"))
       /\ transmit = "line" => Writes("T2")

\* The types of the texts, which TypeOK leaves to TextsIntact.
TextInv ==
  /\ text \in Seq(Characters) /\ heard \in Seq(Characters)
  /\ line \in Lines \cup {"none"}

IInv == TypeOK /\ TextInv /\ WriterInv

-----------------------------------------------------------------------------
(* Types.                                                                  *)

(* Every text has characters, and one at least; None is none of them.      *)
LEMMA Texts ==
  /\ \A l \in Lines : Text(l) \in Seq(Characters) /\ Text(l) # <<>>
  /\ \A l \in Lines \cup {"none"} : LineAfter(l) \in Lines
  /\ None \notin Characters
<1>1. Text("Tasks initialized") = <<"i", "n">>
  BY DEF Text
<1>2. Text("Starting signal task") = <<"s", "n">>
  BY DEF Text
<1>3. Text("T2") = <<"T", "2", "n">>
  BY DEF Text
<1>4. {<<"i", "n">>, <<"s", "n">>, <<"T", "2", "n">>} \subseteq Seq(Characters)
  BY DEF Characters
<1>5. <<>> \notin {<<"i", "n">>, <<"s", "n">>, <<"T", "2", "n">>}
  OBVIOUS
<1>6. \A l \in Lines \cup {"none"} : LineAfter(l) \in Lines
  BY DEF Lines, LineAfter
<1>7. None \notin Characters
  BY DEF None, Characters
<1>8. QED
  BY <1>1, <1>2, <1>3, <1>4, <1>5, <1>6, <1>7 DEF Lines

(* The two delays as a function of the task. *)
LEMMA Delays ==
  ASSUME NEW A, NEW B
  PROVE  /\ \A d \in [transmit : A, blink : B] :
              /\ DOMAIN d = {"transmit", "blink"} /\ d["transmit"] \in A /\ d["blink"] \in B
              /\ \A x \in A : [d EXCEPT !["transmit"] = x] \in [transmit : A, blink : B]
              /\ \A x \in B : [d EXCEPT !["blink"] = x] \in [transmit : A, blink : B]
         /\ \A d : d = [t \in {"transmit", "blink"} |-> d[t]] /\ d["transmit"] \in A /\ d["blink"] \in B
                   => d \in [transmit : A, blink : B]
  OBVIOUS

(* The initial state has the types. *)
LEMMA TypeInit == Init => TypeOK /\ TextInv
<1> SUFFICES ASSUME Init PROVE TypeOK /\ TextInv
  OBVIOUS
<1>1. delay \in [transmit : 0 .. TransmitDelay, blink : 0 .. 1]
  BY DelayAssumption DEF Init
<1>2. {GIE, started, led} \subseteq BOOLEAN
  BY DEF Init
<1>3. TextInv
  BY EmptySeq DEF Init, TextInv
<1>4. QED
  BY <1>1, <1>2, <1>3 DEF Init, TypeOK

(* The hardware, the tick and the lower tasks keep the types. *)
LEMMA TypeOthers ==
  ASSUME TypeOK, TextInv,
         \/ CharacterSent
         \/ \E b \in RxBytes : CharacterComes(b)
         \/ USCI_A0_ISR \/ Tick
         \/ task_blink_led \/ vApplicationIdleHook
  PROVE  TypeOK' /\ TextInv'
<1> USE Texts DEF cpu, rx, writer, far
<1>1. CASE CharacterSent
  <2>1. txbuf \in Characters
    BY <1>1 DEF CharacterSent, TypeOK, Characters
  <2>2. Append(heard, txbuf) \in Seq(Characters)
    BY <2>1, AppendProperties DEF TextInv
  <2>3. TextInv'
    BY <1>1, <2>2, EmptySeq DEF CharacterSent, TextInv
  <2>4. QED
    BY <1>1, <2>3 DEF CharacterSent, TypeOK
<1>2. CASE \E b \in RxBytes : CharacterComes(b)
  BY <1>2 DEF CharacterComes, TypeOK, TextInv
<1>3. CASE USCI_A0_ISR
  BY <1>3 DEF USCI_A0_ISR, TypeOK, TextInv
<1>4. CASE Tick
  <2>1. delay' \in [transmit : 0 .. TransmitDelay, blink : 0 .. 1]
    <3>1. delay' = [t \in {"transmit", "blink"} |-> IF delay[t] > 0 THEN delay[t] - 1 ELSE 0]
      BY <1>4, Delays DEF Tick, TypeOK
    <3>2. delay["transmit"] \in 0 .. TransmitDelay /\ delay["blink"] \in 0 .. 1
      BY Delays DEF TypeOK
    <3>3. delay'["transmit"] \in 0 .. TransmitDelay /\ delay'["blink"] \in 0 .. 1
      BY <3>1, <3>2, DelayAssumption
    <3>4. QED
      BY <3>1, <3>3, Delays
  <2>2. QED
    BY <1>4, <2>1, ZenonT(30) DEF Tick, TypeOK, TextInv
<1>5. CASE task_blink_led
  <2>1. delay' \in [transmit : 0 .. TransmitDelay, blink : 0 .. 1]
    <3>1. delay' = [delay EXCEPT !["blink"] = 1]
      BY <1>5 DEF task_blink_led
    <3>2. delay \in [transmit : 0 .. TransmitDelay, blink : 0 .. 1]
      BY Zenon DEF TypeOK
    <3>3. 1 \in 0 .. 1
      OBVIOUS
    <3>4. QED
      BY <3>1, <3>2, <3>3, Delays, Zenon
  <2>2. led' \in BOOLEAN
    BY <1>5 DEF task_blink_led
  <2>3. QED
    BY <1>5, <2>1, <2>2, ZenonT(30) DEF task_blink_led, TypeOK, TextInv
<1>6. CASE vApplicationIdleHook
  BY <1>6, ZenonT(30) DEF vApplicationIdleHook, TypeOK, TextInv
<1>7. QED
  BY <1>1, <1>2, <1>3, <1>4, <1>5, <1>6

(* uart_write_string keeps the types. *)
LEMMA TypeWriting ==
  ASSUME TypeOK, TextInv, Put \/ CheckReadByte \/ ClearReadByte
  PROVE  TypeOK' /\ TextInv'
<1> USE DEF cpu, rx, far
<1>1. text # <<>> => Head(text) \in Characters /\ Tail(text) \in Seq(Characters)
  BY HeadTailProperties DEF TextInv
<1>2. CASE Put
  BY <1>1, <1>2 DEF Put, TypeOK, TextInv, Characters
<1>3. CASE CheckReadByte
  BY <1>1, <1>3 DEF CheckReadByte, NextCharacter, TypeOK, TextInv
<1>4. CASE ClearReadByte
  BY <1>1, <1>4 DEF ClearReadByte, NextCharacter, TypeOK, TextInv
<1>5. QED
  BY <1>2, <1>3, <1>4

(* So do main and the signal task. *)
LEMMA TypePrograms ==
  ASSUME TypeOK, TextInv,
         \/ hardware_config \/ test_aclk \/ uart_open \/ CreateTasks \/ vTaskStartScheduler
         \/ EnterCritical \/ ExitCritical \/ WriteT2 \/ DelayTransmit
  PROVE  TypeOK' /\ TextInv'
<1> USE Texts DEF cpu, rx, writer, far
<1>1. CASE hardware_config \/ test_aclk \/ uart_open \/ vTaskStartScheduler
  BY <1>1 DEF hardware_config, PinsHigh, test_aclk, uart_open, vTaskStartScheduler, TypeOK, TextInv
<1>2. CASE CreateTasks
  BY <1>2 DEF CreateTasks, StartWriting, TypeOK, TextInv, Lines
<1>3. CASE EnterCritical \/ ExitCritical \/ WriteT2
  BY <1>3 DEF EnterCritical, ExitCritical, WriteT2, StartWriting, TypeOK, TextInv, Lines
<1>4. CASE DelayTransmit
  <2>1. delay' \in [transmit : 0 .. TransmitDelay, blink : 0 .. 1]
    <3>1. delay' = [delay EXCEPT !["transmit"] = TransmitDelay]
      BY <1>4 DEF DelayTransmit
    <3>2. delay \in [transmit : 0 .. TransmitDelay, blink : 0 .. 1]
      BY Zenon DEF TypeOK
    <3>3. TransmitDelay \in 0 .. TransmitDelay
      BY DelayAssumption
    <3>4. QED
      BY <3>1, <3>2, <3>3, Delays, Zenon
  <2>2. QED
    BY <1>4, <2>1 DEF DelayTransmit, TypeOK, TextInv
<1>5. QED
  BY <1>1, <1>2, <1>3, <1>4

(* Every step keeps the types. *)
LEMMA TypeStep == TypeOK /\ TextInv /\ [Next]_vars => TypeOK' /\ TextInv'
<1>1. ASSUME TypeOK, TextInv, UNCHANGED vars
      PROVE  TypeOK' /\ TextInv'
  BY <1>1, ZenonT(30) DEF vars, TypeOK, TextInv
<1>2. QED
  BY <1>1, TypeOthers, TypeWriting, TypePrograms DEF Next, WriterStep

(***************************************************************************)
(* The program keeps its types, and uart_write_byte is inside a string     *)
(* whenever it is behind a character, whatever bytes come in.              *)
(***************************************************************************)
THEOREM DevTypeCorrect == Spec => []TypeOK
<1>1. Spec => [](TypeOK /\ TextInv)
  BY TypeInit, TypeStep, PTL DEF Spec
<1>2. QED
  BY <1>1, PTL

-----------------------------------------------------------------------------
(* What is on its way.                                                     *)

Rest == IF step = "put" THEN text ELSE Tail(text)

(* What has not been heard are characters, and begins with the one in the  *)
(* transmitter.                                                            *)
LEMMA UnheardShape ==
  ASSUME TypeOK, TextInv
  PROVE  /\ Rest \in Seq(Characters)
         /\ txbuf # None => txbuf \in Characters /\ Unheard = <<txbuf>> \o Rest /\ Unheard # <<>>
         /\ txbuf = None => Unheard = Rest
<1>1. Rest \in Seq(Characters)
  BY HeadTailProperties DEF Rest, TextInv, TypeOK
<1>2. Unheard = (IF txbuf = None THEN <<>> ELSE <<txbuf>>) \o Rest
  BY DEF Unheard, Rest
<1>3. CASE txbuf # None
  <2>1. txbuf \in Characters
    BY <1>3 DEF TypeOK, Characters
  <2>2. <<txbuf>> \in Seq(Characters) /\ <<txbuf>> # <<>>
    BY <2>1
  <2>3. <<txbuf>> \o Rest # <<>>
    BY <1>1, <2>2, ConcatEqualIffEmpty
  <2>4. QED
    BY <1>1, <1>2, <1>3, <2>1, <2>3
<1>4. CASE txbuf = None
  BY <1>1, <1>2, <1>4, ConcatEmptySeq
<1>5. QED
  BY <1>1, <1>3, <1>4

(* A step that touches neither the line nor the writer.                    *)
LEMMA WritesStays ==
  ASSUME NEW l, UNCHANGED <<txbuf, line, heard, text, step>>
  PROVE  Writes(l)' <=> Writes(l)
  BY DEF Writes, Unheard

(***************************************************************************)
(* The writer does not change what is on its way: a character leaves the   *)
(* string for the transmitter, and is dropped from the string later, once, *)
(* with or without the blinking between.                                   *)
(***************************************************************************)
LEMMA WritingWrites ==
  ASSUME TypeOK, TextInv, NEW l \in Lines, Writes(l), Put \/ CheckReadByte \/ ClearReadByte
  PROVE  Writes(l)'
<1>1. UNCHANGED <<line, heard>>
  BY DEF Put, CheckReadByte, ClearReadByte, far
<1>2. Unheard' = Unheard /\ (txbuf = None \/ step # "put")
  <2>1. CASE Put
    <3>1. txbuf = None /\ step = "put" /\ text # <<>> /\ text \in Seq(Characters)
      BY <2>1 DEF Put, TextInv
    <3>2. Head(text) \in Characters /\ Head(text) # None
      BY <3>1, HeadTailProperties, Texts
    <3>3. Unheard' = <<Head(text)>> \o Tail(text)
      BY <2>1, <3>2 DEF Put, Unheard
    <3>4. <<Head(text)>> \o Tail(text) = text
      BY <3>1
    <3>5. QED
      BY <3>1, <3>3, <3>4, UnheardShape DEF Rest
  <2>2. CASE CheckReadByte
    BY <2>2 DEF CheckReadByte, NextCharacter, Unheard
  <2>3. CASE ClearReadByte
    BY <2>3 DEF ClearReadByte, NextCharacter, Unheard
  <2>4. QED
    BY <2>1, <2>2, <2>3
<1>3. QED
  BY <1>1, <1>2 DEF Writes

(***************************************************************************)
(* The far side hears the text before this one to its end, then this one.  *)
(***************************************************************************)
LEMMA SentWrites ==
  ASSUME TypeOK, TextInv, NEW l \in Lines, Writes(l), CharacterSent
  PROVE  Writes(l)'
<1> DEFINE now == Append(heard, txbuf)
<1>1. /\ txbuf # None /\ txbuf' = None /\ UNCHANGED <<text, step>>
      /\ now = Text(LineAfter(line)) => line' = LineAfter(line) /\ heard' = <<>>
      /\ now # Text(LineAfter(line)) => line' = line /\ heard' = now
  BY DEF CharacterSent, writer
<1>2. /\ Rest \in Seq(Characters) /\ heard \in Seq(Characters) /\ txbuf \in Characters
      /\ Unheard = <<txbuf>> \o Rest /\ Unheard # <<>>
  BY <1>1, UnheardShape DEF TextInv
<1>3. Unheard' = Rest
  <2>1. Unheard' = <<>> \o Rest
    BY <1>1 DEF Unheard, Rest
  <2>2. QED
    BY <1>2, <2>1, ConcatEmptySeq
<1>4. heard \o Unheard = now \o Rest /\ now \in Seq(Characters)
  <2>1. <<txbuf>> \in Seq(Characters) /\ now = heard \o <<txbuf>>
    BY <1>2, AppendIsConcat
  <2>2. QED
    BY <1>2, <2>1, ConcatAssociative, AppendProperties
<1> HIDE DEF now
<1>5. CASE LineAfter(line) = l /\ heard \o Unheard = Text(l)
  <2>1. now = Text(l) <=> Rest = <<>>
    <3>1. now \o Rest = Text(l)
      BY <1>4, <1>5
    <3>2. now \o Rest = now <=> Rest = <<>>
      <4>1. now \in Seq(Characters) /\ Rest \in Seq(Characters)
        BY <1>2, <1>4
      <4>2. QED
        BY <4>1, ConcatEqualIffEmpty
    <3>3. QED
      BY <3>1, <3>2
  <2>2. CASE Rest = <<>>
    BY <1>1, <1>3, <1>5, <2>1, <2>2 DEF Writes, now
  <2>3. CASE Rest # <<>>
    BY <1>1, <1>3, <1>4, <1>5, <2>1, <2>3 DEF Writes, now
  <2>4. QED
    BY <2>2, <2>3
<1>6. CASE /\ LineAfter(LineAfter(line)) = l /\ text = Text(l) /\ step = "put"
           /\ now = Text(LineAfter(line))
  <2>1. line' = LineAfter(line) /\ heard' = <<>> /\ Unheard' = Text(l)
    BY <1>1, <1>3, <1>6 DEF Rest, now
  <2>2. Text(l) # <<>> /\ <<>> \o Text(l) = Text(l)
    BY Texts, ConcatEmptySeq
  <2>3. QED
    BY <1>6, <2>1, <2>2 DEF Writes
<1>7. QED
  BY <1>2, <1>5, <1>6 DEF Writes, now

(***************************************************************************)
(* A text that begins when the one before it has been put is behind it.    *)
(***************************************************************************)
LEMMA StartWrites ==
  ASSUME TypeOK, TextInv, NEW l \in Lines, Writes(l), text = <<>>,
         StartWriting(LineAfter(l)), UNCHANGED <<txbuf, line, heard>>
  PROVE  Writes(LineAfter(l))'
<1> DEFINE m == LineAfter(l)
<1>1. m \in Lines /\ Text(m) \in Seq(Characters) /\ Text(m) # <<>> /\ Text(l) # <<>>
  BY Texts
<1>2. step = "put" /\ Rest = <<>>
  BY DEF TypeOK, Rest
<1>3. text' = Text(m) /\ step' = "put"
  BY DEF StartWriting
<1>4. CASE line = l /\ heard = <<>> /\ Unheard = <<>>
  <2>1. txbuf = None
    BY <1>4, UnheardShape
  <2>2. Unheard' = Text(m) /\ heard' \o Unheard' = Text(m)
    BY <1>1, <1>3, <1>4, <2>1, ConcatEmptySeq DEF Unheard
  <2>3. QED
    BY <1>1, <1>4, <2>2 DEF Writes
<1>5. CASE LineAfter(line) = l /\ heard \o Unheard = Text(l) /\ Unheard # <<>>
  <2>1. txbuf # None /\ txbuf \in Characters /\ Unheard = <<txbuf>>
    BY <1>2, <1>5, UnheardShape, ConcatEmptySeq
  <2>2. Append(heard, txbuf) = Text(l)
    BY <1>5, <2>1, AppendIsConcat DEF TextInv
  <2>3. QED
    BY <1>3, <1>5, <2>1, <2>2 DEF Writes
<1>6. QED
  BY <1>1, <1>4, <1>5 DEF Writes

-----------------------------------------------------------------------------
(* Who writes what.                                                        *)

Booting == {"config", "test", "open", "create"}

(* The writer's steps inside a string.                                     *)
LEMMA WriterInvWriting ==
  ASSUME TypeOK, TextInv, WriterInv, Put \/ CheckReadByte \/ ClearReadByte
  PROVE  WriterInv'
<1>1. UNCHANGED <<main, transmit, started>> /\ text # <<>>
  BY DEF Put, CheckReadByte, ClearReadByte, cpu, TypeOK
<1>2. \A l \in Lines : Writes(l) => Writes(l)'
  BY WritingWrites
<1>3. QED
  BY <1>1, <1>2 DEF WriterInv, Lines

(* The far side. *)
LEMMA WriterInvSent ==
  ASSUME TypeOK, TextInv, WriterInv, CharacterSent
  PROVE  WriterInv'
<1>1. UNCHANGED <<main, transmit, started, text>> /\ txbuf # None
  BY DEF CharacterSent, cpu, writer
<1>2. \A l \in Lines : Writes(l) => Writes(l)'
  BY SentWrites
<1>3. QED
  BY <1>1, <1>2 DEF WriterInv, Lines

(* Steps that do not touch the UART's transmitter: the interrupt, the      *)
(* tick, the lower tasks, main on its way, the end of a text.              *)
LEMMA WriterInvElsewhere ==
  ASSUME TypeOK, WriterInv, UNCHANGED <<txbuf, line, heard, text, step>>,
         \/ UNCHANGED <<main, transmit, started>>
         \/ hardware_config \/ test_aclk \/ vTaskStartScheduler
         \/ ExitCritical \/ DelayTransmit
  PROVE  WriterInv'
<1>1. \A l \in Lines : Writes(l)' <=> Writes(l)
  BY WritesStays
<1>2. CASE UNCHANGED <<main, transmit, started>>
  BY <1>1, <1>2 DEF WriterInv, Lines
<1>3. CASE hardware_config \/ test_aclk
  <2>1. main \in {"config", "test"} /\ main' \in {"test", "open"} /\ UNCHANGED <<started, transmit>>
    BY <1>3 DEF hardware_config, test_aclk, cpu
  <2>2. QED
    BY <2>1 DEF WriterInv
<1>4. CASE vTaskStartScheduler
  BY <1>1, <1>4 DEF vTaskStartScheduler, WriterInv, Lines
<1>5. CASE ExitCritical \/ DelayTransmit
  <2>1. main = "done"
    BY <1>5 DEF ExitCritical, DelayTransmit, TransmitRuns, WriterInv, TypeOK
  <2>2. QED
    BY <1>1, <1>5, <2>1 DEF ExitCritical, DelayTransmit, WriterInv, Lines
<1>6. QED
  BY <1>2, <1>3, <1>4, <1>5

(* The steps that begin a text. *)
LEMMA WriterInvStart ==
  ASSUME TypeOK, TextInv, WriterInv, CreateTasks \/ EnterCritical \/ WriteT2
  PROVE  WriterInv'
<1>1. UNCHANGED <<started, txbuf, line, heard>>
  BY DEF CreateTasks, EnterCritical, WriteT2, cpu, far
<1>2. CASE CreateTasks
  <2>1. line = "none" /\ heard = <<>> /\ txbuf = None /\ ~started /\ transmit = "enter"
    BY <1>2 DEF CreateTasks, WriterInv
  <2>2. Unheard' = Text("Tasks initialized")
    BY <1>1, <1>2, <2>1, Texts, ConcatEmptySeq DEF CreateTasks, StartWriting, Unheard, Lines
  <2>3. Writes("Tasks initialized")'
    BY <1>1, <2>1, <2>2, Texts, ConcatEmptySeq DEF Writes, LineAfter, Lines
  <2>4. QED
    <3>1. main' = "write" /\ transmit' = "enter" /\ started' = started
      BY <1>1, <1>2, <2>1 DEF CreateTasks
    <3>2. QED
      BY <2>1, <2>3, <3>1 DEF WriterInv
<1>3. CASE EnterCritical
  <2>1. main = "done" /\ started
    BY <1>3 DEF EnterCritical, TransmitRuns, WriterInv, TypeOK
  <2>2. text = <<>> /\ Writes("Tasks initialized")
    BY <1>3, <2>1 DEF EnterCritical, WriterInv
  <2>3. LineAfter("Tasks initialized") = "Starting signal task" /\ "Tasks initialized" \in Lines
    BY DEF LineAfter, Lines
  <2>4. StartWriting("Starting signal task")
    BY <1>3 DEF EnterCritical
  <2>5. Writes("Starting signal task")'
    BY <1>1, <2>2, <2>3, <2>4, StartWrites
  <2>6. QED
    BY <1>1, <1>3, <2>1, <2>5 DEF EnterCritical, WriterInv
<1>4. CASE WriteT2
  <2>1. main = "done" /\ started
    BY <1>4 DEF WriteT2, TransmitRuns, WriterInv, TypeOK
  <2>2. text = <<>> /\ (Writes("Starting signal task") \/ Writes("T2"))
    BY <1>4, <2>1 DEF WriteT2, WriterInv
  <2>3. /\ LineAfter("Starting signal task") = "T2" /\ LineAfter("T2") = "T2"
        /\ {"Starting signal task", "T2"} \subseteq Lines
    BY DEF LineAfter, Lines
  <2>4. StartWriting("T2")
    BY <1>4 DEF WriteT2
  <2>5. Writes("T2")'
    BY <1>1, <2>2, <2>3, <2>4, StartWrites
  <2>6. QED
    BY <1>1, <1>4, <2>1, <2>5 DEF WriteT2, cpu, WriterInv
<1>5. QED
  BY <1>2, <1>3, <1>4

(***************************************************************************)
(* WriterInv is inductive: main writes before the scheduler starts and the *)
(* signal task alone behind it, so a text begins when all of the one       *)
(* before it has been put.                                                 *)
(***************************************************************************)
LEMMA WriterStays ==
  ASSUME TypeOK, TextInv, WriterInv, [Next]_vars
  PROVE  WriterInv'
<1>1. CASE CharacterSent
  BY <1>1, WriterInvSent
<1>2. CASE Put \/ CheckReadByte \/ ClearReadByte
  BY <1>2, WriterInvWriting
<1>3. CASE CreateTasks \/ EnterCritical \/ WriteT2
  BY <1>3, WriterInvStart
<1>4. CASE uart_open
  <2>1. main = "open" /\ main' = "create" /\ txbuf' = None /\ UNCHANGED <<started, transmit, text, line, heard>>
    BY <1>4 DEF uart_open, cpu, writer, far
  <2>2. QED
    BY <2>1 DEF WriterInv
<1>5. CASE hardware_config \/ test_aclk \/ vTaskStartScheduler \/ ExitCritical \/ DelayTransmit
  <2>1. UNCHANGED <<txbuf, line, heard, text, step>>
    BY <1>5 DEF hardware_config, test_aclk, vTaskStartScheduler, ExitCritical, DelayTransmit, writer, far
  <2>2. QED
    BY <1>5, <2>1, WriterInvElsewhere
<1>6. CASE \/ \E b \in RxBytes : CharacterComes(b)
           \/ USCI_A0_ISR \/ Tick \/ task_blink_led \/ vApplicationIdleHook
           \/ UNCHANGED vars
  <2>1. UNCHANGED <<main, transmit, started, txbuf, line, heard, text, step>>
    BY <1>6 DEF CharacterComes, USCI_A0_ISR, Tick, task_blink_led, vApplicationIdleHook, vars, cpu, writer, far
  <2>2. QED
    BY <2>1, WriterInvElsewhere
<1>7. QED
  BY <1>1, <1>2, <1>3, <1>4, <1>5, <1>6 DEF Next, WriterStep

(* What is heard is the beginning of a text. *)
LEMMA WritesIntact ==
  ASSUME TextInv, TypeOK, NEW l \in Lines, Writes(l)
  PROVE  TextsIntact
<1>1. Unheard \in Seq(Characters) /\ heard \in Seq(Characters)
  <2>1. Rest \in Seq(Characters) /\ (txbuf # None => <<txbuf>> \in Seq(Characters))
    BY UnheardShape
  <2>2. QED
    BY <2>1, UnheardShape, ConcatProperties DEF TextInv
<1>2. /\ Text(LineAfter(line)) \in Seq(Characters)
      /\ Len(Text(LineAfter(line))) \in Nat
  BY Texts DEF TextInv
<1>3. ASSUME NEW t \in Seq(Characters), NEW u \in Seq(Characters), heard \o u = t
      PROVE  IsPrefix(heard, t)
  <2>1. Len(t) = Len(heard) + Len(u) /\ \A i \in 1 .. Len(heard) : t[i] = heard[i]
    BY <1>1, <1>3, ConcatProperties
  <2>2. Len(heard) \in Nat /\ Len(u) \in Nat
    BY <1>1
  <2>3. heard = SubSeq(t, 1, Len(heard))
    BY <1>1, <2>1, <2>2
  <2>4. QED
    BY <2>1, <2>2, <2>3 DEF IsPrefix
<1>4. CASE line = l /\ heard = <<>>
  BY <1>1, <1>2, <1>3, <1>4, ConcatEmptySeq DEF TextsIntact
<1>5. CASE LineAfter(line) = l /\ heard \o Unheard = Text(l)
  BY <1>1, <1>2, <1>3, <1>5 DEF TextsIntact
<1>6. CASE txbuf # None /\ Append(heard, txbuf) = Text(LineAfter(line))
  <2>1. txbuf \in Characters /\ <<txbuf>> \in Seq(Characters)
    BY <1>6, UnheardShape
  <2>2. heard \o <<txbuf>> = Text(LineAfter(line))
    BY <1>1, <1>6, <2>1, AppendIsConcat
  <2>3. QED
    BY <1>2, <1>3, <2>1, <2>2 DEF TextsIntact
<1>7. QED
  BY <1>4, <1>5, <1>6 DEF Writes

(***************************************************************************)
(* The texts of main and of the signal task reach the far side whole and   *)
(* in order, whatever bytes come in, however often uart_write_byte stops   *)
(* to blink, and whatever the delay of the signal task.                    *)
(***************************************************************************)
THEOREM TextsStayIntact == Spec => []TextsIntact
<1>1. Init => IInv
  <2>1. Init => WriterInv
    BY DEF Init, WriterInv
  <2>2. QED
    BY <2>1, TypeInit DEF IInv
<1>2. IInv /\ [Next]_vars => IInv'
  BY TypeStep, WriterStays DEF IInv
<1>3. IInv => TextsIntact
  <2> SUFFICES ASSUME IInv PROVE TextsIntact
    OBVIOUS
  <2>1. CASE \E l \in Lines : Writes(l)
    BY <2>1, WritesIntact DEF IInv
  <2>2. CASE main \in Booting
    <3>1. heard = <<>> /\ line = "none"
      BY <2>2 DEF IInv, WriterInv, Booting
    <3>2. Text(LineAfter(line)) \in Seq(Characters)
      BY Texts DEF IInv, TextInv
    <3>3. SubSeq(Text(LineAfter(line)), 1, 0) = <<>> /\ Len(<<>>) = 0
      BY SubSeqEmpty, EmptySeq
    <3>4. QED
      BY <3>1, <3>2, <3>3 DEF TextsIntact, IsPrefix
  <2>3. QED
    BY <2>1, <2>2 DEF IInv, TypeOK, WriterInv, Lines, Booting
<1>4. QED
  BY <1>1, <1>2, <1>3, PTL DEF Spec
=============================================================================
