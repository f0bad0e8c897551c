------------------------------ MODULE ByteFifo ------------------------------
(***************************************************************************)
(* What a serial channel promises: while it is open the bytes put into it  *)
(* come out once each and in order, at most Capacity of them wait inside,  *)
(* and those that wait when it is closed, and no others, are lost.         *)
(***************************************************************************)
EXTENDS Naturals, Sequences

CONSTANTS
  Bytes,      \* what may be put in
  Capacity    \* how many of them may wait, a natural number

VARIABLES
  open,
  queue,      \* put in, not taken out
  taken       \* taken out since the channel was opened

fifoVars == <<open, queue, taken>>

FifoInit == open \in BOOLEAN /\ queue = <<>> /\ taken = <<>>

Open == open' = TRUE /\ queue' = <<>> /\ taken' = <<>>

Close == open' = FALSE /\ queue' = <<>> /\ UNCHANGED taken

Put(bytes) ==
  /\ open
  /\ queue' = queue \o bytes
  /\ UNCHANGED <<open, taken>>

Take(n) ==
  /\ open
  /\ taken' = taken \o SubSeq(queue, 1, n)
  /\ queue' = SubSeq(queue, n + 1, Len(queue))
  /\ UNCHANGED open

FifoNext ==
  \/ Open
  \/ Close
  \/ \E n \in 1 .. Capacity - Len(queue) : \E bytes \in [1 .. n -> Bytes] : Put(bytes)
  \/ \E n \in 1 .. Len(queue) : Take(n)

FifoSpec == FifoInit /\ [][FifoNext]_fifoVars
=============================================================================
