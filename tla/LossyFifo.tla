------------------------------ MODULE LossyFifo ------------------------------
(***************************************************************************)
(* What the Lithium receive path promises on any line: the packets handed  *)
(* to the caller are packets the radio sent, in the order it sent them,    *)
(* each at most once.  Some may be missing.                                *)
(***************************************************************************)
EXTENDS Naturals, Sequences

CONSTANT Packets   \* what the radio may send

VARIABLES
  queue,       \* sent, neither delivered nor lost
  delivered    \* handed to the caller, oldest first

fifoVars == <<queue, delivered>>

FifoInit == queue = <<>> /\ delivered = <<>>

Put(p) ==
  /\ queue' = Append(queue, p)
  /\ UNCHANGED delivered

\* The n oldest packets are lost.
Lose(n) ==
  /\ queue' = SubSeq(queue, n + 1, Len(queue))
  /\ UNCHANGED delivered

\* The n-th oldest packet is delivered and those before it are lost.
Deliver(n) ==
  /\ delivered' = Append(delivered, queue[n])
  /\ queue' = SubSeq(queue, n + 1, Len(queue))

FifoNext ==
  \/ \E p \in Packets : Put(p)
  \/ \E n \in 1 .. Len(queue) : Lose(n) \/ Deliver(n)

FifoSpec == FifoInit /\ [][FifoNext]_fifoVars
=============================================================================
