----------------------------- MODULE MCSpiBlocks -----------------------------
(***************************************************************************)
(* Instances of SpiBlocks for TLC: devices of up to three blocks, and one  *)
(* with two of each kind.  The base addresses are such that neither their  *)
(* order nor that of the kinds is the enumeration's.                       *)
(***************************************************************************)
EXTENDS SpiBlocks, FiniteSets, TLC

CONSTANTS h1, h2

MCDevices == {d \in SUBSET Blocks : d # {} /\ Cardinality(d) <= 3} \cup {{"A0", "A1", "B0", "B1"}}
MCBase == [b \in Blocks |->
  CASE b = "A0" -> 1472 [] b = "B0" -> 1504 [] b = "A1" -> 1536 [] b = "B1" -> 1568
    [] b = "A2" -> 1600 [] b = "B2" -> 1632 [] b = "A3" -> 1664 [] b = "B3" -> 1696]
MCHandles == {h1, h2}
Symmetry == Permutations(MCHandles)
=============================================================================
