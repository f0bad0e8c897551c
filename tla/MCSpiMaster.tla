----------------------------- MODULE MCSpiMaster -----------------------------
(* Instances of SpiMaster for TLC. *)
EXTENDS SpiMaster

CONSTANTS t1, t2

OneTask == {t1}
TwoTasks == {t1, t2}
=============================================================================
