---------------------------- MODULE MCBatchBuffer ---------------------------
(* Instances of BatchBuffer for TLC: table 1 stands for the six keyed tables,
   table 2 for temperature_metrics, which is last in FlushAll and has no key. *)
EXTENDS BatchBuffer

KeyedTables == {1}
=============================================================================
