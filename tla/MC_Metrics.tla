----------------------------- MODULE MC_Metrics -----------------------------
(***************************************************************************)
(* One thread records, resets and takes snapshots, another and the reports *)
(* of a thread that is started and stopped compete with it.  A call of     *)
(* each shape: one field, several fields, fields that are only replaced.   *)
(***************************************************************************)
EXTENDS MetricsReporter

MCCalls == {RecordCacheHit, RecordTransfer(2, 1), RecordSlotUsage(1, 2)}
=============================================================================
