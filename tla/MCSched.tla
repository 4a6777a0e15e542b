----------------------------- MODULE MCSched -----------------------------
(* Four descriptors, as PROC_MAX_PROC has it, and a queue of four cells. *)
EXTENDS Sched
=============================================================================
