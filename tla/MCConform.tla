----------------------------- MODULE MCConform -----------------------------
(* Both executives over the tables of MCExecutive.                         *)
EXTENDS SchedSkip, MCExecutive
=============================================================================
