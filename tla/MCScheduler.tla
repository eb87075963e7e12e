----------------------------- MODULE MCScheduler -----------------------------
(* Half hours, from any of a week on; hours and days at and over the edge. *)
EXTENDS Scheduler
=============================================================================
