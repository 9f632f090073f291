----------------------------- MODULE MCScheduler -----------------------------
(* Instances of Scheduler for TLC; the configuration gives the threads. *)
EXTENDS Scheduler
==============================================================================
