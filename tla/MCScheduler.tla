---------------------------- MODULE MCScheduler ----------------------------
(***************************************************************************)
(* Instance of the scheduler for TLC, with the mutants of its properties.  *)
(***************************************************************************)
EXTENDS Scheduler
=============================================================================
