----------------------------- MODULE MCAttempt -----------------------------
(***************************************************************************)
(* Instance of the attempt for TLC: two tries, two evaluators, an agent of *)
(* at most two events.                                                     *)
(***************************************************************************)
EXTENDS Attempt
=============================================================================
