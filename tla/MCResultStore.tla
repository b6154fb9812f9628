--------------------------- MODULE MCResultStore ---------------------------
(***************************************************************************)
(* Instance of the result store for TLC.                                   *)
(***************************************************************************)
EXTENDS ResultStore

CONSTANTS a1, a2
=============================================================================
