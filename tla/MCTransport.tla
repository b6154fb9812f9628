---------------------------- MODULE MCTransport ----------------------------
(***************************************************************************)
(* Instance of the transport for TLC: two callers of up to three tries, a  *)
(* window of two ticks, two requests and four tokens per window, or no     *)
(* limit until a response reports one of three; requests of two and of     *)
(* five tokens, the second larger than any allowance.                      *)
(***************************************************************************)
EXTENDS Transport

MCAllowances == {[requests |-> 2, tokens |-> 4], [requests |-> None, tokens |-> None]}
MCRetryAfters == {None, 2, 3}
MCReported == {None, 3}
=============================================================================
