-------------------------- MODULE MCResponseCache --------------------------
(***************************************************************************)
(* Instance of the cache for TLC: two attempts of one process, one of      *)
(* another with the same model, one with another model, and one without a  *)
(* cache; a short and a long answer.                                       *)
(***************************************************************************)
EXTENDS ResponseCache

CONSTANTS a1, a2, b, c, d

MCCallers == {a1, a2, b, c, d}
MCProcOf == (a1 :> "A") @@ (a2 :> "A") @@ (b :> "B") @@ (c :> "C") @@ (d :> "D")
MCModelOf == [A |-> "m", B |-> "m", C |-> "n", D |-> "m"]
MCPrice == [m |-> 1, n |-> 3]
=============================================================================
