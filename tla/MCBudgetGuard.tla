--------------------------- MODULE MCBudgetGuard ---------------------------
(***************************************************************************)
(* Instance of the budget for TLC: three attempts, a ceiling of four units *)
(* of tokens and three of dollars, estimates that may be one unit short.   *)
(***************************************************************************)
EXTENDS BudgetGuard

Amount(t, d) == [a \in Axes |-> IF a = "tokens" THEN t ELSE d]

MCLimit == Amount(4, 3)
MCEstimates == {Amount(1, 0), Amount(2, 1)}
MCUsages == {Amount(0, 0), Amount(1, 0), Amount(2, 1), Amount(3, 2)}
MCSlack == Amount(1, 1)
=============================================================================
