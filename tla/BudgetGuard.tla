---------------------------- MODULE BudgetGuard ----------------------------
(***************************************************************************)
(* The budget shared by the concurrent attempts of a run                   *)
(* (model/budget.py): a call reserves its worst case before it is made,    *)
(* and the reservation is replaced by what the call consumed, or released  *)
(* when the call fails.                                                    *)
(*                                                                         *)
(* Granularity.  reserve, settle and abandon do not await, so each is one  *)
(* action; between a reserve and its settle or abandon any other caller    *)
(* may run.                                                                *)
(*                                                                         *)
(* Simplifications.  Tokens and dollars are two axes that the code treats  *)
(* alike; dollars are counted in whole units, so the rounding of floats is *)
(* left out.  A caller is one attempt: it makes its calls one by one and   *)
(* makes no other after a refusal (ModelAgent returns on BudgetExceeded).  *)
(***************************************************************************)
EXTENDS Integers, FiniteSets

CONSTANTS
    NumCallers,     \* attempts that share the guard
    MaxCalls,       \* BudgetLimits.max_calls, or Unlimited
    Limit,          \* Limit[a]: the ceiling of axis a, or Unlimited
    Unlimited,      \* None in BudgetLimits
    Estimates,      \* worst cases that the requests are estimated at
    Usages,         \* what calls consume
    Slack,          \* Slack[a]: by how much a call may exceed its estimate
    MaxAdmissions   \* bound of the model on the calls admitted in all

Axes == {"tokens", "usd"}
Callers == 1 .. NumCallers
Amounts == [Axes -> Nat]

\* BudgetLimits.__post_init__; ModelAgentConfig makes max_tokens at least 1.
ASSUME BudgetAssumption ==
    /\ NumCallers \in Nat \ {0}
    /\ Unlimited \notin Nat
    /\ MaxCalls \in Nat \cup {Unlimited}
    /\ Limit \in [Axes -> Nat \cup {Unlimited}]
    /\ Estimates \subseteq {e \in Amounts : e["tokens"] > 0}
    /\ Usages \subseteq Amounts
    /\ Slack \in Amounts
    /\ MaxAdmissions \in Nat

VARIABLES
    state,      \* state[c]: what caller c does
    held,       \* held[c]: the Reservation in the hands of caller c
    calls,      \* BudgetGuard.calls: settled calls
    spent,      \* BudgetGuard.tokens and spent_usd
    reserved,   \* BudgetGuard._reserved_tokens and _reserved_usd
    inFlight,   \* BudgetGuard.in_flight
    sent        \* history: calls handed to the provider

vars == <<state, held, calls, spent, reserved, inFlight, sent>>

Nothing == [a \in Axes |-> 0]
Calling == {c \in Callers : state[c] = "calling"}

Init ==
    /\ state = [c \in Callers |-> "idle"]
    /\ held = [c \in Callers |-> Nothing]
    /\ calls = 0
    /\ spent = Nothing
    /\ reserved = Nothing
    /\ inFlight = 0
    /\ sent = 0

\* Held(a)[n]: what the first n callers hold of axis a, added up.
Held(a) ==
    LET total[n \in 0 .. NumCallers] == IF n = 0 THEN 0 ELSE total[n - 1] + held[n][a]
    IN  total

\* committed_tokens and committed_usd.
Committed(a) == spent[a] + reserved[a]

-----------------------------------------------------------------------------
\* Mutant: the ceiling on calls looks at settled calls only.
BreachSettledOnly(e) ==
    \/ MaxCalls # Unlimited /\ calls + 1 > MaxCalls
    \/ \E a \in Axes : Limit[a] # Unlimited /\ Committed(a) + e[a] > Limit[a]

\* Mutant: what is in flight is not counted against the axes.
BreachSpentOnly(e) ==
    \/ MaxCalls # Unlimited /\ calls + inFlight + 1 > MaxCalls
    \/ \E a \in Axes : Limit[a] # Unlimited /\ spent[a] + e[a] > Limit[a]

\* Mutant: the estimate of the output is left out of the check.
BreachIgnoresEstimate(e) ==
    \/ MaxCalls # Unlimited /\ calls + inFlight + 1 > MaxCalls
    \/ \E a \in Axes : Limit[a] # Unlimited /\ Committed(a) > Limit[a]

\* _breach(estimate)
Breach(e) ==
    \/ MaxCalls # Unlimited /\ calls + inFlight + 1 > MaxCalls
    \/ \E a \in Axes : Limit[a] # Unlimited /\ Committed(a) + e[a] > Limit[a]

\* reserve admits the call and complete hands it to the inner client.
Reserve(c, e) ==
    /\ state[c] = "idle"
    /\ sent < MaxAdmissions
    /\ ~Breach(e)
    /\ state' = [state EXCEPT ![c] = "calling"]
    /\ held' = [held EXCEPT ![c] = e]
    /\ reserved' = [a \in Axes |-> reserved[a] + e[a]]
    /\ inFlight' = inFlight + 1
    /\ sent' = sent + 1
    /\ UNCHANGED <<calls, spent>>

\* reserve raises BudgetExceeded; refusals is the number of refused callers.
Refuse(c, e) ==
    /\ state[c] = "idle"
    /\ Breach(e)
    /\ state' = [state EXCEPT ![c] = "refused"]
    /\ UNCHANGED <<held, calls, spent, reserved, inFlight, sent>>

\* max(0, n - m)
Monus(n, m) == IF n >= m THEN n - m ELSE 0

\* Mutant: released by a handler and again by a finally, without the clamp.
ReleaseTwice(c) ==
    /\ reserved' = [a \in Axes |-> reserved[a] - 2 * held[c][a]]
    /\ inFlight' = inFlight - 2
    /\ held' = [held EXCEPT ![c] = Nothing]

\* _release(reservation)
Release(c) ==
    /\ reserved' = [a \in Axes |-> Monus(reserved[a], held[c][a])]
    /\ inFlight' = Monus(inFlight, 1)
    /\ held' = [held EXCEPT ![c] = Nothing]

\* The inner client answered: settle(reservation, usage, cost).
Settle(c, u) ==
    /\ state[c] = "calling"
    /\ \A a \in Axes : u[a] <= held[c][a] + Slack[a]
    /\ state' = [state EXCEPT ![c] = "idle"]
    /\ Release(c)
    /\ calls' = calls + 1
    /\ spent' = [a \in Axes |-> spent[a] + u[a]]
    /\ UNCHANGED sent

\* Mutant: a failed call keeps its reservation.
AbandonKeeps(c) ==
    /\ state[c] = "calling"
    /\ state' = [state EXCEPT ![c] = "idle"]
    /\ held' = [held EXCEPT ![c] = Nothing]
    /\ UNCHANGED <<calls, spent, sent, reserved, inFlight>>

\* The inner client raised, or the attempt was cancelled: abandon(reservation).
Abandon(c) ==
    /\ state[c] = "calling"
    /\ state' = [state EXCEPT ![c] = "idle"]
    /\ Release(c)
    /\ UNCHANGED <<calls, spent, sent>>

Next ==
    \E c \in Callers :
        \/ \E e \in Estimates : Reserve(c, e) \/ Refuse(c, e)
        \/ \E u \in Usages : Settle(c, u)
        \/ Abandon(c)

Spec == Init /\ [][Next]_vars

-----------------------------------------------------------------------------
\* The shape of the state.
TypeOK ==
    /\ state \in [Callers -> {"idle", "calling", "refused"}]
    /\ held \in [Callers -> Amounts]
    /\ calls \in Nat
    /\ spent \in Amounts
    /\ reserved \in Amounts
    /\ inFlight \in Nat
    /\ sent \in Nat

\* The ceiling on calls holds whatever is in flight: settled calls and calls
\* under way together never exceed it (reserve has no await).
CallCeiling == MaxCalls # Unlimited => calls + inFlight <= MaxCalls

\* No reservation leaks or is released twice: what the guard holds is what the
\* calls in flight hold, so the clamps of _release never bite.
InFlightExact == inFlight = Cardinality(Calling)

ReservationsExact ==
    /\ InFlightExact
    /\ \A a \in Axes : reserved[a] = Held(a)[NumCallers]

\* "Overshoot is bounded": however the estimates err and the callers
\* interleave, consumption never passes the ceiling by more than the error of
\* one call per caller, and each call in flight still owes its share of that
\* margin.
OvershootBounded ==
    \A a \in Axes :
        Limit[a] # Unlimited =>
            Committed(a) <= Limit[a] + Slack[a] * (NumCallers - inFlight)

\* A caller that is not calling holds nothing.
IdleHoldNothing ==
    \A c \in Callers : state[c] # "calling" => held[c] = Nothing

\* A ceiling is reached in settled consumption.
Reached ==
    \/ MaxCalls # Unlimited /\ calls >= MaxCalls
    \/ Limit["tokens"] # Unlimited /\ spent["tokens"] >= Limit["tokens"]

\* "Self-correcting": once settled calls or settled tokens have reached their
\* ceiling no call is made any more, for good, whatever is released later.
NothingAfterCeiling == [][Reached => sent' = sent /\ Reached']_vars

\* The docstring of estimated_input_tokens: the ceilings hold exactly.  They do
\* when estimates are upper bounds (Slack is zero everywhere), not otherwise.
NoOverspend ==
    \A a \in Axes : Limit[a] # Unlimited => spent[a] <= Limit[a]
=============================================================================
