----------------------------- MODULE RunLedger -----------------------------
(***************************************************************************)
(* What a run promises about its attempts, with nothing about workers,     *)
(* slots or retries: each attempt gets at most one result, that result is  *)
(* never revised, it is durable or known to have been refused by the sink  *)
(* from the moment it exists, and a run nobody abandoned does not close    *)
(* before every attempt has one.  Scheduler.tla implements it.             *)
(***************************************************************************)
CONSTANTS
    Jobs,       \* the attempts of the run
    Statuses,   \* the results an attempt can end with
    NoResult    \* the absence of a result

VARIABLES
    results,    \* results[j]: the result of attempt j, or NoResult
    stored,     \* attempts whose result reached durable storage
    refused,    \* attempts whose result the sink refused
    abandoned,  \* the run was cancelled from outside
    closed      \* the run has handed its results to its caller

vars == <<results, stored, refused, abandoned, closed>>

Recorded == {j \in Jobs : results[j] # NoResult}

Init ==
    /\ results = [j \in Jobs |-> NoResult]
    /\ stored = {}
    /\ refused = {}
    /\ abandoned = FALSE
    /\ closed = FALSE

\* An attempt ends: its result exists and is stored or refused in one step.
Record(j) ==
    /\ ~closed
    /\ results[j] = NoResult
    /\ \E s \in Statuses : results' = [results EXCEPT ![j] = s]
    /\ \/ stored' = stored \cup {j} /\ refused' = refused
       \/ refused' = refused \cup {j} /\ stored' = stored
    /\ UNCHANGED <<abandoned, closed>>

Abandon ==
    /\ ~closed
    /\ ~abandoned
    /\ abandoned' = TRUE
    /\ UNCHANGED <<results, stored, refused, closed>>

Close ==
    /\ ~closed
    /\ abandoned \/ Recorded = Jobs
    /\ closed' = TRUE
    /\ UNCHANGED <<results, stored, refused, abandoned>>

Next ==
    \/ \E j \in Jobs : Record(j)
    \/ Abandon
    \/ Close

Spec == Init /\ [][Next]_vars
=============================================================================
