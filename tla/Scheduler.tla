----------------------------- MODULE Scheduler -----------------------------
(***************************************************************************)
(* The scheduler of one run (orchestrator/scheduler.py): one asyncio task  *)
(* per attempt, a FIFO semaphore of Concurrency slots, a bounded number of *)
(* tries per attempt, a sink called once per result, and cancellation that *)
(* keeps what has finished.                                                *)
(*                                                                         *)
(* Granularity.  asyncio switches tasks only at an await.  From the moment *)
(* execute() returns or raises to the moment the worker task ends there is *)
(* no await except the backoff sleep, so the release of the slot, the      *)
(* store into results and the call of the sink are one action.             *)
(*                                                                         *)
(* Simplifications.  What an attempt did is reduced to how execute()       *)
(* ended.  Clocks are left out: a timeout may strike whenever an attempt   *)
(* is executing, a backoff may end at any time.                            *)
(***************************************************************************)
EXTENDS Integers, Sequences, FiniteSets

CONSTANTS
    NumCases,     \* cases of the dataset
    Samples,      \* attempts at each case (samples_per_case)
    Concurrency,  \* slots of the semaphore
    MaxAttempts,  \* tries of one attempt (RetryPolicy.max_attempts)
    NoResult      \* None in the results list

\* The ValueErrors of build_jobs, Scheduler.__init__ and RetryPolicy.
ASSUME SchedulerAssumption ==
    /\ NumCases \in Nat \ {0}
    /\ Samples \in Nat \ {0}
    /\ Concurrency \in Nat \ {0}
    /\ MaxAttempts \in Nat \ {0}
    /\ NoResult \notin {"completed", "timed_out", "infra_error"}

\* Mutant: the samples of a case run back to back.
CaseOfBackToBack(j) == ((j - 1) \div Samples) + 1

\* build_jobs: round after round, every case once in each round.
NumJobs == NumCases * Samples
Jobs == 1 .. NumJobs
CaseOf(j) == ((j - 1) % NumCases) + 1

\* How one call of backend.execute may end.
Outcomes == {"completed", "timeout", "fatal", "infra", "crash"}
Statuses == {"completed", "timed_out", "infra_error"}

\* The status recorded for an attempt whose last execution ended with o.
StatusOf(o) ==
    CASE o = "completed" -> "completed"
      [] o = "timeout"   -> "timed_out"
      [] OTHER           -> "infra_error"

VARIABLES
    pc,           \* pc[j]: where the worker of attempt j stands
    permits,      \* the value of the semaphore
    tries,        \* tries[j]: attempt_index + 1 while attempt j has a slot
    outcomes,     \* history: how each execution of attempt j ended
    results,      \* the results list
    stored,       \* attempts the sink accepted
    unpersisted,  \* attempts the sink refused
    cancelled,    \* the task that awaits run() was cancelled
    returned      \* <<>> until run() returns, then <<the returned attempts>>

vars == <<pc, permits, tries, outcomes, results, stored, unpersisted,
          cancelled, returned>>

Holders == {j \in Jobs : pc[j] \in {"executing", "backoff"}}
Finished == {j \in Jobs : results[j] # NoResult}
Started == {j \in Jobs : tries[j] > 0}
Running == returned = <<>>

Init ==
    /\ pc = [j \in Jobs |-> "waiting"]
    /\ permits = Concurrency
    /\ tries = [j \in Jobs |-> 0]
    /\ outcomes = [j \in Jobs |-> <<>>]
    /\ results = [j \in Jobs |-> NoResult]
    /\ stored = {}
    /\ unpersisted = {}
    /\ cancelled = FALSE
    /\ returned = <<>>

-----------------------------------------------------------------------------
\* async with semaphore: waiters are served in the order the tasks were made.
CanAcquire(j) ==
    /\ permits > 0
    /\ \A i \in 1 .. j - 1 : pc[i] # "waiting"

\* Mutant: a task that still waits is not cancelled.
AcquireAfterCancel(j) ==
    /\ pc[j] = "waiting"
    /\ CanAcquire(j)
    /\ permits' = permits - 1
    /\ pc' = [pc EXCEPT ![j] = "executing"]
    /\ tries' = [tries EXCEPT ![j] = 1]
    /\ UNCHANGED <<outcomes, results, stored, unpersisted, cancelled, returned>>

Acquire(j) ==
    /\ ~cancelled
    /\ pc[j] = "waiting"
    /\ CanAcquire(j)
    /\ permits' = permits - 1
    /\ pc' = [pc EXCEPT ![j] = "executing"]
    /\ tries' = [tries EXCEPT ![j] = 1]
    /\ UNCHANGED <<outcomes, results, stored, unpersisted, cancelled, returned>>

\* Mutant: the result of a refused write is forgotten.
EmitForgetful(j) ==
    \/ stored' = stored \cup {j} /\ UNCHANGED unpersisted
    \/ UNCHANGED <<stored, unpersisted>>

\* self._on_result(result): a sink that raises costs the attempt its
\* durability, never its result.
Emit(j) ==
    \/ stored' = stored \cup {j} /\ UNCHANGED unpersisted
    \/ unpersisted' = unpersisted \cup {j} /\ UNCHANGED stored

\* Mutant: the slot is not given back.
FinishKeepsSlot(j, status) ==
    /\ pc' = [pc EXCEPT ![j] = "done"]
    /\ permits' = permits
    /\ results' = [results EXCEPT ![j] = status]
    /\ Emit(j)

\* The end of worker(): leave the semaphore, keep the result, call the sink.
Finish(j, status) ==
    /\ pc' = [pc EXCEPT ![j] = "done"]
    /\ permits' = permits + 1
    /\ results' = [results EXCEPT ![j] = status]
    /\ Emit(j)

\* Mutant: a fatal error is retried like the others.
WillRetryFatal(j, o) == o \in {"infra", "fatal"} /\ tries[j] < MaxAttempts

\* Only an ordinary infrastructure error is worth another try.
WillRetry(j, o) == o = "infra" /\ tries[j] < MaxAttempts

\* execute() ended with o and _run_job makes a result of it.
Settle(j, o) ==
    /\ ~cancelled
    /\ pc[j] = "executing"
    /\ ~WillRetry(j, o)
    /\ outcomes' = [outcomes EXCEPT ![j] = Append(@, o)]
    /\ Finish(j, StatusOf(o))
    /\ UNCHANGED <<tries, cancelled, returned>>

\* execute() ended with o and _run_job sleeps before it tries again; the slot
\* stays taken.
BackOff(j, o) ==
    /\ ~cancelled
    /\ pc[j] = "executing"
    /\ WillRetry(j, o)
    /\ outcomes' = [outcomes EXCEPT ![j] = Append(@, o)]
    /\ pc' = [pc EXCEPT ![j] = "backoff"]
    /\ UNCHANGED <<permits, tries, results, stored, unpersisted, cancelled,
                   returned>>

\* The next turn of the loop over range(max_attempts).
Retry(j) ==
    /\ ~cancelled
    /\ pc[j] = "backoff"
    /\ pc' = [pc EXCEPT ![j] = "executing"]
    /\ tries' = [tries EXCEPT ![j] = @ + 1]
    /\ UNCHANGED <<permits, outcomes, results, stored, unpersisted, cancelled,
                   returned>>

-----------------------------------------------------------------------------
\* Mutant: a cancellation throws away what has finished.
CancelDiscards ==
    /\ Running
    /\ ~cancelled
    /\ cancelled' = TRUE
    /\ results' = [j \in Jobs |-> NoResult]
    /\ UNCHANGED <<pc, permits, tries, outcomes, stored, unpersisted, returned>>

\* gather() raises CancelledError: every task that is not done is cancelled.
Cancel ==
    /\ Running
    /\ ~cancelled
    /\ cancelled' = TRUE
    /\ UNCHANGED <<pc, permits, tries, outcomes, results, stored, unpersisted,
                   returned>>

\* Mutant: a task that never had a slot gives one back.
UnwindFreesTwice(j) ==
    /\ cancelled
    /\ pc[j] \in {"waiting", "executing", "backoff"}
    /\ pc' = [pc EXCEPT ![j] = "cancelled"]
    /\ permits' = permits + 1
    /\ UNCHANGED <<tries, outcomes, results, stored, unpersisted, cancelled,
                   returned>>

\* Mutant: the sleep between two tries swallows the cancellation.
UnwindNotSleeping(j) ==
    /\ cancelled
    /\ pc[j] \in {"waiting", "executing"}
    /\ pc' = [pc EXCEPT ![j] = "cancelled"]
    /\ permits' = IF pc[j] = "waiting" THEN permits ELSE permits + 1
    /\ UNCHANGED <<tries, outcomes, results, stored, unpersisted, cancelled,
                   returned>>

\* The CancelledError reaches a worker, which gives its slot back, if any.
Unwind(j) ==
    /\ cancelled
    /\ pc[j] \in {"waiting", "executing", "backoff"}
    /\ pc' = [pc EXCEPT ![j] = "cancelled"]
    /\ permits' = IF pc[j] = "waiting" THEN permits ELSE permits + 1
    /\ UNCHANGED <<tries, outcomes, results, stored, unpersisted, cancelled,
                   returned>>

\* While the cancelled attempt saves its trace the disk fails: that OSError
\* replaces the CancelledError and the worker records it like any other.
UnwindIntoCrash(j) ==
    /\ cancelled
    /\ pc[j] = "executing"
    /\ outcomes' = [outcomes EXCEPT ![j] = Append(@, "crash")]
    /\ Finish(j, StatusOf("crash"))
    /\ UNCHANGED <<tries, cancelled, returned>>

\* run() returns once every task has ended, with what finished, in job order.
Return ==
    /\ Running
    /\ \A j \in Jobs : pc[j] \in {"done", "cancelled"}
    /\ returned' = <<SelectSeq([j \in Jobs |-> j], LAMBDA j : j \in Finished)>>
    /\ UNCHANGED <<pc, permits, tries, outcomes, results, stored, unpersisted,
                   cancelled>>

\* The run has returned: nothing is left to do.
Terminated == ~Running /\ UNCHANGED vars

Worker(j) ==
    \/ Acquire(j)
    \/ \E o \in Outcomes : Settle(j, o) \/ BackOff(j, o)
    \/ Retry(j)
    \/ Unwind(j)
    \/ UnwindIntoCrash(j)

Next ==
    \/ \E j \in Jobs : Worker(j)
    \/ Cancel
    \/ Return
    \/ Terminated

Spec == Init /\ [][Next]_vars

\* Every execution ends (wait_for bounds it), every sleep ends, a free slot is
\* handed to its next waiter, and a task whose turn it is runs.
Fairness ==
    /\ \A j \in Jobs : WF_vars(Worker(j))
    /\ WF_vars(Return)

FairSpec == Spec /\ Fairness

-----------------------------------------------------------------------------
\* The shape of the state.
TypeOK ==
    /\ pc \in [Jobs -> {"waiting", "executing", "backoff", "done", "cancelled"}]
    /\ permits \in 0 .. Concurrency
    /\ tries \in [Jobs -> 0 .. MaxAttempts]
    /\ outcomes \in [Jobs -> Seq(Outcomes)]
    /\ results \in [Jobs -> Statuses \cup {NoResult}]
    /\ stored \in SUBSET Jobs
    /\ unpersisted \in SUBSET Jobs
    /\ cancelled \in BOOLEAN
    /\ Len(returned) \in 0 .. 1

\* What the position of a worker says about its attempt: the tries it has used,
\* how they ended, whether it has a result.  The inductive part of the proofs.
WaitingOK(j) ==
    tries[j] = 0 /\ outcomes[j] = <<>> /\ results[j] = NoResult

AllFaults(s) == \A i \in 1 .. Len(s) : s[i] = "infra"

ExecutingOK(j) ==
    /\ tries[j] > 0
    /\ Len(outcomes[j]) = tries[j] - 1
    /\ AllFaults(outcomes[j])
    /\ results[j] = NoResult

BackoffOK(j) ==
    /\ tries[j] \in 1 .. MaxAttempts - 1
    /\ Len(outcomes[j]) = tries[j]
    /\ AllFaults(outcomes[j])
    /\ results[j] = NoResult

DoneOK(j) ==
    LET n == Len(outcomes[j]) IN
    /\ tries[j] > 0
    /\ n = tries[j]
    /\ \A i \in 1 .. n - 1 : outcomes[j][i] = "infra"
    /\ results[j] = StatusOf(outcomes[j][n])
    /\ outcomes[j][n] = "infra" => n = MaxAttempts

CancelledOK(j) ==
    /\ cancelled
    /\ Len(outcomes[j]) <= tries[j]
    /\ AllFaults(outcomes[j])
    /\ results[j] = NoResult

WorkersConsistent ==
    \A j \in Jobs :
        /\ pc[j] = "waiting" => WaitingOK(j)
        /\ pc[j] = "executing" => ExecutingOK(j)
        /\ pc[j] = "backoff" => BackoffOK(j)
        /\ pc[j] = "done" => DoneOK(j)
        /\ pc[j] = "cancelled" => CancelledOK(j)
        /\ ~Running => pc[j] \in {"done", "cancelled"}

\* Whatever way an attempt ends - a result, a timeout, a fault, a cancellation
\* while it executes, sleeps or has not begun - its slot comes back exactly
\* once, so the run never executes more than Concurrency attempts and never
\* loses a slot (async with semaphore).
SlotsConserved == permits + Cardinality(Holders) = Concurrency

\* "An agent that cannot solve the task is never retried": an execution that
\* is followed by another ended in an ordinary infrastructure error, the
\* budget of tries is respected, and the recorded status is that of the last
\* execution, with an infrastructure error final only when no try is left
\* (_run_job).
OnlyFaultsRetried ==
    \A j \in Jobs :
        LET n == Len(outcomes[j]) IN
        /\ n <= MaxAttempts
        /\ \A i \in 1 .. n - 1 : outcomes[j][i] = "infra"
        /\ j \in Finished =>
              /\ n > 0
              /\ results[j] = StatusOf(outcomes[j][n])
              /\ outcomes[j][n] = "infra" => n = MaxAttempts

\* "The store contains exactly the attempts that finished": an attempt with a
\* result is stored or listed in unpersisted, never both and never neither,
\* and nothing else is (worker, the call of _on_result).
EveryResultAccounted ==
    /\ stored \cup unpersisted = Finished
    /\ stored \cap unpersisted = {}

StartedOf(c) == {j \in Started : CaseOf(j) = c}

\* Samples of a case are spread out: at any time, whatever finished and
\* whatever was cancelled, no case is more than one attempt ahead of another
\* (build_jobs with the FIFO semaphore).
RoundsBalanced ==
    \A c, d \in 1 .. NumCases :
        Cardinality(StartedOf(c)) <= Cardinality(StartedOf(d)) + 1

\* After a cancellation nothing is executed any more, and the only results
\* that still appear are infrastructure errors of attempts that were executing
\* (run, the except clause).
NoWorkAfterCancel ==
    [][cancelled =>
         \A j \in Jobs :
            /\ tries'[j] = tries[j]
            /\ results'[j] # results[j] =>
                  pc[j] = "executing" /\ results'[j] = "infra_error"]_vars

\* A run returns, cancelled or not: no slot and no worker is stuck.
RunReturns == <>(~Running)

\* The abstract promise, seen through the scheduler's state.
Ledger == INSTANCE RunLedger WITH
    results   <- results,
    stored    <- stored,
    refused   <- unpersisted,
    abandoned <- cancelled,
    closed    <- ~Running

ImplementsLedger == Ledger!Spec
=============================================================================
