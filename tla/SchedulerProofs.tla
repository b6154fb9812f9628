-------------------------- MODULE SchedulerProofs --------------------------
(***************************************************************************)
(* Theorems about Scheduler.tla for every number of cases, samples, slots  *)
(* and tries.  The inductive invariant is IInv: the types, the position of *)
(* every worker (WorkersConsistent), the slots and the ledger.             *)
(***************************************************************************)
EXTENDS Scheduler, FiniteSetTheorems, TLAPS

USE SchedulerAssumption

\* build_jobs makes at least one attempt.
LEMMA NumJobsNat == NumJobs \in Nat \ {0}
  BY DEF NumJobs

\* The attempts of a run are finitely many.
LEMMA JobsFinite == IsFiniteSet(Jobs)
  BY NumJobsNat, FS_Interval DEF Jobs

\* Whatever an execution ended with, it has a status.
LEMMA StatusOfType ==
  ASSUME NEW o
  PROVE  StatusOf(o) \in Statuses
  BY DEF StatusOf, Statuses

\* None is told apart from every status.
LEMMA NoResultIsNoStatus == NoResult \notin Statuses
  BY DEF Statuses

-----------------------------------------------------------------------------
(***************************************************************************)
(* Slots                                                                   *)
(***************************************************************************)

\* A worker that begins to hold a slot adds one holder.
LEMMA OneMoreHolder ==
  ASSUME NEW j \in Jobs, NEW q,
         pc \in [Jobs -> {"waiting", "executing", "backoff", "done", "cancelled"}],
         j \notin Holders, q \in {"executing", "backoff"},
         pc' = [pc EXCEPT ![j] = q]
  PROVE  Cardinality(Holders') = Cardinality(Holders) + 1
<1>1. Holders' = Holders \cup {j}
  BY DEF Holders
<1>2. IsFiniteSet(Holders)
  BY JobsFinite, FS_Subset DEF Holders
<1> QED
  BY <1>1, <1>2, FS_AddElement

\* A worker that stops holding a slot leaves one holder fewer.
LEMMA OneHolderLess ==
  ASSUME NEW j \in Jobs, NEW q,
         pc \in [Jobs -> {"waiting", "executing", "backoff", "done", "cancelled"}],
         j \in Holders, q \notin {"executing", "backoff"},
         pc' = [pc EXCEPT ![j] = q]
  PROVE  Cardinality(Holders') = Cardinality(Holders) - 1
<1>1. Holders' = Holders \ {j}
  BY DEF Holders
<1>2. IsFiniteSet(Holders)
  BY JobsFinite, FS_Subset DEF Holders
<1> QED
  BY <1>1, <1>2, FS_RemoveElement

\* The workers that hold a slot can be counted, before and after a step.
LEMMA HoldersNat == Cardinality(Holders) \in Nat /\ Cardinality(Holders') \in Nat
<1>1. Cardinality(Holders) \in Nat
  BY JobsFinite, FS_Subset, FS_CardinalityType DEF Holders
<1>2. Cardinality(Holders') \in Nat
  BY JobsFinite, FS_Subset, FS_CardinalityType DEF Holders
<1> QED
  BY <1>1, <1>2

-----------------------------------------------------------------------------
IInv == TypeOK /\ WorkersConsistent /\ SlotsConserved /\ EveryResultAccounted

\* The invariant holds before any task has run.
LEMMA InitIInv == Init => IInv
<1> SUFFICES ASSUME Init PROVE IInv
  OBVIOUS
<1>1. TypeOK
  <2>1. permits \in 0 .. Concurrency
    BY DEF Init
  <2>2. outcomes \in [Jobs -> Seq(Outcomes)]
    BY DEF Init
  <2>3. tries \in [Jobs -> 0 .. MaxAttempts]
    BY DEF Init
  <2>4. Len(returned) \in 0 .. 1
    BY DEF Init
  <2> QED
    BY <2>1, <2>2, <2>3, <2>4 DEF Init, TypeOK
<1>2. WorkersConsistent
  BY DEF Init, WorkersConsistent, WaitingOK, Running
<1>3. SlotsConserved
  <2>1. Holders = {}
    BY DEF Init, Holders
  <2> QED
    BY <2>1, FS_EmptySet DEF Init, SlotsConserved
<1>4. EveryResultAccounted
  BY DEF Init, EveryResultAccounted, Finished
<1> QED
  BY <1>1, <1>2, <1>3, <1>4 DEF IInv

-----------------------------------------------------------------------------
\* One lemma per action: the invariant survives it.

\* Entering the semaphore preserves the invariant.
LEMMA AcquireIInv ==
  ASSUME IInv, NEW j \in Jobs, Acquire(j)
  PROVE  IInv'
<1> USE DEF IInv
<1>1. SlotsConserved'
  <2>1. Cardinality(Holders') = Cardinality(Holders) + 1
    BY OneMoreHolder DEF TypeOK, Acquire, Holders
  <2> QED
    BY <2>1, HoldersNat DEF SlotsConserved, Acquire, TypeOK
<1>2. TypeOK'
  BY DEF TypeOK, Acquire, CanAcquire
<1>3. WorkersConsistent'
  BY DEF WorkersConsistent, Acquire, TypeOK, WaitingOK, ExecutingOK, BackoffOK,
         DoneOK, CancelledOK, AllFaults, Running
<1>4. EveryResultAccounted'
  BY DEF EveryResultAccounted, Acquire, Finished
<1> QED
  BY <1>1, <1>2, <1>3, <1>4

\* The next try preserves the invariant.
LEMMA RetryIInv ==
  ASSUME IInv, NEW j \in Jobs, Retry(j)
  PROVE  IInv'
<1> USE DEF IInv
<1>1. SlotsConserved'
  <2>1. Holders' = Holders
    BY DEF TypeOK, Retry, Holders
  <2> QED
    BY <2>1 DEF SlotsConserved, Retry
<1>2. TypeOK'
  BY DEF TypeOK, Retry, WorkersConsistent, BackoffOK
<1>3. WorkersConsistent'
  BY DEF WorkersConsistent, Retry, TypeOK, WaitingOK, ExecutingOK, BackoffOK,
         DoneOK, CancelledOK, AllFaults, Running
<1>4. EveryResultAccounted'
  BY DEF EveryResultAccounted, Retry, Finished
<1> QED
  BY <1>1, <1>2, <1>3, <1>4

\* A fault that is worth another try preserves the invariant.
LEMMA BackOffIInv ==
  ASSUME IInv, NEW j \in Jobs, NEW o \in Outcomes, BackOff(j, o)
  PROVE  IInv'
<1> USE DEF IInv
<1>1. SlotsConserved'
  <2>1. Holders' = Holders
    BY DEF TypeOK, BackOff, Holders
  <2> QED
    BY <2>1 DEF SlotsConserved, BackOff
<1>2. TypeOK'
  BY DEF TypeOK, BackOff
<1>3. WorkersConsistent'
  BY DEF WorkersConsistent, BackOff, TypeOK, WillRetry, WaitingOK, ExecutingOK,
         BackoffOK, DoneOK, CancelledOK, AllFaults, Running
<1>4. EveryResultAccounted'
  BY DEF EveryResultAccounted, BackOff, Finished
<1> QED
  BY <1>1, <1>2, <1>3, <1>4

\* What an attempt that ends does to the slots and to the ledger.
LEMMA FinishSlotsAndLedger ==
  ASSUME IInv, NEW j \in Jobs, NEW s \in Statuses, pc[j] = "executing", Finish(j, s)
  PROVE  SlotsConserved' /\ EveryResultAccounted'
<1> USE DEF IInv
<1>1. SlotsConserved'
  <2>1. Cardinality(Holders') = Cardinality(Holders) - 1
    BY OneHolderLess DEF TypeOK, Finish, Holders
  <2> QED
    BY <2>1, HoldersNat DEF SlotsConserved, Finish, TypeOK
<1>2. EveryResultAccounted'
  <2>1. j \notin Finished
    BY DEF Finished, WorkersConsistent, ExecutingOK
  <2>2. Finished' = Finished \cup {j}
    BY NoResultIsNoStatus DEF Finished, Finish, TypeOK
  <2> QED
    BY <2>1, <2>2 DEF EveryResultAccounted, Finish, Emit
<1> QED
  BY <1>1, <1>2

\* The last execution of an attempt preserves the invariant.
LEMMA SettleIInv ==
  ASSUME IInv, NEW j \in Jobs, NEW o \in Outcomes, Settle(j, o)
  PROVE  IInv'
<1> USE DEF IInv
<1>1. SlotsConserved' /\ EveryResultAccounted'
  BY FinishSlotsAndLedger, StatusOfType DEF Settle
<1>2. permits' \in 0 .. Concurrency
  BY <1>1, HoldersNat DEF TypeOK, Settle, Finish, SlotsConserved
<1>3. TypeOK'
  BY <1>2, StatusOfType DEF TypeOK, Settle, Finish, Emit
<1>4. WorkersConsistent'
  BY DEF WorkersConsistent, Settle, Finish, TypeOK, WillRetry, WaitingOK,
         ExecutingOK, BackoffOK, DoneOK, CancelledOK, AllFaults, Running
<1> QED
  BY <1>1, <1>3, <1>4

\* A cancellation that turns into a failed save preserves the invariant.
LEMMA UnwindIntoCrashIInv ==
  ASSUME IInv, NEW j \in Jobs, UnwindIntoCrash(j)
  PROVE  IInv'
<1> USE DEF IInv
<1>1. SlotsConserved' /\ EveryResultAccounted'
  BY FinishSlotsAndLedger, StatusOfType DEF UnwindIntoCrash
<1>2. permits' \in 0 .. Concurrency
  BY <1>1, HoldersNat
     DEF TypeOK, UnwindIntoCrash, Finish, SlotsConserved
<1>3. TypeOK'
  BY <1>2, StatusOfType DEF TypeOK, UnwindIntoCrash, Finish, Emit, Outcomes
<1>4. WorkersConsistent'
  BY DEF WorkersConsistent, UnwindIntoCrash, Finish, TypeOK, WaitingOK,
         ExecutingOK, BackoffOK, DoneOK, CancelledOK, AllFaults, Running
<1> QED
  BY <1>1, <1>3, <1>4

\* A cancellation that reaches a worker preserves the invariant.
LEMMA UnwindIInv ==
  ASSUME IInv, NEW j \in Jobs, Unwind(j)
  PROVE  IInv'
<1> USE DEF IInv
<1>1. SlotsConserved'
  <2>1. CASE pc[j] = "waiting"
    <3>1. Holders' = Holders
      BY <2>1 DEF TypeOK, Unwind, Holders
    <3> QED
      BY <2>1, <3>1 DEF SlotsConserved, Unwind
  <2>2. CASE pc[j] # "waiting"
    <3>1. Cardinality(Holders') = Cardinality(Holders) - 1
      BY <2>2, OneHolderLess DEF TypeOK, Unwind, Holders
    <3> QED
      BY <2>2, <3>1, HoldersNat DEF SlotsConserved, Unwind, TypeOK
  <2> QED
    BY <2>1, <2>2
<1>2. permits' \in 0 .. Concurrency
  BY <1>1, HoldersNat DEF TypeOK, Unwind, SlotsConserved
<1>3. TypeOK'
  BY <1>2 DEF TypeOK, Unwind
<1>4. WorkersConsistent'
  BY DEF WorkersConsistent, Unwind, TypeOK, WaitingOK, ExecutingOK, BackoffOK,
         DoneOK, CancelledOK, AllFaults, Running
<1>5. EveryResultAccounted'
  BY DEF EveryResultAccounted, Unwind, Finished
<1> QED
  BY <1>1, <1>3, <1>4, <1>5

\* The cancellation of run() preserves the invariant.
LEMMA CancelIInv ==
  ASSUME IInv, Cancel
  PROVE  IInv'
  BY DEF IInv, Cancel, TypeOK, WorkersConsistent, SlotsConserved,
         EveryResultAccounted, Holders, Finished, WaitingOK, ExecutingOK,
         BackoffOK, DoneOK, CancelledOK, Running

\* The return of run() preserves the invariant.
LEMMA ReturnIInv ==
  ASSUME IInv, Return
  PROVE  IInv'
<1> DEFINE r == SelectSeq([j \in Jobs |-> j], LAMBDA j : j \in Finished)
<1>1. returned' = <<r>>
  BY DEF Return
<1>2. Len(returned') \in 0 .. 1
  BY <1>1
<1> QED
  BY <1>2 DEF IInv, Return, TypeOK, WorkersConsistent, SlotsConserved,
         EveryResultAccounted, Holders, Finished, WaitingOK, ExecutingOK,
         BackoffOK, DoneOK, CancelledOK, Running

\* Every step preserves the invariant.
LEMMA NextIInv ==
  ASSUME IInv, [Next]_vars
  PROVE  IInv'
<1>1. CASE UNCHANGED vars
  BY <1>1 DEF vars, IInv, TypeOK, WorkersConsistent, SlotsConserved,
         EveryResultAccounted, Holders, Finished, WaitingOK, ExecutingOK,
         BackoffOK, DoneOK, CancelledOK, Running
<1>2. ASSUME NEW j \in Jobs, Worker(j)
      PROVE  IInv'
  <2>1. CASE Acquire(j)
    BY <2>1, AcquireIInv
  <2>2. ASSUME NEW o \in Outcomes, Settle(j, o)
        PROVE  IInv'
    BY <2>2, SettleIInv
  <2>3. ASSUME NEW o \in Outcomes, BackOff(j, o)
        PROVE  IInv'
    BY <2>3, BackOffIInv
  <2>4. CASE Retry(j)
    BY <2>4, RetryIInv
  <2>5. CASE Unwind(j)
    BY <2>5, UnwindIInv
  <2>6. CASE UnwindIntoCrash(j)
    BY <2>6, UnwindIntoCrashIInv
  <2> QED
    BY <1>2, <2>1, <2>2, <2>3, <2>4, <2>5, <2>6 DEF Worker
<1>3. CASE Cancel
  BY <1>3, CancelIInv
<1>4. CASE Return
  BY <1>4, ReturnIInv
<1> QED
  BY <1>1, <1>2, <1>3, <1>4 DEF Next, Terminated

\* The invariant the other theorems rest on.
THEOREM SpecIInv == Spec => []IInv
<1>1. Init => IInv
  BY InitIInv
<1>2. IInv /\ [Next]_vars => IInv'
  BY NextIInv
<1> QED
  BY <1>1, <1>2, PTL DEF Spec

-----------------------------------------------------------------------------
(***************************************************************************)
(* What the scheduler guarantees                                           *)
(***************************************************************************)

\* Every variable keeps its type.
THEOREM TypeCorrect == Spec => []TypeOK
<1>1. IInv => TypeOK
  BY DEF IInv
<1> QED
  BY <1>1, SpecIInv, PTL

\* No slot is lost or invented, so at most Concurrency attempts execute.
THEOREM SlotsAreConserved == Spec => []SlotsConserved
<1>1. IInv => SlotsConserved
  BY DEF IInv
<1> QED
  BY <1>1, SpecIInv, PTL

\* An attempt has a result exactly when it is stored or known to be refused.
THEOREM ResultsAccounted == Spec => []EveryResultAccounted
<1>1. IInv => EveryResultAccounted
  BY DEF IInv
<1> QED
  BY <1>1, SpecIInv, PTL

\* Only infrastructure faults are retried and the last execution decides.
LEMMA IInvOnlyFaultsRetried ==
  ASSUME IInv
  PROVE  OnlyFaultsRetried
<1> USE DEF IInv
<1> SUFFICES ASSUME NEW j \in Jobs
             PROVE  LET n == Len(outcomes[j]) IN
                      /\ n <= MaxAttempts
                      /\ \A i \in 1 .. n - 1 : outcomes[j][i] = "infra"
                      /\ j \in Finished =>
                            /\ n > 0
                            /\ results[j] = StatusOf(outcomes[j][n])
                            /\ outcomes[j][n] = "infra" => n = MaxAttempts
  BY DEF OnlyFaultsRetried
<1>1. tries[j] \in 0 .. MaxAttempts /\ outcomes[j] \in Seq(Outcomes)
  BY DEF TypeOK
<1>2. CASE pc[j] = "done"
  BY <1>1, <1>2 DEF WorkersConsistent, DoneOK
<1>3. CASE pc[j] # "done"
  <2>1. j \notin Finished
    BY <1>3 DEF WorkersConsistent, WaitingOK, ExecutingOK, BackoffOK,
                CancelledOK, Finished, TypeOK
  <2>2. Len(outcomes[j]) <= MaxAttempts /\ AllFaults(outcomes[j])
    BY <1>1, <1>3 DEF WorkersConsistent, WaitingOK, ExecutingOK, BackoffOK,
                      CancelledOK, AllFaults, TypeOK
  <2> QED
    BY <1>1, <2>1, <2>2 DEF AllFaults
<1> QED
  BY <1>2, <1>3

\* A retry follows an infrastructure fault, never a result, a timeout or a fatal
\* error, and the recorded status is that of the last execution (_run_job).
THEOREM RetriesAreFaults == Spec => []OnlyFaultsRetried
  BY SpecIInv, IInvOnlyFaultsRetried, PTL

\* After a cancellation no execution begins, and a result can only be the
\* infrastructure error of an attempt that was executing.
LEMMA StepNoWorkAfterCancel ==
  ASSUME IInv, Next, cancelled, NEW j \in Jobs
  PROVE  /\ tries'[j] = tries[j]
         /\ results'[j] # results[j] =>
               pc[j] = "executing" /\ results'[j] = "infra_error"
<1>1. ASSUME NEW k \in Jobs, Worker(k)
      PROVE  Unwind(k) \/ UnwindIntoCrash(k)
  BY <1>1 DEF Worker, Acquire, Settle, BackOff, Retry
<1>2. ASSUME NEW k \in Jobs, UnwindIntoCrash(k)
      PROVE  /\ tries'[j] = tries[j]
             /\ results'[j] # results[j] =>
                   pc[j] = "executing" /\ results'[j] = "infra_error"
  <2>1. StatusOf("crash") = "infra_error"
    BY DEF StatusOf
  <2> QED
    BY <1>2, <2>1 DEF UnwindIntoCrash, Finish, IInv, TypeOK
<1> QED
  BY <1>1, <1>2 DEF Next, Unwind, Cancel, Return, Terminated, vars

\* After a cancellation no attempt begins or is retried, and no result appears but
\* that of an executing attempt whose trace could not be saved (run).
THEOREM CancelStopsWork == Spec => NoWorkAfterCancel
<1>1. IInv /\ [Next]_vars =>
        [cancelled =>
           \A j \in Jobs :
              /\ tries'[j] = tries[j]
              /\ results'[j] # results[j] =>
                    pc[j] = "executing" /\ results'[j] = "infra_error"]_vars
  BY StepNoWorkAfterCancel
<1> QED
  BY <1>1, SpecIInv, PTL DEF Spec, NoWorkAfterCancel

-----------------------------------------------------------------------------
(***************************************************************************)
(* The scheduler implements the ledger                                     *)
(***************************************************************************)

\* A run that has not begun is an empty ledger.
LEMMA InitLedger == Init => Ledger!Init
  BY DEF Init, Ledger!Init, Running

\* An attempt that ends is one step of the ledger.
LEMMA FinishIsRecord ==
  ASSUME IInv, NEW j \in Jobs, NEW s \in Statuses,
         pc[j] = "executing", Finish(j, s), UNCHANGED <<cancelled, returned>>
  PROVE  Ledger!Record(j)
<1>1. results[j] = NoResult
  BY DEF IInv, WorkersConsistent, ExecutingOK
<1>2. Running
  BY DEF IInv, WorkersConsistent
<1> QED
  BY <1>1, <1>2 DEF Ledger!Record, Finish, Emit, Running

\* The return of run() closes the ledger.
LEMMA ReturnIsClose ==
  ASSUME IInv, Return
  PROVE  Ledger!Close
<1>1. ~Running'
  <2> DEFINE r == SelectSeq([j \in Jobs |-> j], LAMBDA j : j \in Finished)
  <2>1. returned' = <<r>>
    BY DEF Return
  <2> HIDE DEF r
  <2> QED
    BY <2>1 DEF Running
<1>2. cancelled \/ Ledger!Recorded = Jobs
  <2>1. SUFFICES ASSUME ~cancelled, NEW j \in Jobs
                 PROVE  results[j] # NoResult
    BY DEF Ledger!Recorded
  <2>2. pc[j] = "done"
    BY <2>1 DEF Return, IInv, WorkersConsistent, CancelledOK
  <2> QED
    BY <2>2, StatusOfType, NoResultIsNoStatus
       DEF IInv, WorkersConsistent, DoneOK
<1> QED
  BY <1>1, <1>2 DEF Ledger!Close, Return, Running

\* Every step of the scheduler is a step of the ledger or leaves it alone.
LEMMA StepLedger ==
  ASSUME IInv, [Next]_vars
  PROVE  [Ledger!Next]_(Ledger!vars)
<1>1. CASE UNCHANGED vars
  BY <1>1 DEF vars, Ledger!vars, Running
<1>2. ASSUME NEW j \in Jobs, Worker(j)
      PROVE  [Ledger!Next]_(Ledger!vars)
  <2>1. ASSUME NEW o \in Outcomes, Settle(j, o)
        PROVE  Ledger!Record(j)
    BY <2>1, FinishIsRecord, StatusOfType DEF Settle
  <2>2. ASSUME UnwindIntoCrash(j)
        PROVE  Ledger!Record(j)
    BY <2>2, FinishIsRecord, StatusOfType DEF UnwindIntoCrash
  <2>3. ASSUME \/ Acquire(j)
               \/ \E o \in Outcomes : BackOff(j, o)
               \/ Retry(j)
               \/ Unwind(j)
        PROVE  UNCHANGED Ledger!vars
    BY <2>3 DEF Acquire, BackOff, Retry, Unwind, Ledger!vars, Running
  <2> QED
    BY <1>2, <2>1, <2>2, <2>3 DEF Worker, Ledger!Next
<1>3. CASE Cancel
  BY <1>3 DEF Cancel, Ledger!Abandon, Ledger!Next, Running
<1>4. CASE Return
  BY <1>4, ReturnIsClose DEF Ledger!Next
<1> QED
  BY <1>1, <1>2, <1>3, <1>4 DEF Next, Terminated

\* The scheduler keeps the promise of RunLedger.tla: at most one result per
\* attempt, never revised, accounted for at once, and all of them before an
\* uncancelled run returns.
THEOREM SchedulerImplementsLedger == Spec => ImplementsLedger
<1>1. Init => Ledger!Init
  BY InitLedger
<1>2. IInv /\ [Next]_vars => [Ledger!Next]_(Ledger!vars)
  BY StepLedger
<1> QED
  BY <1>1, <1>2, SpecIInv, PTL DEF Spec, ImplementsLedger, Ledger!Spec
-----------------------------------------------------------------------------
(***************************************************************************)
(* Rounds                                                                  *)
(***************************************************************************)

\* The attempts that have begun are the first ones, whatever became of them.
StartedPrefix ==
    \A i, j \in Jobs : i < j /\ j \in Started => i \in Started

\* The FIFO semaphore hands its slots out in job order.
LEMMA NextStartedPrefix ==
  ASSUME IInv, StartedPrefix, [Next]_vars
  PROVE  StartedPrefix'
<1> USE DEF IInv, TypeOK
<1>1. ASSUME NEW j \in Jobs, Acquire(j)
      PROVE  StartedPrefix'
  <2>1. Started' = Started \cup {j}
    BY <1>1 DEF Acquire, Started
  <2>2. ASSUME NEW i \in Jobs, i < j
        PROVE  i \in Started
    <3>1. i \in 1 .. j - 1
      BY <2>2, NumJobsNat DEF Jobs
    <3>2. pc[i] # "waiting" /\ ~cancelled
      BY <1>1, <3>1 DEF Acquire, CanAcquire
    <3> QED
      BY <3>2 DEF WorkersConsistent, ExecutingOK, BackoffOK, DoneOK, CancelledOK,
                  Started
  <2> QED
    BY <2>1, <2>2 DEF StartedPrefix
<1>2. ASSUME NEW j \in Jobs, Retry(j)
      PROVE  StartedPrefix'
  <2>1. Started' = Started
    BY <1>2 DEF Retry, Started, WorkersConsistent, BackoffOK
  <2> QED
    BY <2>1 DEF StartedPrefix
<1>3. ASSUME UNCHANGED tries
      PROVE  StartedPrefix'
  BY <1>3 DEF StartedPrefix, Started
<1> QED
  BY <1>1, <1>2, <1>3
     DEF Next, Worker, Settle, BackOff, Unwind, UnwindIntoCrash, Cancel, Return,
         Terminated, vars

\* Division with remainder.
LEMMA DivMod ==
  ASSUME NEW a \in Nat, NEW n \in Nat \ {0}
  PROVE  /\ a % n \in 0 .. n - 1
         /\ a \div n \in Nat
         /\ a = n * (a \div n) + (a % n)
  OBVIOUS

\* The remainder is unique.
LEMMA RemainderUnique ==
  ASSUME NEW n \in Nat \ {0}, NEW q \in Nat, NEW r \in 0 .. n - 1,
         NEW a \in Nat, a = n * q + r
  PROVE  a % n = r
  OBVIOUS

\* Of an attempt j at case c, the attempt at case d one round earlier.
Before(c, d, j) == j - NumCases + d - c

\* An attempt at c that is not the first comes after an attempt at every case d.
LEMMA OneRoundBefore ==
  ASSUME NEW c \in 1 .. NumCases, NEW d \in 1 .. NumCases,
         NEW j \in Nat \ {0}, CaseOf(j) = c, j # c
  PROVE  /\ Before(c, d, j) \in 1 .. j - 1
         /\ CaseOf(Before(c, d, j)) = d
<1> DEFINE q == (j - 1) \div NumCases
           p == q - 1
           a == Before(c, d, j) - 1
<1>1. q \in Nat /\ j - 1 = NumCases * q + (c - 1)
  <2>1. j - 1 \in Nat
    OBVIOUS
  <2>2. /\ (j - 1) % NumCases \in 0 .. NumCases - 1
        /\ q \in Nat
        /\ j - 1 = NumCases * q + ((j - 1) % NumCases)
    BY <2>1, DivMod
  <2>3. (j - 1) % NumCases = c - 1
    BY <2>1, <2>2 DEF CaseOf
  <2> QED
    BY <2>2, <2>3
<1> HIDE DEF q
<1>2. p \in Nat /\ NumCases * q = NumCases * p + NumCases
  <2>1. q # 0
    BY <1>1
  <2> QED
    BY <1>1, <2>1
<1>3. a = NumCases * p + (d - 1) /\ NumCases * p \in Nat
  BY <1>1, <1>2 DEF Before
<1>4. a \in Nat /\ d - 1 \in 0 .. NumCases - 1
  BY <1>2, <1>3
<1>5. a % NumCases = d - 1
  <2> HIDE DEF a, p
  <2> QED
    BY <1>2, <1>3, <1>4, RemainderUnique
<1>6. Before(c, d, j) \in 1 .. j - 1
  BY <1>4 DEF Before
<1> QED
  BY <1>5, <1>6 DEF CaseOf

\* One round back is an injection from the later attempts at c to the attempts
\* at d, so the two cases are at most one attempt apart.
LEMMA PrefixIsBalanced == StartedPrefix => RoundsBalanced
<1> SUFFICES ASSUME StartedPrefix, NEW c \in 1 .. NumCases, NEW d \in 1 .. NumCases
             PROVE  Cardinality(StartedOf(c)) <= Cardinality(StartedOf(d)) + 1
  BY DEF RoundsBalanced
<1> DEFINE later == StartedOf(c) \ {c}
           back  == [j \in later |-> Before(c, d, j)]
<1>1. ASSUME NEW j \in later
      PROVE  Before(c, d, j) \in StartedOf(d)
  <2>1. j \in Jobs /\ j \in Nat \ {0} /\ CaseOf(j) = c /\ j # c /\ j \in Started
    BY NumJobsNat DEF StartedOf, Started, Jobs
  <2>2. Before(c, d, j) \in 1 .. j - 1 /\ CaseOf(Before(c, d, j)) = d
    BY <2>1, OneRoundBefore
  <2>3. Before(c, d, j) \in Jobs /\ Before(c, d, j) < j
    BY <2>1, <2>2, NumJobsNat DEF Jobs
  <2> QED
    BY <2>1, <2>2, <2>3 DEF StartedPrefix, StartedOf
<1>2. back \in Injection(later, StartedOf(d))
  <2>1. later \in SUBSET Nat
    BY NumJobsNat DEF StartedOf, Started, Jobs
  <2>2. ASSUME NEW i \in later, NEW j \in later,
               Before(c, d, i) = Before(c, d, j)
        PROVE  i = j
    <3>1. i \in Nat /\ j \in Nat
      BY <2>1
    <3> HIDE DEF later
    <3> QED
      BY <2>2, <3>1 DEF Before
  <2> QED
    BY <1>1, <2>2 DEF Injection, IsInjective
<1>3. /\ IsFiniteSet(StartedOf(c)) /\ Cardinality(StartedOf(c)) \in Nat
      /\ IsFiniteSet(StartedOf(d)) /\ Cardinality(StartedOf(d)) \in Nat
  BY JobsFinite, FS_Subset, FS_CardinalityType DEF StartedOf, Started
<1>4. Cardinality(later) <= Cardinality(StartedOf(d))
  BY <1>2, <1>3, FS_Injection
<1>5. Cardinality(StartedOf(c)) <= Cardinality(later) + 1
  <2>1. Cardinality(later) = IF c \in StartedOf(c) THEN Cardinality(StartedOf(c)) - 1
                             ELSE Cardinality(StartedOf(c))
    BY <1>3, FS_RemoveElement
  <2> HIDE DEF later
  <2> QED
    BY <1>3, <2>1
<1>6. Cardinality(later) \in Nat
  BY <1>3, FS_RemoveElement, FS_CardinalityType
<1> QED
  BY <1>3, <1>4, <1>5, <1>6

\* Samples of a case stay spread out over the whole run, for every number of
\* cases, samples and slots: no case is ever two attempts ahead of another
\* (build_jobs with the FIFO semaphore of run).
THEOREM RoundsStayBalanced == Spec => []RoundsBalanced
<1>1. Init => StartedPrefix
  BY DEF Init, StartedPrefix, Started
<1>2. IInv /\ StartedPrefix /\ [Next]_vars => StartedPrefix'
  BY NextStartedPrefix
<1>3. StartedPrefix => RoundsBalanced
  BY PrefixIsBalanced
<1> QED
  BY <1>1, <1>2, <1>3, SpecIInv, PTL DEF Spec
=============================================================================
