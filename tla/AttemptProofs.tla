---------------------------- MODULE AttemptProofs ----------------------------
(***************************************************************************)
(* Theorems about Attempt.tla for every number of tries, of evaluators and *)
(* of events of the agent.                                                 *)
(***************************************************************************)
EXTENDS Attempt, TLAPS

USE AttemptAssumption

\* The evaluators read what the recorder holds: nothing is recorded once the
\* agent's part is over.
JudgedIsRecorded == stage = "evaluate" => judged = Trace(events)

\* An evaluator that waits for a command has not scored.
CommandScores == stage = "evaluate" /\ command => scores < NumEvaluators

\* Only an infrastructure error is tried again, and only while tries are left.
BackoffRetries == stage = "backoff" => outcome = "infra" /\ try < MaxTries

IInv ==
    /\ TypeOK
    /\ ScoredOnKeptTrace
    /\ LastTraceKept
    /\ OrphansExplained
    /\ AgentFailureMeasured
    /\ JudgedIsRecorded
    /\ CommandScores
    /\ BackoffRetries

-----------------------------------------------------------------------------
\* The workspace exists exactly in the stages that use it.
LEMMA WorkspaceExact ==
  ASSUME NEW w \in BOOLEAN, NEW s, w <=> s \in {"agent", "evaluate"}
  PROVE  w = (s \in {"agent", "evaluate"})
  BY Zenon

LEMMA InitIInv == Init => IInv
<1> SUFFICES ASSUME Init PROVE IInv
  OBVIOUS
<1>1. workspace = (stage \in {"agent", "evaluate"})
  BY WorkspaceExact DEF Init
<1>2. events \in Seq({"tool", "violation", "agent_error"})
  BY DEF Init
<1>3. stage \in {"start", "agent", "evaluate", "backoff", "ended"}
      /\ try \in 1 .. MaxTries /\ scores \in 0 .. NumEvaluators
  BY DEF Init
<1>4. TypeOK
  BY <1>1, <1>2, <1>3 DEF Init, TypeOK
<1> QED
  BY <1>4 DEF Init, IInv, ScoredOnKeptTrace, LastTraceKept, OrphansExplained,
     AgentFailureMeasured, JudgedIsRecorded, CommandScores, BackoffRetries

\* What End does, whichever way the save goes.
LEMMA EndEffect ==
  ASSUME NEW o, NEW evs, End(o, evs)
  PROVE  /\ workspace' = FALSE /\ command' = FALSE
         /\ orphan' = (orphan \/ command)
         /\ stage' = IF outcome' = "infra" /\ try < MaxTries
                     THEN "backoff" ELSE "ended"
         /\ \/ /\ outcome' = o /\ file' = Trace(evs)
               /\ diskFailed' = diskFailed
            \/ outcome' = "crash" /\ diskFailed' = TRUE
<1>1. LeaveWorkspace
  BY DEF End
<1>2. CASE file' = Trace(evs) /\ UNCHANGED diskFailed /\ Conclude(o)
  BY <1>1, <1>2 DEF LeaveWorkspace, Conclude
<1>3. CASE diskFailed' = TRUE /\ Conclude("crash")
  BY <1>1, <1>3 DEF LeaveWorkspace, Conclude
<1> QED
  BY <1>2, <1>3 DEF End

\* A try that somebody other than the agent ends.
LEMMA TryEndsIInv ==
  ASSUME IInv,
         NEW o \in Outcomes \ {"completed"}, NEW f \in Faults \ {"agent"},
         stage # "backoff", End(o, events), Blame(f),
         UNCHANGED <<try, agentVars, evalVars>>,
         command => f \in {"time", "cancel", "evaluator"}
  PROVE  IInv'
<1> USE DEF IInv
<1>1. /\ workspace' = FALSE /\ command' = FALSE
      /\ orphan' = (orphan \/ command)
      /\ stage' = IF outcome' = "infra" /\ try < MaxTries
                  THEN "backoff" ELSE "ended"
      /\ \/ /\ outcome' = o /\ file' = Trace(events)
            /\ diskFailed' = diskFailed
         \/ outcome' = "crash" /\ diskFailed' = TRUE
  BY EndEffect
<1>2. /\ UNCHANGED <<try, events, exitLink, judged, scores>>
      /\ faults' = faults \cup {f}
      /\ Trace(events)' = Trace(events)
  BY DEF agentVars, evalVars, Blame, Trace
<1>3. outcome' \in Outcomes \ {"completed"}
  BY <1>1 DEF Outcomes
<1>4. stage' \in {"backoff", "ended"}
  BY <1>1
<1>5. TypeOK'
  <2>1. workspace' = (stage' \in {"agent", "evaluate"})
    BY <1>1, <1>4, WorkspaceExact
  <2> QED
    BY <1>1, <1>2, <1>3, <1>4, <2>1 DEF TypeOK
<1>6. ScoredOnKeptTrace' /\ JudgedIsRecorded' /\ CommandScores'
      /\ BackoffRetries'
  BY <1>1, <1>2, <1>3, <1>4
  DEF ScoredOnKeptTrace, JudgedIsRecorded, CommandScores, BackoffRetries
<1>7. LastTraceKept'
  BY <1>1, <1>2 DEF LastTraceKept
<1>8. OrphansExplained'
  BY <1>1, <1>2 DEF OrphansExplained
<1>9. AgentFailureMeasured'
  BY <1>2 DEF AgentFailureMeasured
<1> QED
  BY <1>5, <1>6, <1>7, <1>8, <1>9

\* Everything that can end a try before its evaluators are done.
LEMMA FailureIInv ==
  ASSUME IInv,
         \/ EnterFails \/ DiffFails
         \/ \E o \in {"infra", "fatal"} : ProviderFails(o)
         \/ EvaluatorRaises \/ EvaluationTimesOut
         \/ JobTimesOut \/ RunCancelled
  PROVE  IInv'
<1>1. CASE EnterFails
  <2>1. ~command /\ stage # "backoff"
    BY <1>1 DEF EnterFails, IInv, TypeOK
  <2> QED
    BY <1>1, <2>1, TryEndsIInv DEF EnterFails, Outcomes, Faults
<1>2. CASE DiffFails
  BY <1>2, TryEndsIInv DEF DiffFails, AgentFree, Outcomes, Faults
<1>3. ASSUME NEW o \in {"infra", "fatal"}, ProviderFails(o)
      PROVE  IInv'
  BY <1>3, TryEndsIInv DEF ProviderFails, AgentFree, Outcomes, Faults
<1>4. CASE EvaluatorRaises
  BY <1>4, TryEndsIInv DEF EvaluatorRaises, EvaluatorFree, Outcomes, Faults
<1>5. CASE EvaluationTimesOut
  BY <1>5, TryEndsIInv DEF EvaluationTimesOut, Outcomes, Faults
<1>6. CASE JobTimesOut
  BY <1>6, TryEndsIInv DEF JobTimesOut, Awaiting, Outcomes, Faults
<1>7. CASE RunCancelled
  BY <1>7, TryEndsIInv DEF RunCancelled, Awaiting, Outcomes, Faults
<1> QED
  BY <1>1, <1>2, <1>3, <1>4, <1>5, <1>6, <1>7

\* The verdict: no command runs any more, and the trace the evaluators read is
\* the one that is saved.
LEMMA CompleteIInv ==
  ASSUME IInv, Complete PROVE IInv'
<1> USE DEF IInv
<1>1. /\ stage = "evaluate" /\ scores = NumEvaluators
      /\ UNCHANGED <<try, events, exitLink, judged, scores, faults>>
      /\ Trace(events)' = Trace(events)
  BY DEF Complete, agentVars, evalVars, Trace
<1>2. /\ workspace' = FALSE /\ command' = FALSE
      /\ orphan' = (orphan \/ command)
      /\ stage' = IF outcome' = "infra" /\ try < MaxTries
                  THEN "backoff" ELSE "ended"
      /\ \/ /\ outcome' = "completed" /\ file' = Trace(events)
            /\ diskFailed' = diskFailed
         \/ outcome' = "crash" /\ diskFailed' = TRUE
  BY EndEffect DEF Complete
<1>3. stage' = "ended" /\ outcome' \in {"completed", "crash"}
  BY <1>2
<1>4. ~command
  BY <1>1 DEF CommandScores
<1>5. orphan' = orphan
  BY <1>2, <1>4 DEF TypeOK
<1>6. TypeOK'
  <2>1. workspace' = (stage' \in {"agent", "evaluate"})
    BY <1>2, <1>3, WorkspaceExact
  <2> QED
    BY <1>1, <1>2, <1>3, <1>5, <2>1 DEF TypeOK, Outcomes
<1>7. ScoredOnKeptTrace'
  <2>1. judged = Trace(events)
    BY <1>1 DEF JudgedIsRecorded
  <2> QED
    BY <1>1, <1>2, <2>1 DEF ScoredOnKeptTrace, LookUp
<1>8. LastTraceKept' /\ AgentFailureMeasured'
  BY <1>1, <1>2 DEF LastTraceKept, AgentFailureMeasured
<1>9. OrphansExplained'
  BY <1>1, <1>5 DEF OrphansExplained
<1>10. JudgedIsRecorded' /\ CommandScores' /\ BackoffRetries'
  BY <1>3 DEF JudgedIsRecorded, CommandScores, BackoffRetries
<1> QED
  BY <1>6, <1>7, <1>8, <1>9, <1>10

\* The agent's part is over, by itself or by an exception.
LEMMA HandOverIInv ==
  ASSUME IInv, AgentStops \/ AgentCrashes PROVE IInv'
<1> USE DEF IInv
<1>1. PICK evs \in Seq({"tool", "violation", "agent_error"}) : HandOver(evs)
  <2>1. events \in Seq({"tool", "violation", "agent_error"})
        /\ Append(events, "agent_error")
             \in Seq({"tool", "violation", "agent_error"})
    BY DEF TypeOK
  <2> QED
    BY <2>1 DEF AgentStops, AgentCrashes
<1>2. /\ stage = "agent" /\ ~command
      /\ UNCHANGED <<try, exitLink, scores>>
      /\ faults' \in {faults, faults \cup {"agent"}}
      /\ faults' \subseteq Faults
  BY DEF AgentStops, AgentCrashes, AgentFree, Blame, TypeOK, Faults
<1>3. CASE /\ ~exitLink
           /\ events' = evs
           /\ judged' = Trace(evs)
           /\ stage' = "evaluate"
           /\ UNCHANGED <<outcome, processVars, diskVars>>
  <2>1. UNCHANGED <<outcome, workspace, command, orphan, file, diskFailed>>
    BY <1>3 DEF processVars, diskVars
  <2>2. judged' = Trace(events)'
    BY <1>2, <1>3 DEF Trace
  <2>3. TypeOK'
    BY <1>1, <1>2, <1>3, <2>1 DEF TypeOK
  <2> QED
    BY <1>2, <1>3, <2>1, <2>2, <2>3
    DEF ScoredOnKeptTrace, LastTraceKept, OrphansExplained,
        AgentFailureMeasured, JudgedIsRecorded, CommandScores, BackoffRetries
<1>4. CASE /\ exitLink
           /\ events' = Append(evs, "violation")
           /\ LeaveWorkspace
           /\ Conclude("crash")
           /\ UNCHANGED <<judged, diskVars>>
  <2>1. /\ workspace' = FALSE /\ command' = FALSE /\ outcome' = "crash"
        /\ orphan' = orphan /\ stage' = "ended"
    BY <1>2, <1>4 DEF LeaveWorkspace, Conclude, TypeOK
  <2>2. events' \in Seq({"tool", "violation", "agent_error"})
    BY <1>1, <1>4
  <2>3. TypeOK'
    <3>1. workspace' = (stage' \in {"agent", "evaluate"})
      BY <2>1, WorkspaceExact
    <3> QED
      BY <1>2, <2>1, <2>2, <3>1 DEF TypeOK, Outcomes
  <2> QED
    BY <1>2, <1>4, <2>1, <2>3
    DEF ScoredOnKeptTrace, LastTraceKept, OrphansExplained,
        AgentFailureMeasured, JudgedIsRecorded, CommandScores, BackoffRetries
<1> QED
  BY <1>1, <1>3, <1>4 DEF HandOver

\* The steps inside the agent's part; the first is the way into it.
LEMMA AgentIInv ==
  ASSUME IInv,
         \/ EnterWorkspace
         \/ \E kind \in {"tool", "violation"} : AgentActs(kind)
         \/ AgentStartsCommand \/ AgentCommandEnds
  PROVE  IInv'
<1> USE DEF IInv
<1>1. /\ stage \in {"start", "agent"} /\ stage' = "agent" /\ workspace' = TRUE
      /\ UNCHANGED <<try, outcome, orphan, judged, scores, file, diskFailed>>
      /\ exitLink' \in BOOLEAN
      /\ faults' \in {faults, faults \cup {"agent"}}
  BY DEF EnterWorkspace, AgentActs, AgentStartsCommand, AgentCommandEnds,
     AgentFree, agentVars, progress, processVars, evalVars, diskVars, Blame,
     TypeOK
<1>2. events' \in Seq({"tool", "violation", "agent_error"})
  BY DEF EnterWorkspace, AgentActs, AgentStartsCommand, AgentCommandEnds,
     agentVars, TypeOK
<1>3. TypeOK'
  <2>1. workspace' = (stage' \in {"agent", "evaluate"})
    BY <1>1, WorkspaceExact
  <2>2. faults' \subseteq Faults
    BY <1>1 DEF TypeOK, Faults
  <2> QED
    BY <1>1, <1>2, <2>1, <2>2 DEF TypeOK
<1> QED
  BY <1>1, <1>3
  DEF ScoredOnKeptTrace, LastTraceKept, OrphansExplained,
      AgentFailureMeasured, JudgedIsRecorded, CommandScores, BackoffRetries

\* An evaluator scores, at once or after a command of its own.
LEMMA EvaluatorIInv ==
  ASSUME IInv,
         EvaluatorScores \/ EvaluatorStartsCommand \/ EvaluatorCommandEnds
  PROVE  IInv'
<1> USE DEF IInv
<1>1. /\ stage = "evaluate" /\ scores < NumEvaluators
      /\ UNCHANGED <<stage, try, outcome, events, exitLink, workspace, orphan,
                     judged, file, diskFailed, faults>>
      /\ \/ scores' = scores + 1 /\ ~command'
         \/ scores' = scores /\ command'
      /\ Trace(events)' = Trace(events)
  BY DEF EvaluatorScores, EvaluatorStartsCommand, EvaluatorCommandEnds,
     EvaluatorFree, CommandScores, agentVars, progress, processVars, evalVars,
     diskVars, Trace
<1>2. TypeOK'
  <2>1. workspace' = (stage' \in {"agent", "evaluate"})
    BY <1>1, WorkspaceExact DEF TypeOK
  <2>2. scores' \in 0 .. NumEvaluators
    BY <1>1 DEF TypeOK
  <2>3. command' => workspace'
    BY <1>1 DEF TypeOK
  <2> QED
    BY <1>1, <2>1, <2>2, <2>3 DEF TypeOK
<1> QED
  BY <1>1, <1>2
  DEF ScoredOnKeptTrace, LastTraceKept, OrphansExplained,
      AgentFailureMeasured, JudgedIsRecorded, CommandScores, BackoffRetries

\* Between two tries.
LEMMA BackoffIInv ==
  ASSUME IInv, Retry \/ CancelledInBackoff PROVE IInv'
<1> USE DEF IInv
<1>1. CASE Retry
  <2>1. /\ stage' = "start" /\ try' = try + 1 /\ try < MaxTries
        /\ events' = <<>> /\ exitLink' = FALSE
        /\ scores' = 0 /\ faults' = {}
        /\ UNCHANGED <<outcome, workspace, command, orphan>>
        /\ ~workspace
    BY <1>1 DEF Retry, processVars, BackoffRetries, TypeOK
  <2>2. TypeOK'
    <3>1. workspace' = (stage' \in {"agent", "evaluate"})
      BY <2>1, WorkspaceExact DEF TypeOK
    <3>2. try' \in 1 .. MaxTries /\ (command' => workspace')
      BY <2>1 DEF TypeOK
    <3>3. events' \in Seq({"tool", "violation", "agent_error"})
      BY <2>1
    <3>4. stage' \in {"start", "agent", "evaluate", "backoff", "ended"}
          /\ scores' \in 0 .. NumEvaluators
      BY <2>1
    <3> QED
      BY <2>1, <3>1, <3>2, <3>3, <3>4 DEF TypeOK
  <2> QED
    BY <2>1, <2>2
    DEF ScoredOnKeptTrace, LastTraceKept, OrphansExplained, TypeOK,
        AgentFailureMeasured, JudgedIsRecorded, CommandScores, BackoffRetries
<1>2. CASE CancelledInBackoff
  <2>1. /\ stage = "backoff" /\ stage' = "ended" /\ outcome' = "cancelled"
        /\ faults' = faults \cup {"cancel"}
        /\ UNCHANGED <<try, events, exitLink, workspace, command, orphan,
                       judged, scores, file, diskFailed>>
        /\ Trace(events)' = Trace(events)
    BY <1>2 DEF CancelledInBackoff, Blame, agentVars, processVars, evalVars,
       diskVars, Trace
  <2>2. TypeOK'
    BY <2>1 DEF TypeOK, Outcomes, Faults
  <2>3. outcome = "infra"
    BY <2>1 DEF BackoffRetries
  <2> QED
    BY <2>1, <2>2, <2>3
    DEF ScoredOnKeptTrace, LastTraceKept, OrphansExplained,
        AgentFailureMeasured, JudgedIsRecorded, CommandScores, BackoffRetries
<1> QED
  BY <1>1, <1>2

LEMMA NextIInv == IInv /\ [Next]_vars => IInv'
<1> SUFFICES ASSUME IInv, [Next]_vars PROVE IInv'
  OBVIOUS
<1>1. CASE Next
  BY <1>1, FailureIInv, CompleteIInv, HandOverIInv, AgentIInv, EvaluatorIInv,
     BackoffIInv DEF Next, Progress
<1>2. CASE UNCHANGED vars
  BY <1>2 DEF vars, IInv, TypeOK, ScoredOnKeptTrace, LastTraceKept,
     OrphansExplained, AgentFailureMeasured, JudgedIsRecorded, CommandScores,
     BackoffRetries, Trace, LookUp
<1> QED
  BY <1>1, <1>2

-----------------------------------------------------------------------------
\* The inductive invariant of an attempt.
THEOREM SpecIInv == Spec => []IInv
  BY InitIInv, NextIInv, PTL DEF Spec

\* The state keeps its shape, and the workspace of a try exists exactly while
\* the agent or an evaluator uses it (workspace_for).
THEOREM TypeCorrect == Spec => []TypeOK
<1>1. IInv => TypeOK
  BY DEF IInv
<1> QED
  BY <1>1, SpecIInv, PTL

\* However often an attempt is tried again: it is scored on the trace that is
\* kept, the trace kept is that of its last try, and only a clock or a
\* cancellation leaves a command running.
THEOREM AttemptsSettle == Spec => []AttemptSettled
<1>1. IInv => AttemptSettled
  BY DEF IInv, AttemptSettled
<1> QED
  BY <1>1, SpecIInv, PTL

\* What an agent does to itself is measured: it never counts as a failure of
\* the harness (execute's except clauses).
THEOREM AgentFailuresMeasured == Spec => []AgentFailureMeasured
<1>1. IInv => AgentFailureMeasured
  BY DEF IInv
<1> QED
  BY <1>1, SpecIInv, PTL
=============================================================================
