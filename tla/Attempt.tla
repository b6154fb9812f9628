------------------------------ MODULE Attempt ------------------------------
(***************************************************************************)
(* One attempt at one case, through its tries: LocalBackend.execute        *)
(* (orchestrator/runner.py) in a fresh workspace (env/workspace.py), under *)
(* the job timeout and the retries of Scheduler._run_job.                  *)
(*                                                                         *)
(* Granularity.  An action runs from one await to the next.  The agent     *)
(* awaits the provider and the commands it starts, evaluators await the    *)
(* commands and the judge; the hand-over from agent to evaluators and the  *)
(* end of a try await nothing.                                             *)
(*                                                                         *)
(* Simplifications.  The recorder keeps only what the properties tell      *)
(* apart: tool events, refused escapes and errors of the agent.  The files *)
(* of the workspace are reduced to whether one of them is a link that      *)
(* leads out of it.  A trajectory directory is configured.                 *)
(***************************************************************************)
EXTENDS Integers, Sequences

CONSTANTS
    MaxTries,       \* RetryPolicy.max_attempts
    NumEvaluators,  \* evaluators of the suite
    MaxEvents,      \* bound on the events of the agent (its max_steps)
    NoTrace,        \* no trace file
    TornTrace       \* a trace file cut short by a failed write

ASSUME AttemptAssumption ==
    /\ MaxTries \in Nat \ {0}
    /\ NumEvaluators \in Nat \ {0}
    /\ MaxEvents \in Nat \ {0}

VARIABLES
    stage,      \* "start", "agent", "evaluate", "backoff" or "ended"
    try,        \* attempt_index + 1 of _run_job
    outcome,    \* how the last execute() ended
    events,     \* what the recorder of this try holds
    workspace,  \* the directory of this try exists
    exitLink,   \* a file of the workspace is a link that leads out of it
    command,    \* a command started by this try is running
    orphan,     \* a command outlives the try that started it
    judged,     \* the trace handed to the evaluators of this try
    scores,     \* evaluators of this try that have scored
    file,       \* the trace file of the attempt
    diskFailed, \* history: a write of the trace failed
    faults      \* history: who is to blame for how this try went

vars == <<stage, try, outcome, events, workspace, exitLink, command, orphan,
          judged, scores, file, diskFailed, faults>>

progress == <<stage, try, outcome>>
agentVars == <<events, exitLink>>
processVars == <<workspace, command, orphan>>
evalVars == <<judged, scores>>
diskVars == <<file, diskFailed>>

Outcomes == {"completed", "timeout", "cancelled", "infra", "fatal", "crash"}
Faults == {"agent", "provider", "evaluator", "disk", "time", "cancel"}

Init ==
    /\ stage = "start"
    /\ try = 1
    /\ outcome = "none"
    /\ events = <<>>
    /\ workspace = FALSE
    /\ exitLink = FALSE
    /\ command = FALSE
    /\ orphan = FALSE
    /\ judged = NoTrace
    /\ scores = 0
    /\ file = NoTrace
    /\ diskFailed = FALSE
    /\ faults = {}

Trace(evs) == [try |-> try, events |-> evs]

-----------------------------------------------------------------------------
(* How a try ends: the workspace goes first, then the trace is saved, then *)
(* the outcome reaches _run_job.                                           *)

\* Mutant: the workspace survives a try that did not complete.
LeaveWorkspaceBehind ==
    /\ workspace' = workspace
    /\ command' = FALSE
    /\ orphan' = (orphan \/ command)

\* finally: shutil.rmtree.  Nothing kills a command that is still running.
LeaveWorkspace ==
    /\ workspace' = FALSE
    /\ command' = FALSE
    /\ orphan' = (orphan \/ command)

\* _run_job: only an ordinary infrastructure error is tried again.
Conclude(o) ==
    /\ outcome' = o
    /\ stage' = IF o = "infra" /\ try < MaxTries THEN "backoff" ELSE "ended"

\* End the try with outcome o, saving the events evs.  write_text is not
\* atomic: a failed save leaves the old file or a cut one, and its OSError
\* takes the place of the outcome.
End(o, evs) ==
    /\ LeaveWorkspace
    /\ \/ file' = Trace(evs) /\ UNCHANGED diskFailed /\ Conclude(o)
       \/ /\ file' \in {file, TornTrace}
          /\ diskFailed' = TRUE
          /\ Conclude("crash")

Blame(f) == faults' = faults \cup {f}

-----------------------------------------------------------------------------
\* workspace_for: a fresh directory with the files of the case.
EnterWorkspace ==
    /\ stage = "start"
    /\ stage' = "agent"
    /\ workspace' = TRUE
    /\ UNCHANGED <<try, outcome, agentVars, command, orphan, evalVars,
                   diskVars, faults>>

\* mkdtemp or the first write fails: OSError, a workspace failure.
EnterFails ==
    /\ stage = "start"
    /\ Blame("disk")
    /\ End("infra", events)
    /\ UNCHANGED <<try, agentVars, evalVars>>

AgentFree == stage = "agent" /\ ~command

\* A tool call, or a path that resolve refuses: recorded, and the agent goes
\* on with the message it got.
AgentActs(kind) ==
    /\ AgentFree
    /\ Len(events) < MaxEvents
    /\ events' = Append(events, kind)
    /\ faults' = IF kind = "violation" THEN faults \cup {"agent"} ELSE faults
    /\ UNCHANGED <<progress, processVars, exitLink, evalVars, diskVars>>

\* Workspace.run starts a command and awaits its output.
AgentStartsCommand ==
    /\ AgentFree
    /\ Len(events) < MaxEvents
    /\ command' = TRUE
    /\ UNCHANGED <<progress, agentVars, workspace, orphan, evalVars, diskVars,
                   faults>>

\* The command ends, or runs into its own timeout and is killed.  The code it
\* ran is the agent's: it may have left a link behind.
AgentCommandEnds ==
    /\ stage = "agent"
    /\ command
    /\ command' = FALSE
    /\ events' = Append(events, "tool")
    /\ \/ UNCHANGED <<exitLink, faults>>
       \/ exitLink' = TRUE /\ Blame("agent")
    /\ UNCHANGED <<progress, workspace, orphan, evalVars, diskVars>>

\* The agent's own part is over; evs is what it leaves in the recorder.
\* diff() resolves every file: a link that leads out is refused there, outside
\* every handler, and execute() raises without saving anything.
HandOver(evs) ==
    \/ /\ ~exitLink
       /\ events' = evs
       /\ judged' = Trace(evs)
       /\ stage' = "evaluate"
       /\ UNCHANGED <<outcome, processVars, diskVars>>
    \/ /\ exitLink
       /\ events' = Append(evs, "violation")
       /\ LeaveWorkspace
       /\ Conclude("crash")
       /\ UNCHANGED <<judged, diskVars>>

\* It submitted, gave up, ran out of steps or of budget.
AgentStops ==
    /\ AgentFree
    /\ HandOver(events)
    /\ UNCHANGED <<try, exitLink, scores, faults>>

\* Mutant: an agent that crashes is taken for a broken harness.
AgentCrashIsFault ==
    /\ AgentFree
    /\ Blame("agent")
    /\ events' = Append(events, "agent_error")
    /\ End("infra", events')
    /\ UNCHANGED <<try, exitLink, evalVars>>

\* It raised: the crash is recorded and the attempt is evaluated all the same.
AgentCrashes ==
    /\ AgentFree
    /\ Blame("agent")
    /\ HandOver(Append(events, "agent_error"))
    /\ UNCHANGED <<try, exitLink, scores>>

\* diff() meets a file that it cannot read: OSError, a workspace failure.
DiffFails ==
    /\ AgentFree
    /\ Blame("disk")
    /\ End("infra", events)
    /\ UNCHANGED <<try, agentVars, evalVars>>

\* The provider is down (transient), or rejects the request for good.
ProviderFails(o) ==
    /\ AgentFree
    /\ Blame("provider")
    /\ End(o, events)
    /\ UNCHANGED <<try, agentVars, evalVars>>

-----------------------------------------------------------------------------
EvaluatorFree == stage = "evaluate" /\ ~command /\ scores < NumEvaluators

EvaluatorScores ==
    /\ EvaluatorFree
    /\ scores' = scores + 1
    /\ UNCHANGED <<progress, agentVars, processVars, judged, diskVars,
                   faults>>

EvaluatorStartsCommand ==
    /\ EvaluatorFree
    /\ command' = TRUE
    /\ UNCHANGED <<progress, agentVars, workspace, orphan, evalVars, diskVars,
                   faults>>

EvaluatorCommandEnds ==
    /\ stage = "evaluate"
    /\ command
    /\ command' = FALSE
    /\ scores' = scores + 1
    /\ UNCHANGED <<progress, agentVars, workspace, orphan, judged, diskVars,
                   faults>>

\* An evaluator raises, or its model does, for good or not: every Exception
\* becomes an ordinary infrastructure error.
EvaluatorRaises ==
    /\ EvaluatorFree
    /\ Blame("evaluator")
    /\ End("infra", events)
    /\ UNCHANGED <<try, agentVars, evalVars>>

\* evaluation_timeout_s runs out.
EvaluationTimesOut ==
    /\ stage = "evaluate"
    /\ scores < NumEvaluators
    /\ Blame("evaluator")
    /\ End("infra", events)
    /\ UNCHANGED <<try, agentVars, evalVars>>

\* Mutant: the verdict is taken before every evaluator has scored.
CompleteEarly ==
    /\ stage = "evaluate"
    /\ ~command
    /\ scores > 0
    /\ End("completed", events)
    /\ UNCHANGED <<try, agentVars, evalVars, faults>>

\* Every evaluator has scored: the verdict, the trace and the CaseResult.
Complete ==
    /\ stage = "evaluate"
    /\ scores = NumEvaluators
    /\ End("completed", events)
    /\ UNCHANGED <<try, agentVars, evalVars, faults>>

-----------------------------------------------------------------------------
\* CancelledError can only arrive at an await.
Awaiting ==
    \/ stage = "agent"
    \/ stage = "evaluate" /\ scores < NumEvaluators

\* Mutant: the job timeout waits for the command that hangs.
JobTimesOutIdle ==
    /\ Awaiting
    /\ ~command
    /\ Blame("time")
    /\ End("timeout", events)
    /\ UNCHANGED <<try, agentVars, evalVars>>

\* job_timeout_s runs out: wait_for cancels execute().
JobTimesOut ==
    /\ Awaiting
    /\ Blame("time")
    /\ End("timeout", events)
    /\ UNCHANGED <<try, agentVars, evalVars>>

\* The run is cancelled while execute() is under way.
RunCancelled ==
    /\ Awaiting
    /\ Blame("cancel")
    /\ End("cancelled", events)
    /\ UNCHANGED <<try, agentVars, evalVars>>

\* The run is cancelled while _run_job sleeps.
CancelledInBackoff ==
    /\ stage = "backoff"
    /\ outcome' = "cancelled"
    /\ stage' = "ended"
    /\ Blame("cancel")
    /\ UNCHANGED <<try, agentVars, processVars, evalVars, diskVars>>

\* The next try: a new recorder, a new workspace.
Retry ==
    /\ stage = "backoff"
    /\ stage' = "start"
    /\ try' = try + 1
    /\ events' = <<>>
    /\ exitLink' = FALSE
    /\ judged' = NoTrace
    /\ scores' = 0
    /\ faults' = {}
    /\ UNCHANGED <<outcome, processVars, diskVars>>

Progress ==
    \/ EnterWorkspace
    \/ EnterFails
    \/ \E kind \in {"tool", "violation"} : AgentActs(kind)
    \/ AgentStartsCommand
    \/ AgentCommandEnds
    \/ AgentStops
    \/ AgentCrashes
    \/ DiffFails
    \/ \E o \in {"infra", "fatal"} : ProviderFails(o)
    \/ EvaluatorScores
    \/ EvaluatorStartsCommand
    \/ EvaluatorCommandEnds
    \/ EvaluatorRaises
    \/ EvaluationTimesOut
    \/ Complete
    \/ Retry

Next ==
    \/ Progress
    \/ JobTimesOut
    \/ RunCancelled
    \/ CancelledInBackoff

Spec == Init /\ [][Next]_vars

\* The event loop runs what is ready, and the job timeout is armed at every
\* await of every try.  Nothing says that a command or the provider answers.
Fairness ==
    /\ WF_vars(EnterWorkspace \/ EnterFails)
    /\ WF_vars(JobTimesOut)
    /\ WF_vars(Complete)
    /\ WF_vars(Retry)

FairSpec == Spec /\ Fairness

-----------------------------------------------------------------------------
\* What `evalforge trajectory` and the API show of the attempt: only the result
\* of a completed one names its trace.
LookUp == IF outcome = "completed" THEN file ELSE NoTrace

\* The shape of the state; the workspace exists exactly while it is used.
TypeOK ==
    /\ stage \in {"start", "agent", "evaluate", "backoff", "ended"}
    /\ try \in 1 .. MaxTries
    /\ outcome \in Outcomes \cup {"none"}
    /\ events \in Seq({"tool", "violation", "agent_error"})
    /\ workspace = (stage \in {"agent", "evaluate"})
    /\ exitLink \in BOOLEAN
    /\ command => workspace
    /\ orphan \in BOOLEAN
    /\ scores \in 0 .. NumEvaluators
    /\ faults \subseteq Faults

\* An attempt is scored on what is kept of it: a completed attempt has a score
\* from every evaluator of its last try, they all read the trace of that try,
\* and that trace, whole, is what anybody is shown.
ScoredOnKeptTrace ==
    outcome = "completed" /\ stage = "ended" =>
        /\ scores = NumEvaluators
        /\ judged = Trace(events)
        /\ LookUp = judged

\* "Keep the trace": unless the disk failed, an attempt that ends through any
\* handler of execute leaves the whole trace of its last try, never that of an
\* earlier one.
LastTraceKept ==
    stage \in {"backoff", "ended"} /\ ~diskFailed /\ outcome # "crash" =>
        file = Trace(events)

\* A command outlives a try only where the try was cut short by a clock or by
\* a cancellation, in this try or an earlier one: no other end leaves one.
OrphansExplained ==
    orphan => try > 1 \/ faults \cap {"time", "cancel", "evaluator"} # {}

\* What an attempt leaves behind, however it ended: the trace it was scored on,
\* or the trace of its last try, and no running command that a timeout or a
\* cancellation does not explain.
AttemptSettled == ScoredOnKeptTrace /\ LastTraceKept /\ OrphansExplained

\* What an agent does to itself is measured, not blamed on the harness: a try
\* in which nobody else failed ends in a verdict (as long as the agent leaves
\* no link that leads out of its workspace).
AgentFailureMeasured ==
    stage \in {"backoff", "ended"} /\ faults \subseteq {"agent"}
        /\ ~diskFailed /\ ~exitLink
    => outcome = "completed"

\* Under the job timeout an attempt ends, whatever hangs in it.
AttemptEnds == <>(stage = "ended")

-----------------------------------------------------------------------------
\* README: an escape is recorded rather than raised, "so a containment breach
\* produces a measurable safety metric".
EscapeMeasured ==
    stage = "ended" /\ faults = {"agent"} /\ ~diskFailed
    => outcome = "completed"
=============================================================================
