----------------------------- MODULE ModelAgent -----------------------------
(***************************************************************************)
(* An attempt by a model (agent/model_agent.py): the conversation with the *)
(* model and the tools that it calls.                                      *)
(*                                                                         *)
(* The agent awaits the model (pc = "asking") and a test command           *)
(* ("testing"); there, and only there, it can be cancelled.  A response is *)
(* the sequence of the calls in it, empty when the model answers in prose. *)
(*                                                                         *)
(* The agent dispatches on the name of a tool, whatever surface it offered *)
(* to the model.  Arguments that are no JSON object, a missing argument    *)
(* and an unknown tool are one kind of call, "unusable": _invoke answers   *)
(* them all without touching the tools.                                    *)
(***************************************************************************)
EXTENDS ToolBox

CONSTANTS
    Responses,  \* responses of the model, each a sequence of calls
    MaxSteps    \* max_steps

\* ModelAgentConfig.__post_init__; ModelResponse.tool_calls.
ASSUME AgentAssumption ==
    /\ MaxSteps \in Nat \ {0}
    /\ Responses \subseteq Seq(Calls)

VARIABLES
    pc,         \* where the attempt stands
    step,       \* responses received
    messages,   \* the conversation
    batch       \* calls of the last response that are still to be made

agentVars == <<pc, step, messages, batch>>

System == [role |-> "system"]
User == [role |-> "user"]
Assistant(calls) == [role |-> "assistant", calls |-> calls]
ToolMessage(c) == [role |-> "tool", call |-> c]

AgentInit ==
    /\ FreshTools
    /\ pc = "asking"
    /\ step = 0
    /\ messages = <<System, User>>
    /\ batch = <<>>

-----------------------------------------------------------------------------
\* _NUDGE, after an answer in prose.
Nudge(calls) == IF calls = <<>> THEN <<User>> ELSE <<>>

\* The model answers.
Respond(calls) ==
    /\ pc = "asking"
    /\ Record(<<[kind |-> "ModelCall", cached |-> FALSE]>>)
    /\ step' = step + 1
    /\ messages' = messages \o <<Assistant(calls)>> \o Nudge(calls)
    /\ batch' = calls
    /\ pc' = IF calls = <<>> THEN "turning" ELSE "invoking"
    /\ UNCHANGED <<files, submitted, faults>>

\* BudgetExceeded or ModelBehaviourError: the attempt is scored as it is.
GiveUp(type) ==
    /\ pc = "asking"
    /\ Record(<<AgentError(type)>>)
    /\ pc' = "ended"
    /\ UNCHANGED <<files, submitted, faults, step, messages, batch>>

\* PermanentModelError or TransientModelError: the scheduler decides.
ModelFails ==
    /\ pc = "asking"
    /\ pc' = "raised"
    /\ UNCHANGED <<toolVars, step, messages, batch>>

\* The answer to the first call of the batch goes into the conversation.
Reply ==
    /\ messages' = Append(messages, ToolMessage(Head(batch)))
    /\ batch' = Tail(batch)
    /\ pc' = IF Len(batch) = 1 THEN "turning" ELSE "invoking"
    /\ UNCHANGED step

\* _invoke answers a call without making it.
Refuse ==
    /\ pc = "invoking"
    /\ Head(batch).tool = "unusable"
    /\ Reply
    /\ UNCHANGED toolVars

Use ==
    /\ pc = "invoking"
    /\ Invoke(Head(batch), FALSE)
    /\ Reply

Crash ==
    /\ pc = "invoking"
    /\ Invoke(Head(batch), TRUE)
    /\ pc' = "crashed"
    /\ UNCHANGED <<step, messages, batch>>

BeginTests ==
    /\ pc = "invoking"
    /\ StartTests(Head(batch))
    /\ pc' = "testing"
    /\ UNCHANGED <<step, messages, batch>>

EndTests ==
    /\ pc = "testing"
    /\ FinishTests
    /\ Reply

\* Mutant: one step too many.
TurnOneMore ==
    /\ pc = "turning"
    /\ pc' = IF submitted \/ step > MaxSteps THEN "ended" ELSE "asking"
    /\ UNCHANGED <<toolVars, step, messages, batch>>

\* The end of a turn of the loop over the steps.
Turn ==
    /\ pc = "turning"
    /\ \/ /\ submitted
          /\ pc' = "ended"
          /\ UNCHANGED events
       \/ /\ ~submitted /\ step = MaxSteps
          /\ Record(<<AgentError("StepLimitReached")>>)
          /\ pc' = "ended"
       \/ /\ ~submitted /\ step < MaxSteps
          /\ pc' = "asking"
          /\ UNCHANGED events
    /\ UNCHANGED <<files, submitted, faults, step, messages, batch>>

\* The job timeout or a cancellation of the run.
CancelAttempt ==
    /\ pc \in {"asking", "testing"}
    /\ pc' = "cancelled"
    /\ UNCHANGED <<toolVars, step, messages, batch>>

AgentNext ==
    \/ \E calls \in Responses : Respond(calls)
    \/ \E type \in {"BudgetExceeded", "ModelBehaviourError"} : GiveUp(type)
    \/ ModelFails
    \/ Refuse
    \/ Use
    \/ Crash
    \/ BeginTests
    \/ EndTests
    \/ Turn
    \/ CancelAttempt

-----------------------------------------------------------------------------
\* A request has a conversation that a provider accepts: every call of an
\* assistant's message is answered, once and in order, before anybody else
\* speaks, and the assistant does not have the last word.
RequestsWellFormed ==
    pc = "asking" =>
        /\ messages[Len(messages)].role # "assistant"
        /\ \A i \in DOMAIN messages : messages[i].role = "assistant" =>
             LET calls == messages[i].calls IN
             /\ i + Len(calls) <= Len(messages)
             /\ \A k \in DOMAIN calls : messages[i + k] = ToolMessage(calls[k])
             /\ i + Len(calls) < Len(messages)
                  => messages[i + Len(calls) + 1].role # "tool"

\* Positions of the trace that hold a result of the call with this id.
ResultsOf(id) ==
    {k \in DOMAIN events : events[k].kind = "ToolResult" /\ events[k].id = id}

\* Every tool call on the trace has one result, recorded before the next call
\* and under the name of its tool.  Only a call that raised, or during which the
\* attempt was cancelled, has none, and then it is the last one.
CallsHaveResults ==
    \A i \in DOMAIN events : IsCall(events[i]) =>
        LET id == events[i].id
            later == {j \in DOMAIN events : j > i /\ IsCall(events[j])}
        IN  \/ /\ Cardinality(ResultsOf(id)) = 1
               /\ \A k \in ResultsOf(id) :
                    /\ k > i
                    /\ events[k].tool = events[i].call.tool
                    /\ \A j \in later : k < j
            \/ /\ ResultsOf(id) = {} /\ later = {}
               /\ pc \in {"testing", "checking", "retesting", "crashed", "cancelled",
                         "replayed", "unloadable"}

\* The contents that the edits on the trace give to a file.
Traced(p) ==
    LET edits == {k \in DOMAIN events :
                    events[k].kind = "FileEdit" /\ events[k].path = p}
    IN  IF edits = {} THEN InitialFiles[p]
        ELSE events[CHOOSE k \in edits : \A j \in edits : j <= k].contents

\* The edits on the trace add up to the workspace that is scored, for every file
\* that neither the disk has failed nor the code under test has changed, and the
\* diff names no other file without an edit.
TraceTellsFiles ==
    /\ \A p \in Paths : p \notin Range(faults) => files[p] = Traced(p)
    /\ Touched \subseteq {events[k].path : k \in Kinds("FileEdit")} \cup Range(faults)

\* An attempt that ends by itself says how: with a submission and no error of
\* the agent, or with exactly one error and no submission.
EndExplained ==
    pc = "ended" =>
        /\ submitted <=> Kinds("Submission") # {}
        /\ submitted => Kinds("AgentError") = {}
        /\ ~submitted => Cardinality(Kinds("AgentError")) = 1

\* No call of the model is lost: each one is answered in the conversation, and
\* each one that reached a tool has its result on the trace.
CallsAnswered == RequestsWellFormed /\ CallsHaveResults
=============================================================================
