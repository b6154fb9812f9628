------------------------------- MODULE Replay -------------------------------
(***************************************************************************)
(* An attempt and its replay (agent/replay.py): the calls on the trace of  *)
(* an attempt are made again in a fresh workspace of the same case.        *)
(*                                                                         *)
(* The variables of ToolBox belong to the attempt first and to the replay  *)
(* afterwards; `recording` and `reached` keep the trace and the files of   *)
(* the attempt.  Any trace that was saved can be replayed, that of a       *)
(* cancelled or crashed attempt included.                                  *)
(***************************************************************************)
EXTENDS ScriptedAgent

CONSTANT Separators     \* snippets at which str.splitlines ends a line and that
                        \* JSON does not escape, U+2028 for one

VARIABLES
    recording,  \* ReplayAgent.trajectory
    reached,    \* history: files at the end of the attempt
    next,       \* index of the next event of the recording
    skipped     \* ReplayAgent._skipped

replayVars == <<policy, recording, reached, next, skipped>>
vars == <<toolVars, agentVars, replayVars>>

Init ==
    /\ \/ AgentInit /\ policy = NoPolicy
       \/ \E p \in Controls : ScriptInit(p)
    /\ recording = <<>>
    /\ reached = InitialFiles
    /\ next = 1
    /\ skipped = <<>>

Attempting == (AgentNext \/ ScriptNext) /\ UNCHANGED replayVars

Over == pc \in {"ended", "raised", "crashed", "cancelled"}

\* The snippets in an event: those in the arguments of its call, or in its edit.
\* No output of a tool has others, as long as no file of the case has any.
Snippets(e) ==
    CASE IsCall(e) /\ e.call.tool = "write_file" -> Range(e.call.contents)
      [] IsCall(e) /\ e.call.tool = "replace_text" -> {e.call.old, e.call.new}
      [] e.kind = "FileEdit" -> Range(e.contents)
      [] OTHER -> {}

\* to_jsonl writes a line per event; from_jsonl cuts the text with splitlines,
\* which must give the same lines.
RoundTrips(es) == \A k \in DOMAIN es : Snippets(es[k]) \cap Separators = {}

\* load_trajectory raises ReplayError.
LoadFails ==
    /\ Over
    /\ ~RoundTrips(events)
    /\ pc' = "unloadable"
    /\ UNCHANGED <<toolVars, step, messages, batch, replayVars>>

\* The trace of an attempt is read back and given to a replay.
StartReplay ==
    /\ Over
    /\ RoundTrips(events)
    /\ recording' = events
    /\ reached' = files
    /\ files' = InitialFiles
    /\ events' = << [kind |-> "TaskStarted"] >>
    /\ submitted' = FALSE
    /\ pc' = "replaying"
    /\ UNCHANGED <<faults, step, messages, batch, policy, next, skipped>>

Event == recording[next]
At(kind) == pc = "replaying" /\ next <= Len(recording) /\ Event.kind = kind

Advance ==
    /\ next' = next + 1
    /\ UNCHANGED <<pc, step, messages, batch, policy, recording, reached>>

ReplayModelCall ==
    /\ At("ModelCall")
    /\ Record(<<[kind |-> "ModelCall", cached |-> TRUE]>>)
    /\ Advance
    /\ UNCHANGED <<files, submitted, faults, skipped>>

ReplayAgentError ==
    /\ At("AgentError")
    /\ Record(<<Event>>)
    /\ Advance
    /\ UNCHANGED <<files, submitted, faults, skipped>>

\* Results, edits, command runs, violations and submissions come again from the
\* calls.
PassOver ==
    /\ \E kind \in {"TaskStarted", "ToolResult", "FileEdit", "CommandRun",
                    "SafetyViolation", "Submission"} : At(kind)
    /\ Advance
    /\ UNCHANGED <<toolVars, skipped>>

\* The tools that _replay_call knows.
Replayable == {"list_files", "read_file", "write_file", "run_tests", "submit"}

ReplayCall ==
    /\ At("ToolCall")
    /\ Event.call.tool \in Replayable
    /\ Invoke(Event.call, FALSE)
    /\ Advance
    /\ UNCHANGED skipped

ReplayCrash ==
    /\ At("ToolCall")
    /\ Event.call.tool \in Replayable
    /\ Invoke(Event.call, TRUE)
    /\ pc' = "replayed"
    /\ UNCHANGED <<step, messages, batch, replayVars>>

ReplayTests ==
    /\ At("ToolCall")
    /\ StartTests(Event.call)
    /\ pc' = "retesting"
    /\ UNCHANGED <<step, messages, batch, replayVars>>

ReplayTestsEnd ==
    /\ pc = "retesting"
    /\ FinishTests
    /\ pc' = "replaying"
    /\ next' = next + 1
    /\ UNCHANGED <<step, messages, batch, policy, recording, reached, skipped>>

Skip ==
    /\ At("ToolCall")
    /\ Event.call.tool \notin Replayable
    /\ skipped' = Append(skipped, Event.call.tool)
    /\ Advance
    /\ UNCHANGED toolVars

\* Mutant: the replay stops at the submission.
EndReplayAtSubmission ==
    /\ pc = "replaying"
    /\ next > Len(recording) \/ submitted
    /\ pc' = "replayed"
    /\ UNCHANGED <<toolVars, step, messages, batch, replayVars>>

EndReplay ==
    /\ pc = "replaying"
    /\ next > Len(recording)
    /\ pc' = "replayed"
    /\ UNCHANGED <<toolVars, step, messages, batch, replayVars>>

\* The code under test changes a file of the attempt, until the trace is read
\* back, or of its replay.
CodeChanges ==
    /\ pc \notin {"replayed", "unloadable"}
    /\ CommandChanges
    /\ UNCHANGED <<agentVars, replayVars>>

Next ==
    \/ Attempting
    \/ CodeChanges
    \/ LoadFails
    \/ StartReplay
    \/ ReplayModelCall
    \/ ReplayAgentError
    \/ PassOver
    \/ ReplayCall
    \/ ReplayCrash
    \/ ReplayTests
    \/ ReplayTestsEnd
    \/ Skip
    \/ EndReplay

Spec == Init /\ [][Next]_vars

-----------------------------------------------------------------------------
AgentPlaces == {"asking", "invoking", "testing", "turning", "ended", "raised",
                "crashed", "cancelled", "scripted", "checking"}

\* Types of the attempt and of its replay.
TypeOK ==
    /\ DOMAIN files = Paths
    /\ \A p \in Paths : files[p] \in {Absent, Binary} \/ files[p] \in Text
    /\ events \in Seq(TraceEvents) /\ recording \in Seq(TraceEvents)
    /\ submitted \in BOOLEAN
    /\ Len(faults) <= MaxFaults
    /\ pc \in AgentPlaces \cup {"replaying", "retesting", "replayed", "unloadable"}
    /\ step \in 0 .. MaxSteps
    /\ batch \in Seq(Calls)
    /\ policy \in Controls \cup {NoPolicy}
    /\ next \in 1 .. Len(recording) + 1
    /\ skipped \in Seq(ToolNames)

\* CallsUpTo(es, tools)[n]: the calls of these tools among the first n events.
CallsUpTo(es, tools) ==
    LET calls[n \in 0 .. Len(es)] ==
            IF n = 0 THEN <<>>
            ELSE IF IsCall(es[n]) /\ es[n].call.tool \in tools
                 THEN Append(calls[n - 1], es[n].call)
                 ELSE calls[n - 1]
    IN  calls
CallSequence(es, tools) == CallsUpTo(es, tools)[Len(es)]

Tools(calls) == [k \in DOMAIN calls |-> calls[k].tool]

\* A replay makes again the calls that it can make, in their order, and names the
\* others: all of them, unless a tool raises in it that did not in the attempt.
\* One that named none reaches the state of the attempt: the same files, the same
\* calls and the same submission - so does every attempt by a policy.  A disk that
\* fails either of the two, or code under test that changes a file in either,
\* excuses all but the order.
ReplayReproduces ==
    pc = "replayed" =>
        /\ IsPrefix(CallSequence(events, ToolNames), CallSequence(recording, Replayable))
        /\ IsPrefix(skipped, Tools(CallSequence(recording, ToolNames \ Replayable)))
        /\ faults = <<>> =>
            /\ CallSequence(events, ToolNames) = CallSequence(recording, Replayable)
            /\ skipped = Tools(CallSequence(recording, ToolNames \ Replayable))
            /\ submitted <=> \E k \in DOMAIN recording : recording[k].kind = "Submission"
            /\ skipped = <<>> => files = reached
            /\ policy # NoPolicy => skipped = <<>>

\* The trace alone tells what an attempt did to its files and how it ended, by a
\* model or by a policy; what the code under test did to them it does not.
TraceTells == TraceTellsFiles /\ EndExplained /\ ControlsHold
=============================================================================
