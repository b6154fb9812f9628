---------------------------- MODULE ScriptedAgent ----------------------------
(***************************************************************************)
(* A scripted attempt (agent/scripted.py): a policy meets a case whose     *)
(* fault is known, and calls the tools that a model would call.  It is the *)
(* control of the platform: how it ends is known beforehand.               *)
(*                                                                         *)
(* It awaits the test command only ("checking").  An attempt is by a model *)
(* or by a policy: `pc` and `batch`, the calls that are still to be made,  *)
(* serve both, the conversation stays that of a model.                     *)
(***************************************************************************)
EXTENDS ModelAgent

CONSTANTS
    Controls,   \* policies, each with the fault and the target of its case
    NotesPath,  \* SCOPE_CREEP_PATH
    NoPolicy    \* an attempt by a model

\* ScriptedPolicy and CaseMetadata; the solution is the fixed text of a file of
\* the case (datasets/builder.py), which no policy has reason to touch otherwise
\* and which does not end with the remark of a botched edit.
ASSUME ControlsAssumption ==
    /\ NoPolicy \notin Controls
    /\ NotesPath \in STRING \ DOMAIN Solved
    /\ {"pwned", "note", "reviewed"} \subseteq Words
    /\ DOMAIN Solved \subseteq Paths \cap STRING
    /\ \A p \in DOMAIN Solved : Solved[p] # <<>> => Last(Solved[p]) # "reviewed"
    /\ \A p \in Controls :
          /\ p.redundant_reads \in Nat
          /\ p.target \in STRING
          /\ p.escape_attempts \in Seq(STRING \ DOMAIN Solved)

VARIABLE policy \* ScriptedAgent.policy, with its case

-----------------------------------------------------------------------------
Handles(p) == p.repairs_everything \/ p.bug_kind \in p.repairs
Botches(p) == ~Handles(p) /\ p.bug_kind \in p.botches

Reading(path) == [tool |-> "read_file", path |-> path]
Writing(path, text) == [tool |-> "write_file", path |-> path, contents |-> text]

\* case.reference_solution, in any order.
Fixes == LET order == SetToSeq(DOMAIN Solved)
         IN [k \in DOMAIN order |-> Writing(order[k], Solved[order[k]])]

\* The calls of ScriptedAgent.run.  What a botched edit writes is known when it
\* is made only.
Script(p) ==
    << [tool |-> "list_files"] >>
    \o (IF p.read_before_edit
        THEN [k \in 1 .. 1 + p.redundant_reads |-> Reading(p.target)] ELSE <<>>)
    \o (IF Handles(p) THEN Fixes
        ELSE IF Botches(p) THEN << [tool |-> "botch", path |-> p.target] >> ELSE <<>>)
    \o [k \in DOMAIN p.escape_attempts |-> Writing(p.escape_attempts[k], <<"pwned">>)]
    \o (IF p.scope_creep THEN << Writing(NotesPath, <<"note">>) >> ELSE <<>>)
    \o << [tool |-> "run_tests"], [tool |-> "submit"] >>

ScriptInit(p) ==
    /\ FreshTools
    /\ pc = "scripted"
    /\ step = 0
    /\ messages = <<>>
    /\ batch = Script(p)
    /\ policy = p

\* The call as it is made: the target is read past the tools, with a remark
\* added to it.
Made(c) ==
    IF c.tool = "botch" THEN Writing(c.path, Append(files[c.path], "reviewed")) ELSE c

Makes(c) == c.tool = "botch" => Readable(c)

NextCall ==
    /\ batch' = Tail(batch)
    /\ pc' = IF Len(batch) = 1 THEN "ended" ELSE "scripted"
    /\ UNCHANGED <<step, messages>>

\* A refused or failed call is passed over.
ScriptCall ==
    /\ pc = "scripted"
    /\ Makes(Head(batch))
    /\ Invoke(Made(Head(batch)), FALSE)
    /\ NextCall

ScriptCrash ==
    /\ pc = "scripted"
    /\ Makes(Head(batch))
    /\ Invoke(Made(Head(batch)), TRUE)
    /\ pc' = "crashed"
    /\ UNCHANGED <<step, messages, batch>>

\* Workspace.read_file raises outside of any tool: no call is on the trace.
BotchRaises ==
    /\ pc = "scripted"
    /\ ~Makes(Head(batch))
    /\ Record(<<AgentError("exception")>>)
    /\ pc' = "crashed"
    /\ UNCHANGED <<files, submitted, faults, step, messages, batch>>

ScriptTests ==
    /\ pc = "scripted"
    /\ StartTests(Head(batch))
    /\ pc' = "checking"
    /\ UNCHANGED <<step, messages, batch>>

ScriptTestsEnd ==
    /\ pc = "checking"
    /\ FinishTests
    /\ NextCall

ScriptCancelled ==
    /\ pc = "checking"
    /\ pc' = "cancelled"
    /\ UNCHANGED <<toolVars, step, messages, batch>>

ScriptNext ==
    \/ ScriptCall
    \/ ScriptCrash
    \/ BotchRaises
    \/ ScriptTests
    \/ ScriptTestsEnd
    \/ ScriptCancelled

-----------------------------------------------------------------------------
\* The files that the tests need.
Passing == \A p \in DOMAIN Solved : files[p] = Solved[p]

\* What the controls are there for (scripted.py:1 and :108): unless the disk
\* fails or the code under test changes files, a policy that handles the fault
\* ends with the solution, one that does not ends without it, nothing changes
\* but what the policy is about, and an escape is refused or is an edit on the
\* trace.
ControlsHold ==
    policy # NoPolicy /\ pc = "ended" /\ faults = <<>> =>
        LET tried == Range(policy.escape_attempts)
            traced(kind) == {events[k].path : k \in Kinds(kind)}
            meant == (IF Handles(policy) THEN DOMAIN Solved ELSE {})
                     \cup (IF Botches(policy) THEN {policy.target} ELSE {})
                     \cup (IF policy.scope_creep THEN {NotesPath} ELSE {})
        IN /\ Handles(policy) => Passing
           /\ ~Handles(policy) /\ Passing =>
                \A p \in DOMAIN Solved : InitialFiles[p] = Solved[p]
           /\ Touched \subseteq meant \cup tried
           /\ \A p \in tried : p \in traced(IF Outside(p) THEN "SafetyViolation" ELSE "FileEdit")
=============================================================================
