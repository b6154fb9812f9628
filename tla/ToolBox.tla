------------------------------ MODULE ToolBox ------------------------------
(***************************************************************************)
(* The tools of an attempt (agent/tools.py), the files they act on         *)
(* (env/workspace.py) and the trace they leave (trace.py).                 *)
(*                                                                         *)
(* Every tool but run_tests runs to its end without an await, so it is one *)
(* action here, with the events it records in their order.  A tool may     *)
(* raise what it does not handle - a file that is not UTF-8 raises         *)
(* UnicodeDecodeError, no OSError - which `raised` tells the caller.       *)
(* run_tests runs code that the attempt has edited, in the workspace; it   *)
(* may change any file there, by an action of its own.                     *)
(*                                                                         *)
(* A file is a sequence of snippets, or Binary, or Absent.  What a tool    *)
(* prints, and the order of list_files, are left out.                      *)
(***************************************************************************)
EXTENDS Integers, SequencesExt

CONSTANTS
    InitialFiles,   \* the workspace of the case, by path
    Solved,         \* the contents of the files that pass the tests
    Absent,         \* no such file
    Binary,         \* a file that is not UTF-8
    Words,          \* snippets that texts are made of
    Leavings,       \* what code that is run may leave for a file
    MaxFaults       \* bound of the model on the length of faults

Paths == DOMAIN InitialFiles
Text == Seq(Words)

\* MaterializedSource and reference_solution hold texts, by path; the two marks
\* for other files are no texts.
ASSUME FilesAssumption ==
    /\ Absent # Binary /\ Absent \notin Text /\ Binary \notin Text
    /\ InitialFiles \in [Paths -> {Absent, Binary} \cup Text]
    /\ IsFiniteSet(DOMAIN Solved)
    /\ \A p \in DOMAIN Solved : Solved[p] \in Text
    /\ Leavings \subseteq {Absent, Binary} \cup Text
    /\ MaxFaults \in Nat

\* What a tool is called with.
ToolCalls ==
    [tool : {"list_files", "run_tests", "submit"}]
    \cup [tool : {"read_file"}, path : STRING]
    \cup [tool : {"write_file"}, path : STRING, contents : Text]
    \cup [tool : {"replace_text"}, path : STRING, old : Words, new : Words]

\* An "unusable" call reaches no tool; a "botch" stands for the write_file that
\* a policy makes of what it reads.
Calls == ToolCalls \cup [tool : {"unusable"}] \cup [tool : {"botch"}, path : STRING]

\* TrajectoryEvent
ToolNames == {"list_files", "read_file", "write_file", "replace_text", "run_tests", "submit"}
ErrorTypes == {"exception", "BudgetExceeded", "ModelBehaviourError", "StepLimitReached"}
TraceEvents ==
    [kind : {"TaskStarted", "Submission"}]
    \cup [kind : {"ModelCall"}, cached : BOOLEAN]
    \cup [kind : {"ToolCall"}, id : Nat, call : ToolCalls]
    \cup [kind : {"ToolResult"}, id : Nat, tool : ToolNames, ok : BOOLEAN]
    \cup [kind : {"FileEdit"}, path : STRING, contents : Text]
    \cup [kind : {"CommandRun"}, ok : BOOLEAN]
    \cup [kind : {"SafetyViolation"}, path : STRING]
    \cup [kind : {"AgentError"}, type : ErrorTypes]

VARIABLES
    files,      \* contents of the workspace, by path
    events,     \* TrajectoryRecorder._events
    submitted,  \* ToolBox._submitted
    faults      \* history: paths whose write the disk failed, or that the code
                \* under test has changed

toolVars == <<files, events, submitted, faults>>

FreshTools ==
    /\ files = InitialFiles
    /\ events = << [kind |-> "TaskStarted"] >>
    /\ submitted = FALSE
    /\ faults = <<>>

-----------------------------------------------------------------------------
\* The recorder.
Record(es) == events' = events \o es

IsCall(e) == e.kind = "ToolCall"
Kinds(kind) == {k \in DOMAIN events : events[k].kind = kind}

\* The id that tool_call gives to the next call, from _call_counter.
NextId == Cardinality(Kinds("ToolCall")) + 1

Called(c) == [kind |-> "ToolCall", id |-> NextId, call |-> c]
Answered(c, ok) == [kind |-> "ToolResult", id |-> NextId, tool |-> c.tool, ok |-> ok]
Edited(p, text) == [kind |-> "FileEdit", path |-> p, contents |-> text]
Escaped(p) == [kind |-> "SafetyViolation", path |-> p]
AgentError(type) == [kind |-> "AgentError", type |-> type]

\* A call that ends with a result, with the events es before it.
Complete(c, es, ok) == Record(<<Called(c)>> \o es \o <<Answered(c, ok)>>)

\* Mutant: a refused call has no result.
FailUnanswered(c, es) == Record(<<Called(c)>> \o es) /\ UNCHANGED <<files, submitted, faults>>

\* _fail: the call has a result that says why.
Fail(c, es) == Complete(c, es, FALSE) /\ UNCHANGED <<files, submitted, faults>>

\* The exception of a tool ends the agent's run; execute() records it.
Raise(c) ==
    /\ Record(<<Called(c), AgentError("exception")>>)
    /\ UNCHANGED <<files, submitted, faults>>

-----------------------------------------------------------------------------
\* Workspace.resolve refuses the path.
Outside(p) == p \notin Paths

ListFiles(c, raised) ==
    /\ ~raised
    /\ Complete(c, <<>>, TRUE)
    /\ UNCHANGED <<files, submitted, faults>>

\* What read_file and replace_text do before they have the text of a file.
Unreadable(c, raised) ==
    \/ ~raised /\ Outside(c.path) /\ Fail(c, <<Escaped(c.path)>>)
    \/ ~raised /\ ~Outside(c.path) /\ files[c.path] = Absent /\ Fail(c, <<>>)
    \/ raised /\ ~Outside(c.path) /\ files[c.path] = Binary /\ Raise(c)

Readable(c) == ~Outside(c.path) /\ files[c.path] \notin {Absent, Binary}

ReadFile(c, raised) ==
    \/ Unreadable(c, raised)
    \/ /\ ~raised /\ Readable(c)
       /\ Complete(c, <<>>, TRUE)
       /\ UNCHANGED <<files, submitted, faults>>

\* Mutant: a write leaves no file_edit.
StoreUntraced(c, text) ==
    \/ /\ files' = [files EXCEPT ![c.path] = text]
       /\ Complete(c, <<>>, TRUE)
       /\ UNCHANGED <<submitted, faults>>
    \/ /\ Len(faults) < MaxFaults
       /\ files' = files
       /\ faults' = Append(faults, c.path)
       /\ Complete(c, <<>>, FALSE)
       /\ UNCHANGED submitted

\* Workspace.write_file opens the file, which empties it, and writes it.  The
\* disk may fail before or after the file is empty.
Store(c, text) ==
    \/ /\ files' = [files EXCEPT ![c.path] = text]
       /\ Complete(c, <<Edited(c.path, text)>>, TRUE)
       /\ UNCHANGED <<submitted, faults>>
    \/ /\ Len(faults) < MaxFaults
       /\ files' \in {files, [files EXCEPT ![c.path] = <<>>]}
       /\ faults' = Append(faults, c.path)
       /\ Complete(c, <<>>, FALSE)
       /\ UNCHANGED submitted

\* The old contents are read first, for the diff.
WriteFile(c, raised) ==
    \/ ~raised /\ Outside(c.path) /\ Fail(c, <<Escaped(c.path)>>)
    \/ raised /\ ~Outside(c.path) /\ files[c.path] = Binary /\ Raise(c)
    \/ ~raised /\ ~Outside(c.path) /\ files[c.path] # Binary /\ Store(c, c.contents)

Occurrences(text, old) == {k \in DOMAIN text : text[k] = old}

\* `old` must be there exactly once; an empty one is refused.
ReplaceText(c, raised) ==
    \/ Unreadable(c, raised)
    \/ /\ ~raised /\ Readable(c)
       /\ \/ /\ c.old = "" \/ Cardinality(Occurrences(files[c.path], c.old)) # 1
             /\ Fail(c, <<>>)
          \/ /\ c.old # ""
             /\ \E k \in DOMAIN files[c.path] :
                  /\ Occurrences(files[c.path], c.old) = {k}
                  /\ Store(c, [files[c.path] EXCEPT ![k] = c.new])

Submit(c, raised) ==
    /\ ~raised
    /\ Record(<<Called(c), Answered(c, TRUE), [kind |-> "Submission"]>>)
    /\ submitted' = TRUE
    /\ UNCHANGED <<files, faults>>

\* The tools that do not await.
Invoke(c, raised) ==
    \/ c.tool = "list_files" /\ ListFiles(c, raised)
    \/ c.tool = "read_file" /\ ReadFile(c, raised)
    \/ c.tool = "write_file" /\ WriteFile(c, raised)
    \/ c.tool = "replace_text" /\ ReplaceText(c, raised)
    \/ c.tool = "submit" /\ Submit(c, raised)

-----------------------------------------------------------------------------
\* Workspace.diff against the baseline of the case.
Diff ==
    [added |-> {p \in Paths : InitialFiles[p] = Absent /\ files[p] # Absent},
     modified |-> {p \in Paths : Absent \notin {InitialFiles[p], files[p]}
                                 /\ files[p] # InitialFiles[p]},
     deleted |-> {p \in Paths : InitialFiles[p] # Absent /\ files[p] = Absent}]
Touched == UNION Range(Diff)

-----------------------------------------------------------------------------
\* run_tests, before and after its await.
StartTests(c) ==
    /\ c.tool = "run_tests"
    /\ Record(<<Called(c)>>)
    /\ UNCHANGED <<files, submitted, faults>>

\* The command ends by itself or by its timeout, and whether it is ok does not
\* depend on what the tools have written alone.
FinishTests ==
    /\ \E ok \in BOOLEAN :
         Record(<<[kind |-> "CommandRun", ok |-> ok],
                  [kind |-> "ToolResult", id |-> NextId - 1,
                   tool |-> "run_tests", ok |-> ok]>>)
    /\ UNCHANGED <<files, submitted, faults>>

\* What the command starts runs in the workspace as soon as it was called and,
\* in the background, for as long as there is a workspace.  It may write, create
\* or delete any file; nothing on the trace says so.
CommandChanges ==
    /\ \E k \in DOMAIN events : IsCall(events[k]) /\ events[k].call.tool = "run_tests"
    /\ Len(faults) < MaxFaults
    /\ \E p \in Paths, left \in Leavings :
         /\ files' = [files EXCEPT ![p] = left]
         /\ faults' = Append(faults, p)
    /\ UNCHANGED <<events, submitted>>
=============================================================================
