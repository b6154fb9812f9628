---------------------------- MODULE ReplayProofs ----------------------------
(***************************************************************************)
(* Theorems about an attempt and its replay (Replay.tla, with ModelAgent,  *)
(* ScriptedAgent and ToolBox), for every case, every conversation, every   *)
(* policy and every number of steps.                                       *)
(***************************************************************************)
EXTENDS Replay, FunctionTheorems, FiniteSetTheorems, SequenceTheorems, WellFoundedInduction, TLAPS

\* Where the next call is about to be made, and where a test command runs.
Calling == {"invoking", "scripted", "replaying"}
Testing == {"testing", "checking", "retesting"}

\* An attempt that has not come to an end.
Working == {"asking", "invoking", "testing", "turning", "scripted", "checking"}

CallCount == Cardinality(Kinds("ToolCall"))

\* Calls are numbered in their order, and results carry numbers of calls.
Numbered ==
    /\ \A i \in Kinds("ToolCall") \cup Kinds("ToolResult") :
          events[i].id \in 1 .. CallCount
    /\ \A i, j \in Kinds("ToolCall") : i < j => events[i].id < events[j].id

ResultsIn(es, id) == {k \in DOMAIN es : es[k].kind = "ToolResult" /\ es[k].id = id}

\* The call at i has its result, before the next call.
HasResult(i) ==
    \E r \in DOMAIN events :
        /\ ResultsIn(events, events[i].id) = {r}
        /\ r > i /\ events[r].tool = events[i].call.tool
        /\ \A j \in Kinds("ToolCall") : j > i => r < j

\* It is the last one and has none.
Unanswered(i) ==
    /\ ResultsIn(events, events[i].id) = {}
    /\ \A j \in Kinds("ToolCall") : j <= i

Interrupted ==
    {"testing", "checking", "retesting", "crashed", "cancelled", "replayed", "unloadable"}

\* CallsHaveResults without the cardinalities.
ResultsInOrder ==
    \A i \in Kinds("ToolCall") : HasResult(i) \/ (Unanswered(i) /\ pc \in Interrupted)

\* While the tests run their call is the last one, without a result.
TestsUnderWay ==
    pc \in Testing =>
        \E i \in Kinds("ToolCall") :
            /\ events[i].id = CallCount
            /\ events[i].call.tool = "run_tests"
            /\ ResultsIn(events, events[i].id) = {}

\* The message of an assistant whose calls have been answered up to the n-th.
AnsweredUpTo(i, n) ==
    /\ i + n <= Len(messages)
    /\ \A k \in 1 .. n : messages[i + k] = ToolMessage(messages[i].calls[k])

Spoken(i) == i \in DOMAIN messages /\ messages[i].role = "assistant"

\* All its calls are answered, and no other answer follows.
Settled(i) ==
    /\ AnsweredUpTo(i, Len(messages[i].calls))
    /\ i + Len(messages[i].calls) < Len(messages)
         => messages[i + Len(messages[i].calls) + 1].role # "tool"

\* The last message of the assistant is being answered: the batch is what is left.
Answering(i) ==
    LET calls == messages[i].calls
        done == Len(messages) - i
    IN
    /\ Spoken(i)
    /\ done < Len(calls)
    /\ AnsweredUpTo(i, done)
    /\ batch = SubSeq(calls, done + 1, Len(calls))
    /\ \A j \in DOMAIN messages : Spoken(j) /\ j # i =>
          Settled(j) /\ j + Len(messages[j].calls) < i

Messages ==
    [role : {"system", "user"}]
    \cup [role : {"assistant"}, calls : Seq(Calls)]
    \cup [role : {"tool"}, call : Calls]

Conversing ==
    /\ messages \in Seq(Messages)
    /\ pc \in {"asking", "turning"} =>
          /\ messages # <<>> /\ messages[Len(messages)].role # "assistant"
          /\ \A i \in DOMAIN messages : Spoken(i) => Settled(i)
    /\ pc \in {"invoking", "testing"} => \E i \in DOMAIN messages : Answering(i)

\* What is left of a policy's calls ends with the submission.
ScriptGoesOn ==
    /\ pc \in {"scripted", "checking"} =>
          batch # <<>> /\ batch[Len(batch)].tool = "submit"
    /\ pc = "checking" => batch[1].tool = "run_tests"

\* An attempt ends at its first error, and a model is asked only before it has
\* submitted and within its steps.
EndsOnce ==
    /\ submitted <=> Kinds("Submission") # {}
    /\ pc \in Working => Kinds("AgentError") = {}
    /\ pc = "asking" => ~submitted /\ step < MaxSteps

EditsOf(p) == {k \in Kinds("FileEdit") : events[k].path = p}

\* A file that neither the disk has failed nor the code under test has changed is
\* what its last edit made of it.
FilesTraced ==
    \A p \in Paths : p \notin Range(faults) =>
        \/ EditsOf(p) = {} /\ files[p] = InitialFiles[p]
        \/ \E k \in EditsOf(p) :
              /\ \A j \in EditsOf(p) : j <= k
              /\ files[p] = events[k].contents

\* Nothing is replayed before the attempt is over, and a test command runs again
\* for an event of the recording.
ReplayLater ==
    /\ pc \in AgentPlaces => next = 1 /\ recording = <<>>
    /\ pc = "retesting" => next <= Len(recording)

Remarked(text) == text # <<>> /\ text[Len(text)] = "reviewed"

\* A call of a policy has left on the trace and in the workspace what it meant to.
Done(c) ==
    c.tool = "write_file" =>
        IF c.path \in Paths
        THEN /\ \E k \in Kinds("FileEdit") : events[k].path = c.path
             /\ c.path \in DOMAIN Solved => files[c.path] = c.contents
        ELSE \E k \in Kinds("SafetyViolation") : events[k].path = c.path

\* The files that a policy is about.
MeantBy(p) ==
    (IF Handles(p) THEN DOMAIN Solved ELSE {})
    \cup (IF Botches(p) THEN {p.target} ELSE {})
    \cup (IF p.scope_creep THEN {NotesPath} ELSE {})
    \cup Range(p.escape_attempts)

\* As long as there is no fault - of the disk, or of the code under test - every
\* call of the script is still to be made or done, and nothing else has happened
\* to the files.
OnScript ==
    /\ \A c \in Range(Script(policy)) : c \in Range(batch) \/ Done(c)
    /\ Range(batch) \subseteq Range(Script(policy))
    /\ \A p \in Paths : files[p] # InitialFiles[p] => p \in MeantBy(policy)
    /\ ~Handles(policy) =>
          \A p \in DOMAIN Solved : files[p] = InitialFiles[p] \/ Remarked(files[p])

\* A policy goes by its script, and a model has none.
Controlled ==
    /\ pc \in {"asking", "invoking", "testing", "turning"} => policy = NoPolicy
    /\ pc \in {"scripted", "checking"} => policy \in Controls
    /\ policy # NoPolicy /\ pc = "ended" => batch = <<>>
    /\ policy # NoPolicy /\ pc \in {"scripted", "checking", "ended"} /\ faults = <<>> => OnScript

Typed ==
    /\ TypeOK
    /\ files \in [Paths -> {Absent, Binary} \cup Text]
    /\ faults \in Seq(Paths)

IInv ==
    /\ Typed
    /\ ReplayLater
    /\ Numbered
    /\ ResultsInOrder
    /\ TestsUnderWay
    /\ Conversing
    /\ ScriptGoesOn
    /\ EndsOnce
    /\ EndExplained
    /\ FilesTraced

\* All the calls on a trace.
All(es) == CallSequence(es, ToolNames)

\* A call that raises: on a file of the case that is not UTF-8.
OnBinary(c) ==
    /\ c.tool \in {"read_file", "write_file", "replace_text"}
    /\ c.path \in Paths /\ InitialFiles[c.path] = Binary

\* The places of the writes to a file among calls.
WritesTo(calls, p) == {k \in DOMAIN calls : calls[k].tool = "write_file" /\ calls[k].path = p}

\* The files that calls without a replace_text leave behind: as the last write
\* made them.
LeftBy(calls, fs) ==
    \A p \in Paths :
        \/ /\ InitialFiles[p] = Binary \/ WritesTo(calls, p) = {}
           /\ fs[p] = InitialFiles[p]
        \/ /\ InitialFiles[p] # Binary
           /\ \E k \in WritesTo(calls, p) :
                 /\ \A j \in WritesTo(calls, p) : j <= k
                 /\ fs[p] = calls[k].contents

NoReplace(calls) == \A k \in DOMAIN calls : calls[k].tool # "replace_text"

\* The state of the tools is what the calls on the trace make of a fresh
\* workspace, unless there is a fault.
Effected ==
    /\ submitted <=> \E k \in Kinds("ToolCall") : events[k].call.tool = "submit"
    /\ faults = <<>> => \A p \in Paths : files[p] = Binary <=> InitialFiles[p] = Binary
    /\ faults = <<>> /\ NoReplace(All(events)) => LeftBy(All(events), files)

\* An attempt calls a file that is not UTF-8 last, and crashes of it; a policy
\* calls only what a replay can call.
Attempted ==
    pc \in AgentPlaces =>
        /\ skipped = <<>>
        /\ faults = <<>> => \A i \in Kinds("ToolCall") : OnBinary(events[i].call) =>
              pc = "crashed" /\ \A j \in Kinds("ToolCall") : j <= i
        /\ policy # NoPolicy =>
              /\ \A i \in Kinds("ToolCall") : events[i].call.tool \in Replayable
              /\ \A c \in Range(batch) : c.tool \in Replayable \cup {"botch"}

\* The places of the calls on a trace.
CallsIn(es) == {k \in DOMAIN es : IsCall(es[k])}

\* What holds of the attempt that is replayed.
Recorded ==
    pc \in {"replaying", "retesting", "replayed"} =>
        /\ reached \in [Paths -> {Absent, Binary} \cup Text]
        /\ (\E k \in DOMAIN recording : recording[k].kind = "Submission") <=>
               \E k \in CallsIn(recording) : recording[k].call.tool = "submit"
        /\ faults = <<>> => \A i, j \in CallsIn(recording) :
               OnBinary(recording[i].call) => j <= i
        /\ faults = <<>> /\ NoReplace(All(recording)) => LeftBy(All(recording), reached)
        /\ policy # NoPolicy =>
               \A i \in CallsIn(recording) : recording[i].call.tool \in Replayable

\* The first n events of the recording have been replayed.
Repeated(n) ==
    /\ All(events) = CallsUpTo(recording, Replayable)[n]
    /\ skipped = Tools(CallsUpTo(recording, ToolNames \ Replayable)[n])

\* The events up to some place of the recording have been replayed.
PartRepeated == \E n \in 0 .. Len(recording) : Repeated(n)

\* A replay has come as far as its place in the recording says.
Followed ==
    /\ pc = "replaying" => Repeated(next - 1)
    /\ pc = "retesting" => Repeated(next)
    /\ pc = "replayed" => PartRepeated
    /\ pc = "replayed" /\ faults = <<>> => Repeated(Len(recording))

\* With IInv and Controlled, the inductive invariant of the replay.
Faithful == Effected /\ Attempted /\ Recorded /\ Followed

-----------------------------------------------------------------------------
(***************************************************************************)
(* The trace grows                                                         *)
(***************************************************************************)

\* The trace grows and keeps what it has.
Grows ==
    /\ events \in Seq(TraceEvents) /\ events' \in Seq(TraceEvents)
    /\ Len(events') >= Len(events)
    /\ \A k \in 1 .. Len(events) : events'[k] = events[k]

News == Len(events) + 1 .. Len(events')

LEMMA RecordGrows ==
  ASSUME events \in Seq(TraceEvents), NEW es \in Seq(TraceEvents), Record(es)
  PROVE  /\ Grows
         /\ Len(events') = Len(events) + Len(es)
         /\ \A j \in 1 .. Len(es) : events'[Len(events) + j] = es[j]
<1>1. /\ events' = events \o es /\ events' \in Seq(TraceEvents)
      /\ Len(events') = Len(events) + Len(es)
  BY ConcatProperties DEF Record
<1>2. \A k \in 1 .. Len(events) + Len(es) :
        events'[k] = IF k <= Len(events) THEN events[k] ELSE es[k - Len(events)]
  BY <1>1, ConcatProperties
<1>3. Len(events) \in Nat /\ Len(es) \in Nat
  OBVIOUS
<1>4. \A k \in 1 .. Len(events) : events'[k] = events[k]
  BY <1>2, <1>3
<1>5. ASSUME NEW j \in 1 .. Len(es) PROVE events'[Len(events) + j] = es[j]
  <2>1. Len(events) + j \in 1 .. Len(events) + Len(es) /\ ~(Len(events) + j <= Len(events))
        /\ (Len(events) + j) - Len(events) = j
    BY <1>3
  <2> QED
    BY <1>2, <2>1
<1> QED
  BY <1>1, <1>3, <1>4, <1>5 DEF Grows

LEMMA RecordOne ==
  ASSUME events \in Seq(TraceEvents), NEW a \in TraceEvents, Record(<<a>>)
  PROVE  /\ Grows /\ Len(events') = Len(events) + 1 /\ News = {Len(events) + 1}
         /\ events'[Len(events) + 1] = a
<1> DEFINE es == <<a>>
<1>1. es \in Seq(TraceEvents) /\ Len(es) = 1
      /\ es[1] = a
  OBVIOUS
<1>2. Record(es)
  OBVIOUS
<1> HIDE DEF es
<1>3. /\ Grows /\ Len(events') = Len(events) + 1
      /\ \A j \in 1 .. 1 : events'[Len(events) + j] = es[j]
  BY <1>1, <1>2, RecordGrows
<1>4. Len(events) \in Nat
  OBVIOUS
<1>5. News = {Len(events) + 1}
  BY <1>3, <1>4 DEF News
<1> QED
  BY <1>1, <1>3, <1>5

LEMMA RecordTwo ==
  ASSUME events \in Seq(TraceEvents), NEW a \in TraceEvents, NEW b \in TraceEvents,
         Record(<<a, b>>)
  PROVE  /\ Grows /\ Len(events') = Len(events) + 2
         /\ News = {Len(events) + 1, Len(events) + 2}
         /\ events'[Len(events) + 1] = a /\ events'[Len(events) + 2] = b
<1> DEFINE es == <<a, b>>
<1>1. es \in Seq(TraceEvents) /\ Len(es) = 2
      /\ es[1] = a /\ es[2] = b
  OBVIOUS
<1>2. Record(es)
  OBVIOUS
<1> HIDE DEF es
<1>3. /\ Grows /\ Len(events') = Len(events) + 2
      /\ \A j \in 1 .. 2 : events'[Len(events) + j] = es[j]
  BY <1>1, <1>2, RecordGrows
<1>4. Len(events) \in Nat
  OBVIOUS
<1>5. News = {Len(events) + 1, Len(events) + 2}
  BY <1>3, <1>4 DEF News
<1> QED
  BY <1>1, <1>3, <1>5

LEMMA RecordThree ==
  ASSUME events \in Seq(TraceEvents), NEW a \in TraceEvents, NEW b \in TraceEvents,
         NEW c \in TraceEvents, Record(<<a, b, c>>)
  PROVE  /\ Grows /\ Len(events') = Len(events) + 3
         /\ News = {Len(events) + 1, Len(events) + 2, Len(events) + 3}
         /\ events'[Len(events) + 1] = a /\ events'[Len(events) + 2] = b
         /\ events'[Len(events) + 3] = c
<1> DEFINE es == <<a, b, c>>
<1>1. es \in Seq(TraceEvents) /\ Len(es) = 3
      /\ es[1] = a /\ es[2] = b /\ es[3] = c
  OBVIOUS
<1>2. Record(es)
  OBVIOUS
<1> HIDE DEF es
<1>3. /\ Grows /\ Len(events') = Len(events) + 3
      /\ \A j \in 1 .. 3 : events'[Len(events) + j] = es[j]
  BY <1>1, <1>2, RecordGrows
<1>4. Len(events) \in Nat
  OBVIOUS
<1>5. News = {Len(events) + 1, Len(events) + 2, Len(events) + 3}
  BY <1>3, <1>4 DEF News
<1> QED
  BY <1>1, <1>3, <1>5

\* Events of a kind are those of before and those that are new.
LEMMA KindsGrow ==
  ASSUME Grows, NEW kind
  PROVE  /\ Kinds(kind)' = Kinds(kind) \cup {k \in News : events'[k].kind = kind}
         /\ \A k \in Kinds(kind) : k \in 1 .. Len(events) /\ events'[k] = events[k]
         /\ Kinds(kind) \cap News = {}
<1>1. /\ DOMAIN events = 1 .. Len(events) /\ DOMAIN events' = 1 .. Len(events')
      /\ Len(events) \in Nat /\ Len(events') \in Nat /\ Len(events') >= Len(events)
      /\ \A k \in 1 .. Len(events) : events'[k] = events[k]
  BY DEF Grows
<1>2. 1 .. Len(events') = (1 .. Len(events)) \cup News
  BY <1>1 DEF News
<1>3. (1 .. Len(events)) \cap News = {}
  BY <1>1 DEF News
<1> QED
  BY <1>1, <1>2, <1>3 DEF Kinds

LEMMA KindsFinite ==
  ASSUME events \in Seq(TraceEvents), NEW kind
  PROVE  IsFiniteSet(Kinds(kind)) /\ Cardinality(Kinds(kind)) \in Nat
<1>1. Kinds(kind) \subseteq 1 .. Len(events) /\ Len(events) \in Nat
  BY DEF Kinds
<1>2. IsFiniteSet(1 .. Len(events))
  BY <1>1, FS_Interval
<1> QED
  BY <1>1, <1>2, FS_Subset, FS_CardinalityType

-----------------------------------------------------------------------------
(***************************************************************************)
(* What a tool does to the trace and to the workspace                      *)
(***************************************************************************)

\* A call that only looks, or that is refused.
Looks(c) ==
    /\ \/ c.tool \in {"list_files", "read_file"} /\ Record(<<Called(c), Answered(c, TRUE)>>)
       \/ c.tool \in {"read_file", "replace_text"} /\ Record(<<Called(c), Answered(c, FALSE)>>)
    /\ UNCHANGED <<files, submitted, faults>>

\* A path outside of the workspace.
Escapes(c) ==
    /\ c.tool \in {"read_file", "write_file", "replace_text"} /\ Outside(c.path)
    /\ Record(<<Called(c), Escaped(c.path), Answered(c, FALSE)>>)
    /\ UNCHANGED <<files, submitted, faults>>

\* A file that is written.
Writes(c, text) ==
    /\ c.tool \in {"write_file", "replace_text"} /\ c.path \in Paths
    /\ files[c.path] # Binary
    /\ c.tool = "write_file" => text = c.contents
    /\ Record(<<Called(c), Edited(c.path, text), Answered(c, TRUE)>>)
    /\ files' = [files EXCEPT ![c.path] = text]
    /\ UNCHANGED <<submitted, faults>>

\* A write that the disk fails.
Breaks(c) ==
    /\ c.tool \in {"write_file", "replace_text"} /\ c.path \in Paths
    /\ Len(faults) < MaxFaults
    /\ Record(<<Called(c), Answered(c, FALSE)>>)
    /\ files' \in {files, [files EXCEPT ![c.path] = <<>>]}
    /\ faults' = Append(faults, c.path)
    /\ UNCHANGED submitted

Submits(c) ==
    /\ c.tool = "submit"
    /\ Record(<<Called(c), Answered(c, TRUE), [kind |-> "Submission"]>>)
    /\ submitted' = TRUE
    /\ UNCHANGED <<files, faults>>

Works(c) ==
    \/ Looks(c)
    \/ Escapes(c)
    \/ \E text \in Text : Writes(c, text)
    \/ Breaks(c)
    \/ Submits(c)

\* A tool that raises: on a file that is not UTF-8.
Raises(c) ==
    /\ c.tool \in {"read_file", "write_file", "replace_text"} /\ c.path \in Paths
    /\ files[c.path] = Binary
    /\ Raise(c)

LEMMA CallFields ==
  ASSUME NEW c \in Calls
  PROVE  /\ c.tool \in ToolNames \cup {"unusable", "botch"}
         /\ c.tool \in ToolNames <=> c \in ToolCalls
         /\ c.tool \in {"read_file", "botch", "write_file", "replace_text"} => c.path \in STRING
         /\ c.tool = "write_file" => c.contents \in Text
         /\ c.tool = "replace_text" => c.old \in Words /\ c.new \in Words
<1>1. CASE c \in [tool : {"list_files", "run_tests", "submit"}]
  BY <1>1 DEF ToolCalls, ToolNames
<1>2. CASE c \in [tool : {"read_file"}, path : STRING]
  BY <1>2 DEF ToolCalls, ToolNames
<1>3. CASE c \in [tool : {"write_file"}, path : STRING, contents : Text]
  BY <1>3 DEF ToolCalls, ToolNames
<1>4. CASE c \in [tool : {"replace_text"}, path : STRING, old : Words, new : Words]
  BY <1>4 DEF ToolCalls, ToolNames
<1>5. CASE c \in [tool : {"unusable"}]
  BY <1>5 DEF ToolCalls, ToolNames
<1>6. CASE c \in [tool : {"botch"}, path : STRING]
  BY <1>6 DEF ToolCalls, ToolNames
<1> QED
  BY <1>1, <1>2, <1>3, <1>4, <1>5, <1>6 DEF Calls, ToolCalls

LEMMA ConcatNone ==
  ASSUME NEW a, NEW b
  PROVE  <<a>> \o <<>> \o <<b>> = <<a, b>>
<1> DEFINE s == <<a>> \o <<b>>
           t == <<a, b>>
           S == {a, b}
<1>1. <<a>> \in Seq(S) /\ <<b>> \in Seq(S) /\ Len(<<a>>) = 1 /\ Len(<<b>>) = 1
  OBVIOUS
<1>2. s \in Seq(S) /\ Len(s) = 2 /\ s[1] = a /\ s[2] = b
  BY <1>1, ConcatProperties
<1>3. t \in Seq(S) /\ Len(t) = 2 /\ t[1] = a /\ t[2] = b
  OBVIOUS
<1>4. <<a>> \o <<>> = <<a>>
  BY <1>1, ConcatEmptySeq
<1> HIDE DEF s, t, S
<1>5. \A i \in 1 .. Len(s) : s[i] = t[i]
  BY <1>2, <1>3
<1>6. s = t
  BY <1>2, <1>3, <1>5, SeqEqual
<1> USE DEF s, t
<1>7. <<a>> \o <<b>> = <<a, b>>
  BY ONLY <1>6
<1> QED
  BY ONLY <1>4, <1>7, Zenon

LEMMA ConcatMiddle ==
  ASSUME NEW a, NEW b, NEW x
  PROVE  <<a>> \o <<x>> \o <<b>> = <<a, x, b>>
<1> DEFINE s == <<a, x>> \o <<b>>
           t == <<a, x, b>>
           S == {a, b, x}
<1>1. <<a, x>> \in Seq(S) /\ <<b>> \in Seq(S) /\ Len(<<a, x>>) = 2 /\ Len(<<b>>) = 1
  OBVIOUS
<1>2. s \in Seq(S) /\ Len(s) = 3 /\ s[1] = a /\ s[2] = x /\ s[3] = b
  BY <1>1, ConcatProperties
<1>3. t \in Seq(S) /\ Len(t) = 3 /\ t[1] = a /\ t[2] = x /\ t[3] = b
  OBVIOUS
<1>4. <<a>> \o <<x>> = <<a, x>>
  <2>1. <<a>> \o <<>> \o <<x>> = <<a, x>>
    BY ConcatNone
  <2>2. <<a>> \in Seq({a}) /\ <<a>> \o <<>> = <<a>>
    BY ConcatEmptySeq
  <2> QED
    BY ONLY <2>1, <2>2, Zenon
<1> HIDE DEF s, t, S
<1>5. \A i \in 1 .. Len(s) : s[i] = t[i]
  BY <1>2, <1>3
<1>6. s = t
  BY <1>2, <1>3, <1>5, SeqEqual
<1> USE DEF s, t
<1>7. <<a, x>> \o <<b>> = <<a, x, b>>
  BY ONLY <1>6
<1> QED
  BY ONLY <1>4, <1>7, Zenon

\* A replacement leaves a text.
LEMMA ReplacedText ==
  ASSUME NEW text \in Text, NEW k \in DOMAIN text, NEW new \in Words
  PROVE  [text EXCEPT ![k] = new] \in Text
<1>1. Len(text) \in Nat /\ DOMAIN text = 1 .. Len(text) /\ text \in [1 .. Len(text) -> Words]
  BY DEF Text
<1>2. [text EXCEPT ![k] = new] \in [1 .. Len(text) -> Words]
  BY <1>1
<1> QED
  BY <1>1, <1>2 DEF Text

LEMMA StoreWorks ==
  ASSUME NEW c \in Calls, c.tool \in {"write_file", "replace_text"}, c.path \in Paths,
         files[c.path] # Binary, NEW text \in Text, Store(c, text),
         c.tool = "write_file" => text = c.contents
  PROVE  Works(c)
<1>1. CASE /\ files' = [files EXCEPT ![c.path] = text]
           /\ Complete(c, <<Edited(c.path, text)>>, TRUE)
           /\ UNCHANGED <<submitted, faults>>
  <2>1. Record(<<Called(c), Edited(c.path, text), Answered(c, TRUE)>>)
    BY <1>1, ConcatMiddle DEF Complete
  <2> QED
    BY <1>1, <2>1 DEF Works, Writes
<1>2. CASE /\ Len(faults) < MaxFaults
           /\ files' \in {files, [files EXCEPT ![c.path] = <<>>]}
           /\ faults' = Append(faults, c.path)
           /\ Complete(c, <<>>, FALSE)
           /\ UNCHANGED submitted
  <2>1. Record(<<Called(c), Answered(c, FALSE)>>)
    BY <1>2, ConcatNone DEF Complete
  <2> QED
    BY <1>2, <2>1 DEF Works, Breaks
<1> QED
  BY <1>1, <1>2 DEF Store

LEMMA FailWorks ==
  ASSUME NEW c \in Calls,
         \/ c.tool \in {"read_file", "replace_text"} /\ Fail(c, <<>>)
         \/ /\ c.tool \in {"read_file", "write_file", "replace_text"} /\ Outside(c.path)
            /\ Fail(c, <<Escaped(c.path)>>)
  PROVE  Works(c)
<1>1. CASE c.tool \in {"read_file", "replace_text"} /\ Fail(c, <<>>)
  BY <1>1, ConcatNone DEF Fail, Complete, Works, Looks
<1>2. CASE /\ c.tool \in {"read_file", "write_file", "replace_text"} /\ Outside(c.path)
           /\ Fail(c, <<Escaped(c.path)>>)
  BY <1>2, ConcatMiddle DEF Fail, Complete, Works, Escapes
<1> QED
  BY <1>1, <1>2

LEMMA InvokeWorks ==
  ASSUME Typed, NEW c \in Calls, Invoke(c, FALSE)
  PROVE  Works(c)
<1>1. CASE c.tool = "list_files" /\ ListFiles(c, FALSE)
  BY <1>1, ConcatNone DEF ListFiles, Complete, Works, Looks
<1>2. CASE c.tool = "read_file" /\ ReadFile(c, FALSE)
  <2>1. CASE Unreadable(c, FALSE)
    BY <1>2, <2>1, FailWorks DEF Unreadable
  <2>2. CASE Complete(c, <<>>, TRUE) /\ UNCHANGED <<files, submitted, faults>>
    BY <1>2, <2>2, ConcatNone DEF Complete, Works, Looks
  <2> QED
    BY <1>2, <2>1, <2>2 DEF ReadFile
<1>3. CASE c.tool = "write_file" /\ WriteFile(c, FALSE)
  <2>1. CASE Outside(c.path) /\ Fail(c, <<Escaped(c.path)>>)
    BY <1>3, <2>1, FailWorks
  <2>2. CASE ~Outside(c.path) /\ files[c.path] # Binary /\ Store(c, c.contents)
    BY <1>3, <2>2, CallFields, StoreWorks DEF Outside
  <2> QED
    BY <1>3, <2>1, <2>2 DEF WriteFile
<1>4. CASE c.tool = "replace_text" /\ ReplaceText(c, FALSE)
  <2>1. CASE Unreadable(c, FALSE)
    BY <1>4, <2>1, FailWorks DEF Unreadable
  <2>2. CASE Fail(c, <<>>)
    BY <1>4, <2>2, FailWorks
  <2>3. ASSUME Readable(c), NEW k \in DOMAIN files[c.path],
               Store(c, [files[c.path] EXCEPT ![k] = c.new])
        PROVE  Works(c)
    <3>1. c.path \in Paths /\ files[c.path] \in Text /\ files[c.path] # Binary
      BY <2>3 DEF Readable, Outside, Typed
    <3>2. c.new \in Words
      BY <1>4, CallFields
    <3>3. [files[c.path] EXCEPT ![k] = c.new] \in Text
      BY <3>1, <3>2, ReplacedText
    <3> QED
      BY <1>4, <2>3, <3>1, <3>3, StoreWorks
  <2> QED
    BY <1>4, <2>1, <2>2, <2>3 DEF ReplaceText
<1>5. CASE c.tool = "submit" /\ Submit(c, FALSE)
  BY <1>5 DEF Submit, Works, Submits
<1> QED
  BY <1>1, <1>2, <1>3, <1>4, <1>5 DEF Invoke

LEMMA InvokeRaises ==
  ASSUME NEW c \in Calls, Invoke(c, TRUE)
  PROVE  Raises(c)
BY DEF Invoke, ListFiles, ReadFile, Unreadable, WriteFile, ReplaceText, Submit, Raises, Outside

LEMMA EventsTyped ==
  ASSUME events \in Seq(TraceEvents), NEW c \in Calls, NEW ok \in BOOLEAN
  PROVE  /\ NextId \in Nat /\ NextId = CallCount + 1 /\ CallCount \in Nat
         /\ c.tool \in ToolNames => Called(c) \in TraceEvents
         /\ c.tool \in ToolNames => Answered(c, ok) \in TraceEvents
         /\ AgentError("exception") \in TraceEvents
         /\ [kind |-> "Submission"] \in TraceEvents
         /\ c.tool \in {"read_file", "botch", "write_file", "replace_text"} =>
                /\ Escaped(c.path) \in TraceEvents
                /\ \A text \in Text : Edited(c.path, text) \in TraceEvents
<1>1. NextId \in Nat /\ NextId = CallCount + 1 /\ CallCount \in Nat
  BY KindsFinite DEF NextId, CallCount
<1>2. c.tool \in ToolNames => Called(c) \in TraceEvents
  BY <1>1, CallFields DEF Called, TraceEvents
<1>3. c.tool \in ToolNames => Answered(c, ok) \in TraceEvents
  BY <1>1 DEF Answered, TraceEvents
<1>4. AgentError("exception") \in TraceEvents
  BY DEF AgentError, TraceEvents, ErrorTypes
<1>6. [kind |-> "Submission"] \in TraceEvents
  <2>1. [kind |-> "Submission"] \in [kind : {"TaskStarted", "Submission"}]
    OBVIOUS
  <2> QED
    BY <2>1 DEF TraceEvents
<1>5. c.tool \in {"read_file", "botch", "write_file", "replace_text"} =>
                /\ Escaped(c.path) \in TraceEvents
                /\ \A text \in Text : Edited(c.path, text) \in TraceEvents
  BY CallFields DEF Escaped, Edited, TraceEvents
<1> QED
  BY <1>1, <1>2, <1>3, <1>4, <1>5, <1>6

-----------------------------------------------------------------------------
(***************************************************************************)
(* Calls and results                                                       *)
(***************************************************************************)

Aside(k) == events'[k].kind \notin {"ToolCall", "ToolResult"}

\* What a step may do with calls: none, one with its result, one that is left
\* open, or the result of one that is open.
NoCall == Grows /\ \A k \in News : Aside(k)

OpensCall(c) ==
    /\ Grows /\ Len(events) + 1 \in News /\ events'[Len(events) + 1] = Called(c)
    /\ \A k \in News \ {Len(events) + 1} : Aside(k)

MakesCall(c) ==
    /\ Grows /\ Len(events) + 1 \in News /\ events'[Len(events) + 1] = Called(c)
    /\ \E r \in News \ {Len(events) + 1} :
          /\ \E ok : events'[r] = Answered(c, ok)
          /\ \A k \in News \ {Len(events) + 1, r} : Aside(k)

ClosesCall ==
    /\ Grows
    /\ \E r \in News :
          /\ \E ok : events'[r] = [kind |-> "ToolResult", id |-> NextId - 1,
                                   tool |-> "run_tests", ok |-> ok]
          /\ \A k \in News \ {r} : Aside(k)

LEMMA ResultsGrow ==
  ASSUME Grows, NEW id
  PROVE  /\ ResultsIn(events', id) = ResultsIn(events, id) \cup
                {k \in News : events'[k].kind = "ToolResult" /\ events'[k].id = id}
         /\ ResultsIn(events, id) \subseteq Kinds("ToolResult")
<1>1. /\ Kinds("ToolResult")' = Kinds("ToolResult") \cup
                {k \in News : events'[k].kind = "ToolResult"}
      /\ \A k \in Kinds("ToolResult") : events'[k] = events[k]
  BY KindsGrow
<1>2. ResultsIn(events, id) = {k \in Kinds("ToolResult") : events[k].id = id}
  BY DEF ResultsIn, Kinds
<1>3. ResultsIn(events', id) = {k \in Kinds("ToolResult")' : events'[k].id = id}
  BY DEF ResultsIn, Kinds
<1> QED
  BY <1>1, <1>2, <1>3

\* A new call is counted.
LEMMA CallCounted ==
  ASSUME events \in Seq(TraceEvents), Grows
  PROVE  /\ (\A k \in News : events'[k].kind # "ToolCall") => CallCount' = CallCount
         /\ \A n \in News :
              (/\ events'[n].kind = "ToolCall"
               /\ \A k \in News \ {n} : events'[k].kind # "ToolCall")
              => CallCount' = CallCount + 1 /\ Kinds("ToolCall")' = Kinds("ToolCall") \cup {n}
<1>1. /\ Kinds("ToolCall")' = Kinds("ToolCall") \cup {k \in News : events'[k].kind = "ToolCall"}
      /\ Kinds("ToolCall") \cap News = {}
  BY KindsGrow
<1>2. IsFiniteSet(Kinds("ToolCall"))
  BY KindsFinite
<1>3. ASSUME \A k \in News : events'[k].kind # "ToolCall" PROVE CallCount' = CallCount
  <2>1. Kinds("ToolCall")' = Kinds("ToolCall")
    BY <1>1, <1>3
  <2> QED
    BY <2>1 DEF CallCount
<1>4. ASSUME NEW n \in News, events'[n].kind = "ToolCall",
             \A k \in News \ {n} : events'[k].kind # "ToolCall"
      PROVE  CallCount' = CallCount + 1 /\ Kinds("ToolCall")' = Kinds("ToolCall") \cup {n}
  <2>1. Kinds("ToolCall")' = Kinds("ToolCall") \cup {n} /\ n \notin Kinds("ToolCall")
    BY <1>1, <1>4
  <2> QED
    BY <1>2, <2>1, FS_AddElement DEF CallCount
<1> QED
  BY <1>3, <1>4

\* What a step does not touch keeps its result.
LEMMA OldResults ==
  ASSUME Grows, NEW i \in Kinds("ToolCall"), HasResult(i),
         \A k \in News : events'[k].kind = "ToolResult" => events'[k].id # events[i].id
  PROVE  HasResult(i)'
<1>1. PICK r \in DOMAIN events :
        /\ ResultsIn(events, events[i].id) = {r}
        /\ r > i /\ events[r].tool = events[i].call.tool
        /\ \A j \in Kinds("ToolCall") : j > i => r < j
  BY DEF HasResult
<1>2. events'[i] = events[i]
  BY KindsGrow
<1>3. ResultsIn(events', events'[i].id) = {r}
  BY <1>1, <1>2, ResultsGrow
<1>4. r \in 1 .. Len(events) /\ r \in DOMAIN events' /\ events'[r] = events[r]
  BY <1>1 DEF Grows
<1>5. ASSUME NEW j \in Kinds("ToolCall")', j > i PROVE r < j
  <2>1. CASE j \in Kinds("ToolCall")
    BY <1>1, <1>5, <2>1
  <2>2. CASE j \in News
    <3>1. Len(events) \in Nat /\ Len(events') \in Nat
      BY DEF Grows
    <3> QED
      BY <1>4, <2>2, <3>1 DEF News
  <2> QED
    BY <2>1, <2>2, KindsGrow
<1> QED
  BY <1>1, <1>2, <1>3, <1>4, <1>5 DEF HasResult

LEMMA NoCallKeeps ==
  ASSUME events \in Seq(TraceEvents), Numbered, ResultsInOrder, NoCall,
         pc \in Interrupted => pc' \in Interrupted
  PROVE  Numbered' /\ ResultsInOrder' /\ CallCount' = CallCount
<1>1. Grows /\ \A k \in News : events'[k].kind # "ToolCall" /\ events'[k].kind # "ToolResult"
  BY DEF NoCall, Aside
<1>2. CallCount' = CallCount
  BY <1>1, CallCounted
<1>3. /\ Kinds("ToolCall")' = Kinds("ToolCall") /\ Kinds("ToolResult")' = Kinds("ToolResult")
      /\ \A k \in Kinds("ToolCall") \cup Kinds("ToolResult") : events'[k] = events[k]
  <2>1. /\ Kinds("ToolCall")' = Kinds("ToolCall")
        /\ \A k \in Kinds("ToolCall") : events'[k] = events[k]
    <3>1. {k \in News : events'[k].kind = "ToolCall"} = {}
      BY <1>1
    <3>2. /\ Kinds("ToolCall")' = Kinds("ToolCall") \cup {k \in News : events'[k].kind = "ToolCall"}
          /\ \A k \in Kinds("ToolCall") : k \in 1 .. Len(events) /\ events'[k] = events[k]
      BY <1>1, KindsGrow
    <3> QED
      BY <3>1, <3>2
  <2>2. /\ Kinds("ToolResult")' = Kinds("ToolResult")
        /\ \A k \in Kinds("ToolResult") : events'[k] = events[k]
    <3>1. {k \in News : events'[k].kind = "ToolResult"} = {}
      BY <1>1
    <3>2. /\ Kinds("ToolResult")' = Kinds("ToolResult") \cup {k \in News : events'[k].kind = "ToolResult"}
          /\ \A k \in Kinds("ToolResult") : k \in 1 .. Len(events) /\ events'[k] = events[k]
      BY <1>1, KindsGrow
    <3> QED
      BY <3>1, <3>2
  <2> QED
    BY <2>1, <2>2
<1>4. Numbered'
  BY <1>2, <1>3 DEF Numbered
<1>5. ASSUME NEW i \in Kinds("ToolCall")
      PROVE  HasResult(i)' \/ (Unanswered(i)' /\ pc' \in Interrupted)
  <2>1. CASE HasResult(i)
    BY <1>1, <2>1, OldResults
  <2>2. CASE Unanswered(i) /\ pc \in Interrupted
    <3>1. ResultsIn(events', events'[i].id) = {}
      BY <1>1, <1>3, <2>2, ResultsGrow DEF Unanswered
    <3> QED
      BY <1>3, <2>2, <3>1 DEF Unanswered
  <2> QED
    BY <2>1, <2>2 DEF ResultsInOrder
<1> QED
  BY <1>2, <1>3, <1>4, <1>5 DEF ResultsInOrder

\* A new call has a new number, and no result carries it.
LEMMA NewCall ==
  ASSUME events \in Seq(TraceEvents), Numbered, Grows,
         NEW n \in News, NEW c, events'[n] = Called(c),
         \A k \in News \ {n} : events'[k].kind # "ToolCall",
         \A k \in News : events'[k].kind = "ToolResult" => events'[k].id = NextId
  PROVE  /\ CallCount' = CallCount + 1 /\ NextId = CallCount + 1 /\ CallCount \in Nat
         /\ Kinds("ToolCall")' = Kinds("ToolCall") \cup {n}
         /\ \A i \in Kinds("ToolCall") : i < n /\ events'[i] = events[i] /\ events[i].id # NextId
         /\ events'[n].id = NextId /\ events'[n].call = c
         /\ ResultsIn(events, NextId) = {}
         /\ Numbered'
<1>1. events'[n].kind = "ToolCall" /\ events'[n].id = NextId /\ events'[n].call = c
  BY DEF Called
<1>2. CallCount' = CallCount + 1 /\ Kinds("ToolCall")' = Kinds("ToolCall") \cup {n}
  BY <1>1, CallCounted
<1>3. NextId = CallCount + 1 /\ CallCount \in Nat
  BY KindsFinite DEF CallCount, NextId
<1>4. /\ \A i \in Kinds("ToolCall") \cup Kinds("ToolResult") :
           i \in 1 .. Len(events) /\ events'[i] = events[i] /\ events[i].id \in 1 .. CallCount
      /\ Kinds("ToolResult")' = Kinds("ToolResult") \cup {k \in News : events'[k].kind = "ToolResult"}
  BY KindsGrow DEF Numbered
<1>5. \A i \in 1 .. Len(events) : i < n
  <2>1. Len(events) \in Nat /\ Len(events') \in Nat
    BY DEF Grows
  <2> QED
    BY <2>1 DEF News
<1>6. \A m \in 1 .. CallCount : m # NextId /\ m < NextId /\ m \in 1 .. CallCount + 1
  BY <1>3
<1>7. ResultsIn(events, NextId) = {}
  BY <1>4, <1>6 DEF ResultsIn, Kinds
<1>8. ASSUME NEW i \in Kinds("ToolCall")' \cup Kinds("ToolResult")'
      PROVE  events'[i].id \in 1 .. CallCount'
  <2>1. NextId \in 1 .. CallCount'
    BY <1>2, <1>3
  <2> QED
    BY <1>1, <1>2, <1>4, <1>6, <1>8, <2>1
<1>9. ASSUME NEW i \in Kinds("ToolCall")', NEW j \in Kinds("ToolCall")', i < j
      PROVE  events'[i].id < events'[j].id
  <2>1. CASE i \in Kinds("ToolCall") /\ j \in Kinds("ToolCall")
    BY <1>4, <1>9, <2>1 DEF Numbered
  <2>2. CASE i \in Kinds("ToolCall") /\ j = n
    BY <1>1, <1>4, <1>6, <2>2
  <2>3. CASE i = n
    <3>1. n \in Nat /\ n > Len(events) /\ Len(events) \in Nat
      BY DEF News, Grows
    <3>2. j \in 1 .. Len(events) \/ j = n
      BY <1>2, <1>4
    <3> QED
      BY <1>9, <2>3, <3>1, <3>2
  <2> QED
    BY <1>2, <2>1, <2>2, <2>3
<1>10. Numbered'
  BY <1>8, <1>9 DEF Numbered
<1> QED
  BY <1>1, <1>2, <1>3, <1>4, <1>5, <1>6, <1>7, <1>10

LEMMA MakesKeeps ==
  ASSUME events \in Seq(TraceEvents), Numbered, ResultsInOrder, NEW c, MakesCall(c),
         pc \notin Interrupted
  PROVE  Numbered' /\ ResultsInOrder'
<1>0. PICK n : n = Len(events) + 1
  OBVIOUS
<1>1. PICK r \in News \ {n} :
        /\ \E ok : events'[r] = Answered(c, ok)
        /\ \A k \in News \ {n, r} : Aside(k)
  BY <1>0 DEF MakesCall
<1>2. Grows /\ n \in News /\ events'[n] = Called(c)
  BY <1>0 DEF MakesCall
<1>3. events'[r].kind = "ToolResult" /\ events'[r].id = NextId /\ events'[r].tool = c.tool
  BY <1>1 DEF Answered
<1>4. r \in DOMAIN events' /\ r > n /\ n \in Nat
  <2>1. Len(events) \in Nat /\ Len(events') \in Nat /\ DOMAIN events' = 1 .. Len(events')
    BY <1>2 DEF Grows
  <2> QED
    BY <1>0, <1>1, <2>1 DEF News
<1>5. /\ \A k \in News \ {n} : events'[k].kind # "ToolCall"
      /\ \A k \in News : events'[k].kind = "ToolResult" <=> k = r
      /\ \A k \in News : events'[k].kind = "ToolResult" => events'[k].id = NextId
  BY <1>1, <1>2, <1>3 DEF Aside, Called
<1>6. /\ Kinds("ToolCall")' = Kinds("ToolCall") \cup {n}
      /\ \A i \in Kinds("ToolCall") : i < n /\ events'[i] = events[i] /\ events[i].id # NextId
      /\ events'[n].id = NextId /\ events'[n].call = c
      /\ ResultsIn(events, NextId) = {}
      /\ Numbered'
  BY <1>2, <1>5, NewCall
<1>7. ASSUME NEW i \in Kinds("ToolCall") PROVE HasResult(i)'
  <2>1. HasResult(i)
    BY DEF ResultsInOrder
  <2> QED
    BY <1>2, <1>5, <1>6, <2>1, OldResults
<1>8. HasResult(n)'
  <2>1. ResultsIn(events', events'[n].id) = {r}
    BY <1>1, <1>2, <1>3, <1>5, <1>6, ResultsGrow
  <2>2. \A j \in Kinds("ToolCall")' : ~(j > n)
    <3>1. \A j \in Kinds("ToolCall") : j \in Nat
      BY DEF Kinds
    <3> QED
      BY <1>4, <1>6, <3>1
  <2> QED
    BY <1>3, <1>4, <1>6, <2>1, <2>2 DEF HasResult
<1> QED
  BY <1>6, <1>7, <1>8 DEF ResultsInOrder

LEMMA OpensKeeps ==
  ASSUME events \in Seq(TraceEvents), Numbered, ResultsInOrder, NEW c, OpensCall(c),
         pc \notin Interrupted, pc' \in Interrupted
  PROVE  Numbered' /\ ResultsInOrder' /\ (c.tool = "run_tests" => TestsUnderWay')
<1>0. PICK n : n = Len(events) + 1
  OBVIOUS
<1>1. /\ Grows /\ n \in News /\ events'[n] = Called(c)
      /\ \A k \in News \ {n} : Aside(k)
  BY <1>0 DEF OpensCall
<1>2. n \in Nat
  BY <1>0
<1>3. /\ \A k \in News \ {n} : events'[k].kind # "ToolCall"
      /\ \A k \in News : events'[k].kind # "ToolResult"
  BY <1>1 DEF Aside, Called
<1>4. /\ CallCount' = CallCount + 1 /\ NextId = CallCount + 1
      /\ Kinds("ToolCall")' = Kinds("ToolCall") \cup {n}
      /\ \A i \in Kinds("ToolCall") : i < n /\ events'[i] = events[i] /\ events[i].id # NextId
      /\ events'[n].id = NextId /\ events'[n].call = c
      /\ ResultsIn(events, NextId) = {}
      /\ Numbered'
  BY <1>1, <1>3, NewCall
<1>5. ASSUME NEW i \in Kinds("ToolCall") PROVE HasResult(i)'
  <2>1. HasResult(i)
    BY DEF ResultsInOrder
  <2> QED
    BY <1>1, <1>3, <2>1, OldResults
<1>6. ResultsIn(events', events'[n].id) = {}
  BY <1>1, <1>3, <1>4, ResultsGrow
<1>7. Unanswered(n)'
  <2>1. \A j \in Kinds("ToolCall")' : j <= n
    <3>1. \A j \in Kinds("ToolCall") : j \in Nat
      BY DEF Kinds
    <3> QED
      BY <1>2, <1>4, <3>1
  <2> QED
    BY <1>6, <2>1 DEF Unanswered
<1>8. ResultsInOrder'
  BY <1>4, <1>5, <1>7 DEF ResultsInOrder
<1>9. c.tool = "run_tests" => TestsUnderWay'
  BY <1>4, <1>6 DEF TestsUnderWay
<1> QED
  BY <1>4, <1>8, <1>9

LEMMA ClosesKeeps ==
  ASSUME events \in Seq(TraceEvents), Numbered, ResultsInOrder, TestsUnderWay, ClosesCall,
         pc \in Testing
  PROVE  Numbered' /\ ResultsInOrder'
<1>1. PICK r \in News :
        /\ \E ok : events'[r] = [kind |-> "ToolResult", id |-> NextId - 1,
                                  tool |-> "run_tests", ok |-> ok]
        /\ \A k \in News \ {r} : Aside(k)
  BY DEF ClosesCall
<1>2. PICK t \in Kinds("ToolCall") :
        /\ events[t].id = CallCount
        /\ events[t].call.tool = "run_tests"
        /\ ResultsIn(events, events[t].id) = {}
  BY DEF TestsUnderWay
<1>3. Grows /\ NextId - 1 = CallCount /\ CallCount \in Nat
  BY KindsFinite DEF ClosesCall, NextId, CallCount
<1>4. events'[r].kind = "ToolResult" /\ events'[r].id = CallCount /\ events'[r].tool = "run_tests"
  BY <1>1, <1>3
<1>5. \A k \in News : events'[k].kind # "ToolCall" /\ (events'[k].kind = "ToolResult" <=> k = r)
  BY <1>1, <1>4 DEF Aside
<1>6. CallCount' = CallCount
  BY <1>3, <1>5, CallCounted
<1>7. /\ Kinds("ToolCall")' = Kinds("ToolCall")
      /\ Kinds("ToolResult")' = Kinds("ToolResult") \cup {r}
      /\ \A i \in Kinds("ToolCall") \cup Kinds("ToolResult") :
            i \in 1 .. Len(events) /\ events'[i] = events[i]
  <2>1. /\ Kinds("ToolCall")' = Kinds("ToolCall")
        /\ \A i \in Kinds("ToolCall") : i \in 1 .. Len(events) /\ events'[i] = events[i]
    BY <1>3, <1>5, KindsGrow
  <2>2. Kinds("ToolResult")' = Kinds("ToolResult") \cup {k \in News : events'[k].kind = "ToolResult"}
        /\ \A i \in Kinds("ToolResult") : i \in 1 .. Len(events) /\ events'[i] = events[i]
    BY <1>3, KindsGrow
  <2>3. {k \in News : events'[k].kind = "ToolResult"} = {r}
    BY <1>1, <1>5
  <2> QED
    BY <2>1, <2>2, <2>3
<1>8. \A i \in Kinds("ToolCall") : i \in Nat /\ events[i].id \in 1 .. CallCount
  BY <1>7 DEF Numbered
<1>9. Numbered'
  <2>1. CallCount \in 1 .. CallCount
    BY <1>2, <1>8
  <2>2. \A i \in Kinds("ToolCall")' \cup Kinds("ToolResult")' : events'[i].id \in 1 .. CallCount'
    BY <1>4, <1>6, <1>7, <2>1 DEF Numbered
  <2> QED
    BY <1>7, <2>2 DEF Numbered
<1>10. \A i \in Kinds("ToolCall") : i # t => i < t /\ events[i].id # CallCount
  <2>1. ASSUME NEW i \in Kinds("ToolCall"), i # t PROVE i < t /\ events[i].id # CallCount
    <3>1. CASE i < t
      BY <1>2, <1>3, <1>8, <3>1 DEF Numbered
    <3>2. CASE t < i
      BY <1>2, <1>3, <1>8, <3>2 DEF Numbered
    <3> QED
      BY <1>8, <2>1, <3>1, <3>2
  <2> QED
    BY <2>1
<1>11. ASSUME NEW i \in Kinds("ToolCall"), i # t PROVE HasResult(i)'
  <2>1. ~Unanswered(i)
    BY <1>8, <1>10, <1>11 DEF Unanswered
  <2>2. HasResult(i)
    BY <2>1 DEF ResultsInOrder
  <2> QED
    BY <1>3, <1>4, <1>5, <1>10, <1>11, <2>2, OldResults
<1>12. HasResult(t)'
  <2>1. ResultsIn(events', events'[t].id) = {r}
    BY <1>1, <1>2, <1>3, <1>4, <1>5, <1>7, ResultsGrow
  <2>2. \A j \in Kinds("ToolCall")' : ~(j > t)
    BY <1>7, <1>8, <1>10
  <2>3. r > t /\ r \in DOMAIN events'
    <3>1. Len(events) \in Nat /\ Len(events') \in Nat /\ DOMAIN events' = 1 .. Len(events')
      BY <1>3 DEF Grows
    <3>2. t \in 1 .. Len(events)
      BY <1>7
    <3> QED
      BY <1>1, <3>1, <3>2 DEF News
  <2> QED
    BY <1>2, <1>4, <1>7, <2>1, <2>2, <2>3 DEF HasResult
<1> QED
  BY <1>7, <1>9, <1>11, <1>12 DEF ResultsInOrder

-----------------------------------------------------------------------------
(***************************************************************************)
(* Files and edits                                                         *)
(***************************************************************************)

NoNew(kind) == \A k \in News : events'[k].kind # kind

LEMMA NoneNew ==
  ASSUME Grows, NEW kind, NoNew(kind)
  PROVE  /\ Kinds(kind)' = Kinds(kind)
         /\ \A k \in Kinds(kind) : events'[k] = events[k]
<1>1. /\ Kinds(kind)' = Kinds(kind) \cup {k \in News : events'[k].kind = kind}
      /\ \A k \in Kinds(kind) : events'[k] = events[k]
  BY KindsGrow
<1>2. {k \in News : events'[k].kind = kind} = {}
  BY DEF NoNew
<1> QED
  BY <1>1, <1>2

LEMMA FilesKept ==
  ASSUME Grows, FilesTraced, NoNew("FileEdit"),
         \A p \in Paths : p \notin Range(faults') =>
            p \notin Range(faults) /\ files'[p] = files[p]
  PROVE  FilesTraced'
<1>1. \A p : /\ EditsOf(p)' = EditsOf(p)
              /\ \A k \in EditsOf(p) : events'[k] = events[k]
  BY NoneNew DEF EditsOf
<1>2. ASSUME NEW p \in Paths, p \notin Range(faults')
      PROVE  \/ EditsOf(p)' = {} /\ files'[p] = InitialFiles[p]
             \/ \E k \in EditsOf(p)' :
                   (\A j \in EditsOf(p)' : j <= k) /\ files'[p] = events'[k].contents
  BY <1>1, <1>2 DEF FilesTraced
<1> QED
  BY <1>2 DEF FilesTraced

LEMMA FilesWritten ==
  ASSUME Grows, FilesTraced, DOMAIN files = Paths, UNCHANGED faults,
         NEW q \in Paths, NEW text, files' = [files EXCEPT ![q] = text],
         NEW n \in News, events'[n] = Edited(q, text),
         \A k \in News \ {n} : events'[k].kind # "FileEdit"
  PROVE  FilesTraced'
<1>1. events'[n].kind = "FileEdit" /\ events'[n].path = q /\ events'[n].contents = text
  BY DEF Edited
<1>2. /\ Kinds("FileEdit")' = Kinds("FileEdit") \cup {k \in News : events'[k].kind = "FileEdit"}
      /\ \A k \in Kinds("FileEdit") : k \in 1 .. Len(events) /\ events'[k] = events[k]
  BY KindsGrow
<1>3. {k \in News : events'[k].kind = "FileEdit"} = {n}
  BY <1>1
<1>4. \A k \in Kinds("FileEdit") : k <= n
  <2>1. Len(events) \in Nat /\ Len(events') \in Nat
    BY DEF Grows
  <2> QED
    BY <1>2, <2>1 DEF News
<1>5. n \in Nat
  BY DEF News, Grows
<1>6. /\ EditsOf(q)' = EditsOf(q) \cup {n}
      /\ \A p : p # q => EditsOf(p)' = EditsOf(p)
      /\ \A p : \A k \in EditsOf(p) : events'[k] = events[k]
  BY <1>1, <1>2, <1>3 DEF EditsOf
<1>7. ASSUME NEW p \in Paths, p \notin Range(faults)
      PROVE  \/ EditsOf(p)' = {} /\ files'[p] = InitialFiles[p]
             \/ \E k \in EditsOf(p)' :
                   (\A j \in EditsOf(p)' : j <= k) /\ files'[p] = events'[k].contents
  <2>1. CASE p = q
    <3>1. files'[q] = text
      OBVIOUS
    <3>2. \A j \in EditsOf(q)' : j <= n
      BY <1>4, <1>5, <1>6 DEF EditsOf
    <3> QED
      BY <1>1, <1>6, <2>1, <3>1, <3>2
  <2>2. CASE p # q
    <3>1. files'[p] = files[p]
      BY <2>2
    <3> QED
      BY <1>6, <1>7, <2>2, <3>1 DEF FilesTraced
  <2> QED
    BY <2>1, <2>2
<1> QED
  BY <1>7 DEF FilesTraced

\* A fault is remembered with those before it.
LEMMA FaultAdded ==
  ASSUME faults \in Seq(Paths), Len(faults) < MaxFaults, NEW q \in Paths,
         faults' = Append(faults, q)
  PROVE  /\ faults' \in Seq(Paths) /\ Len(faults') <= MaxFaults
         /\ q \in Range(faults') /\ Range(faults) \subseteq Range(faults')
<1>1. /\ faults' \in Seq(Paths) /\ Len(faults') = Len(faults) + 1 /\ Len(faults) \in Nat
      /\ \A k \in 1 .. Len(faults) : faults'[k] = faults[k]
      /\ faults'[Len(faults) + 1] = q
  BY AppendProperties
<1>2. Len(faults') <= MaxFaults
  BY <1>1, FilesAssumption
<1>3. DOMAIN faults = 1 .. Len(faults) /\ DOMAIN faults' = 1 .. Len(faults')
  BY <1>1
<1>4. Range(faults) \subseteq Range(faults')
  BY <1>1, <1>3 DEF Range
<1>5. q \in Range(faults')
  BY <1>1, <1>3 DEF Range
<1> QED
  BY <1>1, <1>2, <1>4, <1>5

FilesTyped ==
    /\ files \in [Paths -> {Absent, Binary} \cup Text]
    /\ faults \in Seq(Paths) /\ Len(faults) <= MaxFaults
    /\ submitted \in BOOLEAN

\* A call and its result, with other events around.
LEMMA CallMade ==
  ASSUME Grows, NEW c, Len(events) + 1 \in News, events'[Len(events) + 1] = Called(c),
         NEW r \in News, r # Len(events) + 1, NEW ok, events'[r] = Answered(c, ok),
         \A k \in News : k # Len(events) + 1 /\ k # r => Aside(k)
  PROVE  MakesCall(c)
<1>1. r \in News \ {Len(events) + 1}
  OBVIOUS
<1>2. \A k \in News \ {Len(events) + 1, r} : Aside(k)
  OBVIOUS
<1> QED
  BY <1>1, <1>2 DEF MakesCall

Submission == [kind |-> "Submission"]

\* What a tool that works does to the rest.
Effects(c) ==
    /\ events' \in Seq(TraceEvents)
    /\ FilesTyped'
    /\ FilesTraced => FilesTraced'
    /\ Kinds("AgentError")' = Kinds("AgentError")
    /\ submitted' <=> submitted \/ c.tool = "submit"
    /\ Kinds("Submission")' # {} <=> Kinds("Submission") # {} \/ c.tool = "submit"

LEMMA WorksEffects ==
  ASSUME Typed, NEW c \in Calls, Works(c)
  PROVE  MakesCall(c) /\ Effects(c)
<1>1. events \in Seq(TraceEvents) /\ FilesTyped /\ DOMAIN files = Paths /\ Len(events) \in Nat
  BY DEF Typed, TypeOK, FilesTyped
<1>2. Called(c).kind = "ToolCall" /\ (c.tool \in ToolNames => Called(c) \in TraceEvents)
  BY <1>1, EventsTyped DEF Called
<1>3. \A ok : Answered(c, ok).kind = "ToolResult"
  BY DEF Answered
<1>4. c.tool \in ToolNames => \A ok \in BOOLEAN : Answered(c, ok) \in TraceEvents
  BY <1>1, EventsTyped
<1>5. CASE Looks(c)
  <2>1. PICK ok \in BOOLEAN : Record(<<Called(c), Answered(c, ok)>>)
    BY <1>5 DEF Looks
  <2>2. c.tool \in ToolNames /\ c.tool # "submit"
    BY <1>5 DEF Looks, ToolNames
  <2>3. /\ Grows /\ News = {Len(events) + 1, Len(events) + 2}
        /\ events'[Len(events) + 1] = Called(c) /\ events'[Len(events) + 2] = Answered(c, ok)
    BY <1>1, <1>2, <1>4, <2>1, <2>2, RecordTwo
  <2>4. NoNew("FileEdit") /\ NoNew("AgentError") /\ NoNew("Submission")
    BY <1>2, <1>3, <2>3 DEF NoNew
  <2>5. MakesCall(c)
    <3>1. Len(events) + 1 \in News /\ Len(events) + 2 \in News /\ Len(events) + 2 # Len(events) + 1
      BY <1>1, <2>3
    <3>2. \A k \in News : k # Len(events) + 1 /\ k # Len(events) + 2 => Aside(k)
      BY <1>1, <2>3 DEF Aside
    <3> QED
      BY <2>3, <3>1, <3>2, CallMade
  <2>6. UNCHANGED <<files, submitted, faults>>
    BY <1>5 DEF Looks
  <2> QED
    BY <1>1, <2>2, <2>3, <2>4, <2>5, <2>6, NoneNew, FilesKept DEF Effects, FilesTyped, Grows
<1>6. CASE Escapes(c)
  <2>1. Record(<<Called(c), Escaped(c.path), Answered(c, FALSE)>>)
    BY <1>6 DEF Escapes
  <2>2. c.tool \in ToolNames /\ c.tool # "submit"
    BY <1>6 DEF Escapes, ToolNames
  <2>3. Escaped(c.path) \in TraceEvents /\ Escaped(c.path).kind = "SafetyViolation"
    BY <1>1, <1>6, EventsTyped DEF Escapes, Escaped
  <2>4. /\ Grows /\ News = {Len(events) + 1, Len(events) + 2, Len(events) + 3}
        /\ events'[Len(events) + 1] = Called(c) /\ events'[Len(events) + 2] = Escaped(c.path)
        /\ events'[Len(events) + 3] = Answered(c, FALSE)
    BY <1>1, <1>2, <1>4, <2>1, <2>2, <2>3, RecordThree
  <2>5. NoNew("FileEdit") /\ NoNew("AgentError") /\ NoNew("Submission")
    BY <1>2, <1>3, <2>3, <2>4 DEF NoNew
  <2>6. MakesCall(c)
    <3>1. Len(events) + 1 \in News /\ Len(events) + 3 \in News /\ Len(events) + 3 # Len(events) + 1
      BY <1>1, <2>4
    <3>2. \A k \in News : k # Len(events) + 1 /\ k # Len(events) + 3 => Aside(k)
      BY <1>1, <2>4, <2>3 DEF Aside
    <3> QED
      BY <2>4, <3>1, <3>2, CallMade
  <2>7. UNCHANGED <<files, submitted, faults>>
    BY <1>6 DEF Escapes
  <2> QED
    BY <1>1, <2>2, <2>4, <2>5, <2>6, <2>7, NoneNew, FilesKept DEF Effects, FilesTyped, Grows
<1>7. CASE \E text \in Text : Writes(c, text)
  <2>1. PICK text \in Text : Writes(c, text)
    BY <1>7
  <2>2. Record(<<Called(c), Edited(c.path, text), Answered(c, TRUE)>>)
    BY <2>1 DEF Writes
  <2>3. c.tool \in ToolNames /\ c.tool # "submit" /\ c.path \in Paths
    BY <2>1 DEF Writes, ToolNames
  <2>4. Edited(c.path, text) \in TraceEvents /\ Edited(c.path, text).kind = "FileEdit"
    BY <1>1, <2>1, EventsTyped DEF Writes, Edited
  <2>5. /\ Grows /\ News = {Len(events) + 1, Len(events) + 2, Len(events) + 3}
        /\ events'[Len(events) + 1] = Called(c) /\ events'[Len(events) + 2] = Edited(c.path, text)
        /\ events'[Len(events) + 3] = Answered(c, TRUE)
    BY <1>1, <1>2, <1>4, <2>2, <2>3, <2>4, RecordThree
  <2>6. NoNew("AgentError") /\ NoNew("Submission")
    BY <1>2, <1>3, <2>4, <2>5 DEF NoNew
  <2>7. MakesCall(c)
    <3>1. Len(events) + 1 \in News /\ Len(events) + 3 \in News /\ Len(events) + 3 # Len(events) + 1
      BY <1>1, <2>5
    <3>2. \A k \in News : k # Len(events) + 1 /\ k # Len(events) + 3 => Aside(k)
      BY <1>1, <2>5, <2>4 DEF Aside
    <3> QED
      BY <2>5, <3>1, <3>2, CallMade
  <2>8. files' = [files EXCEPT ![c.path] = text] /\ UNCHANGED <<submitted, faults>>
    BY <2>1 DEF Writes
  <2>9. FilesTyped'
    BY <1>1, <2>8 DEF FilesTyped
  <2>10. FilesTraced => FilesTraced'
    <3>1. PICK n \in News : n = Len(events) + 2
      BY <2>5
    <3>2. events'[n] = Edited(c.path, text)
          /\ \A k \in News \ {n} : events'[k].kind # "FileEdit"
      BY <1>1, <1>2, <1>3, <2>5, <3>1
    <3> QED
      BY <1>1, <2>3, <2>5, <2>8, <3>2, FilesWritten
  <2> QED
    BY <1>1, <2>3, <2>5, <2>6, <2>7, <2>8, <2>9, <2>10, NoneNew DEF Effects, Grows
<1>8. CASE Breaks(c)
  <2>1. Record(<<Called(c), Answered(c, FALSE)>>)
    BY <1>8 DEF Breaks
  <2>2. c.tool \in ToolNames /\ c.tool # "submit" /\ c.path \in Paths
    BY <1>8 DEF Breaks, ToolNames
  <2>3. /\ Grows /\ News = {Len(events) + 1, Len(events) + 2}
        /\ events'[Len(events) + 1] = Called(c) /\ events'[Len(events) + 2] = Answered(c, FALSE)
    BY <1>1, <1>2, <1>4, <2>1, <2>2, RecordTwo
  <2>4. NoNew("FileEdit") /\ NoNew("AgentError") /\ NoNew("Submission")
    BY <1>2, <1>3, <2>3 DEF NoNew
  <2>5. MakesCall(c)
    <3>1. Len(events) + 1 \in News /\ Len(events) + 2 \in News /\ Len(events) + 2 # Len(events) + 1
      BY <1>1, <2>3
    <3>2. \A k \in News : k # Len(events) + 1 /\ k # Len(events) + 2 => Aside(k)
      BY <1>1, <2>3 DEF Aside
    <3> QED
      BY <2>3, <3>1, <3>2, CallMade
  <2>6. /\ files' \in {files, [files EXCEPT ![c.path] = <<>>]}
        /\ Len(faults) < MaxFaults
        /\ faults' = Append(faults, c.path) /\ UNCHANGED submitted
    BY <1>8 DEF Breaks
  <2>7. /\ faults' \in Seq(Paths) /\ Len(faults') <= MaxFaults
        /\ c.path \in Range(faults') /\ Range(faults) \subseteq Range(faults')
    BY <1>1, <2>2, <2>6, FaultAdded DEF FilesTyped
  <2>8. FilesTyped'
    <3>1. <<>> \in Text
      BY DEF Text
    <3> QED
      BY <1>1, <2>6, <2>7, <3>1 DEF FilesTyped
  <2>9. \A p \in Paths : p \notin Range(faults') => p \notin Range(faults) /\ files'[p] = files[p]
    BY <1>1, <2>6, <2>7
  <2> QED
    BY <1>1, <2>2, <2>3, <2>4, <2>5, <2>6, <2>8, <2>9, NoneNew, FilesKept DEF Effects, Grows
<1>9. CASE Submits(c)
  <2>1. Record(<<Called(c), Answered(c, TRUE), Submission>>)
    BY <1>9 DEF Submits, Submission
  <2>2. c.tool \in ToolNames /\ c.tool = "submit"
    BY <1>9 DEF Submits, ToolNames
  <2>3. /\ Grows /\ News = {Len(events) + 1, Len(events) + 2, Len(events) + 3}
        /\ events'[Len(events) + 1] = Called(c) /\ events'[Len(events) + 2] = Answered(c, TRUE)
        /\ events'[Len(events) + 3] = Submission
    BY <1>1, <1>2, <1>4, <2>1, <2>2, EventsTyped, RecordThree DEF Submission
  <2>4. NoNew("FileEdit") /\ NoNew("AgentError")
    <3>1. Submission.kind = "Submission"
      BY DEF Submission
    <3>2. \A k \in News : events'[k].kind \in {"ToolCall", "ToolResult", "Submission"}
      BY <1>2, <1>3, <2>3, <3>1
    <3> QED
      BY <3>2 DEF NoNew
  <2>5. MakesCall(c)
    <3>1. Len(events) + 1 \in News /\ Len(events) + 2 \in News /\ Len(events) + 2 # Len(events) + 1
      BY <1>1, <2>3
    <3>2. \A k \in News : k # Len(events) + 1 /\ k # Len(events) + 2 => Aside(k)
      BY <1>1, <2>3 DEF Aside, Submission
    <3> QED
      BY <2>3, <3>1, <3>2, CallMade
  <2>6. submitted' = TRUE /\ UNCHANGED <<files, faults>>
    BY <1>9 DEF Submits
  <2>7. Kinds("Submission")' # {}
    <3>1. Kinds("Submission")' = Kinds("Submission") \cup {k \in News : events'[k].kind = "Submission"}
      BY <2>3, KindsGrow
    <3> QED
      BY <2>3, <3>1 DEF Submission
  <2> QED
    BY <1>1, <2>2, <2>3, <2>4, <2>5, <2>6, <2>7, NoneNew, FilesKept DEF Effects, FilesTyped, Grows
<1> QED
  BY <1>5, <1>6, <1>7, <1>8, <1>9 DEF Works

\* What a step that writes nothing and submits nothing does to the rest.
Quiet ==
    /\ events' \in Seq(TraceEvents)
    /\ FilesTyped'
    /\ FilesTraced => FilesTraced'
    /\ Kinds("Submission")' = Kinds("Submission")
    /\ submitted' = submitted

LEMMA QuietStep ==
  ASSUME Typed, Grows, NoNew("FileEdit"), NoNew("Submission"),
         UNCHANGED <<files, submitted, faults>>
  PROVE  Quiet
<1>1. FilesTyped /\ events' \in Seq(TraceEvents)
  BY DEF Typed, TypeOK, FilesTyped, Grows
<1>2. FilesTraced => FilesTraced'
  BY FilesKept
<1> QED
  BY <1>1, <1>2, NoneNew DEF Quiet, FilesTyped

LEMMA RaisesEffects ==
  ASSUME Typed, NEW c \in Calls, Raises(c)
  PROVE  OpensCall(c) /\ Quiet
<1>1. events \in Seq(TraceEvents) /\ Len(events) \in Nat
  BY DEF Typed, TypeOK
<1>2. /\ Record(<<Called(c), AgentError("exception")>>)
      /\ UNCHANGED <<files, submitted, faults>>
  BY DEF Raises, Raise
<1>3. /\ Called(c) \in TraceEvents /\ Called(c).kind = "ToolCall"
      /\ AgentError("exception") \in TraceEvents /\ AgentError("exception").kind = "AgentError"
  <2>1. c.tool \in ToolNames
    BY DEF Raises, ToolNames
  <2> QED
    BY <1>1, <2>1, EventsTyped DEF Called, AgentError
<1>4. /\ Grows /\ News = {Len(events) + 1, Len(events) + 2}
      /\ events'[Len(events) + 1] = Called(c)
      /\ events'[Len(events) + 2] = AgentError("exception")
  BY <1>1, <1>2, <1>3, RecordTwo
<1>5. NoNew("FileEdit") /\ NoNew("Submission")
  BY <1>3, <1>4 DEF NoNew
<1>6. OpensCall(c)
  BY <1>3, <1>4 DEF OpensCall, Aside
<1> QED
  BY <1>2, <1>4, <1>5, <1>6, QuietStep

LEMMA StartEffects ==
  ASSUME Typed, NEW c \in Calls, StartTests(c)
  PROVE  OpensCall(c) /\ Quiet /\ c.tool = "run_tests" /\ Kinds("AgentError")' = Kinds("AgentError")
<1>1. events \in Seq(TraceEvents) /\ Len(events) \in Nat
  BY DEF Typed, TypeOK
<1>2. /\ Record(<<Called(c)>>) /\ c.tool = "run_tests"
      /\ UNCHANGED <<files, submitted, faults>>
  BY DEF StartTests
<1>3. Called(c) \in TraceEvents /\ Called(c).kind = "ToolCall"
  <2>1. c.tool \in ToolNames
    BY <1>2 DEF ToolNames
  <2> QED
    BY <1>1, <2>1, EventsTyped DEF Called
<1>4. /\ Grows /\ News = {Len(events) + 1}
      /\ events'[Len(events) + 1] = Called(c)
  BY <1>1, <1>2, <1>3, RecordOne
<1>5. NoNew("FileEdit") /\ NoNew("Submission") /\ NoNew("AgentError")
  BY <1>3, <1>4 DEF NoNew
<1>6. OpensCall(c)
  BY <1>4 DEF OpensCall
<1> QED
  BY <1>2, <1>4, <1>5, <1>6, QuietStep, NoneNew

LEMMA FinishEffects ==
  ASSUME Typed, CallCount > 0, FinishTests
  PROVE  ClosesCall /\ Quiet /\ Kinds("AgentError")' = Kinds("AgentError")
<1>1. events \in Seq(TraceEvents) /\ Len(events) \in Nat
  BY DEF Typed, TypeOK
<1> DEFINE Ran(ok) == [kind |-> "CommandRun", ok |-> ok]
           Ended(ok) == [kind |-> "ToolResult", id |-> NextId - 1,
                         tool |-> "run_tests", ok |-> ok]
<1>2. PICK ok \in BOOLEAN : Record(<<Ran(ok), Ended(ok)>>)
  BY DEF FinishTests
<1>3. UNCHANGED <<files, submitted, faults>>
  BY DEF FinishTests
<1>4. NextId - 1 \in Nat
  BY <1>1, KindsFinite DEF NextId, CallCount
<1>5. Ran(ok) \in TraceEvents /\ Ran(ok).kind = "CommandRun"
  BY DEF TraceEvents
<1>6. Ended(ok) \in TraceEvents /\ Ended(ok).kind = "ToolResult"
  BY <1>4 DEF TraceEvents, ToolNames
<1> HIDE DEF Ran, Ended
<1>7. /\ Grows /\ News = {Len(events) + 1, Len(events) + 2}
      /\ events'[Len(events) + 1] = Ran(ok)
      /\ events'[Len(events) + 2] = Ended(ok)
  BY <1>1, <1>2, <1>5, <1>6, RecordTwo
<1>8. NoNew("FileEdit") /\ NoNew("Submission") /\ NoNew("AgentError")
  BY <1>5, <1>6, <1>7 DEF NoNew
<1>9. ClosesCall
  <2>1. PICK r \in News : r = Len(events) + 2 /\ events'[r] = Ended(ok)
    BY <1>7
  <2>2. \A k \in News \ {r} : Aside(k)
    BY <1>5, <1>7, <2>1 DEF Aside
  <2> QED
    BY <1>7, <2>1, <2>2 DEF ClosesCall, Ended
<1> QED
  BY <1>3, <1>7, <1>8, <1>9, QuietStep, NoneNew

\* An event that is recorded by itself.
LEMMA AsideEffects ==
  ASSUME Typed, NEW e \in TraceEvents, Record(<<e>>), UNCHANGED <<files, submitted, faults>>,
         e.kind \in {"ModelCall", "AgentError"}
  PROVE  /\ NoCall /\ Quiet
         /\ e.kind = "ModelCall" => Kinds("AgentError")' = Kinds("AgentError")
         /\ e.kind = "AgentError" =>
                \E n \in News : Kinds("AgentError")' = Kinds("AgentError") \cup {n}
<1>1. events \in Seq(TraceEvents) /\ Len(events) \in Nat
  BY DEF Typed, TypeOK
<1>2. /\ Grows /\ News = {Len(events) + 1}
      /\ events'[Len(events) + 1] = e
  BY <1>1, RecordOne
<1>3. NoNew("FileEdit") /\ NoNew("Submission") /\ NoCall
  BY <1>2 DEF NoNew, NoCall, Aside
<1>4. e.kind = "ModelCall" => NoNew("AgentError")
  BY <1>2 DEF NoNew
<1>5. ASSUME e.kind = "AgentError"
      PROVE  \E n \in News : Kinds("AgentError")' = Kinds("AgentError") \cup {n}
  <2>1. {k \in News : events'[k].kind = "AgentError"} = {Len(events) + 1}
    BY <1>2, <1>5
  <2>2. Kinds("AgentError")' = Kinds("AgentError") \cup {Len(events) + 1}
    BY <1>2, <2>1, KindsGrow
  <2> QED
    BY <1>2, <2>2
<1> QED
  BY <1>2, <1>3, <1>4, <1>5, QuietStep, NoneNew

LEMMA StillEffects ==
  ASSUME Typed, UNCHANGED toolVars
  PROVE  NoCall /\ Quiet /\ Kinds("AgentError")' = Kinds("AgentError")
<1>1. events \in Seq(TraceEvents) /\ Len(events) \in Nat
  BY DEF Typed, TypeOK
<1>2. UNCHANGED <<files, submitted, faults>> /\ events' = events
  BY DEF toolVars
<1>3. Grows /\ News = {}
  BY <1>1, <1>2 DEF Grows, News
<1> QED
  BY <1>2, <1>3, QuietStep, NoneNew DEF NoCall, NoNew

\* What the code under test changes is not on the trace, and remembered.
LEMMA ChangesEffects ==
  ASSUME Typed, CommandChanges
  PROVE  /\ FilesTyped' /\ (FilesTraced => FilesTraced')
         /\ faults' # <<>> /\ UNCHANGED <<events, submitted>>
<1>1. /\ files \in [Paths -> {Absent, Binary} \cup Text]
      /\ faults \in Seq(Paths) /\ submitted \in BOOLEAN
      /\ events \in Seq(TraceEvents) /\ Len(events) \in Nat
  BY DEF Typed, TypeOK
<1>2. /\ Len(faults) < MaxFaults /\ UNCHANGED <<events, submitted>>
      /\ \E p \in Paths, left \in Leavings :
           files' = [files EXCEPT ![p] = left] /\ faults' = Append(faults, p)
  BY DEF CommandChanges
<1>3. PICK q \in Paths, left \in Leavings :
         files' = [files EXCEPT ![q] = left] /\ faults' = Append(faults, q)
  BY <1>2
<1>4. left \in {Absent, Binary} \cup Text
  BY FilesAssumption
<1>5. /\ faults' \in Seq(Paths) /\ Len(faults') <= MaxFaults
      /\ q \in Range(faults') /\ Range(faults) \subseteq Range(faults')
  BY <1>1, <1>2, <1>3, FaultAdded
<1>6. FilesTyped'
  BY <1>1, <1>2, <1>3, <1>4, <1>5 DEF FilesTyped
<1>7. \A p \in Paths : p \notin Range(faults') => p \notin Range(faults) /\ files'[p] = files[p]
  BY <1>1, <1>3, <1>5
<1>8. Grows /\ NoNew("FileEdit")
  <2>1. Grows /\ News = {}
    BY <1>1, <1>2 DEF Grows, News
  <2> QED
    BY <2>1 DEF NoNew
<1>9. faults' # <<>>
  <2>1. DOMAIN faults' # {}
    BY <1>5 DEF Range
  <2> QED
    BY <2>1
<1> QED
  BY <1>2, <1>6, <1>7, <1>8, <1>9, FilesKept

-----------------------------------------------------------------------------
(***************************************************************************)
(* The conversation                                                        *)
(***************************************************************************)

\* The conversation grows and keeps what it has.
Extends ==
    /\ messages \in Seq(Messages) /\ messages' \in Seq(Messages)
    /\ Len(messages') >= Len(messages)
    /\ \A k \in 1 .. Len(messages) : messages'[k] = messages[k]

LEMMA SpokenCalls ==
  ASSUME messages \in Seq(Messages), NEW i, Spoken(i)
  PROVE  i \in 1 .. Len(messages) /\ messages[i].calls \in Seq(Calls)
<1>1. i \in 1 .. Len(messages) /\ messages[i] \in Messages /\ messages[i].role = "assistant"
  BY DEF Spoken
<1>2. messages[i] \in [role : {"assistant"}, calls : Seq(Calls)]
  BY <1>1 DEF Messages
<1> QED
  BY <1>1, <1>2

\* What has been settled stays so, unless an answer too many follows it.
LEMMA StaysSettled ==
  ASSUME Extends, NEW i, Spoken(i), Settled(i),
         /\ i + Len(messages[i].calls) = Len(messages)
         /\ Len(messages') > Len(messages)
         => messages'[Len(messages) + 1].role # "tool"
  PROVE  Spoken(i)' /\ Settled(i)' /\ messages'[i] = messages[i]
<1>1. PICK n \in Nat : n = Len(messages[i].calls)
  BY SpokenCalls DEF Extends
<1>2. /\ i \in 1 .. Len(messages) /\ i \in Nat /\ i >= 1 /\ n \in Nat /\ Len(messages) \in Nat /\ Len(messages') \in Nat
      /\ Len(messages') >= Len(messages)
      /\ DOMAIN messages = 1 .. Len(messages) /\ DOMAIN messages' = 1 .. Len(messages')
  BY SpokenCalls DEF Extends
<1>3. messages'[i] = messages[i]
  BY <1>2 DEF Extends
<1>4. /\ i + n <= Len(messages)
      /\ \A k \in 1 .. n : messages[i + k] = ToolMessage(messages[i].calls[k])
      /\ i + n < Len(messages) => messages[i + n + 1].role # "tool"
  BY <1>1 DEF Settled, AnsweredUpTo
<1>5. Spoken(i)'
  BY <1>2, <1>3 DEF Spoken
<1>6. i + n <= Len(messages')
  <2>1. /\ i \in Nat /\ n \in Nat /\ Len(messages) \in Nat /\ Len(messages') \in Nat
        /\ i + n <= Len(messages) /\ Len(messages) <= Len(messages')
    BY <1>2, <1>4
  <2> QED
    BY ONLY <2>1
<1>7. \A k \in 1 .. n : messages'[i + k] = ToolMessage(messages'[i].calls[k])
  <2>1. \A k \in 1 .. n : i + k \in 1 .. Len(messages)
    <3>1. i + n <= Len(messages) /\ i \in Nat /\ i >= 1 /\ n \in Nat /\ Len(messages) \in Nat
      BY <1>1, <1>2, <1>4
    <3> QED
      BY ONLY <3>1
  <2> QED
    BY <1>3, <1>4, <2>1 DEF Extends, ToolMessage
<1>8. i + n < Len(messages') => messages'[i + n + 1].role # "tool"
  <2>1. CASE i + n < Len(messages)
    <3>1. i + n + 1 \in 1 .. Len(messages)
      <4>1. i + n < Len(messages) /\ i \in Nat /\ i >= 1 /\ n \in Nat /\ Len(messages) \in Nat
        BY <1>1, <1>2, <2>1
      <4> QED
        BY ONLY <4>1
    <3> QED
      BY <1>4, <2>1, <3>1 DEF Extends
  <2>2. CASE i + n = Len(messages)
    <3>1. i + n < Len(messages') => Len(messages') > Len(messages)
      BY <1>2, <2>2
    <3> QED
      BY <1>1, <2>2, <3>1
  <2>3. i + n < Len(messages) \/ i + n = Len(messages)
    <3>1. i \in Nat /\ n \in Nat /\ Len(messages) \in Nat /\ i + n <= Len(messages)
      BY <1>2, <1>4
    <3> QED
      BY ONLY <3>1
  <2> QED
    BY <2>1, <2>2, <2>3
<1>9. n = Len(messages'[i].calls)
  BY <1>1, <1>3
<1>10. Settled(i)'
  BY <1>6, <1>7, <1>8, <1>9 DEF Settled, AnsweredUpTo, ToolMessage
<1> QED
  BY <1>3, <1>5, <1>10

LEMMA ReplyConverses ==
  ASSUME messages \in Seq(Messages), batch \in Seq(Calls),
         NEW i \in DOMAIN messages, Answering(i), Reply
  PROVE  Conversing' /\ batch' \in Seq(Calls)
<1>1. PICK calls \in Seq(Calls) : calls = messages[i].calls
  BY SpokenCalls DEF Answering
<1>2. PICK done \in Nat : done = Len(messages) - i
  BY DEF Answering
<1>3. /\ i \in 1 .. Len(messages) /\ Len(messages) \in Nat /\ i \in Nat
      /\ Len(calls) \in Nat /\ done < Len(calls) /\ i + done = Len(messages)
      /\ Spoken(i) /\ messages[i].role = "assistant"
  <2>1. i \in 1 .. Len(messages) /\ Len(messages) \in Nat /\ Len(calls) \in Nat
    BY <1>1
  <2>2. done < Len(calls) /\ Spoken(i)
    BY <1>1, <1>2 DEF Answering
  <2>3. i + done = Len(messages) /\ i \in Nat
    <3> DEFINE L == Len(messages)
    <3>1. done = L - i /\ done \in Nat /\ i \in 1 .. L /\ L \in Nat
      BY ONLY <1>2, <2>1
    <3> HIDE DEF L
    <3>2. i + done = L /\ i \in Nat
      BY ONLY <3>1
    <3> QED
      BY ONLY <3>2 DEF L
  <2> QED
    BY <2>1, <2>2, <2>3 DEF Spoken
<1>4. /\ \A k \in 1 .. done : messages[i + k] = ToolMessage(calls[k])
      /\ batch = SubSeq(calls, done + 1, Len(calls))
      /\ \A j \in DOMAIN messages : Spoken(j) /\ j # i =>
            Settled(j) /\ j + Len(messages[j].calls) < i
  BY <1>1, <1>2 DEF Answering, AnsweredUpTo
<1>5. /\ done + 1 \in 1 .. Len(calls) /\ Len(calls) \in done + 1 .. Len(calls)
      /\ done + 1 + 1 = done + 2
  BY <1>3
<1>6. /\ Head(batch) = calls[done + 1]
      /\ Tail(batch) = SubSeq(calls, done + 2, Len(calls))
  BY <1>1, <1>4, <1>5, HeadTailOfSubSeq
<1>7. Len(batch) = Len(calls) - done
  <2>1. \A k \in done + 1 .. Len(calls) : calls[k] \in Calls
    BY <1>1, <1>3
  <2>2. Len(batch) = IF done + 1 <= Len(calls) THEN Len(calls) - (done + 1) + 1 ELSE 0
    BY <1>3, <1>4, <2>1, SubSeqProperties
  <2> QED
    BY <1>3, <2>2
<1>8. calls[done + 1] \in Calls
  BY <1>5
<1>9. PICK answer \in Messages : answer = ToolMessage(calls[done + 1])
  BY <1>8 DEF Messages, ToolMessage
<1>10. answer.role = "tool"
  BY <1>9 DEF ToolMessage
<1>11. messages' = Append(messages, answer)
  BY <1>6, <1>9 DEF Reply
<1>12. /\ Extends /\ Len(messages') = Len(messages) + 1
       /\ messages'[Len(messages) + 1] = answer /\ messages' # <<>>
  BY <1>3, <1>11, AppendProperties DEF Extends
<1>13. /\ DOMAIN messages = 1 .. Len(messages) /\ DOMAIN messages' = 1 .. Len(messages')
       /\ \A k \in 1 .. Len(messages) : messages'[k] = messages[k]
  BY <1>12 DEF Extends
<1>14. i \in DOMAIN messages' /\ messages'[i] = messages[i] /\ Spoken(i)'
  BY <1>3, <1>12, <1>13 DEF Spoken
<1>15. \A k \in 1 .. done + 1 : messages'[i + k] = ToolMessage(calls[k])
  <2>1. ASSUME NEW k \in 1 .. done PROVE messages'[i + k] = ToolMessage(calls[k])
    <3>1. i + k \in 1 .. Len(messages)
      BY <1>3
    <3> QED
      BY <1>4, <1>13, <3>1
  <2>2. messages'[i + (done + 1)] = ToolMessage(calls[done + 1])
    <3>1. i + (done + 1) = Len(messages) + 1
      <4>1. i \in Nat /\ done \in Nat /\ i + done = Len(messages)
        BY <1>3
      <4> QED
        BY ONLY <4>1
    <3> QED
      BY <1>9, <1>12, <3>1
  <2>3. \A k \in 1 .. done + 1 : k \in 1 .. done \/ k = done + 1
    OBVIOUS
  <2> QED
    BY <2>1, <2>2, <2>3
<1>16. ASSUME NEW j \in DOMAIN messages', Spoken(j)', j # i
       PROVE  Settled(j)' /\ j + Len(messages'[j].calls) < i
  <2>1. j \in DOMAIN messages /\ Spoken(j)
    <3>1. j # Len(messages) + 1
      BY <1>10, <1>12, <1>16 DEF Spoken
    <3>2. j \in 1 .. Len(messages)
      BY <1>3, <1>12, <1>13, <3>1
    <3> QED
      BY <1>13, <1>16, <3>2 DEF Spoken
  <2>2. Settled(j) /\ j + Len(messages[j].calls) < i
    BY <1>4, <1>16, <2>1
  <2>3. j + Len(messages[j].calls) # Len(messages)
    BY <1>3, <2>2
  <2>4. Settled(j)' /\ messages'[j] = messages[j]
    BY <1>12, <2>1, <2>2, <2>3, StaysSettled
  <2> QED
    BY <2>2, <2>4
<1>17. batch' \in Seq(Calls)
  <2>1. batch # <<>>
    BY <1>3, <1>7
  <2> QED
    BY <2>1, HeadTailProperties DEF Reply
<1>18. CASE Len(batch) = 1
  <2>1. pc' = "turning" /\ Len(calls) = done + 1
    BY <1>3, <1>7, <1>18 DEF Reply
  <2>2. /\ i + Len(calls) <= Len(messages') /\ ~(i + Len(calls) < Len(messages'))
    BY <1>3, <1>12, <2>1
  <2>3. Settled(i)'
    BY <1>1, <1>14, <1>15, <2>1, <2>2 DEF Settled, AnsweredUpTo, ToolMessage
  <2>4. \A j \in DOMAIN messages' : Spoken(j)' => Settled(j)'
    BY <1>16, <2>3
  <2>5. messages'[Len(messages')].role # "assistant"
    BY <1>10, <1>12
  <2> QED
    BY <1>12, <1>17, <2>1, <2>4, <2>5 DEF Conversing, Extends
<1>19. CASE Len(batch) # 1
  <2>1. pc' = "invoking" /\ batch' = SubSeq(calls, done + 2, Len(calls))
    BY <1>6, <1>19 DEF Reply
  <2>2. /\ Len(messages') - i = done + 1 /\ done + 1 < Len(calls)
        /\ i + (done + 1) <= Len(messages')
    BY <1>3, <1>7, <1>12, <1>19
  <2>3. Answering(i)'
    <3>1. messages'[i].calls = calls
      BY <1>1, <1>14
    <3>2. AnsweredUpTo(i, Len(messages) - i)'
      BY <1>15, <2>2, <3>1 DEF AnsweredUpTo, ToolMessage
    <3> QED
      BY <1>5, <1>14, <1>16, <2>1, <2>2, <3>1, <3>2 DEF Answering
  <2> QED
    BY <1>12, <1>14, <1>17, <2>1, <2>3 DEF Conversing, Extends
<1> QED
  BY <1>17, <1>18, <1>19

LEMMA RespondConverses ==
  ASSUME messages \in Seq(Messages), messages # <<>>,
         messages[Len(messages)].role # "assistant",
         \A i \in DOMAIN messages : Spoken(i) => Settled(i),
         NEW calls \in Seq(Calls), batch' = calls,
         messages' = messages \o <<Assistant(calls)>> \o Nudge(calls),
         pc' = IF calls = <<>> THEN "turning" ELSE "invoking"
  PROVE  Conversing'
<1>1. PICK said \in Messages : said = Assistant(calls)
  BY DEF Messages, Assistant
<1>2. said.role = "assistant" /\ said.calls = calls
  BY <1>1 DEF Assistant
<1>3. PICK user \in Messages : user = User /\ user.role = "user"
  <2>1. User \in [role : {"system", "user"}] /\ User.role = "user"
    BY DEF User
  <2>2. User \in Messages
    BY <2>1 DEF Messages
  <2> QED
    BY <2>1, <2>2
<1>4. PICK i \in Nat : i = Len(messages) + 1 /\ i >= 1
  OBVIOUS
<1> DEFINE asked == messages \o <<said>>
<1>5. /\ asked \in Seq(Messages) /\ Len(asked) = i
      /\ \A k \in 1 .. Len(messages) : asked[k] = messages[k]
      /\ asked[i] = said
  <2>1. <<said>> \in Seq(Messages) /\ Len(<<said>>) = 1 /\ <<said>>[1] = said
    OBVIOUS
  <2>2. /\ asked \in Seq(Messages) /\ Len(asked) = Len(messages) + 1
        /\ \A k \in 1 .. Len(messages) + 1 :
              asked[k] = IF k <= Len(messages) THEN messages[k] ELSE <<said>>[k - Len(messages)]
    BY <2>1, ConcatProperties
  <2>3. Len(messages) \in Nat
    OBVIOUS
  <2>4. (Len(messages) + 1) - Len(messages) = 1 /\ ~(Len(messages) + 1 <= Len(messages))
    BY <2>3
  <2> QED
    BY <1>4, <2>1, <2>2, <2>3, <2>4
<1>6. messages' = asked \o Nudge(calls)
  BY <1>1
<1>7. Len(messages) \in Nat /\ DOMAIN messages = 1 .. Len(messages)
  OBVIOUS
<1> HIDE DEF asked
<1>8. ASSUME NEW j \in DOMAIN messages', Spoken(j)', j # i,
             Extends, messages'[i] = said, i \in DOMAIN messages',
             \A k \in DOMAIN messages' : k > i => messages'[k].role # "assistant"
      PROVE  Settled(j)' /\ j + Len(messages'[j].calls) < i
  <2>1. j \in 1 .. Len(messages)
    <3>1. ~(j > i)
      BY <1>8 DEF Spoken
    <3>2. j \in Nat /\ j >= 1
      BY <1>8 DEF Extends
    <3> QED
      BY <1>4, <1>7, <1>8, <3>1, <3>2
  <2>2. messages'[j] = messages[j]
    BY <1>8, <2>1 DEF Extends
  <2>3. Spoken(j)
    BY <1>8, <2>1, <2>2 DEF Spoken
  <2>4. Settled(j) /\ messages[j].calls \in Seq(Calls)
    BY <1>7, <2>1, <2>3, SpokenCalls
  <2>5. Settled(j)'
    BY <1>2, <1>4, <1>8, <2>3, <2>4, StaysSettled
  <2>6. j + Len(messages[j].calls) <= Len(messages)
    BY <2>4 DEF Settled, AnsweredUpTo
  <2>7. j + Len(messages[j].calls) < i
    <3>1. Len(messages[j].calls) \in Nat /\ j \in Nat
      BY <2>1, <2>4
    <3> QED
      BY <1>4, <1>7, <2>6, <3>1
  <2> QED
    BY <2>2, <2>5, <2>7
<1>9. CASE calls = <<>>
  <2>1. /\ messages' \in Seq(Messages) /\ Len(messages') = i + 1
        /\ \A k \in 1 .. i : messages'[k] = asked[k]
        /\ messages'[i + 1] = user
    <3>1. <<user>> \in Seq(Messages) /\ Len(<<user>>) = 1 /\ <<user>>[1] = user
      OBVIOUS
    <3>2. messages' = asked \o <<user>>
      BY <1>3, <1>6, <1>9 DEF Nudge
    <3>3. /\ messages' \in Seq(Messages) /\ Len(messages') = i + 1
          /\ \A k \in 1 .. i + 1 :
                messages'[k] = IF k <= i THEN asked[k] ELSE <<user>>[k - i]
      <4>1. /\ messages' \in Seq(Messages) /\ Len(messages') = Len(asked) + 1
            /\ \A k \in 1 .. Len(asked) + 1 :
                  messages'[k] = IF k <= Len(asked) THEN asked[k] ELSE <<user>>[k - Len(asked)]
        <5>1. /\ asked \o <<user>> \in Seq(Messages)
              /\ Len(asked \o <<user>>) = Len(asked) + Len(<<user>>)
              /\ \A k \in 1 .. Len(asked) + Len(<<user>>) : (asked \o <<user>>)[k] =
                    IF k <= Len(asked) THEN asked[k] ELSE <<user>>[k - Len(asked)]
          BY <1>5, <3>1, ConcatProperties
        <5> QED
          BY <3>1, <3>2, <5>1
      <4> QED
        BY <1>5, <4>1
    <3>4. (i + 1) - i = 1 /\ ~(i + 1 <= i) /\ \A k \in 1 .. i : k \in 1 .. i + 1 /\ k <= i
      OBVIOUS
    <3>5. i + 1 \in 1 .. i + 1
      OBVIOUS
    <3> QED
      BY <3>1, <3>3, <3>4, <3>5
  <2>2. /\ DOMAIN messages' = 1 .. i + 1 /\ i \in 1 .. i + 1 /\ i \in 1 .. i
        /\ messages'[i] = said
    <3>1. i \in 1 .. i + 1 /\ i \in 1 .. i
      BY <1>4
    <3> QED
      BY <1>5, <2>1, <3>1
  <2>3. Extends
    <3>1. \A k \in 1 .. Len(messages) : k \in 1 .. i
      BY <1>4, <1>7
    <3> QED
      BY <1>4, <1>5, <1>7, <2>1, <3>1 DEF Extends
  <2>4. \A k \in DOMAIN messages' : k > i => messages'[k].role # "assistant"
    BY <1>3, <2>1, <2>2
  <2>5. Settled(i)'
    <3>1. Len(messages'[i].calls) = 0
      BY <1>2, <1>9, <2>2
    <3>2. i + 0 <= Len(messages') /\ i + 0 + 1 = i + 1
      BY <2>1
    <3>3. AnsweredUpTo(i, Len(messages[i].calls))'
      <4>1. 1 .. 0 = {}
        OBVIOUS
      <4> QED
        BY <3>1, <3>2, <4>1 DEF AnsweredUpTo
    <3> QED
      BY <1>3, <2>1, <3>1, <3>2, <3>3 DEF Settled
  <2>6. \A j \in DOMAIN messages' : Spoken(j)' => Settled(j)'
    BY <1>8, <2>2, <2>3, <2>4, <2>5
  <2>7. messages' # <<>> /\ messages'[Len(messages')].role # "assistant"
    BY <1>3, <2>1
  <2> QED
    BY <1>9, <2>1, <2>6, <2>7 DEF Conversing
<1>10. CASE calls # <<>>
  <2>1. messages' = asked
    BY <1>5, <1>6, <1>10, ConcatEmptySeq DEF Nudge
  <2>2. Extends /\ messages'[i] = said /\ DOMAIN messages' = 1 .. i /\ i \in 1 .. i
    <3>1. i \in 1 .. i /\ Len(messages) \in Nat /\ i >= Len(messages)
      BY <1>4, <1>7
    <3>2. messages' \in Seq(Messages) /\ Len(messages') = i
      BY <1>5, <2>1
    <3>3. Extends
      BY <1>5, <2>1, <3>1, <3>2 DEF Extends
    <3> QED
      BY <1>5, <2>1, <3>1, <3>2, <3>3
  <2>3. \A k \in DOMAIN messages' : k > i => messages'[k].role # "assistant"
    BY <2>2
  <2>4. \A j \in DOMAIN messages' :
          Spoken(j)' /\ j # i => Settled(j)' /\ j + Len(messages'[j].calls) < i
    BY <1>8, <2>2, <2>3
  <2>5. Answering(i)'
    <3>1. messages'[i].calls = calls /\ Len(messages') - i = 0 /\ Len(messages') = i
      <4>1. Len(messages') = i /\ i - i = 0
        BY <1>4, <1>5, <2>1
      <4> QED
        BY <1>2, <2>2, <4>1
    <3>2. 0 < Len(calls) /\ 0 + 1 = 1
      BY <1>10
    <3>3. batch' = SubSeq(calls, 0 + 1, Len(calls))
      BY <3>2, SubSeqFull
    <3>4. Spoken(i)'
      BY <1>2, <2>2 DEF Spoken
    <3>5. AnsweredUpTo(i, Len(messages) - i)'
      BY <3>1 DEF AnsweredUpTo
    <3> QED
      BY <2>4, <3>1, <3>2, <3>3, <3>4, <3>5 DEF Answering
  <2> QED
    BY <1>10, <2>2, <2>5 DEF Conversing, Extends
<1> QED
  BY <1>9, <1>10

-----------------------------------------------------------------------------
(***************************************************************************)
(* The script of a policy                                                  *)
(***************************************************************************)

LEMMA WritingTyped ==
  ASSUME NEW path \in STRING, NEW text \in Text
  PROVE  Writing(path, text) \in Calls
BY DEF Writing, Calls, ToolCalls

\* SetToSeq puts the solution in some order.
LEMMA OrderTyped ==
  /\ SetToSeq(DOMAIN Solved) \in Seq(DOMAIN Solved)
  /\ Range(SetToSeq(DOMAIN Solved)) = DOMAIN Solved
<1> DEFINE S == DOMAIN Solved
<1>1. IsFiniteSet(S) /\ Cardinality(S) \in Nat /\ ExistsBijection(1 .. Cardinality(S), S)
  BY FilesAssumption, FS_CardinalityType
<1>2. \E f \in [1 .. Cardinality(S) -> S] : IsInjective(f)
  BY <1>1 DEF ExistsBijection, Bijection, Injection
<1>3. SetToSeq(S) \in [1 .. Cardinality(S) -> S] /\ IsInjective(SetToSeq(S))
  BY <1>2 DEF SetToSeq
<1>4. SetToSeq(S) \in Injection(1 .. Cardinality(S), S)
  BY <1>3 DEF Injection
<1>5. Cardinality(1 .. Cardinality(S)) = Cardinality(S)
  BY <1>1, FS_Interval
<1>6. SetToSeq(S) \in Surjection(1 .. Cardinality(S), S)
  BY <1>1, <1>4, <1>5, FS_Injection
<1>7. Range(SetToSeq(S)) = S
  BY <1>6, Fun_SurjectionProperties
<1> QED
  BY <1>1, <1>3, <1>7

LEMMA FixesTyped ==
  /\ Fixes \in Seq(Calls)
  /\ Range(Fixes) = {Writing(q, Solved[q]) : q \in DOMAIN Solved}
<1> DEFINE order == SetToSeq(DOMAIN Solved)
<1>1. order \in Seq(DOMAIN Solved) /\ Range(order) = DOMAIN Solved
  BY OrderTyped
<1>2. DOMAIN order = 1 .. Len(order) /\ Len(order) \in Nat
  BY <1>1
<1>3. \A k \in 1 .. Len(order) : order[k] \in DOMAIN Solved
  BY <1>1
<1>4. \A k \in 1 .. Len(order) : Writing(order[k], Solved[order[k]]) \in Calls
  BY <1>3, WritingTyped, FilesAssumption, ControlsAssumption
<1>5. Fixes = [k \in 1 .. Len(order) |-> Writing(order[k], Solved[order[k]])]
  BY <1>2 DEF Fixes
<1> HIDE DEF order
<1>6. DOMAIN Fixes = DOMAIN order
  BY <1>2, <1>5
<1>7. Range(Fixes) = {Writing(q, Solved[q]) : q \in Range(order)}
  BY <1>2, <1>5, <1>6 DEF Range
<1> QED
  BY <1>1, <1>2, <1>4, <1>5, <1>7

\* The calls before the tests.
Edits(p) ==
    << [tool |-> "list_files"] >>
    \o (IF p.read_before_edit
        THEN [k \in 1 .. 1 + p.redundant_reads |-> Reading(p.target)] ELSE <<>>)
    \o (IF Handles(p) THEN Fixes
        ELSE IF Botches(p) THEN << [tool |-> "botch", path |-> p.target] >> ELSE <<>>)
    \o [k \in DOMAIN p.escape_attempts |-> Writing(p.escape_attempts[k], <<"pwned">>)]
    \o (IF p.scope_creep THEN << Writing(NotesPath, <<"note">>) >> ELSE <<>>)

\* What may be in the script of a policy.
InScript(p, c) ==
    \/ c.tool \in {"list_files", "read_file", "run_tests", "submit"}
    \/ c.tool = "botch" /\ c.path = p.target /\ Botches(p)
    \/ /\ c.tool = "write_file"
       /\ \/ Handles(p) /\ c.path \in DOMAIN Solved /\ c.contents = Solved[c.path]
          \/ c.path \in Range(p.escape_attempts)
          \/ p.scope_creep /\ c.path = NotesPath

LEMMA RangeConcat ==
  ASSUME NEW S, NEW s \in Seq(S), NEW t \in Seq(S)
  PROVE  s \o t \in Seq(S) /\ Range(s \o t) = Range(s) \cup Range(t)
<1>1. PICK m \in Nat, n \in Nat : m = Len(s) /\ n = Len(t)
  OBVIOUS
<1> DEFINE st == s \o t
<1>2. /\ st \in Seq(S) /\ Len(st) = m + n
      /\ \A k \in 1 .. m + n : st[k] = IF k <= m THEN s[k] ELSE t[k - m]
  BY <1>1, ConcatProperties
<1> HIDE DEF st
<1>3. DOMAIN st = 1 .. m + n /\ DOMAIN s = 1 .. m /\ DOMAIN t = 1 .. n
  BY <1>1, <1>2
<1>4. \A k \in 1 .. m + n : st[k] \in Range(s) \cup Range(t)
  <2>1. ASSUME NEW k \in 1 .. m + n, k <= m PROVE st[k] \in Range(s)
    <3>1. k \in 1 .. m
      BY <2>1
    <3> QED
      BY <1>2, <1>3, <2>1, <3>1 DEF Range
  <2>2. ASSUME NEW k \in 1 .. m + n, ~(k <= m) PROVE st[k] \in Range(t)
    <3>1. k - m \in 1 .. n
      BY <2>2
    <3> QED
      BY <1>2, <1>3, <2>2, <3>1 DEF Range
  <2> QED
    BY <2>1, <2>2
<1>5. \A k \in 1 .. m : s[k] \in Range(st)
  <2>1. \A k \in 1 .. m : k \in 1 .. m + n /\ k <= m
    OBVIOUS
  <2> QED
    BY <1>2, <1>3, <2>1 DEF Range
<1>6. \A k \in 1 .. n : t[k] \in Range(st)
  <2>1. \A k \in 1 .. n : k + m \in 1 .. m + n /\ ~(k + m <= m) /\ (k + m) - m = k
    OBVIOUS
  <2> QED
    BY <1>2, <1>3, <2>1 DEF Range
<1>7. Range(st) = Range(s) \cup Range(t)
  BY <1>3, <1>4, <1>5, <1>6 DEF Range
<1> QED
  BY <1>2, <1>7 DEF st

LEMMA ScriptTyped ==
  ASSUME NEW p \in Controls
  PROVE  /\ Script(p) \in Seq(Calls) /\ Script(p) # <<>>
         /\ Script(p)[Len(Script(p))].tool = "submit"
         /\ \A c \in Range(Script(p)) : InScript(p, c)
         /\ Handles(p) => \A q \in DOMAIN Solved : Writing(q, Solved[q]) \in Range(Script(p))
         /\ \A q \in Range(p.escape_attempts) : Writing(q, <<"pwned">>) \in Range(Script(p))
<1> DEFINE A == << [tool |-> "list_files"] >>
           B == IF p.read_before_edit
                THEN [k \in 1 .. 1 + p.redundant_reads |-> Reading(p.target)] ELSE <<>>
           C == IF Handles(p) THEN Fixes
                ELSE IF Botches(p) THEN << [tool |-> "botch", path |-> p.target] >> ELSE <<>>
           D == [k \in DOMAIN p.escape_attempts |-> Writing(p.escape_attempts[k], <<"pwned">>)]
           E == IF p.scope_creep THEN << Writing(NotesPath, <<"note">>) >> ELSE <<>>
           F == << [tool |-> "run_tests"], [tool |-> "submit"] >>
<1>1. /\ p.redundant_reads \in Nat /\ p.target \in STRING
      /\ p.escape_attempts \in Seq(STRING \ DOMAIN Solved)
  BY ControlsAssumption
<1>2. <<"pwned">> \in Text /\ <<"note">> \in Text
  BY ControlsAssumption DEF Text
<1>3. A \in Seq(Calls) /\ \A c \in Range(A) : c.tool = "list_files"
  <2>1. [tool |-> "list_files"] \in [tool : {"list_files", "run_tests", "submit"}]
    OBVIOUS
  <2>2. [tool |-> "list_files"] \in Calls
    BY <2>1 DEF Calls, ToolCalls
  <2>3. A \in Seq(Calls) /\ DOMAIN A = {1} /\ A[1] = [tool |-> "list_files"]
    BY <2>2
  <2> QED
    BY <2>3 DEF Range
<1>4. B \in Seq(Calls) /\ \A c \in Range(B) : c.tool = "read_file"
  <2>1. Reading(p.target) \in Calls
    BY <1>1 DEF Reading, Calls, ToolCalls
  <2>2. [k \in 1 .. 1 + p.redundant_reads |-> Reading(p.target)] \in Seq(Calls)
    BY <1>1, <2>1
  <2>3. Reading(p.target).tool = "read_file"
    BY DEF Reading
  <2>4. \A k \in DOMAIN B : B[k] = Reading(p.target)
    OBVIOUS
  <2> QED
    BY <2>2, <2>3, <2>4 DEF Range
<1>5. /\ C \in Seq(Calls) /\ \A c \in Range(C) : InScript(p, c)
      /\ Handles(p) => \A q \in DOMAIN Solved : Writing(q, Solved[q]) \in Range(C)
  <2>1. [tool |-> "botch", path |-> p.target] \in Calls
    BY <1>1 DEF Calls
  <2>2. << [tool |-> "botch", path |-> p.target] >> \in Seq(Calls)
    BY <2>1
  <2>3. CASE Handles(p)
    <3>1. C = Fixes
      BY <2>3
    <3>2. \A q \in DOMAIN Solved : InScript(p, Writing(q, Solved[q]))
      BY <2>3 DEF InScript, Writing
    <3> QED
      BY <3>1, <3>2, FixesTyped
  <2>4. CASE ~Handles(p) /\ Botches(p)
    <3>1. C = << [tool |-> "botch", path |-> p.target] >>
      BY <2>4
    <3>2. DOMAIN C = {1} /\ C[1] = [tool |-> "botch", path |-> p.target]
      BY <3>1
    <3>3. InScript(p, [tool |-> "botch", path |-> p.target])
      BY <2>4 DEF InScript
    <3>4. \A c \in Range(C) : InScript(p, c)
      BY <3>2, <3>3 DEF Range
    <3> QED
      BY <2>2, <2>4, <3>1, <3>4
  <2>5. CASE ~Handles(p) /\ ~Botches(p)
    <3>1. C = <<>>
      BY <2>5
    <3>2. <<>> \in Seq(Calls) /\ Range(<<>>) = {}
      BY DEF Range
    <3> HIDE DEF C
    <3>3. C \in Seq(Calls) /\ \A c \in Range(C) : InScript(p, c)
      BY <3>1, <3>2
    <3> QED
      BY <2>5, <3>3
  <2> QED
    BY <2>3, <2>4, <2>5
<1>6. /\ D \in Seq(Calls) /\ \A c \in Range(D) : InScript(p, c)
      /\ \A q \in Range(p.escape_attempts) : Writing(q, <<"pwned">>) \in Range(D)
  <2>1. DOMAIN p.escape_attempts = 1 .. Len(p.escape_attempts) /\ Len(p.escape_attempts) \in Nat
    BY <1>1
  <2>2. \A k \in DOMAIN p.escape_attempts : Writing(p.escape_attempts[k], <<"pwned">>) \in Calls
    <3>1. \A k \in DOMAIN p.escape_attempts : p.escape_attempts[k] \in STRING
      BY <1>1
    <3> QED
      BY <1>2, <3>1, WritingTyped
  <2>3. D \in Seq(Calls) /\ DOMAIN D = DOMAIN p.escape_attempts
        /\ \A k \in DOMAIN D : D[k] = Writing(p.escape_attempts[k], <<"pwned">>)
    BY <2>1, <2>2
  <2>4. \A q \in Range(p.escape_attempts) : InScript(p, Writing(q, <<"pwned">>))
    BY DEF InScript, Writing
  <2> HIDE DEF D
  <2>5. Range(D) = {Writing(q, <<"pwned">>) : q \in Range(p.escape_attempts)}
    BY <2>3 DEF Range
  <2> QED
    BY <2>3, <2>4, <2>5
<1>7. E \in Seq(Calls) /\ \A c \in Range(E) : InScript(p, c)
  <2>1. Writing(NotesPath, <<"note">>) \in Calls
    BY <1>2, WritingTyped, ControlsAssumption
  <2>2. CASE p.scope_creep
    <3>1. /\ E \in Seq(Calls) /\ DOMAIN E = {1} /\ E[1] = Writing(NotesPath, <<"note">>)
      BY <2>1, <2>2
    <3>2. InScript(p, Writing(NotesPath, <<"note">>))
      BY <2>2 DEF InScript, Writing
    <3> QED
      BY <3>1, <3>2 DEF Range
  <2>3. CASE ~p.scope_creep
    <3>1. E = <<>>
      BY <2>3
    <3>2. Range(E) = {} /\ E \in Seq(Calls)
      BY <3>1 DEF Range
    <3> QED
      BY <3>2
  <2> QED
    BY <2>2, <2>3
<1>8. /\ F \in Seq(Calls) /\ Len(F) = 2 /\ F[2].tool = "submit"
      /\ \A c \in Range(F) : c.tool \in {"run_tests", "submit"}
  <2>1. /\ [tool |-> "run_tests"] \in [tool : {"list_files", "run_tests", "submit"}]
        /\ [tool |-> "submit"] \in [tool : {"list_files", "run_tests", "submit"}]
    OBVIOUS
  <2>2. [tool |-> "run_tests"] \in Calls /\ [tool |-> "submit"] \in Calls
    BY <2>1 DEF Calls, ToolCalls
  <2>3. /\ F \in Seq(Calls) /\ Len(F) = 2 /\ DOMAIN F = {1, 2}
        /\ F[1] = [tool |-> "run_tests"] /\ F[2] = [tool |-> "submit"]
    BY <2>2
  <2> QED
    BY <2>3 DEF Range
<1>9. Edits(p) = A \o B \o C \o D \o E /\ Script(p) = A \o B \o C \o D \o E \o F
  BY DEF Edits, Script
<1> HIDE DEF A, B, C, D, E, F
<1>10. /\ Edits(p) \in Seq(Calls)
       /\ Range(Edits(p)) = Range(A) \cup Range(B) \cup Range(C) \cup Range(D) \cup Range(E)
  <2> DEFINE AB == A \o B
             ABC == AB \o C
             ABCD == ABC \o D
             ABCDE == ABCD \o E
  <2>1. AB \in Seq(Calls) /\ Range(AB) = Range(A) \cup Range(B)
    BY <1>3, <1>4, RangeConcat
  <2>2. Edits(p) = ABCDE
    BY <1>9
  <2> HIDE DEF AB
  <2>3. ABC \in Seq(Calls) /\ Range(ABC) = Range(AB) \cup Range(C)
    BY <1>5, <2>1, RangeConcat
  <2> HIDE DEF ABC
  <2>4. ABCD \in Seq(Calls) /\ Range(ABCD) = Range(ABC) \cup Range(D)
    BY <1>6, <2>3, RangeConcat
  <2> HIDE DEF ABCD
  <2>5. ABCDE \in Seq(Calls) /\ Range(ABCDE) = Range(ABCD) \cup Range(E)
    BY <1>7, <2>4, RangeConcat
  <2> HIDE DEF ABCDE
  <2> QED
    BY <2>1, <2>2, <2>3, <2>4, <2>5
<1>11. Script(p) = Edits(p) \o F
  BY <1>9
<1>12. PICK n \in Nat : n = Len(Edits(p))
  BY <1>10
<1>13. /\ Script(p) \in Seq(Calls) /\ Len(Script(p)) = n + 2
       /\ \A k \in 1 .. n + 2 : Script(p)[k] = IF k <= n THEN Edits(p)[k] ELSE F[k - n]
  <2>1. /\ Edits(p) \o F \in Seq(Calls) /\ Len(Edits(p) \o F) = Len(Edits(p)) + Len(F)
        /\ \A k \in 1 .. Len(Edits(p)) + Len(F) : (Edits(p) \o F)[k] =
              IF k <= Len(Edits(p)) THEN Edits(p)[k] ELSE F[k - Len(Edits(p))]
    BY <1>8, <1>10, ConcatProperties
  <2> QED
    BY <1>8, <1>11, <1>12, <2>1
<1>14. n + 2 \in 1 .. n + 2 /\ ~(n + 2 <= n) /\ (n + 2) - n = 2 /\ n + 2 # 0
  OBVIOUS
<1>15. Range(Script(p)) = Range(Edits(p)) \cup Range(F)
  BY <1>8, <1>10, <1>11, RangeConcat
<1>16. \A c \in Range(Script(p)) : InScript(p, c)
  <2>1. \A c \in Range(A) \cup Range(B) \cup Range(F) : InScript(p, c)
    BY <1>3, <1>4, <1>8 DEF InScript
  <2> QED
    BY <1>5, <1>6, <1>7, <1>10, <1>15, <2>1
<1>17. Range(C) \subseteq Range(Script(p)) /\ Range(D) \subseteq Range(Script(p))
  BY <1>10, <1>15
<1> QED
  BY <1>5, <1>6, <1>8, <1>13, <1>14, <1>16, <1>17

LEMMA MadeTyped ==
  ASSUME Typed, NEW c \in Calls, Makes(c)
  PROVE  Made(c) \in Calls /\ (c.tool # "botch" => Made(c) = c)
<1>1. CASE c.tool = "botch"
  <2>1. files[c.path] \in Text /\ c.path \in STRING
    <3>1. c.path \in Paths /\ files[c.path] \notin {Absent, Binary}
      BY <1>1 DEF Makes, Readable, Outside
    <3> QED
      BY <1>1, <3>1, CallFields DEF Typed
  <2>2. Append(files[c.path], "reviewed") \in Text
    BY <2>1, ControlsAssumption, AppendProperties DEF Text
  <2>3. Made(c) = Writing(c.path, Append(files[c.path], "reviewed"))
    BY <1>1 DEF Made
  <2> QED
    BY <1>1, <2>1, <2>2, <2>3, WritingTyped
<1>2. CASE c.tool # "botch"
  BY <1>2 DEF Made
<1> QED
  BY <1>1, <1>2

-----------------------------------------------------------------------------
(***************************************************************************)
(* What the steps do to the trace                                          *)
(***************************************************************************)

TraceSound == Numbered /\ ResultsInOrder /\ TestsUnderWay

LEMMA CallStep ==
  ASSUME IInv, NEW c \in Calls, Invoke(c, FALSE), pc \in Calling, pc' \notin Interrupted
  PROVE  TraceSound' /\ Effects(c)
<1>1. MakesCall(c) /\ Effects(c)
  BY InvokeWorks, WorksEffects DEF IInv
<1>2. pc \notin Interrupted /\ events \in Seq(TraceEvents)
  BY DEF Calling, Interrupted, IInv, Typed, TypeOK
<1>3. Numbered' /\ ResultsInOrder'
  BY <1>1, <1>2, MakesKeeps DEF IInv
<1>4. TestsUnderWay'
  BY DEF TestsUnderWay, Testing, Interrupted
<1> QED
  BY <1>1, <1>3, <1>4 DEF TraceSound

LEMMA CrashStep ==
  ASSUME IInv, NEW c \in Calls, Invoke(c, TRUE), pc \in Calling, pc' \in {"crashed", "replayed"}
  PROVE  TraceSound' /\ Quiet
<1>1. OpensCall(c) /\ Quiet
  BY InvokeRaises, RaisesEffects DEF IInv
<1>2. pc \notin Interrupted /\ pc' \in Interrupted /\ events \in Seq(TraceEvents)
  BY DEF Calling, Interrupted, IInv, Typed, TypeOK
<1>3. Numbered' /\ ResultsInOrder'
  BY <1>1, <1>2, OpensKeeps DEF IInv
<1>4. TestsUnderWay'
  BY DEF TestsUnderWay, Testing
<1> QED
  BY <1>1, <1>3, <1>4 DEF TraceSound

LEMMA StartStep ==
  ASSUME IInv, NEW c \in Calls, StartTests(c), pc \in Calling, pc' \in Testing
  PROVE  TraceSound' /\ Quiet /\ Kinds("AgentError")' = Kinds("AgentError")
<1>1. OpensCall(c) /\ Quiet /\ c.tool = "run_tests" /\ Kinds("AgentError")' = Kinds("AgentError")
  BY StartEffects DEF IInv
<1>2. pc \notin Interrupted /\ pc' \in Interrupted /\ events \in Seq(TraceEvents)
  BY DEF Calling, Testing, Interrupted, IInv, Typed, TypeOK
<1>3. Numbered' /\ ResultsInOrder' /\ TestsUnderWay'
  BY <1>1, <1>2, OpensKeeps DEF IInv
<1> QED
  BY <1>1, <1>3 DEF TraceSound

LEMMA FinishStep ==
  ASSUME IInv, FinishTests, pc \in Testing, pc' \notin Testing
  PROVE  TraceSound' /\ Quiet /\ Kinds("AgentError")' = Kinds("AgentError")
<1>1. CallCount > 0
  <2>1. CallCount \in 1 .. CallCount
    BY DEF IInv, TestsUnderWay, Numbered
  <2> QED
    BY <2>1
<1>2. ClosesCall /\ Quiet /\ Kinds("AgentError")' = Kinds("AgentError")
  BY <1>1, FinishEffects DEF IInv
<1>3. Numbered' /\ ResultsInOrder'
  BY <1>2, ClosesKeeps DEF IInv, Typed, TypeOK
<1>4. TestsUnderWay'
  BY DEF TestsUnderWay
<1> QED
  BY <1>2, <1>3, <1>4 DEF TraceSound

LEMMA AsideStep ==
  ASSUME IInv, NEW e \in TraceEvents, Record(<<e>>), UNCHANGED <<files, submitted, faults>>,
         e.kind \in {"ModelCall", "AgentError"},
         pc \in Interrupted => pc' \in Interrupted, pc' \notin Testing
  PROVE  /\ TraceSound' /\ Quiet
         /\ e.kind = "ModelCall" => Kinds("AgentError")' = Kinds("AgentError")
         /\ e.kind = "AgentError" =>
                \E n \in News : Kinds("AgentError")' = Kinds("AgentError") \cup {n}
<1>1. /\ NoCall /\ Quiet
      /\ e.kind = "ModelCall" => Kinds("AgentError")' = Kinds("AgentError")
      /\ e.kind = "AgentError" =>
             \E n \in News : Kinds("AgentError")' = Kinds("AgentError") \cup {n}
  BY AsideEffects DEF IInv
<1>2. Numbered' /\ ResultsInOrder'
  BY <1>1, NoCallKeeps DEF IInv, Typed, TypeOK
<1>3. TestsUnderWay'
  BY DEF TestsUnderWay
<1> QED
  BY <1>1, <1>2, <1>3 DEF TraceSound

LEMMA StillStep ==
  ASSUME IInv, UNCHANGED toolVars,
         pc \in Interrupted => pc' \in Interrupted, pc' \notin Testing
  PROVE  TraceSound' /\ Quiet /\ Kinds("AgentError")' = Kinds("AgentError")
<1>1. NoCall /\ Quiet /\ Kinds("AgentError")' = Kinds("AgentError")
  BY StillEffects DEF IInv
<1>2. Numbered' /\ ResultsInOrder'
  BY <1>1, NoCallKeeps DEF IInv, Typed, TypeOK
<1>3. TestsUnderWay'
  BY DEF TestsUnderWay
<1> QED
  BY <1>1, <1>2, <1>3 DEF TraceSound

-----------------------------------------------------------------------------
(***************************************************************************)
(* The invariant is inductive                                              *)
(***************************************************************************)

LEMMA AttemptTyped ==
  ASSUME IInv, events' \in Seq(TraceEvents), FilesTyped', pc \in AgentPlaces, pc' \in AgentPlaces,
         step' \in 0 .. MaxSteps, batch' \in Seq(Calls), UNCHANGED replayVars
  PROVE  Typed' /\ ReplayLater'
<1>1. UNCHANGED <<policy, recording, next, skipped>>
  BY DEF replayVars
<1>2. next = 1 /\ recording = <<>>
  BY DEF IInv, ReplayLater
<1>3. ReplayLater'
  BY <1>1, <1>2 DEF ReplayLater, AgentPlaces
<1>4. TypeOK
  BY DEF IInv, Typed
<1>5. TypeOK'
  BY <1>1, <1>4 DEF TypeOK, FilesTyped
<1> QED
  BY <1>3, <1>5 DEF Typed, FilesTyped

LEMMA ErrorTyped ==
  ASSUME NEW type \in ErrorTypes
  PROVE  AgentError(type) \in TraceEvents /\ AgentError(type).kind = "AgentError"
<1>1. AgentError(type) \in [kind : {"AgentError"}, type : ErrorTypes]
  BY DEF AgentError
<1> QED
  BY <1>1 DEF TraceEvents, AgentError

LEMMA ModelCallTyped ==
  ASSUME NEW cached \in BOOLEAN
  PROVE  /\ [kind |-> "ModelCall", cached |-> cached] \in TraceEvents
         /\ [kind |-> "ModelCall", cached |-> cached].kind = "ModelCall"
<1>1. [kind |-> "ModelCall", cached |-> cached] \in [kind : {"ModelCall"}, cached : BOOLEAN]
  OBVIOUS
<1> QED
  BY <1>1 DEF TraceEvents

\* A conversation that does not change between two waits.
LEMMA StillConverses ==
  ASSUME Conversing, UNCHANGED <<messages, batch>>,
         pc' \in {"asking", "turning"} => pc \in {"asking", "turning"},
         pc' \in {"invoking", "testing"} => pc \in {"invoking", "testing"}
  PROVE  Conversing'
<1>1. \A i : (Spoken(i)' <=> Spoken(i)) /\ (Settled(i)' <=> Settled(i))
  BY DEF Spoken, Settled, AnsweredUpTo, ToolMessage
<1>2. \A i : Answering(i)' <=> Answering(i)
  BY <1>1 DEF Answering, AnsweredUpTo, ToolMessage
<1> QED
  BY <1>1, <1>2 DEF Conversing

\* The next call of a model.
LEMMA NextCallTyped ==
  ASSUME IInv, pc \in {"invoking", "testing"}
  PROVE  /\ \E i \in DOMAIN messages : Answering(i)
         /\ messages \in Seq(Messages) /\ batch \in Seq(Calls) /\ Head(batch) \in Calls
<1>1. PICK i \in DOMAIN messages : Answering(i)
  BY DEF IInv, Conversing
<1>2. messages \in Seq(Messages) /\ batch \in Seq(Calls)
  BY DEF IInv, Conversing, Typed, TypeOK
<1>3. /\ Len(messages) \in Nat /\ i \in 1 .. Len(messages) /\ messages[i].calls \in Seq(Calls)
      /\ Len(messages) - i < Len(messages[i].calls)
      /\ batch = SubSeq(messages[i].calls, Len(messages) - i + 1, Len(messages[i].calls))
  BY <1>1, <1>2, SpokenCalls DEF Answering
<1>4. PICK n \in Nat : n = Len(messages) - i + 1 /\ n \in 1 .. Len(messages[i].calls)
                        /\ Len(messages[i].calls) \in n .. Len(messages[i].calls)
  BY <1>3
<1>5. Head(batch) = messages[i].calls[n]
  BY <1>3, <1>4, HeadTailOfSubSeq
<1>6. messages[i].calls[n] \in Calls
  BY ONLY <1>3, <1>4
<1> QED
  BY ONLY <1>1, <1>2, <1>5, <1>6

LEMMA ReplyKeeps ==
  ASSUME IInv, pc \in {"invoking", "testing"}, Reply, TraceSound',
         events' \in Seq(TraceEvents), FilesTyped', FilesTraced', UNCHANGED replayVars,
         Kinds("AgentError")' = Kinds("AgentError"),
         submitted' <=> Kinds("Submission")' # {}
  PROVE  IInv'
<1>1. Conversing' /\ batch' \in Seq(Calls)
  BY NextCallTyped, ReplyConverses
<1>2. pc' \in {"turning", "invoking"} /\ step' = step
  BY DEF Reply
<1>3. Typed' /\ ReplayLater'
  BY <1>1, <1>2, AttemptTyped DEF AgentPlaces, IInv, Typed, TypeOK
<1>4. EndsOnce'
  <2>1. Kinds("AgentError") = {}
    BY DEF IInv, EndsOnce, Working
  <2> QED
    BY <1>2, <2>1 DEF EndsOnce
<1>5. ScriptGoesOn' /\ EndExplained'
  BY <1>2 DEF ScriptGoesOn, EndExplained
<1> QED
  BY <1>1, <1>3, <1>4, <1>5 DEF IInv, TraceSound

LEMMA AgentKeeps ==
  ASSUME IInv, AgentNext, UNCHANGED replayVars
  PROVE  IInv'
<1>1. /\ events \in Seq(TraceEvents) /\ step \in 0 .. MaxSteps /\ MaxSteps \in Nat
      /\ batch \in Seq(Calls) /\ messages \in Seq(Messages) /\ FilesTyped
  BY AgentAssumption DEF IInv, Typed, TypeOK, Conversing, FilesTyped
<1>2. /\ submitted <=> Kinds("Submission") # {}
      /\ pc \in Working => Kinds("AgentError") = {}
      /\ FilesTraced
  BY DEF IInv, EndsOnce
<1>3. ASSUME NEW calls \in Responses, Respond(calls) PROVE IInv'
  <2>1. PICK e \in TraceEvents : e = [kind |-> "ModelCall", cached |-> FALSE] /\ e.kind = "ModelCall"
    BY ModelCallTyped
  <2>2. /\ pc = "asking" /\ Record(<<e>>) /\ UNCHANGED <<files, submitted, faults>>
        /\ pc' \in {"turning", "invoking"} /\ step' = step + 1
    BY <1>3, <2>1 DEF Respond
  <2>3. TraceSound' /\ Quiet /\ Kinds("AgentError")' = Kinds("AgentError")
    BY <2>1, <2>2, AsideStep DEF Interrupted, Testing
  <2>4. calls \in Seq(Calls)
    BY AgentAssumption
  <2>5. Conversing'
    BY <1>1, <1>3, <2>2, <2>4, RespondConverses DEF Respond, IInv, Conversing
  <2>6. step' \in 0 .. MaxSteps
    BY <1>1, <2>2 DEF IInv, EndsOnce
  <2>7. batch' \in Seq(Calls)
    BY <1>3, <2>4 DEF Respond
  <2>8. Typed' /\ ReplayLater'
    BY <2>2, <2>3, <2>6, <2>7, AttemptTyped DEF AgentPlaces, Quiet
  <2>9. EndsOnce' /\ EndExplained' /\ ScriptGoesOn'
    BY <1>2, <2>2, <2>3 DEF EndsOnce, EndExplained, ScriptGoesOn, Quiet, Working
  <2> QED
    BY <1>2, <2>3, <2>5, <2>8, <2>9 DEF IInv, TraceSound, Quiet
<1>4. ASSUME NEW type \in {"BudgetExceeded", "ModelBehaviourError"}, GiveUp(type) PROVE IInv'
  <2>1. PICK e \in TraceEvents : e = AgentError(type) /\ e.kind = "AgentError"
    BY ErrorTyped DEF ErrorTypes
  <2>2. /\ pc = "asking" /\ Record(<<e>>) /\ UNCHANGED <<files, submitted, faults>>
        /\ pc' = "ended" /\ UNCHANGED <<step, messages, batch>>
    BY <1>4, <2>1 DEF GiveUp
  <2>3. /\ TraceSound' /\ Quiet
        /\ \E n \in News : Kinds("AgentError")' = Kinds("AgentError") \cup {n}
    BY <2>1, <2>2, AsideStep DEF Interrupted, Testing
  <2>4. Conversing'
    BY <2>2, StillConverses DEF IInv
  <2>5. Typed' /\ ReplayLater'
    BY <1>1, <2>2, <2>3, AttemptTyped DEF AgentPlaces, Quiet
  <2>6. ~submitted' /\ Kinds("Submission")' = {} /\ Cardinality(Kinds("AgentError"))' = 1
    <3>1. ~submitted /\ Kinds("AgentError") = {}
      BY <1>2, <2>2 DEF IInv, EndsOnce, Working
    <3>2. PICK n \in News : Kinds("AgentError")' = {n}
      BY <2>3, <3>1
    <3> QED
      BY <1>2, <2>3, <3>1, <3>2, FS_Singleton DEF Quiet
  <2>7. EndsOnce' /\ EndExplained' /\ ScriptGoesOn'
    BY <2>2, <2>6 DEF EndsOnce, EndExplained, ScriptGoesOn, Working
  <2> QED
    BY <1>2, <2>3, <2>4, <2>5, <2>7 DEF IInv, TraceSound, Quiet
<1>5. CASE ModelFails \/ CancelAttempt
  <2>1. /\ pc' \in {"raised", "cancelled"} /\ UNCHANGED <<toolVars, step, messages, batch>>
        /\ pc \in {"asking", "testing"} /\ (pc = "testing" => pc' = "cancelled")
    BY <1>5 DEF ModelFails, CancelAttempt
  <2>2. TraceSound' /\ Quiet /\ Kinds("AgentError")' = Kinds("AgentError")
    BY <2>1, StillStep DEF Interrupted, Testing
  <2>3. Conversing'
    BY <2>1, StillConverses DEF IInv
  <2>4. Typed' /\ ReplayLater'
    BY <1>1, <2>1, <2>2, AttemptTyped DEF AgentPlaces, Quiet
  <2>5. EndsOnce' /\ EndExplained' /\ ScriptGoesOn'
    BY <1>2, <2>1, <2>2 DEF EndsOnce, EndExplained, ScriptGoesOn, Working, Quiet
  <2> QED
    BY <1>2, <2>2, <2>3, <2>4, <2>5 DEF IInv, TraceSound, Quiet
<1>6. CASE Refuse
  <2>1. pc = "invoking" /\ Reply /\ UNCHANGED toolVars /\ pc' \in {"turning", "invoking"}
    BY <1>6 DEF Refuse, Reply
  <2>2. TraceSound' /\ Quiet /\ Kinds("AgentError")' = Kinds("AgentError")
    BY <2>1, StillStep DEF Interrupted, Testing
  <2> QED
    BY <1>2, <2>1, <2>2, ReplyKeeps DEF Quiet
<1>7. CASE Use
  <2>1. pc = "invoking" /\ Invoke(Head(batch), FALSE) /\ Reply /\ pc' \in {"turning", "invoking"}
    BY <1>7 DEF Use, Reply
  <2>2. Head(batch) \in Calls
    BY <2>1, NextCallTyped
  <2>3. TraceSound' /\ Effects(Head(batch))
    BY <2>1, <2>2, CallStep DEF Interrupted, Calling
  <2> QED
    BY <1>2, <2>1, <2>3, ReplyKeeps DEF Effects
<1>8. CASE Crash
  <2>1. /\ pc = "invoking" /\ Invoke(Head(batch), TRUE) /\ pc' = "crashed"
        /\ UNCHANGED <<step, messages, batch>>
    BY <1>8 DEF Crash
  <2>2. Head(batch) \in Calls
    BY <2>1, NextCallTyped
  <2>3. TraceSound' /\ Quiet
    BY <2>1, <2>2, CrashStep DEF Calling
  <2>4. Conversing'
    BY <2>1, StillConverses DEF IInv
  <2>5. Typed' /\ ReplayLater'
    BY <1>1, <2>1, <2>3, AttemptTyped DEF AgentPlaces, Quiet
  <2>6. EndsOnce' /\ EndExplained' /\ ScriptGoesOn'
    BY <1>2, <2>1, <2>3 DEF EndsOnce, EndExplained, ScriptGoesOn, Working, Quiet
  <2> QED
    BY <1>2, <2>3, <2>4, <2>5, <2>6 DEF IInv, TraceSound, Quiet
<1>9. CASE BeginTests
  <2>1. /\ pc = "invoking" /\ StartTests(Head(batch)) /\ pc' = "testing"
        /\ UNCHANGED <<step, messages, batch>>
    BY <1>9 DEF BeginTests
  <2>2. Head(batch) \in Calls
    BY <2>1, NextCallTyped
  <2>3. TraceSound' /\ Quiet /\ Kinds("AgentError")' = Kinds("AgentError")
    BY <2>1, <2>2, StartStep DEF Calling, Testing
  <2>4. Conversing'
    BY <2>1, StillConverses DEF IInv
  <2>5. Typed' /\ ReplayLater'
    BY <1>1, <2>1, <2>3, AttemptTyped DEF AgentPlaces, Quiet
  <2>6. EndsOnce' /\ EndExplained' /\ ScriptGoesOn'
    BY <1>2, <2>1, <2>3 DEF EndsOnce, EndExplained, ScriptGoesOn, Working, Quiet
  <2> QED
    BY <1>2, <2>3, <2>4, <2>5, <2>6 DEF IInv, TraceSound, Quiet
<1>10. CASE EndTests
  <2>1. pc = "testing" /\ FinishTests /\ Reply /\ pc' \in {"turning", "invoking"}
    BY <1>10 DEF EndTests, Reply
  <2>2. TraceSound' /\ Quiet /\ Kinds("AgentError")' = Kinds("AgentError")
    BY <2>1, FinishStep DEF Testing
  <2> QED
    BY <1>2, <2>1, <2>2, ReplyKeeps DEF Quiet
<1>11. CASE Turn
  <2>1. pc = "turning" /\ UNCHANGED <<files, submitted, faults, step, messages, batch>>
    BY <1>11 DEF Turn
  <2>2. CASE submitted /\ pc' = "ended" /\ UNCHANGED events
    <3>1. TraceSound' /\ Quiet /\ Kinds("AgentError")' = Kinds("AgentError")
      BY <2>1, <2>2, StillStep DEF Interrupted, Testing, toolVars
    <3>2. Conversing'
      BY <2>1, <2>2, StillConverses DEF IInv
    <3>3. Typed' /\ ReplayLater'
      BY <1>1, <2>1, <2>2, <3>1, AttemptTyped DEF AgentPlaces, Quiet
    <3>4. EndsOnce' /\ EndExplained' /\ ScriptGoesOn'
      BY <1>2, <2>1, <2>2, <3>1 DEF EndsOnce, EndExplained, ScriptGoesOn, Working, Quiet
    <3> QED
      BY <1>2, <3>1, <3>2, <3>3, <3>4 DEF IInv, TraceSound, Quiet
  <2>3. CASE ~submitted /\ Record(<<AgentError("StepLimitReached")>>) /\ pc' = "ended"
    <3>1. PICK e \in TraceEvents : e = AgentError("StepLimitReached") /\ e.kind = "AgentError"
      BY ErrorTyped DEF ErrorTypes
    <3>2. /\ TraceSound' /\ Quiet
          /\ \E n \in News : Kinds("AgentError")' = Kinds("AgentError") \cup {n}
      BY <2>1, <2>3, <3>1, AsideStep DEF Interrupted, Testing
    <3>3. Conversing'
      BY <2>1, <2>3, StillConverses DEF IInv
    <3>4. Typed' /\ ReplayLater'
      BY <1>1, <2>1, <2>3, <3>2, AttemptTyped DEF AgentPlaces, Quiet
    <3>5. ~submitted' /\ Kinds("Submission")' = {} /\ Cardinality(Kinds("AgentError"))' = 1
      <4>1. Kinds("AgentError") = {}
        BY <1>2, <2>1 DEF Working
      <4>2. PICK n \in News : Kinds("AgentError")' = {n}
        BY <3>2, <4>1
      <4> QED
        BY <1>2, <2>3, <3>2, <4>2, FS_Singleton DEF Quiet
    <3>6. EndsOnce' /\ EndExplained' /\ ScriptGoesOn'
      BY <2>3, <3>5 DEF EndsOnce, EndExplained, ScriptGoesOn, Working
    <3> QED
      BY <1>2, <3>2, <3>3, <3>4, <3>6 DEF IInv, TraceSound, Quiet
  <2>4. CASE ~submitted /\ step < MaxSteps /\ pc' = "asking" /\ UNCHANGED events
    <3>1. TraceSound' /\ Quiet /\ Kinds("AgentError")' = Kinds("AgentError")
      BY <2>1, <2>4, StillStep DEF Interrupted, Testing, toolVars
    <3>2. Conversing'
      BY <2>1, <2>4, StillConverses DEF IInv
    <3>3. Typed' /\ ReplayLater'
      BY <1>1, <2>1, <2>4, <3>1, AttemptTyped DEF AgentPlaces, Quiet
    <3>4. EndsOnce' /\ EndExplained' /\ ScriptGoesOn'
      BY <1>2, <2>1, <2>4, <3>1 DEF EndsOnce, EndExplained, ScriptGoesOn, Working, Quiet
    <3> QED
      BY <1>2, <3>1, <3>2, <3>3, <3>4 DEF IInv, TraceSound, Quiet
  <2> QED
    BY <1>11, <2>2, <2>3, <2>4 DEF Turn
<1> QED
  BY <1>3, <1>4, <1>5, <1>6, <1>7, <1>8, <1>9, <1>10, <1>11 DEF AgentNext

\* A policy goes on to its submission.
LEMMA NextCallKeeps ==
  ASSUME IInv, pc \in {"scripted", "checking"}
  PROVE  /\ batch \in Seq(Calls) /\ Head(batch) \in Calls
         /\ pc = "checking" => Head(batch).tool = "run_tests"
         /\ NextCall =>
              /\ batch' \in Seq(Calls) /\ ScriptGoesOn' /\ pc' \in {"ended", "scripted"}
              /\ pc' = "ended" => Head(batch).tool = "submit"
<1>1. /\ batch \in Seq(Calls) /\ batch # <<>>
      /\ batch[Len(batch)].tool = "submit"
      /\ pc = "checking" => batch[1].tool = "run_tests"
  BY DEF IInv, Typed, TypeOK, ScriptGoesOn
<1>2. PICK n \in Nat : n = Len(batch) /\ n >= 1
  BY <1>1
<1>3. /\ Head(batch) \in Calls /\ Head(batch) = batch[1]
      /\ Tail(batch) \in Seq(Calls) /\ Len(Tail(batch)) = n - 1
      /\ \A k \in 1 .. n - 1 : Tail(batch)[k] = batch[k + 1]
  BY <1>1, <1>2, HeadTailProperties
<1>4. ASSUME NextCall
      PROVE  /\ batch' \in Seq(Calls) /\ ScriptGoesOn' /\ pc' \in {"ended", "scripted"}
             /\ pc' = "ended" => Head(batch).tool = "submit"
  <2>1. batch' = Tail(batch) /\ pc' = IF n = 1 THEN "ended" ELSE "scripted"
    BY <1>2, <1>4 DEF NextCall
  <2>2. CASE n = 1
    BY <1>1, <1>2, <1>3, <2>1, <2>2 DEF ScriptGoesOn
  <2>3. CASE n # 1
    <3>1. n - 1 \in 1 .. n - 1 /\ (n - 1) + 1 = n /\ n - 1 # 0
      BY <1>2, <2>3
    <3>2. batch'[Len(batch')] = batch[n] /\ batch' # <<>>
      BY <1>3, <2>1, <3>1
    <3> QED
      BY <1>1, <1>2, <1>3, <2>1, <2>3, <3>2 DEF ScriptGoesOn
  <2> QED
    BY <2>2, <2>3
<1> QED
  BY <1>1, <1>3, <1>4

LEMMA ScriptKeeps ==
  ASSUME IInv, ScriptNext, UNCHANGED replayVars
  PROVE  IInv'
<1>1. /\ events \in Seq(TraceEvents) /\ step \in 0 .. MaxSteps /\ batch \in Seq(Calls)
      /\ messages \in Seq(Messages)
  BY DEF IInv, Typed, TypeOK, Conversing
<1>2. /\ submitted <=> Kinds("Submission") # {}
      /\ pc \in Working => Kinds("AgentError") = {}
      /\ FilesTraced
  BY DEF IInv, EndsOnce
<1>3. ASSUME messages' = messages, pc' \in {"ended", "scripted", "crashed", "checking", "cancelled"}
      PROVE  Conversing'
  BY <1>1, <1>3 DEF Conversing
<1>4. CASE ScriptCall
  <2>1. /\ pc = "scripted" /\ Makes(Head(batch)) /\ Invoke(Made(Head(batch)), FALSE)
        /\ NextCall
    BY <1>4 DEF ScriptCall
  <2>2. /\ Head(batch) \in Calls /\ batch' \in Seq(Calls) /\ ScriptGoesOn'
        /\ pc' \in {"ended", "scripted"}
        /\ pc' = "ended" => Head(batch).tool = "submit"
    BY <2>1, NextCallKeeps
  <2>3. /\ Made(Head(batch)) \in Calls
        /\ Head(batch).tool # "botch" => Made(Head(batch)) = Head(batch)
    BY <2>1, <2>2, MadeTyped DEF IInv
  <2>4. TraceSound' /\ Effects(Made(Head(batch)))
    BY <2>1, <2>2, <2>3, CallStep DEF Calling, Interrupted
  <2>5. step' = step /\ messages' = messages
    BY <2>1 DEF NextCall
  <2>6. Typed' /\ ReplayLater'
    BY <1>1, <2>1, <2>2, <2>4, <2>5, AttemptTyped DEF AgentPlaces, Effects
  <2>7. pc' = "ended" => submitted'
    BY <2>2, <2>3, <2>4 DEF Effects
  <2>8. Kinds("AgentError")' = {} /\ (submitted' <=> Kinds("Submission")' # {})
    BY <1>2, <2>1, <2>4 DEF Effects, Working
  <2>9. EndsOnce' /\ EndExplained'
    BY <2>2, <2>7, <2>8 DEF EndsOnce, EndExplained
  <2> QED
    BY <1>2, <1>3, <2>2, <2>4, <2>5, <2>6, <2>9 DEF IInv, TraceSound, Effects
<1>5. CASE ScriptCrash
  <2>1. /\ pc = "scripted" /\ Makes(Head(batch)) /\ Invoke(Made(Head(batch)), TRUE)
        /\ pc' = "crashed" /\ UNCHANGED <<step, messages, batch>>
    BY <1>5 DEF ScriptCrash
  <2>2. Head(batch) \in Calls
    BY <2>1, NextCallKeeps
  <2>3. Made(Head(batch)) \in Calls
    BY <2>1, <2>2, MadeTyped DEF IInv
  <2>4. TraceSound' /\ Quiet
    BY <2>1, <2>3, CrashStep DEF Calling
  <2>5. Typed' /\ ReplayLater'
    BY <1>1, <2>1, <2>4, AttemptTyped DEF AgentPlaces, Quiet
  <2>6. EndsOnce' /\ EndExplained' /\ ScriptGoesOn'
    BY <1>2, <2>1, <2>4 DEF EndsOnce, EndExplained, ScriptGoesOn, Working, Quiet
  <2> QED
    BY <1>2, <1>3, <2>1, <2>4, <2>5, <2>6 DEF IInv, TraceSound, Quiet
<1>6. CASE BotchRaises
  <2>1. PICK e \in TraceEvents : e = AgentError("exception") /\ e.kind = "AgentError"
    BY ErrorTyped DEF ErrorTypes
  <2>2. /\ pc = "scripted" /\ Record(<<e>>) /\ UNCHANGED <<files, submitted, faults>>
        /\ pc' = "crashed" /\ UNCHANGED <<step, messages, batch>>
    BY <1>6, <2>1 DEF BotchRaises
  <2>3. TraceSound' /\ Quiet
    BY <2>1, <2>2, AsideStep DEF Interrupted, Testing
  <2>4. Typed' /\ ReplayLater'
    BY <1>1, <2>2, <2>3, AttemptTyped DEF AgentPlaces, Quiet
  <2>5. EndsOnce' /\ EndExplained' /\ ScriptGoesOn'
    BY <1>2, <2>2, <2>3 DEF EndsOnce, EndExplained, ScriptGoesOn, Working, Quiet
  <2> QED
    BY <1>2, <1>3, <2>2, <2>3, <2>4, <2>5 DEF IInv, TraceSound, Quiet
<1>7. CASE ScriptTests
  <2>1. /\ pc = "scripted" /\ StartTests(Head(batch)) /\ pc' = "checking"
        /\ UNCHANGED <<step, messages, batch>>
    BY <1>7 DEF ScriptTests
  <2>2. Head(batch) \in Calls /\ Head(batch) = batch[1]
    BY <2>1, NextCallKeeps
  <2>3. TraceSound' /\ Quiet /\ Kinds("AgentError")' = Kinds("AgentError")
    BY <2>1, <2>2, StartStep DEF Calling, Testing
  <2>4. Typed' /\ ReplayLater'
    BY <1>1, <2>1, <2>3, AttemptTyped DEF AgentPlaces, Quiet
  <2>5. EndsOnce' /\ EndExplained'
    BY <1>2, <2>1, <2>3 DEF EndsOnce, EndExplained, Working, Quiet
  <2>6. ScriptGoesOn'
    BY <2>1, <2>2 DEF ScriptGoesOn, IInv, StartTests
  <2> QED
    BY <1>2, <1>3, <2>1, <2>3, <2>4, <2>5, <2>6 DEF IInv, TraceSound, Quiet
<1>8. CASE ScriptTestsEnd
  <2>1. pc = "checking" /\ FinishTests /\ NextCall
    BY <1>8 DEF ScriptTestsEnd
  <2>2. /\ batch' \in Seq(Calls) /\ ScriptGoesOn' /\ pc' = "scripted"
    BY <2>1, NextCallKeeps
  <2>3. TraceSound' /\ Quiet /\ Kinds("AgentError")' = Kinds("AgentError")
    BY <2>1, <2>2, FinishStep DEF Testing
  <2>4. step' = step /\ messages' = messages
    BY <2>1 DEF NextCall
  <2>5. Typed' /\ ReplayLater'
    BY <1>1, <2>1, <2>2, <2>3, <2>4, AttemptTyped DEF AgentPlaces, Quiet
  <2>6. EndsOnce' /\ EndExplained'
    BY <1>2, <2>1, <2>2, <2>3 DEF EndsOnce, EndExplained, Working, Quiet
  <2> QED
    BY <1>2, <1>3, <2>2, <2>3, <2>4, <2>5, <2>6 DEF IInv, TraceSound, Quiet
<1>9. CASE ScriptCancelled
  <2>1. /\ pc = "checking" /\ pc' = "cancelled" /\ UNCHANGED <<toolVars, step, messages, batch>>
    BY <1>9 DEF ScriptCancelled
  <2>2. TraceSound' /\ Quiet /\ Kinds("AgentError")' = Kinds("AgentError")
    BY <2>1, StillStep DEF Interrupted, Testing
  <2>3. Typed' /\ ReplayLater'
    BY <1>1, <2>1, <2>2, AttemptTyped DEF AgentPlaces, Quiet
  <2>4. EndsOnce' /\ EndExplained' /\ ScriptGoesOn'
    BY <1>2, <2>1, <2>2 DEF EndsOnce, EndExplained, ScriptGoesOn, Working, Quiet
  <2> QED
    BY <1>2, <1>3, <2>1, <2>2, <2>3, <2>4 DEF IInv, TraceSound, Quiet
<1> QED
  BY <1>4, <1>5, <1>6, <1>7, <1>8, <1>9 DEF ScriptNext

\* The event that a replay is at.
LEMMA EventTyped ==
  ASSUME IInv, pc \in {"replaying", "retesting"}, next <= Len(recording)
  PROVE  /\ Event \in TraceEvents /\ next + 1 \in 1 .. Len(recording) + 1
         /\ Event.kind = "ToolCall" => Event.call \in Calls /\ Event.call.tool \in ToolNames
<1>1. recording \in Seq(TraceEvents) /\ next \in 1 .. Len(recording) + 1
  BY DEF IInv, Typed, TypeOK
<1>2. PICK n \in Nat : n = Len(recording)
  BY <1>1
<1>3. next \in 1 .. Len(recording) /\ next + 1 \in 1 .. Len(recording) + 1
  BY <1>1, <1>2
<1>4. Event \in TraceEvents
  BY <1>1, <1>3 DEF Event
<1>5. ASSUME Event.kind = "ToolCall"
      PROVE  Event.call \in Calls /\ Event.call.tool \in ToolNames
  <2>1. Event \in [kind : {"ToolCall"}, id : Nat, call : ToolCalls]
    BY <1>4, <1>5 DEF TraceEvents
  <2>2. Event.call \in ToolCalls
    BY <2>1
  <2>3. Event.call \in Calls
    BY <2>2 DEF Calls
  <2> QED
    BY <2>2, <2>3, CallFields
<1> QED
  BY <1>3, <1>4, <1>5

LEMMA ReplayingKeeps ==
  ASSUME IInv, TraceSound', events' \in Seq(TraceEvents), FilesTyped', FilesTraced',
         submitted' <=> Kinds("Submission")' # {},
         pc' \in {"replaying", "retesting", "replayed"},
         UNCHANGED <<step, messages, batch, policy, recording>>,
         next' \in 1 .. Len(recording) + 1, pc' = "retesting" => next' <= Len(recording),
         skipped' \in Seq(ToolNames)
  PROVE  IInv'
<1>1. TypeOK /\ messages \in Seq(Messages)
  BY DEF IInv, Typed, Conversing
<1>2. TypeOK'
  BY <1>1 DEF TypeOK, FilesTyped
<1>3. Typed'
  BY <1>2 DEF Typed, FilesTyped
<1>4. ReplayLater'
  BY DEF ReplayLater, AgentPlaces
<1>5. Conversing' /\ ScriptGoesOn' /\ EndsOnce' /\ EndExplained'
  BY <1>1 DEF Conversing, ScriptGoesOn, EndsOnce, EndExplained, Working
<1> QED
  BY <1>3, <1>4, <1>5 DEF IInv, TraceSound

LEMMA ReplayKeeps ==
  ASSUME IInv,
         \/ ReplayModelCall \/ ReplayAgentError \/ PassOver \/ ReplayCall \/ ReplayCrash
         \/ ReplayTests \/ ReplayTestsEnd \/ Skip \/ EndReplay
  PROVE  IInv'
<1>1. /\ next \in 1 .. Len(recording) + 1 /\ skipped \in Seq(ToolNames)
      /\ FilesTraced /\ (submitted <=> Kinds("Submission") # {})
  BY DEF IInv, Typed, TypeOK, EndsOnce
<1>2. ASSUME NEW kind, At(kind)
      PROVE  pc = "replaying" /\ next <= Len(recording) /\ Event.kind = kind
  BY <1>2 DEF At
<1>3. CASE ReplayModelCall
  <2>1. PICK e \in TraceEvents : e = [kind |-> "ModelCall", cached |-> TRUE] /\ e.kind = "ModelCall"
    BY ModelCallTyped
  <2>2. At("ModelCall") /\ Record(<<e>>) /\ Advance /\ UNCHANGED <<files, submitted, faults, skipped>>
    BY <1>3, <2>1 DEF ReplayModelCall
  <2>3. TraceSound' /\ Quiet
    BY <1>2, <2>1, <2>2, AsideStep DEF Interrupted, Testing, Advance
  <2>4. next + 1 \in 1 .. Len(recording) + 1
    BY <1>2, <2>2, EventTyped
  <2> QED
    BY <1>1, <1>2, <2>2, <2>3, <2>4, ReplayingKeeps DEF Advance, Quiet
<1>4. CASE ReplayAgentError
  <2>1. At("AgentError") /\ Record(<<Event>>) /\ Advance /\ UNCHANGED <<files, submitted, faults, skipped>>
    BY <1>4 DEF ReplayAgentError
  <2>2. Event \in TraceEvents /\ next + 1 \in 1 .. Len(recording) + 1
    BY <1>2, <2>1, EventTyped
  <2>3. TraceSound' /\ Quiet
    BY <1>2, <2>1, <2>2, AsideStep DEF Interrupted, Testing, Advance
  <2> QED
    BY <1>1, <1>2, <2>1, <2>2, <2>3, ReplayingKeeps DEF Advance, Quiet
<1>5. CASE PassOver
  <2>1. /\ pc = "replaying" /\ next <= Len(recording) /\ Advance /\ UNCHANGED <<toolVars, skipped>>
    BY <1>2, <1>5 DEF PassOver
  <2>2. TraceSound' /\ Quiet
    BY <2>1, StillStep DEF Interrupted, Testing, Advance
  <2>3. next + 1 \in 1 .. Len(recording) + 1
    BY <2>1, EventTyped
  <2> QED
    BY <1>1, <2>1, <2>2, <2>3, ReplayingKeeps DEF Advance, Quiet
<1>6. CASE ReplayCall
  <2>1. At("ToolCall") /\ Invoke(Event.call, FALSE) /\ Advance /\ UNCHANGED skipped
    BY <1>6 DEF ReplayCall
  <2>2. Event.call \in Calls /\ next + 1 \in 1 .. Len(recording) + 1
    BY <1>2, <2>1, EventTyped
  <2>3. TraceSound' /\ Effects(Event.call)
    BY <1>2, <2>1, <2>2, CallStep DEF Interrupted, Calling, Advance
  <2> QED
    BY <1>1, <1>2, <2>1, <2>2, <2>3, ReplayingKeeps DEF Advance, Effects
<1>7. CASE ReplayCrash
  <2>1. /\ At("ToolCall") /\ Invoke(Event.call, TRUE) /\ pc' = "replayed"
        /\ UNCHANGED <<step, messages, batch, replayVars>>
    BY <1>7 DEF ReplayCrash
  <2>2. Event.call \in Calls
    BY <1>2, <2>1, EventTyped
  <2>3. TraceSound' /\ Quiet
    BY <1>2, <2>1, <2>2, CrashStep DEF Calling
  <2> QED
    BY <1>1, <2>1, <2>3, ReplayingKeeps DEF Quiet, replayVars
<1>8. CASE ReplayTests
  <2>1. /\ At("ToolCall") /\ StartTests(Event.call) /\ pc' = "retesting"
        /\ UNCHANGED <<step, messages, batch, replayVars>>
    BY <1>8 DEF ReplayTests
  <2>2. Event.call \in Calls
    BY <1>2, <2>1, EventTyped
  <2>3. TraceSound' /\ Quiet
    BY <1>2, <2>1, <2>2, StartStep DEF Calling, Testing
  <2> QED
    BY <1>1, <1>2, <2>1, <2>3, ReplayingKeeps DEF Quiet, replayVars
<1>9. CASE ReplayTestsEnd
  <2>1. /\ pc = "retesting" /\ FinishTests /\ pc' = "replaying" /\ next' = next + 1
        /\ UNCHANGED <<step, messages, batch, policy, recording, reached, skipped>>
    BY <1>9 DEF ReplayTestsEnd
  <2>2. next <= Len(recording)
    BY <2>1 DEF IInv, ReplayLater
  <2>3. next + 1 \in 1 .. Len(recording) + 1
    BY <2>1, <2>2, EventTyped
  <2>4. TraceSound' /\ Quiet
    BY <2>1, FinishStep DEF Testing
  <2> QED
    BY <1>1, <2>1, <2>3, <2>4, ReplayingKeeps DEF Quiet
<1>10. CASE Skip
  <2>1. At("ToolCall") /\ skipped' = Append(skipped, Event.call.tool) /\ Advance /\ UNCHANGED toolVars
    BY <1>10 DEF Skip
  <2>2. Event.call.tool \in ToolNames /\ next + 1 \in 1 .. Len(recording) + 1
    BY <1>2, <2>1, EventTyped
  <2>3. TraceSound' /\ Quiet
    BY <1>2, <2>1, StillStep DEF Interrupted, Testing, Advance
  <2>4. skipped' \in Seq(ToolNames)
    BY <1>1, <2>1, <2>2, AppendProperties
  <2> QED
    BY <1>1, <1>2, <2>1, <2>2, <2>3, <2>4, ReplayingKeeps DEF Advance, Quiet
<1>11. CASE EndReplay
  <2>1. /\ pc = "replaying" /\ pc' = "replayed"
        /\ UNCHANGED <<toolVars, step, messages, batch, replayVars>>
    BY <1>11 DEF EndReplay
  <2>2. TraceSound' /\ Quiet
    BY <2>1, StillStep DEF Interrupted, Testing
  <2> QED
    BY <1>1, <2>1, <2>2, ReplayingKeeps DEF Quiet, replayVars
<1> QED
  BY <1>3, <1>4, <1>5, <1>6, <1>7, <1>8, <1>9, <1>10, <1>11

\* The trace of a workspace that has just been made.
LEMMA FreshTrace ==
  ASSUME files = InitialFiles, events = << [kind |-> "TaskStarted"] >>
  PROVE  /\ events \in Seq(TraceEvents)
         /\ \A kind : kind # "TaskStarted" => Kinds(kind) = {}
         /\ Numbered /\ ResultsInOrder /\ FilesTraced
         /\ files \in [Paths -> {Absent, Binary} \cup Text]
<1>1. [kind |-> "TaskStarted"] \in [kind : {"TaskStarted", "Submission"}]
  OBVIOUS
<1>2. [kind |-> "TaskStarted"] \in TraceEvents
  BY <1>1 DEF TraceEvents
<1>3. events \in Seq(TraceEvents) /\ DOMAIN events = {1} /\ events[1].kind = "TaskStarted"
  BY <1>2
<1>4. \A kind : kind # "TaskStarted" => Kinds(kind) = {}
  BY <1>3 DEF Kinds
<1>5. Numbered /\ ResultsInOrder
  BY <1>4 DEF Numbered, ResultsInOrder
<1>6. FilesTraced
  BY <1>4 DEF FilesTraced, EditsOf
<1>7. files \in [Paths -> {Absent, Binary} \cup Text]
  BY FilesAssumption
<1> QED
  BY <1>3, <1>4, <1>5, <1>6, <1>7

LEMMA StartKeeps ==
  ASSUME IInv, LoadFails \/ StartReplay
  PROVE  IInv'
<1>1. /\ pc \in {"ended", "raised", "crashed", "cancelled"} /\ messages \in Seq(Messages)
      /\ TypeOK /\ FilesTyped /\ FilesTraced /\ (submitted <=> Kinds("Submission") # {})
      /\ next = 1
  BY DEF LoadFails, StartReplay, Over, IInv, Conversing, Typed, TypeOK, FilesTyped, EndsOnce,
         ReplayLater, AgentPlaces
<1>2. CASE LoadFails
  <2>1. /\ pc' = "unloadable" /\ UNCHANGED <<toolVars, step, messages, batch>>
        /\ UNCHANGED <<policy, recording, next, skipped>>
    BY <1>2 DEF LoadFails, replayVars
  <2>2. TraceSound' /\ Quiet
    BY <2>1, StillStep DEF Interrupted, Testing
  <2>3. Typed' /\ ReplayLater'
    BY <1>1, <2>1, <2>2 DEF Typed, TypeOK, FilesTyped, ReplayLater, AgentPlaces, Quiet
  <2>4. Conversing' /\ ScriptGoesOn' /\ EndsOnce' /\ EndExplained'
    BY <1>1, <2>1, <2>2 DEF Conversing, ScriptGoesOn, EndsOnce, EndExplained, Working, Quiet
  <2> QED
    BY <1>1, <2>2, <2>3, <2>4 DEF IInv, TraceSound, Quiet
<1>3. CASE StartReplay
  <2>1. /\ pc' = "replaying" /\ recording' = events /\ files' = InitialFiles
        /\ events' = << [kind |-> "TaskStarted"] >> /\ submitted' = FALSE
        /\ UNCHANGED <<faults, step, messages, batch, policy, next, skipped>>
    BY <1>3 DEF StartReplay
  <2>2. [kind |-> "TaskStarted"] \in [kind : {"TaskStarted", "Submission"}]
    OBVIOUS
  <2>3. [kind |-> "TaskStarted"] \in TraceEvents
    BY <2>2 DEF TraceEvents
  <2>4. events' \in Seq(TraceEvents) /\ DOMAIN events' = {1} /\ events'[1].kind = "TaskStarted"
    BY <2>1, <2>3
  <2>5. \A kind : kind # "TaskStarted" => Kinds(kind)' = {}
    BY <2>4 DEF Kinds
  <2>6. Numbered' /\ ResultsInOrder' /\ TestsUnderWay'
    BY <2>1, <2>5 DEF Numbered, ResultsInOrder, TestsUnderWay, Testing
  <2>7. FilesTraced'
    BY <2>1, <2>5 DEF FilesTraced, EditsOf
  <2>8. files' \in [Paths -> {Absent, Binary} \cup Text]
    BY <2>1, FilesAssumption
  <2>9. next' \in 1 .. Len(recording') + 1
    <3>1. Len(events) \in Nat
      BY <1>1 DEF TypeOK
    <3> QED
      BY <1>1, <2>1, <3>1
  <2>10. Typed' /\ ReplayLater'
    BY <1>1, <2>1, <2>4, <2>8, <2>9 DEF Typed, TypeOK, FilesTyped, ReplayLater, AgentPlaces
  <2>11. Conversing' /\ ScriptGoesOn' /\ EndsOnce' /\ EndExplained'
    BY <1>1, <2>1, <2>5 DEF Conversing, ScriptGoesOn, EndsOnce, EndExplained, Working
  <2> QED
    BY <2>6, <2>7, <2>10, <2>11 DEF IInv
<1> QED
  BY <1>2, <1>3

LEMMA InitSound == Init => IInv
<1> SUFFICES ASSUME Init PROVE IInv
  OBVIOUS
<1>1. /\ FreshTools /\ recording = <<>> /\ next = 1 /\ skipped = <<>> /\ step = 0
      /\ \/ AgentInit /\ policy = NoPolicy
         \/ \E p \in Controls : ScriptInit(p)
  BY DEF Init, AgentInit, ScriptInit
<1>2. /\ files = InitialFiles /\ events = << [kind |-> "TaskStarted"] >>
      /\ submitted = FALSE /\ faults = <<>>
  BY <1>1 DEF FreshTools
<1>3. /\ events \in Seq(TraceEvents)
      /\ \A kind : kind # "TaskStarted" => Kinds(kind) = {}
      /\ Numbered /\ ResultsInOrder /\ FilesTraced
      /\ files \in [Paths -> {Absent, Binary} \cup Text]
  BY <1>2, FreshTrace
<1>4. /\ MaxSteps \in Nat /\ MaxSteps > 0 /\ MaxFaults \in Nat
  BY AgentAssumption, FilesAssumption
<1>5. /\ faults \in Seq(Paths) /\ Len(faults) <= MaxFaults /\ skipped \in Seq(ToolNames)
      /\ recording \in Seq(TraceEvents) /\ next \in 1 .. Len(recording) + 1
      /\ step \in 0 .. MaxSteps
  BY <1>1, <1>2, <1>4
<1>6. CASE AgentInit /\ policy = NoPolicy
  <2>1. pc = "asking" /\ messages = <<System, User>> /\ batch = <<>>
    BY <1>6 DEF AgentInit
  <2>2. /\ System \in Messages /\ User \in Messages
        /\ System.role = "system" /\ User.role = "user"
    <3>1. System \in [role : {"system", "user"}] /\ User \in [role : {"system", "user"}]
      BY DEF System, User
    <3> QED
      BY <3>1 DEF Messages, System, User
  <2>3. Conversing
    <3>1. /\ messages \in Seq(Messages) /\ Len(messages) = 2 /\ DOMAIN messages = {1, 2}
          /\ messages[1] = System /\ messages[2] = User
      BY <2>1, <2>2
    <3>2. \A i \in DOMAIN messages : ~Spoken(i)
      BY <2>2, <3>1 DEF Spoken
    <3>3. messages # <<>> /\ messages[Len(messages)] = User
      BY <3>1
    <3>4. messages[Len(messages)].role # "assistant"
      BY <2>2, <3>3
    <3> QED
      BY <2>1, <3>1, <3>2, <3>3, <3>4 DEF Conversing
  <2>4. ScriptGoesOn /\ EndsOnce /\ EndExplained /\ ReplayLater /\ TestsUnderWay
    BY <1>1, <1>2, <1>3, <1>4, <2>1
    DEF ScriptGoesOn, EndsOnce, EndExplained, ReplayLater, TestsUnderWay, Testing
  <2>5. Typed
    <3>1. batch \in Seq(Calls) /\ policy \in Controls \cup {NoPolicy}
      BY <1>6, <2>1
    <3> QED
      BY <1>2, <1>3, <1>5, <2>1, <3>1 DEF Typed, TypeOK, AgentPlaces
  <2> QED
    BY <1>3, <2>3, <2>4, <2>5 DEF IInv
<1>7. ASSUME NEW p \in Controls, ScriptInit(p) PROVE IInv
  <2>1. pc = "scripted" /\ messages = <<>> /\ batch = Script(p) /\ policy = p
    BY <1>7 DEF ScriptInit
  <2>2. batch \in Seq(Calls) /\ batch # <<>> /\ batch[Len(batch)].tool = "submit"
    BY <2>1, ScriptTyped
  <2>3. Conversing /\ ScriptGoesOn
    BY <2>1, <2>2 DEF Conversing, ScriptGoesOn
  <2>4. EndsOnce /\ EndExplained /\ ReplayLater /\ TestsUnderWay
    BY <1>1, <1>2, <1>3, <1>4, <2>1 DEF EndsOnce, EndExplained, ReplayLater, TestsUnderWay, Testing
  <2>5. Typed
    BY <1>2, <1>3, <1>5, <2>1, <2>2 DEF Typed, TypeOK, AgentPlaces
  <2> QED
    BY <1>3, <2>3, <2>4, <2>5 DEF IInv
<1> QED
  BY <1>1, <1>6, <1>7

LEMMA NextKeeps == IInv /\ [Next]_vars => IInv'
<1> SUFFICES ASSUME IInv, [Next]_vars PROVE IInv'
  OBVIOUS
<1>1. CASE Attempting
  BY <1>1, AgentKeeps, ScriptKeeps DEF Attempting
<1>2. CASE LoadFails \/ StartReplay
  BY <1>2, StartKeeps
<1>3. CASE \/ ReplayModelCall \/ ReplayAgentError \/ PassOver \/ ReplayCall \/ ReplayCrash
           \/ ReplayTests \/ ReplayTestsEnd \/ Skip \/ EndReplay
  BY <1>3, ReplayKeeps
<1>4. CASE CodeChanges
  <2>1. UNCHANGED <<pc, step, messages, batch, policy, recording, next, skipped>>
    BY <1>4 DEF CodeChanges, agentVars, replayVars
  <2>2. /\ FilesTyped' /\ FilesTraced' /\ UNCHANGED <<events, submitted>>
    BY <1>4, ChangesEffects DEF CodeChanges, IInv
  <2> USE <2>1, <2>2
  <2>3. Typed' /\ ReplayLater'
    BY DEF IInv, Typed, TypeOK, ReplayLater, FilesTyped
  <2>4. /\ \A kind : Kinds(kind)' = Kinds(kind)
        /\ Kinds("ToolCall")' = Kinds("ToolCall") /\ Kinds("ToolResult")' = Kinds("ToolResult")
        /\ Kinds("AgentError")' = Kinds("AgentError")
        /\ Kinds("Submission")' = Kinds("Submission")
    BY DEF Kinds
  <2>5. Numbered'
    BY <2>4 DEF IInv, Numbered, CallCount
  <2>6. ResultsInOrder' /\ TestsUnderWay'
    BY <2>4 DEF IInv, ResultsInOrder, HasResult, Unanswered, TestsUnderWay, CallCount
  <2>7. Conversing' /\ ScriptGoesOn'
    BY StillConverses DEF IInv, ScriptGoesOn
  <2>8. EndsOnce' /\ EndExplained'
    BY <2>4 DEF IInv, EndsOnce, EndExplained
  <2> QED
    BY <2>3, <2>5, <2>6, <2>7, <2>8 DEF IInv
<1>5. CASE UNCHANGED vars
  <2>1. /\ UNCHANGED <<toolVars, pc, step, messages, batch, policy, recording, next, skipped>>
    BY <1>5 DEF vars, agentVars, replayVars
  <2> USE <2>1
  <2>2. UNCHANGED <<files, events, submitted, faults>>
    BY DEF toolVars
  <2>3. Typed' /\ ReplayLater'
    BY <2>2 DEF IInv, Typed, TypeOK, ReplayLater
  <2>4. /\ \A kind : Kinds(kind)' = Kinds(kind)
        /\ Kinds("ToolCall")' = Kinds("ToolCall") /\ Kinds("ToolResult")' = Kinds("ToolResult")
        /\ Kinds("AgentError")' = Kinds("AgentError")
        /\ Kinds("Submission")' = Kinds("Submission")
        /\ Kinds("FileEdit")' = Kinds("FileEdit")
    BY <2>2 DEF Kinds
  <2>5. Numbered'
    BY <2>2, <2>4 DEF IInv, Numbered, CallCount
  <2>6. ResultsInOrder' /\ TestsUnderWay'
    BY <2>2, <2>4 DEF IInv, ResultsInOrder, HasResult, Unanswered, TestsUnderWay, CallCount
  <2>7. Conversing' /\ ScriptGoesOn'
    BY StillConverses DEF IInv, ScriptGoesOn
  <2>8. EndsOnce' /\ EndExplained' /\ FilesTraced'
    BY <2>2, <2>4 DEF IInv, EndsOnce, EndExplained, FilesTraced, EditsOf
  <2> QED
    BY <2>3, <2>5, <2>6, <2>7, <2>8 DEF IInv
<1> QED
  BY <1>1, <1>2, <1>3, <1>4, <1>5 DEF Next

-----------------------------------------------------------------------------
(***************************************************************************)
(* A policy goes by its script                                             *)
(***************************************************************************)

\* What a step of a policy may do to the files.
AsMeant ==
    \A p \in Paths : files'[p] # files[p] =>
        /\ p \in MeantBy(policy)
        /\ p \in DOMAIN Solved =>
              IF Handles(policy) THEN files'[p] = Solved[p] ELSE Remarked(files'[p])

\* Nothing but the fix and a botched edit writes to a file of the solution.
LEMMA WritesOfScript ==
  ASSUME NEW p \in Controls, NEW c, InScript(p, c), c.tool = "write_file",
         c.path \in DOMAIN Solved
  PROVE  Handles(p) /\ c.contents = Solved[c.path]
<1>1. NotesPath \notin DOMAIN Solved /\ p.escape_attempts \in Seq(STRING \ DOMAIN Solved)
  BY ControlsAssumption
<1>2. c.path \notin Range(p.escape_attempts)
  BY <1>1 DEF Range
<1> QED
  BY <1>1, <1>2 DEF InScript

LEMMA DoneStays ==
  ASSUME Grows, AsMeant, policy \in Controls, NEW c, InScript(policy, c), Done(c)
  PROVE  Done(c)'
<1> SUFFICES ASSUME c.tool = "write_file"
             PROVE  IF c.path \in Paths
                    THEN /\ \E k \in Kinds("FileEdit")' : events'[k].path = c.path
                         /\ c.path \in DOMAIN Solved => files'[c.path] = c.contents
                    ELSE \E k \in Kinds("SafetyViolation")' : events'[k].path = c.path
  BY DEF Done
<1>1. /\ \A k \in Kinds("FileEdit") : k \in Kinds("FileEdit")' /\ events'[k] = events[k]
      /\ \A k \in Kinds("SafetyViolation") : k \in Kinds("SafetyViolation")' /\ events'[k] = events[k]
  BY KindsGrow
<1>2. CASE c.path \in Paths
  <2>1. PICK k \in Kinds("FileEdit") : events[k].path = c.path
    BY <1>2 DEF Done
  <2>2. ASSUME c.path \in DOMAIN Solved PROVE files'[c.path] = c.contents
    <3>1. files[c.path] = c.contents
      BY <1>2, <2>2 DEF Done
    <3>2. Handles(policy) /\ c.contents = Solved[c.path]
      BY <2>2, WritesOfScript
    <3> QED
      BY <1>2, <2>2, <3>1, <3>2 DEF AsMeant
  <2> QED
    BY <1>1, <1>2, <2>1, <2>2
<1>3. CASE c.path \notin Paths
  BY <1>1, <1>3 DEF Done
<1> QED
  BY <1>2, <1>3

\* A step that makes the next call, or none, keeps to the script.
LEMMA StaysOnScript ==
  ASSUME Grows, AsMeant, policy \in Controls, OnScript, UNCHANGED policy, batch \in Seq(Calls),
         \/ batch' = batch
         \/ batch # <<>> /\ batch' = Tail(batch) /\ \E c : c = Head(batch) /\ Done(c)'
  PROVE  OnScript'
<1>1. \A c \in Range(Script(policy)) : InScript(policy, c)
  BY ScriptTyped
<1>2. /\ Range(batch') \subseteq Range(batch)
      /\ \A c \in Range(batch) : c \in Range(batch') \/ Done(c)'
  <2>1. CASE batch' = batch
    BY <2>1
  <2>2. CASE batch # <<>> /\ batch' = Tail(batch) /\ \E c : c = Head(batch) /\ Done(c)'
    <3>1. PICK n \in Nat : n = Len(batch) /\ n >= 1
      BY <2>2
    <3>2. /\ Head(batch) = batch[1] /\ Tail(batch) \in Seq(Calls) /\ Len(Tail(batch)) = n - 1
          /\ \A k \in 1 .. n - 1 : Tail(batch)[k] = batch[k + 1]
      BY <2>2, <3>1, HeadTailProperties
    <3>3. DOMAIN batch = 1 .. n /\ DOMAIN Tail(batch) = 1 .. n - 1
      BY <3>1, <3>2
    <3>4. \A k \in 1 .. n - 1 : k + 1 \in 1 .. n
      BY <3>1
    <3>5. Range(Tail(batch)) \subseteq Range(batch)
      BY <3>2, <3>3, <3>4 DEF Range
    <3>6. ASSUME NEW k \in 1 .. n PROVE batch[k] = Head(batch) \/ batch[k] \in Range(Tail(batch))
      <4>1. CASE k = 1
        BY <3>2, <4>1
      <4>2. CASE k # 1
        <5>1. k - 1 \in 1 .. n - 1 /\ (k - 1) + 1 = k
          BY <3>1, <4>2
        <5>2. Tail(batch)[k - 1] = batch[k]
          BY <3>2, <5>1
        <5> QED
          BY <3>3, <5>1, <5>2 DEF Range
      <4> QED
        BY <4>1, <4>2
    <3>7. \A c \in Range(batch) : c = Head(batch) \/ c \in Range(Tail(batch))
      BY <3>3, <3>6 DEF Range
    <3> QED
      BY <2>2, <3>5, <3>7
  <2> QED
    BY <2>1, <2>2
<1>3. \A c \in Range(Script(policy)) : c \in Range(batch') \/ Done(c)'
  BY <1>1, <1>2, DoneStays DEF OnScript
<1>4. \A p \in Paths : files'[p] # InitialFiles[p] => p \in MeantBy(policy)
  BY DEF OnScript, AsMeant
<1>5. ~Handles(policy) =>
         \A p \in DOMAIN Solved : files'[p] = InitialFiles[p] \/ Remarked(files'[p])
  <2>1. DOMAIN Solved \subseteq Paths
    BY ControlsAssumption
  <2> QED
    BY <2>1 DEF OnScript, AsMeant
<1> QED
  BY <1>2, <1>3, <1>4, <1>5 DEF OnScript

\* What becomes of a call of the script, unless there is a fault.
LEMMA CallOfScript ==
  ASSUME IInv, policy \in Controls, NEW c \in Calls, InScript(policy, c), Makes(c),
         NEW m, m = Made(c), Works(m), faults' = <<>>
  PROVE  Grows /\ AsMeant /\ Done(c)' /\ faults = <<>>
<1>1. /\ events \in Seq(TraceEvents) /\ DOMAIN files = Paths /\ Len(events) \in Nat
      /\ faults \in Seq(Paths)
  BY DEF IInv, Typed, TypeOK
<1>2. m \in Calls /\ (c.tool # "botch" => m = c)
  BY MadeTyped DEF IInv
<1>3. c.tool = "botch" =>
        /\ m.tool = "write_file" /\ m.path = c.path
        /\ m.contents = Append(files[c.path], "reviewed") /\ files[c.path] \in Text
  <2> SUFFICES ASSUME c.tool = "botch"
               PROVE  /\ m.tool = "write_file" /\ m.path = c.path
                      /\ m.contents = Append(files[c.path], "reviewed") /\ files[c.path] \in Text
    OBVIOUS
  <2>1. c.path \in Paths /\ files[c.path] \notin {Absent, Binary}
    BY DEF Makes, Readable, Outside
  <2>2. files[c.path] \in Text
    BY <2>1 DEF IInv, Typed
  <2> QED
    BY <2>2 DEF Made, Writing
<1>4. Grows
  BY <1>2, WorksEffects DEF MakesCall, IInv
<1>5. ASSUME NEW n \in News, NEW kind, events'[n].kind = kind
      PROVE  n \in Kinds(kind)'
  BY <1>4, <1>5, KindsGrow
<1>6. ASSUME UNCHANGED <<files, faults>>, c.tool # "write_file"
      PROVE  AsMeant /\ Done(c)' /\ faults = <<>>
  BY <1>6 DEF AsMeant, Done
<1>7. CASE Looks(m)
  <2>1. UNCHANGED <<files, faults>> /\ c.tool # "write_file"
    BY <1>2, <1>7 DEF Looks
  <2> QED
    BY <1>4, <1>6, <2>1
<1>8. CASE Submits(m)
  <2>1. UNCHANGED <<files, faults>> /\ c.tool # "write_file"
    BY <1>2, <1>8 DEF Submits
  <2> QED
    BY <1>4, <1>6, <2>1
<1>9. CASE Breaks(m)
  <2>1. faults' = Append(faults, m.path) /\ m.path \in Paths
    BY <1>9 DEF Breaks
  <2>2. Len(faults') = Len(faults) + 1 /\ Len(faults) \in Nat
    BY <1>1, <2>1, AppendProperties
  <2> QED
    BY <2>2
<1>10. CASE Escapes(m)
  <2>1. /\ m.tool \in {"read_file", "write_file", "replace_text"} /\ m.path \notin Paths
        /\ Record(<<Called(m), Escaped(m.path), Answered(m, FALSE)>>)
        /\ UNCHANGED <<files, submitted, faults>>
    BY <1>10 DEF Escapes, Outside
  <2>2. Escaped(m.path).kind = "SafetyViolation" /\ Escaped(m.path).path = m.path
    BY DEF Escaped
  <2>3. /\ Called(m) \in TraceEvents /\ Escaped(m.path) \in TraceEvents
        /\ Answered(m, FALSE) \in TraceEvents
    BY <1>1, <1>2, <2>1, EventsTyped DEF ToolNames
  <2>4. /\ Len(events) + 2 \in News /\ events'[Len(events) + 2] = Escaped(m.path)
    BY <1>1, <2>1, <2>3, RecordThree
  <2>5. c.tool = "write_file" => Done(c)'
    <3>1. PICK n \in News : n \in Kinds("SafetyViolation")' /\ events'[n].path = m.path
      BY <1>5, <2>2, <2>4
    <3> QED
      BY <1>2, <2>1, <3>1 DEF Done
  <2>6. Done(c)'
    BY <2>5 DEF Done
  <2>7. AsMeant /\ faults = <<>>
    BY <2>1 DEF AsMeant
  <2> QED
    BY <1>4, <2>6, <2>7
<1>11. CASE \E text \in Text : Writes(m, text)
  <2>1. PICK text \in Text : Writes(m, text)
    BY <1>11
  <2>2. m.tool = "write_file" /\ c.tool \in {"write_file", "botch"}
    BY <1>2, <1>3, <2>1 DEF Writes, InScript
  <2>3. /\ m.path \in Paths /\ text = m.contents
        /\ Record(<<Called(m), Edited(m.path, text), Answered(m, TRUE)>>)
        /\ files' = [files EXCEPT ![m.path] = text]
        /\ UNCHANGED faults
    BY <2>1, <2>2 DEF Writes
  <2>4. Edited(m.path, text).kind = "FileEdit" /\ Edited(m.path, text).path = m.path
    BY DEF Edited
  <2>5. /\ Called(m) \in TraceEvents /\ Edited(m.path, text) \in TraceEvents
        /\ Answered(m, TRUE) \in TraceEvents
    BY <1>1, <1>2, <2>2, EventsTyped DEF ToolNames
  <2>6. /\ Len(events) + 2 \in News /\ events'[Len(events) + 2] = Edited(m.path, text)
    BY <1>1, <2>3, <2>5, RecordThree
  <2>7. files'[m.path] = m.contents /\ \A p \in Paths : p # m.path => files'[p] = files[p]
    BY <1>1, <2>3
  <2>8. c.tool = "write_file" => Done(c)'
    <3>1. PICK n \in News : n \in Kinds("FileEdit")' /\ events'[n].path = m.path
      BY <1>5, <2>4, <2>6
    <3> QED
      BY <1>2, <2>3, <2>7, <3>1 DEF Done
  <2>9. Done(c)'
    BY <2>8 DEF Done
  <2>10. m.path \in MeantBy(policy)
    BY <1>2, <1>3, <2>2 DEF InScript, MeantBy
  <2>11. ASSUME m.path \in DOMAIN Solved
         PROVE  IF Handles(policy) THEN files'[m.path] = Solved[m.path]
                ELSE Remarked(files'[m.path])
    <3>1. CASE c.tool = "write_file"
      BY <1>2, <2>7, <2>11, <3>1, WritesOfScript
    <3>2. CASE c.tool = "botch"
      <4>1. ~Handles(policy)
        BY <3>2 DEF InScript, Botches
      <4>2. files[c.path] \in Seq(Words) /\ "reviewed" \in Words
        BY <1>3, <3>2, ControlsAssumption DEF Text
      <4>3. files'[m.path] = Append(files[c.path], "reviewed")
        BY <1>3, <2>7, <3>2
      <4>4. Remarked(files'[m.path])
        <5>1. PICK t \in Seq(Words) : t = files[c.path]
          BY <4>2
        <5>2. PICK n \in Nat : n = Len(t)
          OBVIOUS
        <5>3. /\ Append(t, "reviewed") \in Seq(Words) /\ Len(Append(t, "reviewed")) = n + 1
              /\ Append(t, "reviewed")[n + 1] = "reviewed"
          BY <4>2, <5>2, AppendProperties
        <5>4. Append(t, "reviewed") # <<>>
          BY <5>2, <5>3
        <5> QED
          BY <4>3, <5>1, <5>3, <5>4 DEF Remarked
      <4> QED
        BY <4>1, <4>4
    <3> QED
      BY <2>2, <3>1, <3>2
  <2>12. AsMeant
    BY <2>7, <2>10, <2>11 DEF AsMeant
  <2> QED
    BY <1>4, <2>3, <2>9, <2>12
<1> QED
  BY <1>7, <1>8, <1>9, <1>10, <1>11 DEF Works

LEMMA PolicyKeeps ==
  ASSUME IInv, Controlled, ScriptNext, UNCHANGED replayVars
  PROVE  Controlled'
<1>1. policy' = policy
  BY DEF replayVars
<1>2. pc \in {"scripted", "checking"}
  BY DEF ScriptNext, ScriptCall, ScriptCrash, BotchRaises, ScriptTests, ScriptTestsEnd,
         ScriptCancelled
<1>3. policy \in Controls /\ policy # NoPolicy /\ (faults = <<>> => OnScript)
  BY <1>2, ControlsAssumption DEF Controlled
<1>4. batch \in Seq(Calls) /\ batch # <<>> /\ Head(batch) \in Calls
      /\ (pc = "checking" => Head(batch).tool = "run_tests")
  BY <1>2, NextCallKeeps DEF IInv, ScriptGoesOn
<1>5. OnScript => InScript(policy, Head(batch))
  <2>1. Head(batch) = batch[1] /\ 1 \in DOMAIN batch
    BY <1>4
  <2>2. Head(batch) \in Range(batch)
    BY <2>1 DEF Range
  <2> QED
    BY <1>3, <2>2, ScriptTyped DEF OnScript
<1>6. NextCall => /\ pc' \in {"scripted", "ended"} /\ batch' = Tail(batch)
                  /\ pc' = "ended" => batch' = <<>>
  <2> SUFFICES ASSUME NextCall PROVE pc' = "ended" => batch' = <<>>
    BY DEF NextCall
  <2>1. pc' = "ended" => Len(batch) = 1
    BY DEF NextCall
  <2>2. Len(batch) = 1 => Len(Tail(batch)) = 0 /\ Tail(batch) \in Seq(Calls)
    BY <1>4
  <2> QED
    BY <2>1, <2>2 DEF NextCall
<1>7. CASE ScriptCall
  <2>1. /\ Makes(Head(batch)) /\ Invoke(Made(Head(batch)), FALSE) /\ NextCall
    BY <1>7 DEF ScriptCall
  <2>2. PICK c \in Calls : c = Head(batch)
    BY <1>4
  <2>3. PICK m \in Calls : m = Made(c)
    BY <2>1, <2>2, MadeTyped DEF IInv
  <2>4. Works(m)
    BY <2>1, <2>2, <2>3, InvokeWorks DEF IInv
  <2>5. faults' = <<>> => faults = <<>>
    <3>1. faults \in Seq(Paths)
      BY DEF IInv, Typed
    <3>2. CASE Breaks(m)
      <4>1. faults' = Append(faults, m.path) /\ m.path \in Paths
        BY <3>2 DEF Breaks
      <4>2. Len(faults') = Len(faults) + 1 /\ Len(faults) \in Nat
        BY <3>1, <4>1, AppendProperties
      <4> QED
        BY <4>2
    <3>3. CASE UNCHANGED faults
      BY <3>3
    <3> QED
      BY <2>4, <3>2, <3>3 DEF Works, Looks, Escapes, Writes, Submits
  <2>6. ASSUME faults' = <<>> PROVE OnScript'
    <3>1. OnScript /\ InScript(policy, c)
      BY <1>3, <1>5, <2>2, <2>5, <2>6
    <3>2. Grows /\ AsMeant /\ Done(c)'
      BY <1>3, <2>1, <2>2, <2>3, <2>4, <2>6, <3>1, CallOfScript
    <3>3. batch' = Tail(batch) /\ \E d : d = Head(batch) /\ Done(d)'
      BY <1>6, <2>1, <2>2, <3>2
    <3> QED
      BY <1>1, <1>3, <1>4, <3>1, <3>2, <3>3, StaysOnScript
  <2> QED
    BY <1>1, <1>3, <1>6, <2>1, <2>6 DEF Controlled
<1>8. CASE ScriptTests
  <2>1. /\ StartTests(Head(batch)) /\ pc' = "checking" /\ UNCHANGED batch
        /\ UNCHANGED <<files, faults>>
    BY <1>8 DEF ScriptTests, StartTests
  <2>2. Grows
    BY <1>4, <2>1, StartEffects DEF OpensCall, IInv
  <2>3. AsMeant
    BY <2>1 DEF AsMeant
  <2>4. faults' = <<>> => OnScript'
    BY <1>1, <1>3, <1>4, <2>1, <2>2, <2>3, StaysOnScript
  <2> QED
    BY <1>1, <1>3, <2>1, <2>4 DEF Controlled
<1>9. CASE ScriptTestsEnd
  <2>1. pc = "checking" /\ FinishTests /\ NextCall /\ UNCHANGED <<files, faults>>
    BY <1>9 DEF ScriptTestsEnd, FinishTests
  <2>2. Grows
    <3>1. CallCount \in 1 .. CallCount
      BY <2>1 DEF IInv, TestsUnderWay, Testing, Numbered
    <3>2. CallCount > 0
      BY <3>1
    <3> QED
      BY <2>1, <3>2, FinishEffects DEF ClosesCall, IInv
  <2>3. AsMeant
    BY <2>1 DEF AsMeant
  <2>4. PICK c : c = Head(batch)
    OBVIOUS
  <2>5. Done(c)'
    BY <1>4, <2>1, <2>4 DEF Done
  <2>6. batch' = Tail(batch) /\ \E d : d = Head(batch) /\ Done(d)'
    BY <1>6, <2>1, <2>4, <2>5
  <2>7. faults' = <<>> => OnScript'
    BY <1>1, <1>3, <1>4, <2>1, <2>2, <2>3, <2>6, StaysOnScript
  <2> QED
    BY <1>1, <1>3, <1>6, <2>1, <2>7 DEF Controlled
<1>10. CASE ScriptCrash \/ BotchRaises \/ ScriptCancelled
  <2>1. pc' \in {"crashed", "cancelled"}
    BY <1>10 DEF ScriptCrash, BotchRaises, ScriptCancelled
  <2> QED
    BY <2>1 DEF Controlled
<1> QED
  BY <1>7, <1>8, <1>9, <1>10 DEF ScriptNext

\* A step of a model has no policy to keep to, and a replay has no script.
LEMMA OthersKeep ==
  ASSUME IInv, Controlled, [Next]_vars, ~(ScriptNext /\ UNCHANGED replayVars)
  PROVE  Controlled'
<1>1. CASE AgentNext /\ UNCHANGED replayVars
  <2>1. pc \in {"asking", "invoking", "testing", "turning"} /\ pc' \notin {"scripted", "checking"}
    BY <1>1 DEF AgentNext, Respond, GiveUp, ModelFails, Refuse, Use, Reply, Crash, BeginTests,
                EndTests, Turn, CancelAttempt
  <2>2. policy = NoPolicy /\ policy' = policy
    BY <1>1, <2>1 DEF Controlled, replayVars
  <2> QED
    BY <2>1, <2>2 DEF Controlled
<1>2. CASE \/ LoadFails \/ StartReplay \/ ReplayModelCall \/ ReplayAgentError \/ PassOver
           \/ ReplayCall \/ ReplayCrash \/ ReplayTests \/ ReplayTestsEnd \/ Skip \/ EndReplay
  <2>1. pc' \in {"replaying", "retesting", "replayed", "unloadable"}
    BY <1>2 DEF LoadFails, StartReplay, ReplayModelCall, ReplayAgentError, PassOver, ReplayCall,
                ReplayCrash, ReplayTests, ReplayTestsEnd, Skip, EndReplay, Advance, At
  <2> QED
    BY <2>1 DEF Controlled
<1>3. CASE UNCHANGED vars
  <2>1. UNCHANGED <<files, events, faults, pc, batch, policy>>
    BY <1>3 DEF vars, toolVars, agentVars, replayVars
  <2>2. \A kind : Kinds(kind)' = Kinds(kind)
    BY <2>1 DEF Kinds
  <2>3. \A c : Done(c)' <=> Done(c)
    BY <2>1, <2>2 DEF Done
  <2>4. OnScript' <=> OnScript
    BY <2>1, <2>3 DEF OnScript
  <2> QED
    BY <2>1, <2>4 DEF Controlled
<1>4. CASE CodeChanges
  <2>1. UNCHANGED <<pc, batch, policy>> /\ faults' # <<>>
    BY <1>4, ChangesEffects DEF CodeChanges, agentVars, replayVars, IInv
  <2> QED
    BY <2>1 DEF Controlled
<1> QED
  BY <1>1, <1>2, <1>3, <1>4 DEF Next, Attempting

LEMMA InitControlled == Init => Controlled
<1> SUFFICES ASSUME Init PROVE Controlled
  OBVIOUS
<1>1. CASE AgentInit /\ policy = NoPolicy
  BY <1>1 DEF AgentInit, Controlled
<1>2. ASSUME NEW p \in Controls, ScriptInit(p) PROVE Controlled
  <2>1. pc = "scripted" /\ batch = Script(p) /\ policy = p /\ files = InitialFiles
    BY <1>2 DEF ScriptInit, FreshTools
  <2>2. DOMAIN Solved \subseteq Paths
    BY ControlsAssumption
  <2>3. OnScript
    BY <2>1, <2>2 DEF OnScript
  <2> QED
    BY <2>1, <2>3 DEF Controlled
<1> QED
  BY <1>1, <1>2 DEF Init

\* What the diff names has changed.
LEMMA TouchedChanged ==
  ASSUME NEW p \in Touched
  PROVE  p \in Paths /\ files[p] # InitialFiles[p]
<1>1. DOMAIN Diff = {"added", "modified", "deleted"}
  BY DEF Diff
<1>2. p \in Diff.added \cup Diff.modified \cup Diff.deleted
  BY <1>1 DEF Touched, Range
<1> QED
  BY <1>2 DEF Diff

-----------------------------------------------------------------------------
(***************************************************************************)
(* The calls on a trace                                                    *)
(***************************************************************************)

\* The event at n is a call with one of the tools.
Taken(es, tools, n) == IsCall(es[n]) /\ es[n].call.tool \in tools

\* A set of numbers that is not empty has a least one.
LEMMA LeastNumber ==
  ASSUME NEW T, T \subseteq Nat, T # {}
  PROVE  \E x \in T : \A y \in T : x <= y
<1>1. IsWellFoundedOn(OpToRel(<, Nat), Nat)
  BY NatLessThanWellFounded
<1>2. PICK x \in T : \A y \in T : ~ (<<y, x>> \in OpToRel(<, Nat))
  BY <1>1, WFMin, Zenon
<1>3. \A y \in T : ~(y < x)
  BY <1>2 DEF OpToRel
<1> QED
  BY <1>3

LEMMA CallsExist ==
  ASSUME NEW es \in Seq(TraceEvents), NEW tools
  PROVE  \E f : f = [n \in 0 .. Len(es) |->
                       IF n = 0 THEN <<>>
                       ELSE IF IsCall(es[n]) /\ es[n].call.tool \in tools
                            THEN Append(f[n - 1], es[n].call)
                            ELSE f[n - 1]]
<1> DEFINE Upto(m) == \E f : f = [n \in 0 .. m |->
                                    IF n = 0 THEN <<>>
                                    ELSE IF IsCall(es[n]) /\ es[n].call.tool \in tools
                                         THEN Append(f[n - 1], es[n].call)
                                         ELSE f[n - 1]]
           T == {m \in 0 .. Len(es) : ~Upto(m)}
<1>1. T \subseteq Nat
  OBVIOUS
<1>2. ASSUME T # {} PROVE FALSE
  <2>1. PICK m \in T : \A y \in T : m <= y
    <3> HIDE DEF T
    <3> QED
      BY <1>1, <1>2, LeastNumber
  <2>2. m # 0
    <3> DEFINE f == [n \in 0 .. 0 |-> <<>>]
    <3>1. f = [n \in 0 .. 0 |-> IF n = 0 THEN <<>>
                               ELSE IF IsCall(es[n]) /\ es[n].call.tool \in tools
                                    THEN Append(f[n - 1], es[n].call)
                                    ELSE f[n - 1]]
      OBVIOUS
    <3> QED
      BY <3>1, <2>1
  <2>3. Upto(m - 1)
    <3>1. m \in 0 .. Len(es)
      BY <2>1, Zenon
    <3>2. m - 1 \in 0 .. Len(es) /\ m - 1 \notin T
      <4> HIDE DEF T
      <4> QED
        BY <2>1, <2>2, <3>1
    <3> QED
      BY <3>2, Zenon
  <2>4. PICK g : g = [n \in 0 .. (m - 1) |->
                        IF n = 0 THEN <<>>
                        ELSE IF IsCall(es[n]) /\ es[n].call.tool \in tools
                             THEN Append(g[n - 1], es[n].call)
                             ELSE g[n - 1]]
    BY <2>3
  <2> DEFINE last == IF IsCall(es[m]) /\ es[m].call.tool \in tools
                     THEN Append(g[m - 1], es[m].call) ELSE g[m - 1]
             f == [n \in 0 .. m |-> IF n = m THEN last ELSE g[n]]
  <2>5. f = [n \in 0 .. m |-> IF n = 0 THEN <<>>
                             ELSE IF IsCall(es[n]) /\ es[n].call.tool \in tools
                                  THEN Append(f[n - 1], es[n].call)
                                  ELSE f[n - 1]]
    <3>1. ASSUME NEW n \in 0 .. m
          PROVE  f[n] = IF n = 0 THEN <<>>
                        ELSE IF IsCall(es[n]) /\ es[n].call.tool \in tools
                             THEN Append(f[n - 1], es[n].call)
                             ELSE f[n - 1]
      <4>1. CASE n = 0
        BY <2>2, <2>4, <2>1, <4>1, SMTT(30)
      <4>2. CASE n # 0
        <5>1. m \in Nat /\ n - 1 \in 0 .. (m - 1) /\ n - 1 \in 0 .. m /\ n - 1 # m
          BY <2>1, <4>2
        <5>2. f[n - 1] = g[n - 1]
          BY <5>1
        <5>3. n # m => n \in 0 .. (m - 1) /\ f[n] = g[n]
          BY <5>1
        <5>4. n # m => g[n] = IF IsCall(es[n]) /\ es[n].call.tool \in tools
                              THEN Append(g[n - 1], es[n].call) ELSE g[n - 1]
          BY <2>4, <4>2, <5>3
        <5>5. n = m => f[n] = last
          BY <5>1
        <5> HIDE DEF f
        <5> QED
          BY <4>2, <5>2, <5>3, <5>4, <5>5, Zenon DEF last
      <4> QED
        BY <4>1, <4>2
    <3> QED
      BY <3>1
  <2>6. Upto(m)
    BY <2>5
  <2> QED
    BY <2>1, <2>6
<1>3. Upto(Len(es))
  <2>1. Len(es) \in 0 .. Len(es) /\ Len(es) \notin T
    <3> HIDE DEF T
    <3> QED
      BY <1>2
  <2> QED
    BY <2>1, Zenon
<1> QED
  BY <1>3

LEMMA CallsStep ==
  ASSUME NEW es \in Seq(TraceEvents), NEW tools
  PROVE  /\ CallsUpTo(es, tools)[0] = <<>>
         /\ \A n \in 1 .. Len(es) :
              /\ Taken(es, tools, n) =>
                   CallsUpTo(es, tools)[n] = Append(CallsUpTo(es, tools)[n - 1], es[n].call)
              /\ ~Taken(es, tools, n) =>
                   CallsUpTo(es, tools)[n] = CallsUpTo(es, tools)[n - 1]
<1> DEFINE Is(f) == f = [n \in 0 .. Len(es) |->
             IF n = 0 THEN <<>>
             ELSE IF IsCall(es[n]) /\ es[n].call.tool \in tools
                  THEN Append(f[n - 1], es[n].call)
                  ELSE f[n - 1]]
<1>1. \E f : Is(f)
  BY CallsExist, ZenonT(60)
<1>2. CallsUpTo(es, tools) = CHOOSE f : Is(f)
  BY Zenon DEF CallsUpTo
<1>3. Is(CallsUpTo(es, tools))
  <2> HIDE DEF Is
  <2> QED
    BY <1>1, <1>2, Zenon
<1> DEFINE F == CallsUpTo(es, tools)
<1> HIDE DEF F
<1>4. F = [n \in 0 .. Len(es) |->
             IF n = 0 THEN <<>>
             ELSE IF IsCall(es[n]) /\ es[n].call.tool \in tools
                  THEN Append(F[n - 1], es[n].call)
                  ELSE F[n - 1]]
  BY <1>3, Zenon DEF F
<1>5. Len(es) \in Nat
  OBVIOUS
<1>6. F[0] = <<>>
  BY <1>4, <1>5
<1>7. ASSUME NEW n \in 1 .. Len(es)
      PROVE  /\ Taken(es, tools, n) => F[n] = Append(F[n - 1], es[n].call)
             /\ ~Taken(es, tools, n) => F[n] = F[n - 1]
  <2>1. n \in 0 .. Len(es) /\ n # 0
    BY <1>5
  <2>2. F[n] = IF IsCall(es[n]) /\ es[n].call.tool \in tools
               THEN Append(F[n - 1], es[n].call) ELSE F[n - 1]
    BY <1>4, <2>1
  <2> QED
    BY <2>2, Zenon DEF Taken
<1> QED
  BY <1>6, <1>7 DEF F

\* What is on a trace is a call of a tool.
LEMMA CallOfEvent ==
  ASSUME NEW e \in TraceEvents, IsCall(e)
  PROVE  e.call \in ToolCalls /\ e.call \in Calls /\ e.call.tool \in ToolNames
<1>1. e \in [kind : {"ToolCall"}, id : Nat, call : ToolCalls]
  BY DEF TraceEvents, IsCall
<1>2. e.call \in ToolCalls
  BY <1>1
<1>3. e.call \in Calls
  BY <1>2 DEF Calls
<1> QED
  BY <1>2, <1>3, CallFields

LEMMA CallsTyped ==
  ASSUME NEW es \in Seq(TraceEvents), NEW tools
  PROVE  \A n \in 0 .. Len(es) : CallsUpTo(es, tools)[n] \in Seq(ToolCalls)
<1> DEFINE F == CallsUpTo(es, tools)
           T == {n \in 0 .. Len(es) : F[n] \notin Seq(ToolCalls)}
<1>1. /\ F[0] = <<>>
      /\ \A n \in 1 .. Len(es) : /\ Taken(es, tools, n) => F[n] = Append(F[n - 1], es[n].call)
                                 /\ ~Taken(es, tools, n) => F[n] = F[n - 1]
  BY CallsStep
<1> HIDE DEF F
<1>2. ASSUME T # {} PROVE FALSE
  <2>1. PICK n \in T : \A y \in T : n <= y
    <3>1. T \subseteq Nat
      OBVIOUS
    <3> HIDE DEF T
    <3> QED
      BY <1>2, <3>1, LeastNumber
  <2>2. n # 0
    <3>1. <<>> \in Seq(ToolCalls)
      OBVIOUS
    <3> QED
      BY <1>1, <2>1, <3>1
  <2>3. n \in 1 .. Len(es) /\ n - 1 \in 0 .. Len(es) /\ n - 1 \notin T
    BY <2>1, <2>2
  <2>4. F[n - 1] \in Seq(ToolCalls)
    BY <2>3
  <2>5. Taken(es, tools, n) => es[n].call \in ToolCalls
    BY <2>3, CallOfEvent DEF Taken
  <2>6. F[n] \in Seq(ToolCalls)
    <3>1. CASE Taken(es, tools, n)
      <4>1. Append(F[n - 1], es[n].call) \in Seq(ToolCalls)
        BY <2>4, <2>5, <3>1, AppendProperties
      <4> QED
        BY <1>1, <2>3, <3>1, <4>1
    <3>2. CASE ~Taken(es, tools, n)
      BY <1>1, <2>3, <2>4, <3>2
    <3> QED
      BY <3>1, <3>2
  <2> QED
    BY <2>1, <2>6
<1> QED
  BY <1>2 DEF F

\* The calls up to an event depend on what is up to there only.
LEMMA CallsOfPrefix ==
  ASSUME NEW es \in Seq(TraceEvents), NEW fs \in Seq(TraceEvents), NEW tools,
         NEW m \in Nat, m <= Len(es), m <= Len(fs), \A k \in 1 .. m : es[k] = fs[k]
  PROVE  CallsUpTo(es, tools)[m] = CallsUpTo(fs, tools)[m]
<1> DEFINE F == CallsUpTo(es, tools)
           G == CallsUpTo(fs, tools)
           T == {n \in 0 .. m : F[n] # G[n]}
<1>1. /\ F[0] = <<>>
      /\ \A n \in 1 .. Len(es) : /\ Taken(es, tools, n) => F[n] = Append(F[n - 1], es[n].call)
                                 /\ ~Taken(es, tools, n) => F[n] = F[n - 1]
  BY CallsStep
<1>2. /\ G[0] = <<>>
      /\ \A n \in 1 .. Len(fs) : /\ Taken(fs, tools, n) => G[n] = Append(G[n - 1], fs[n].call)
                                 /\ ~Taken(fs, tools, n) => G[n] = G[n - 1]
  BY CallsStep
<1> HIDE DEF F, G
<1>3. ASSUME T # {} PROVE FALSE
  <2>1. PICK n \in T : \A y \in T : n <= y
    <3>1. T \subseteq Nat
      OBVIOUS
    <3> HIDE DEF T
    <3> QED
      BY <1>3, <3>1, LeastNumber
  <2>2. n # 0
    BY <1>1, <1>2, <2>1
  <2>3. n \in 1 .. m /\ n - 1 \in 0 .. m /\ n - 1 \notin T
    BY <2>1, <2>2
  <2>4. F[n - 1] = G[n - 1] /\ es[n] = fs[n] /\ n \in 1 .. Len(es) /\ n \in 1 .. Len(fs)
    BY <2>3
  <2>5. Taken(es, tools, n) <=> Taken(fs, tools, n)
    BY <2>4 DEF Taken
  <2>6. F[n] = G[n]
    BY <1>1, <1>2, <2>4, <2>5
  <2> QED
    BY <2>1, <2>6
<1> QED
  BY <1>3 DEF F, G

\* Where no call is taken the calls stay as they are.
LEMMA CallsStay ==
  ASSUME NEW es \in Seq(TraceEvents), NEW tools, NEW m \in 0 .. Len(es), NEW n \in 0 .. Len(es),
         m <= n, \A k \in m + 1 .. n : ~Taken(es, tools, k)
  PROVE  CallsUpTo(es, tools)[n] = CallsUpTo(es, tools)[m]
<1> DEFINE F == CallsUpTo(es, tools)
           T == {k \in m .. n : F[k] # F[m]}
<1>1. \A k \in 1 .. Len(es) : ~Taken(es, tools, k) => F[k] = F[k - 1]
  BY CallsStep
<1> HIDE DEF F
<1>2. ASSUME T # {} PROVE FALSE
  <2>1. PICK k \in T : \A y \in T : k <= y
    <3>1. T \subseteq Nat
      OBVIOUS
    <3> HIDE DEF T
    <3> QED
      BY <1>2, <3>1, LeastNumber
  <2>2. k # m
    BY <2>1
  <2>3. k \in m + 1 .. n /\ k \in 1 .. Len(es) /\ k - 1 \in m .. n /\ k - 1 \notin T
    BY <2>1, <2>2
  <2>4. F[k] = F[k - 1] /\ F[k - 1] = F[m]
    BY <1>1, <2>3
  <2> QED
    BY <2>1, <2>4
<1> QED
  BY <1>2 DEF F

\* The calls up to an event are those on the trace.
LEMMA CallsAre ==
  ASSUME NEW es \in Seq(TraceEvents), NEW tools, NEW m \in 0 .. Len(es)
  PROVE  /\ \A j \in DOMAIN CallsUpTo(es, tools)[m] :
              \E k \in 1 .. m : Taken(es, tools, k) /\ es[k].call = CallsUpTo(es, tools)[m][j]
         /\ \A k \in 1 .. m : Taken(es, tools, k) =>
              \E j \in DOMAIN CallsUpTo(es, tools)[m] : es[k].call = CallsUpTo(es, tools)[m][j]
<1> DEFINE F == CallsUpTo(es, tools)
           Are(n) == /\ \A j \in DOMAIN F[n] :
                          \E k \in 1 .. n : Taken(es, tools, k) /\ es[k].call = F[n][j]
                     /\ \A k \in 1 .. n : Taken(es, tools, k) =>
                          \E j \in DOMAIN F[n] : es[k].call = F[n][j]
           T == {n \in 0 .. m : ~Are(n)}
<1>1. /\ F[0] = <<>>
      /\ \A n \in 1 .. Len(es) : /\ Taken(es, tools, n) => F[n] = Append(F[n - 1], es[n].call)
                                 /\ ~Taken(es, tools, n) => F[n] = F[n - 1]
      /\ \A n \in 0 .. Len(es) : F[n] \in Seq(ToolCalls)
  BY CallsStep, CallsTyped
<1> HIDE DEF F
<1>2. ASSUME T # {} PROVE FALSE
  <2>1. PICK n \in T : \A y \in T : n <= y
    <3>1. T \subseteq Nat
      OBVIOUS
    <3> HIDE DEF T
    <3> QED
      BY <1>2, <3>1, LeastNumber
  <2>2. n # 0
    <3>1. Are(0)
      BY <1>1
    <3> QED
      BY <2>1, <3>1
  <2>3. n \in 1 .. Len(es) /\ n - 1 \in 0 .. m /\ n - 1 \notin T
        /\ n - 1 \in 0 .. Len(es) /\ n \in Nat
    <3>1. m \in 0 .. Len(es) /\ Len(es) \in Nat /\ n \in 0 .. m
      BY <2>1
    <3>2. /\ n \in 1 .. Len(es) /\ n - 1 \in 0 .. m /\ n - 1 \in 0 .. Len(es)
          /\ n \in Nat /\ n - 1 \in Nat /\ ~(n <= n - 1)
      BY ONLY <2>2, <3>1
    <3> HIDE DEF T
    <3> QED
      BY ONLY <2>1, <3>2
  <2>4. Are(n - 1)
    BY <2>3
  <2>5. \A k : k \in 1 .. n <=> k \in 1 .. n - 1 \/ k = n
    BY <2>3
  <2>6. CASE Taken(es, tools, n)
    <3>1. PICK s \in Seq(ToolCalls) : s = F[n - 1]
      BY <1>1, <2>3
    <3>2. es[n].call \in ToolCalls
      BY <2>3, <2>6, CallOfEvent DEF Taken
    <3>3. F[n] = Append(s, es[n].call)
      BY <1>1, <2>3, <2>6, <3>1
    <3>4. /\ DOMAIN F[n] = DOMAIN s \cup {Len(s) + 1}
          /\ \A j \in DOMAIN s : F[n][j] = s[j]
          /\ F[n][Len(s) + 1] = es[n].call
      <4>1. /\ Append(s, es[n].call) \in Seq(ToolCalls) /\ Len(s) \in Nat
            /\ Len(Append(s, es[n].call)) = Len(s) + 1
            /\ \A j \in 1 .. Len(s) : Append(s, es[n].call)[j] = s[j]
            /\ Append(s, es[n].call)[Len(s) + 1] = es[n].call
        BY <3>2, AppendProperties
      <4>2. DOMAIN s = 1 .. Len(s) /\ DOMAIN Append(s, es[n].call) = 1 .. Len(s) + 1
        BY <4>1
      <4>3. 1 .. Len(s) + 1 = (1 .. Len(s)) \cup {Len(s) + 1}
        BY <4>1
      <4> QED
        BY <3>3, <4>1, <4>2, <4>3
    <3>5. Are(n)
      BY <2>4, <2>5, <2>6, <3>1, <3>4, SMTT(30)
    <3> QED
      BY <2>1, <3>5
  <2>7. CASE ~Taken(es, tools, n)
    <3>1. F[n] = F[n - 1]
      BY <1>1, <2>3, <2>7
    <3>2. Are(n)
      BY <2>4, <2>5, <2>7, <3>1
    <3> QED
      BY <2>1, <3>2
  <2> QED
    BY <2>6, <2>7
<1>3. Are(m)
  BY <1>2
<1> QED
  BY <1>3 DEF F

\* If every call is one of the tools, none is missing.
LEMMA CallsOfAll ==
  ASSUME NEW es \in Seq(TraceEvents), NEW tools, NEW more,
         \A k \in 1 .. Len(es) : Taken(es, tools, k) <=> Taken(es, more, k)
  PROVE  CallSequence(es, tools) = CallSequence(es, more)
<1> DEFINE F == CallsUpTo(es, tools)
           G == CallsUpTo(es, more)
           T == {n \in 0 .. Len(es) : F[n] # G[n]}
<1>1. /\ F[0] = <<>>
      /\ \A n \in 1 .. Len(es) : /\ Taken(es, tools, n) => F[n] = Append(F[n - 1], es[n].call)
                                 /\ ~Taken(es, tools, n) => F[n] = F[n - 1]
  BY CallsStep
<1>2. /\ G[0] = <<>>
      /\ \A n \in 1 .. Len(es) : /\ Taken(es, more, n) => G[n] = Append(G[n - 1], es[n].call)
                                 /\ ~Taken(es, more, n) => G[n] = G[n - 1]
  BY CallsStep
<1> HIDE DEF F, G
<1>3. ASSUME T # {} PROVE FALSE
  <2>1. PICK n \in T : \A y \in T : n <= y
    <3>1. T \subseteq Nat
      OBVIOUS
    <3> HIDE DEF T
    <3> QED
      BY <1>3, <3>1, LeastNumber
  <2>2. n # 0
    BY <1>1, <1>2, <2>1
  <2>3. n \in 1 .. Len(es) /\ n - 1 \in 0 .. Len(es) /\ n - 1 \notin T
    BY <2>1, <2>2
  <2>4. F[n - 1] = G[n - 1] /\ (Taken(es, tools, n) <=> Taken(es, more, n))
    BY <2>3
  <2>5. F[n] = G[n]
    BY <1>1, <1>2, <2>3, <2>4
  <2> QED
    BY <2>1, <2>5
<1>4. F[Len(es)] = G[Len(es)]
  BY <1>3
<1> QED
  BY <1>4 DEF F, G, CallSequence

-----------------------------------------------------------------------------
(***************************************************************************)
(* What a step adds to the calls                                           *)
(***************************************************************************)

\* A step adds a call to those on the trace, or none.
Adds(c) ==
    /\ Grows
    /\ c \in ToolCalls
    /\ All(events') = Append(All(events), c)
    /\ \E n \in News : /\ Kinds("ToolCall")' = Kinds("ToolCall") \cup {n}
                       /\ events'[n].call = c

AddsNone == Grows /\ All(events') = All(events) /\ Kinds("ToolCall")' = Kinds("ToolCall")

LEMMA AllTyped ==
  ASSUME NEW es \in Seq(TraceEvents)
  PROVE  All(es) \in Seq(ToolCalls)
BY CallsTyped DEF All, CallSequence

LEMMA OldCalls ==
  ASSUME events \in Seq(TraceEvents), Grows, NEW tools
  PROVE  /\ CallsUpTo(events', tools)[Len(events)] = CallSequence(events, tools)
         /\ Len(events) \in Nat /\ Len(events') \in Nat /\ Len(events) <= Len(events')
         /\ News = Len(events) + 1 .. Len(events')
<1>1. /\ Len(events) \in Nat /\ Len(events') \in Nat /\ Len(events) <= Len(events')
      /\ \A k \in 1 .. Len(events) : events'[k] = events[k]
      /\ events' \in Seq(TraceEvents)
  BY DEF Grows
<1>2. PICK es \in Seq(TraceEvents) : es = events'
  BY <1>1
<1>3. /\ Len(es) \in Nat /\ Len(events) <= Len(es)
      /\ \A k \in 1 .. Len(events) : events[k] = es[k]
  BY <1>1, <1>2
<1>4. CallsUpTo(es, tools)[Len(events)] = CallsUpTo(events, tools)[Len(events)]
  BY <1>1, <1>3, CallsOfPrefix
<1> QED
  BY <1>1, <1>2, <1>4 DEF CallSequence, News

LEMMA NoCallAdded ==
  ASSUME events \in Seq(TraceEvents), Grows, \A k \in News : events'[k].kind # "ToolCall"
  PROVE  AddsNone
<1>1. Kinds("ToolCall")' = Kinds("ToolCall")
  <2>1. {k \in News : events'[k].kind = "ToolCall"} = {}
    OBVIOUS
  <2>2. Kinds("ToolCall")' = Kinds("ToolCall") \cup {k \in News : events'[k].kind = "ToolCall"}
    BY KindsGrow
  <2> QED
    BY <2>1, <2>2
<1>2. PICK es \in Seq(TraceEvents) : es = events'
  BY DEF Grows
<1>3. /\ Len(events) \in 0 .. Len(es) /\ Len(es) \in 0 .. Len(es) /\ Len(events) <= Len(es)
      /\ \A k \in Len(events) + 1 .. Len(es) : ~Taken(es, ToolNames, k)
  BY <1>2, OldCalls DEF Taken, IsCall
<1>4. CallsUpTo(es, ToolNames)[Len(es)] = CallsUpTo(es, ToolNames)[Len(events)]
  BY <1>3, CallsStay
<1>5. CallsUpTo(es, ToolNames)[Len(events)] = All(events)
  BY <1>2, OldCalls DEF All
<1>6. All(events') = All(events)
  BY <1>2, <1>4, <1>5 DEF All, CallSequence
<1> QED
  BY <1>1, <1>6 DEF AddsNone

LEMMA CallAdded ==
  ASSUME events \in Seq(TraceEvents), Grows, Len(events) + 1 \in News,
         NEW c, events'[Len(events) + 1] = Called(c),
         \A k \in News \ {Len(events) + 1} : events'[k].kind # "ToolCall"
  PROVE  Adds(c)
<1> DEFINE n == Len(events) + 1
<1>1. events'[n].kind = "ToolCall" /\ events'[n].call = c
  BY DEF Called
<1>2. Kinds("ToolCall")' = Kinds("ToolCall") \cup {n}
  BY <1>1, KindsGrow
<1>3. PICK es \in Seq(TraceEvents) : es = events'
  BY DEF Grows
<1>4. /\ Len(events) \in Nat /\ Len(es) \in Nat /\ n \in 1 .. Len(es)
      /\ \A k \in n + 1 .. Len(es) : k \in News \ {n}
  BY <1>3, OldCalls
<1>5. es[n] \in TraceEvents /\ IsCall(es[n]) /\ es[n].call = c
  BY <1>1, <1>3, <1>4 DEF IsCall
<1>6. c \in ToolCalls /\ c.tool \in ToolNames
  BY <1>5, CallOfEvent
<1>7. Taken(es, ToolNames, n) /\ \A k \in n + 1 .. Len(es) : ~Taken(es, ToolNames, k)
  BY <1>3, <1>4, <1>5, <1>6 DEF Taken, IsCall
<1>8. CallsUpTo(es, ToolNames)[n] = Append(CallsUpTo(es, ToolNames)[Len(events)], c)
  <2>1. n - 1 = Len(events)
    BY <1>4
  <2> HIDE DEF n
  <2> QED
    <3>1. /\ n \in 1 .. Len(es) /\ Taken(es, ToolNames, n)
          /\ es[n].call = c /\ es \in Seq(TraceEvents)
      BY <1>4, <1>5, <1>7
    <3>2. CallsUpTo(es, ToolNames)[n] = Append(CallsUpTo(es, ToolNames)[n - 1], es[n].call)
      BY ONLY <3>1, CallsStep
    <3> QED
      BY ONLY <2>1, <3>1, <3>2, Zenon
<1>9. CallsUpTo(es, ToolNames)[Len(es)] = CallsUpTo(es, ToolNames)[n]
  <2>1. n \in 0 .. Len(es) /\ Len(es) \in 0 .. Len(es) /\ n <= Len(es)
    BY <1>4
  <2> HIDE DEF n
  <2> QED
    BY <1>7, <2>1, CallsStay
<1>10. CallsUpTo(es, ToolNames)[Len(events)] = All(events)
  BY <1>3, OldCalls DEF All
<1>11. All(events') = Append(All(events), c)
  <2> HIDE DEF n
  <2> QED
    BY <1>3, <1>8, <1>9, <1>10 DEF All, CallSequence
<1> QED
  BY <1>1, <1>2, <1>6, <1>11 DEF Adds

LEMMA MakesAdds ==
  ASSUME events \in Seq(TraceEvents), NEW c, MakesCall(c) \/ OpensCall(c)
  PROVE  Adds(c)
<1>1. \A k : Aside(k) => events'[k].kind # "ToolCall"
  BY DEF Aside
<1>2. \A ok : Answered(c, ok).kind # "ToolCall"
  BY DEF Answered
<1> QED
  BY <1>1, <1>2, CallAdded DEF MakesCall, OpensCall

LEMMA OthersAdd ==
  ASSUME events \in Seq(TraceEvents), NoCall \/ ClosesCall
  PROVE  AddsNone
<1>1. \A k : Aside(k) => events'[k].kind # "ToolCall"
  BY DEF Aside
<1>2. CASE NoCall
  BY <1>1, <1>2, NoCallAdded DEF NoCall
<1>3. CASE ClosesCall
  <2>1. PICK r \in News : /\ events'[r].kind = "ToolResult"
                          /\ \A k \in News \ {r} : Aside(k)
    BY <1>3 DEF ClosesCall
  <2>2. \A k \in News : events'[k].kind # "ToolCall"
    BY <1>1, <2>1
  <2> QED
    BY <1>3, <2>2, NoCallAdded DEF ClosesCall
<1> QED
  BY <1>2, <1>3

-----------------------------------------------------------------------------
(***************************************************************************)
(* What calls make of a workspace                                          *)
(***************************************************************************)

LEMMA AppendDomain ==
  ASSUME NEW calls \in Seq(ToolCalls), NEW c \in ToolCalls
  PROVE  /\ Len(calls) \in Nat
         /\ DOMAIN Append(calls, c) = DOMAIN calls \cup {Len(calls) + 1}
         /\ \A k \in DOMAIN calls : k \in Nat /\ k <= Len(calls) /\ Append(calls, c)[k] = calls[k]
         /\ Append(calls, c)[Len(calls) + 1] = c
<1>1. /\ Append(calls, c) \in Seq(ToolCalls) /\ Len(calls) \in Nat
      /\ Len(Append(calls, c)) = Len(calls) + 1
      /\ \A j \in 1 .. Len(calls) : Append(calls, c)[j] = calls[j]
      /\ Append(calls, c)[Len(calls) + 1] = c
  BY AppendProperties
<1>2. DOMAIN calls = 1 .. Len(calls) /\ DOMAIN Append(calls, c) = 1 .. Len(calls) + 1
  BY <1>1
<1>3. 1 .. Len(calls) + 1 = (1 .. Len(calls)) \cup {Len(calls) + 1}
  BY <1>1
<1> QED
  BY <1>1, <1>2, <1>3

LEMMA LeftAppend ==
  ASSUME NEW calls \in Seq(ToolCalls), NEW c \in ToolCalls, NEW fs, NEW gs, LeftBy(calls, fs),
         \A p \in Paths :
            IF c.tool = "write_file" /\ c.path = p /\ InitialFiles[p] # Binary
            THEN gs[p] = c.contents ELSE gs[p] = fs[p]
  PROVE  LeftBy(Append(calls, c), gs)
<1> DEFINE more == Append(calls, c)
           n == Len(calls) + 1
<1>1. /\ n \in Nat
      /\ DOMAIN more = DOMAIN calls \cup {n}
      /\ \A k \in DOMAIN calls : k \in Nat /\ k < n /\ more[k] = calls[k]
      /\ more[n] = c
  BY AppendDomain
<1> HIDE DEF more, n
<1>2. ASSUME NEW p \in Paths
      PROVE  \/ /\ InitialFiles[p] = Binary \/ WritesTo(more, p) = {}
                /\ gs[p] = InitialFiles[p]
             \/ /\ InitialFiles[p] # Binary
                /\ \E k \in WritesTo(more, p) :
                      /\ \A j \in WritesTo(more, p) : j <= k
                      /\ gs[p] = more[k].contents
  <2>1. CASE c.tool = "write_file" /\ c.path = p /\ InitialFiles[p] # Binary
    <3>1. n \in WritesTo(more, p) /\ \A j \in WritesTo(more, p) : j <= n
      BY <1>1, <2>1 DEF WritesTo
    <3>2. gs[p] = more[n].contents
      BY <1>1, <2>1
    <3> QED
      BY <2>1, <3>1, <3>2
  <2>2. CASE InitialFiles[p] = Binary
    BY <2>2 DEF LeftBy
  <2>3. CASE ~(c.tool = "write_file" /\ c.path = p) /\ InitialFiles[p] # Binary
    <3>1. WritesTo(more, p) = WritesTo(calls, p)
      BY <1>1, <2>3 DEF WritesTo
    <3>2. \A k \in WritesTo(calls, p) : more[k] = calls[k]
      BY <1>1 DEF WritesTo
    <3>3. gs[p] = fs[p]
      BY <2>3
    <3> QED
      BY <2>3, <3>1, <3>2, <3>3 DEF LeftBy
  <2> QED
    BY <2>1, <2>2, <2>3
<1>3. LeftBy(more, gs)
  BY <1>2 DEF LeftBy
<1> QED
  BY <1>3 DEF more

LEMMA ReplaceAppend ==
  ASSUME NEW calls \in Seq(ToolCalls), NEW c \in ToolCalls, NoReplace(Append(calls, c))
  PROVE  NoReplace(calls) /\ c.tool # "replace_text"
BY AppendDomain DEF NoReplace

LEMMA LeftUnique ==
  ASSUME NEW calls \in Seq(ToolCalls), NEW fs, NEW gs, LeftBy(calls, fs), LeftBy(calls, gs)
  PROVE  \A p \in Paths : fs[p] = gs[p]
<1>1. \A p : WritesTo(calls, p) \subseteq Nat
  BY DEF WritesTo
<1>2. ASSUME NEW p \in Paths PROVE fs[p] = gs[p]
  <2>1. CASE InitialFiles[p] = Binary \/ WritesTo(calls, p) = {}
    BY <2>1 DEF LeftBy
  <2>2. CASE InitialFiles[p] # Binary /\ WritesTo(calls, p) # {}
    <3>1. PICK k \in WritesTo(calls, p) : /\ \A j \in WritesTo(calls, p) : j <= k
                                         /\ fs[p] = calls[k].contents
      BY <2>2 DEF LeftBy
    <3>2. PICK i \in WritesTo(calls, p) : /\ \A j \in WritesTo(calls, p) : j <= i
                                         /\ gs[p] = calls[i].contents
      BY <2>2 DEF LeftBy
    <3>3. k = i
      BY <1>1, <3>1, <3>2
    <3> QED
      BY <3>1, <3>2, <3>3
  <2> QED
    BY <2>1, <2>2
<1> QED
  BY <1>2

\* A tool that does not raise was not called on a file that is not UTF-8.
LEMMA InvokeReads ==
  ASSUME NEW c \in Calls, Invoke(c, FALSE), c.tool \in {"read_file", "write_file", "replace_text"},
         c.path \in Paths
  PROVE  files[c.path] # Binary
<1>1. Absent # Binary
  BY FilesAssumption
<1>2. ~Outside(c.path)
  BY DEF Outside
<1>3. CASE c.tool = "read_file"
  BY <1>1, <1>2, <1>3 DEF Invoke, ReadFile, Unreadable, Readable
<1>4. CASE c.tool = "write_file"
  BY <1>1, <1>2, <1>4 DEF Invoke, WriteFile
<1>5. CASE c.tool = "replace_text"
  BY <1>1, <1>2, <1>5 DEF Invoke, ReplaceText, Unreadable, Readable
<1> QED
  BY <1>3, <1>4, <1>5

\* A fault is not forgotten.
LEMMA FaultsStay ==
  ASSUME Typed, NEW c, Works(c)
  PROVE  /\ faults' = <<>> => faults = <<>> /\ UNCHANGED faults /\ ~Breaks(c)
         /\ ~Breaks(c) => UNCHANGED faults
<1>1. faults \in Seq(Paths)
  BY DEF Typed
<1>2. CASE Breaks(c)
  <2>1. faults' = Append(faults, c.path) /\ c.path \in Paths
    BY <1>2 DEF Breaks
  <2>2. Len(faults') = Len(faults) + 1 /\ Len(faults) \in Nat
    BY <1>1, <2>1, AppendProperties
  <2>3. faults' # <<>>
    BY <2>2
  <2> QED
    BY <1>2, <2>3
<1>3. CASE UNCHANGED faults /\ ~Breaks(c)
  BY <1>3
<1> QED
  BY <1>2, <1>3 DEF Works, Looks, Escapes, Writes, Submits

-----------------------------------------------------------------------------
(***************************************************************************)
(* The attempt                                                             *)
(***************************************************************************)

\* A call that changes no file but writes what a write_file says.
LEMMA AddsEffected ==
  ASSUME Typed, Effected, NEW c, Adds(c), UNCHANGED faults,
         submitted' <=> submitted \/ c.tool = "submit",
         faults = <<>> => \A p \in Paths : files'[p] = Binary <=> InitialFiles[p] = Binary,
         faults = <<>> /\ c.tool # "replace_text" =>
            \A p \in Paths :
               IF c.tool = "write_file" /\ c.path = p /\ InitialFiles[p] # Binary
               THEN files'[p] = c.contents ELSE files'[p] = files[p]
  PROVE  Effected'
<1>1. c \in ToolCalls /\ Grows /\ events \in Seq(TraceEvents)
  BY DEF Adds, Typed, TypeOK
<1>2. submitted' <=> \E k \in Kinds("ToolCall")' : events'[k].call.tool = "submit"
  <2>1. PICK n \in News : /\ Kinds("ToolCall")' = Kinds("ToolCall") \cup {n}
                          /\ events'[n].call = c
    BY DEF Adds
  <2>2. \A k \in Kinds("ToolCall") : events'[k] = events[k]
    BY <1>1, KindsGrow
  <2> QED
    BY <2>1, <2>2 DEF Effected
<1>3. ASSUME faults = <<>>, NoReplace(All(events')) PROVE LeftBy(All(events'), files')
  <2>1. PICK calls \in Seq(ToolCalls) : calls = All(events)
    BY <1>1, AllTyped
  <2>2. All(events') = Append(calls, c)
    BY <2>1 DEF Adds
  <2>3. NoReplace(calls) /\ c.tool # "replace_text"
    BY <1>1, <1>3, <2>2, ReplaceAppend
  <2>4. LeftBy(calls, files)
    BY <1>3, <2>1, <2>3 DEF Effected
  <2>5. LeftBy(Append(calls, c), files')
    BY <1>1, <1>3, <2>3, <2>4, LeftAppend
  <2> QED
    BY <2>2, <2>5
<1> QED
  BY <1>2, <1>3 DEF Effected

LEMMA NoneEffected ==
  ASSUME Typed, Effected, AddsNone, UNCHANGED <<files, submitted, faults>>
  PROVE  Effected'
<1>1. events \in Seq(TraceEvents) /\ Grows
  BY DEF Typed, TypeOK, AddsNone
<1>2. \A k \in Kinds("ToolCall") : events'[k] = events[k]
  BY <1>1, KindsGrow
<1> QED
  BY <1>2 DEF Effected, AddsNone

\* A tool works.
LEMMA CallEffected ==
  ASSUME IInv, Effected, NEW c \in Calls, Invoke(c, FALSE)
  PROVE  /\ Effected' /\ Adds(c)
         /\ faults' = <<>> => faults = <<>> /\ ~OnBinary(c)
<1>1. Typed /\ events \in Seq(TraceEvents) /\ DOMAIN files = Paths
  BY DEF IInv, Typed, TypeOK
<1>2. Works(c) /\ Adds(c)
  BY <1>1, InvokeWorks, WorksEffects, MakesAdds
<1>3. faults = <<>> => ~OnBinary(c)
  BY InvokeReads DEF OnBinary, Effected
<1>4. faults' = <<>> => faults = <<>>
  BY <1>1, <1>2, FaultsStay
<1>5. CASE Looks(c) \/ Escapes(c)
  <2>1. UNCHANGED <<files, submitted, faults>> /\ c.tool # "submit"
        /\ (c.tool = "write_file" => c.path \notin Paths)
    BY <1>5 DEF Looks, Escapes, Outside
  <2> QED
    BY <1>1, <1>2, <1>3, <1>4, <2>1, AddsEffected DEF Effected
<1>6. ASSUME NEW text \in Text, Writes(c, text) PROVE Effected'
  <2>1. /\ c.tool \in {"write_file", "replace_text"} /\ c.path \in Paths
        /\ files[c.path] # Binary
        /\ c.tool = "write_file" => text = c.contents
        /\ files' = [files EXCEPT ![c.path] = text]
        /\ UNCHANGED <<submitted, faults>>
    BY <1>6 DEF Writes
  <2>2. \A p \in Paths : files'[p] = IF p = c.path THEN text ELSE files[p]
    BY <1>1, <2>1
  <2>3. text # Binary
    BY FilesAssumption
  <2>4. faults = <<>> => InitialFiles[c.path] # Binary
    BY <2>1 DEF Effected
  <2>5. faults = <<>> => \A p \in Paths : files'[p] = Binary <=> InitialFiles[p] = Binary
    BY <2>1, <2>2, <2>3, <2>4 DEF Effected
  <2>6. faults = <<>> /\ c.tool # "replace_text" =>
            \A p \in Paths :
               IF c.tool = "write_file" /\ c.path = p /\ InitialFiles[p] # Binary
               THEN files'[p] = c.contents ELSE files'[p] = files[p]
    BY <2>1, <2>2, <2>4
  <2>7. UNCHANGED faults /\ (submitted' <=> submitted \/ c.tool = "submit")
    BY <2>1
  <2> QED
    BY <1>1, <1>2, <2>5, <2>6, <2>7, AddsEffected
<1>7. CASE Breaks(c)
  <2>1. UNCHANGED submitted /\ c.tool # "submit" /\ faults' # <<>>
    BY <1>1, <1>2, <1>7, FaultsStay DEF Breaks
  <2>2. PICK n \in News : /\ Kinds("ToolCall")' = Kinds("ToolCall") \cup {n}
                          /\ events'[n].call = c
    BY <1>2 DEF Adds
  <2>3. \A k \in Kinds("ToolCall") : events'[k] = events[k]
    BY <1>2, KindsGrow DEF Adds
  <2>4. submitted' <=> \E k \in Kinds("ToolCall")' : events'[k].call.tool = "submit"
    BY <2>1, <2>2, <2>3 DEF Effected
  <2>5. Effected'
    BY <2>1, <2>4 DEF Effected
  <2> QED
    BY <1>2, <1>3, <1>4, <2>5
<1>8. CASE Submits(c)
  <2>1. submitted' = TRUE /\ c.tool = "submit" /\ UNCHANGED <<files, faults>>
    BY <1>8 DEF Submits
  <2>2. Effected'
    BY <1>1, <1>2, <2>1, AddsEffected DEF Effected
  <2> QED
    BY <1>2, <1>3, <1>4, <2>2
<1>9. Effected'
  BY <1>2, <1>5, <1>6, <1>7, <1>8 DEF Works
<1> QED
  BY <1>2, <1>3, <1>4, <1>9

\* A tool raises.
LEMMA CrashEffected ==
  ASSUME IInv, Effected, NEW c \in Calls, Invoke(c, TRUE)
  PROVE  /\ Effected' /\ Adds(c) /\ UNCHANGED faults
         /\ faults = <<>> => OnBinary(c)
<1>1. Typed /\ events \in Seq(TraceEvents)
  BY DEF IInv, Typed, TypeOK
<1>2. Raises(c) /\ Adds(c)
  BY <1>1, InvokeRaises, RaisesEffects, MakesAdds
<1>3. /\ UNCHANGED <<files, submitted, faults>> /\ c.path \in Paths /\ files[c.path] = Binary
      /\ c.tool \in {"read_file", "write_file", "replace_text"}
  BY <1>2 DEF Raises, Raise
<1>4. faults = <<>> => OnBinary(c)
  BY <1>3 DEF OnBinary, Effected
<1>5. faults = <<>> => \A p \in Paths : files'[p] = Binary <=> InitialFiles[p] = Binary
  BY <1>3 DEF Effected
<1>6. faults = <<>> /\ c.tool # "replace_text" =>
          \A p \in Paths :
             IF c.tool = "write_file" /\ c.path = p /\ InitialFiles[p] # Binary
             THEN files'[p] = c.contents ELSE files'[p] = files[p]
  BY <1>3, <1>4 DEF OnBinary
<1>7. UNCHANGED faults /\ (submitted' <=> submitted \/ c.tool = "submit")
  BY <1>3
<1> QED
  BY <1>1, <1>2, <1>4, <1>5, <1>6, <1>7, AddsEffected

\* A test command starts.
LEMMA StartEffected ==
  ASSUME IInv, Effected, NEW c \in Calls, StartTests(c)
  PROVE  /\ Effected' /\ Adds(c) /\ UNCHANGED faults
         /\ c.tool = "run_tests" /\ ~OnBinary(c)
<1>1. Typed /\ events \in Seq(TraceEvents)
  BY DEF IInv, Typed, TypeOK
<1>2. Adds(c) /\ c.tool = "run_tests" /\ UNCHANGED <<files, submitted, faults>>
  BY <1>1, StartEffects, MakesAdds DEF StartTests
<1>3. Effected'
  BY <1>1, <1>2, AddsEffected DEF Effected
<1> QED
  BY <1>2, <1>3 DEF OnBinary

\* It ends.
LEMMA FinishEffected ==
  ASSUME IInv, Effected, FinishTests, pc \in Testing
  PROVE  Effected' /\ AddsNone /\ UNCHANGED faults
<1>1. Typed /\ events \in Seq(TraceEvents)
  BY DEF IInv, Typed, TypeOK
<1>2. CallCount > 0
  <2>1. CallCount \in 1 .. CallCount
    BY DEF IInv, TestsUnderWay, Numbered
  <2> QED
    BY <2>1
<1>3. AddsNone
  BY <1>1, <1>2, FinishEffects, OthersAdd
<1> QED
  BY <1>1, <1>3, NoneEffected DEF FinishTests

\* No tool is called.
LEMMA AsideEffected ==
  ASSUME IInv, Effected, UNCHANGED <<files, submitted, faults>>,
         \/ UNCHANGED events
         \/ \E e \in TraceEvents : Record(<<e>>) /\ e.kind \in {"ModelCall", "AgentError"}
  PROVE  Effected' /\ AddsNone
<1>1. Typed /\ events \in Seq(TraceEvents)
  BY DEF IInv, Typed, TypeOK
<1>2. NoCall
  <2>1. CASE UNCHANGED events
    BY <1>1, <2>1, StillEffects DEF toolVars
  <2>2. CASE \E e \in TraceEvents : Record(<<e>>) /\ e.kind \in {"ModelCall", "AgentError"}
    BY <1>1, <2>2, AsideEffects
  <2> QED
    BY <2>1, <2>2
<1>3. AddsNone
  BY <1>1, <1>2, OthersAdd
<1> QED
  BY <1>1, <1>3, NoneEffected

LEMMA AttemptedAdds ==
  ASSUME Typed, Attempted, NEW c, Adds(c), pc \in AgentPlaces \ {"crashed"},
         UNCHANGED <<skipped, policy>>,
         faults' = <<>> => faults = <<>> /\ (OnBinary(c) => pc' = "crashed"),
         policy # NoPolicy => c.tool \in Replayable /\ Range(batch') \subseteq Range(batch)
  PROVE  Attempted'
<1>1. PICK n \in News : Kinds("ToolCall")' = Kinds("ToolCall") \cup {n} /\ events'[n].call = c
  BY DEF Adds
<1>2. \A k \in Kinds("ToolCall") : k \in Nat /\ k < n /\ events'[k] = events[k]
  <2>1. Grows /\ Len(events) \in Nat /\ Len(events') \in Nat
    BY DEF Adds, Grows
  <2>2. \A k \in Kinds("ToolCall") : k \in 1 .. Len(events) /\ events'[k] = events[k]
    BY <2>1, KindsGrow
  <2> QED
    BY <2>1, <2>2 DEF News
<1>3. n \in Nat
  BY DEF News, Adds, Grows
<1>4. ASSUME faults' = <<>>, NEW i \in Kinds("ToolCall")', OnBinary(events'[i].call)
      PROVE  pc' = "crashed" /\ \A j \in Kinds("ToolCall")' : j <= i
  <2>1. i = n
    BY <1>1, <1>2, <1>4 DEF Attempted
  <2>2. \A j \in Kinds("ToolCall")' : j <= n
    BY <1>1, <1>2, <1>3
  <2> QED
    BY <1>1, <1>4, <2>1, <2>2
<1>5. policy' # NoPolicy =>
         /\ \A i \in Kinds("ToolCall")' : events'[i].call.tool \in Replayable
         /\ \A d \in Range(batch') : d.tool \in Replayable \cup {"botch"}
  BY <1>1, <1>2 DEF Attempted
<1> QED
  BY <1>4, <1>5 DEF Attempted

LEMMA AttemptedNone ==
  ASSUME Typed, Attempted, AddsNone, pc \in AgentPlaces, UNCHANGED <<skipped, policy, faults>>,
         pc = "crashed" => pc' = "crashed",
         policy # NoPolicy => Range(batch') \subseteq Range(batch)
  PROVE  Attempted'
<1>1. \A k \in Kinds("ToolCall") : events'[k] = events[k]
  BY KindsGrow DEF AddsNone
<1> QED
  BY <1>1 DEF Attempted, AddsNone

LEMMA TailRange ==
  ASSUME NEW S, NEW s \in Seq(S), s # <<>>
  PROVE  Range(Tail(s)) \subseteq Range(s) /\ Head(s) \in Range(s)
<1>1. PICK n \in Nat : n = Len(s) /\ n >= 1
  OBVIOUS
<1>2. /\ Head(s) = s[1] /\ Tail(s) \in Seq(S) /\ Len(Tail(s)) = n - 1
      /\ \A k \in 1 .. n - 1 : Tail(s)[k] = s[k + 1]
  BY <1>1, HeadTailProperties
<1>3. DOMAIN s = 1 .. n /\ DOMAIN Tail(s) = 1 .. n - 1
  BY <1>1, <1>2
<1>4. (\A k \in 1 .. n - 1 : k + 1 \in 1 .. n) /\ 1 \in 1 .. n
  BY <1>1
<1> QED
  BY <1>2, <1>3, <1>4 DEF Range

\* A step of a model.
LEMMA AgentAttempts ==
  ASSUME IInv, Controlled, Effected, Attempted, AgentNext, UNCHANGED replayVars
  PROVE  Effected' /\ Attempted' /\ pc \in AgentPlaces /\ pc' \in AgentPlaces
<1> USE DEF replayVars
<1>1. /\ pc \in {"asking", "invoking", "testing", "turning"} /\ pc' \in AgentPlaces
  BY DEF AgentNext, Respond, GiveUp, ModelFails, Refuse, Use, Reply, Crash, BeginTests,
         EndTests, Turn, CancelAttempt, AgentPlaces
<1>2. policy = NoPolicy /\ pc \in AgentPlaces \ {"crashed"} /\ Typed
  BY <1>1 DEF Controlled, AgentPlaces, IInv
<1>3. CASE Use
  <2>1. Invoke(Head(batch), FALSE) /\ pc = "invoking"
    BY <1>3 DEF Use
  <2>2. PICK c \in Calls : c = Head(batch)
    BY <2>1, NextCallTyped
  <2>3. Effected' /\ Adds(c) /\ (faults' = <<>> => faults = <<>> /\ ~OnBinary(c))
    BY <2>1, <2>2, CallEffected
  <2> QED
    BY <1>1, <1>2, <2>3, AttemptedAdds
<1>4. CASE Crash
  <2>1. Invoke(Head(batch), TRUE) /\ pc = "invoking" /\ pc' = "crashed"
    BY <1>4 DEF Crash
  <2>2. PICK c \in Calls : c = Head(batch)
    BY <2>1, NextCallTyped
  <2>3. Effected' /\ Adds(c) /\ UNCHANGED faults
    BY <2>1, <2>2, CrashEffected
  <2> QED
    BY <1>1, <1>2, <2>1, <2>3, AttemptedAdds
<1>5. CASE BeginTests
  <2>1. StartTests(Head(batch)) /\ pc = "invoking"
    BY <1>5 DEF BeginTests
  <2>2. PICK c \in Calls : c = Head(batch)
    BY <2>1, NextCallTyped
  <2>3. Effected' /\ Adds(c) /\ UNCHANGED faults /\ ~OnBinary(c)
    BY <2>1, <2>2, StartEffected
  <2> QED
    BY <1>1, <1>2, <2>3, AttemptedAdds
<1>6. CASE EndTests
  <2>1. FinishTests /\ pc \in Testing
    BY <1>6 DEF EndTests, Testing
  <2>2. Effected' /\ AddsNone /\ UNCHANGED faults
    BY <2>1, FinishEffected
  <2> QED
    BY <1>1, <1>2, <2>2, AttemptedNone
<1>7. CASE \/ \E calls \in Responses : Respond(calls)
           \/ \E type \in {"BudgetExceeded", "ModelBehaviourError"} : GiveUp(type)
           \/ ModelFails \/ Refuse \/ Turn \/ CancelAttempt
  <2>1. UNCHANGED <<files, submitted, faults>>
    BY <1>7 DEF Respond, GiveUp, ModelFails, Refuse, Turn, CancelAttempt, toolVars
  <2>2. \/ UNCHANGED events
        \/ \E e \in TraceEvents : Record(<<e>>) /\ e.kind \in {"ModelCall", "AgentError"}
    <3>1. CASE \E calls \in Responses : Respond(calls)
      <4>1. Record(<<[kind |-> "ModelCall", cached |-> FALSE]>>)
        BY <3>1 DEF Respond
      <4>2. PICK e \in TraceEvents : e = [kind |-> "ModelCall", cached |-> FALSE]
                                     /\ e.kind = "ModelCall"
        BY ModelCallTyped
      <4> QED
        BY <4>1, <4>2
    <3>2. ASSUME NEW type \in {"BudgetExceeded", "ModelBehaviourError"}, GiveUp(type)
          PROVE  \E e \in TraceEvents : Record(<<e>>) /\ e.kind \in {"ModelCall", "AgentError"}
      <4>1. Record(<<AgentError(type)>>) /\ type \in ErrorTypes
        BY <3>2 DEF GiveUp, ErrorTypes
      <4> QED
        BY <4>1, ErrorTyped
    <3>3. CASE Turn
      <4>1. "StepLimitReached" \in ErrorTypes
        BY DEF ErrorTypes
      <4>2. UNCHANGED events \/ Record(<<AgentError("StepLimitReached")>>)
        BY <3>3 DEF Turn
      <4> QED
        BY <4>1, <4>2, ErrorTyped
    <3> QED
      BY <1>7, <3>1, <3>2, <3>3 DEF ModelFails, Refuse, CancelAttempt, toolVars
  <2>3. Effected' /\ AddsNone
    BY <2>1, <2>2, AsideEffected
  <2> QED
    BY <1>1, <1>2, <2>1, <2>3, AttemptedNone
<1> QED
  BY <1>3, <1>4, <1>5, <1>6, <1>7 DEF AgentNext

\* A step of a policy.
LEMMA ScriptAttempts ==
  ASSUME IInv, Controlled, Effected, Attempted, ScriptNext, UNCHANGED replayVars
  PROVE  Effected' /\ Attempted' /\ pc \in AgentPlaces /\ pc' \in AgentPlaces
<1> USE DEF replayVars
<1>1. /\ pc \in {"scripted", "checking"} /\ pc' \in AgentPlaces
  BY DEF ScriptNext, ScriptCall, ScriptCrash, BotchRaises, ScriptTests, ScriptTestsEnd,
         ScriptCancelled, NextCall, AgentPlaces
<1>2. pc \in AgentPlaces \ {"crashed"} /\ Typed /\ policy # NoPolicy
  BY <1>1, ControlsAssumption DEF Controlled, AgentPlaces, IInv
<1>3. batch \in Seq(Calls) /\ Head(batch) \in Calls /\ batch # <<>>
  BY <1>1, NextCallKeeps DEF IInv, ScriptGoesOn
<1>4. /\ Range(Tail(batch)) \subseteq Range(batch)
      /\ \E c : c = Head(batch) /\ c.tool \in Replayable \cup {"botch"}
  BY <1>2, <1>3, TailRange DEF Attempted
<1>5. PICK c \in Calls : c = Head(batch) /\ c.tool \in Replayable \cup {"botch"}
  BY <1>3, <1>4
<1>6. ASSUME NEW raised \in BOOLEAN, Makes(Head(batch)), Invoke(Made(Head(batch)), raised)
      PROVE  \E m \in Calls : m.tool \in Replayable /\ Invoke(m, raised)
  <2>1. PICK m \in Calls : m = Made(c) /\ (c.tool # "botch" => m = c)
    BY <1>2, <1>5, <1>6, MadeTyped
  <2>2. c.tool = "botch" => m.tool = "write_file"
    BY <2>1 DEF Made, Writing
  <2>3. "run_tests" \in Replayable /\ "write_file" \in Replayable
    BY DEF Replayable
  <2>4. m.tool \in Replayable
    BY <1>5, <2>1, <2>2, <2>3
  <2> QED
    BY <1>5, <1>6, <2>1, <2>4
<1>7. CASE ScriptCall
  <2>1. Makes(Head(batch)) /\ Invoke(Made(Head(batch)), FALSE) /\ batch' = Tail(batch)
    BY <1>7 DEF ScriptCall, NextCall
  <2>2. PICK m \in Calls : m.tool \in Replayable /\ Invoke(m, FALSE)
    BY <1>6, <2>1
  <2>3. Effected' /\ Adds(m) /\ (faults' = <<>> => faults = <<>> /\ ~OnBinary(m))
    BY <2>2, CallEffected
  <2> QED
    BY <1>1, <1>2, <1>4, <2>1, <2>2, <2>3, AttemptedAdds
<1>8. CASE ScriptCrash
  <2>1. Makes(Head(batch)) /\ Invoke(Made(Head(batch)), TRUE) /\ batch' = batch /\ pc' = "crashed"
    BY <1>8 DEF ScriptCrash
  <2>2. PICK m \in Calls : m.tool \in Replayable /\ Invoke(m, TRUE)
    BY <1>6, <2>1
  <2>3. Effected' /\ Adds(m) /\ UNCHANGED faults
    BY <2>2, CrashEffected
  <2> QED
    BY <1>1, <1>2, <1>4, <2>1, <2>2, <2>3, AttemptedAdds
<1>9. CASE ScriptTests
  <2>1. StartTests(c) /\ batch' = batch
    BY <1>5, <1>9 DEF ScriptTests
  <2>2. Effected' /\ Adds(c) /\ UNCHANGED faults /\ ~OnBinary(c) /\ c.tool = "run_tests"
    BY <2>1, StartEffected
  <2>3. c.tool \in Replayable
    BY <2>2 DEF Replayable
  <2> QED
    BY <1>1, <1>2, <2>1, <2>2, <2>3, AttemptedAdds
<1>10. CASE ScriptTestsEnd
  <2>1. FinishTests /\ pc \in Testing /\ batch' = Tail(batch)
    BY <1>10 DEF ScriptTestsEnd, NextCall, Testing
  <2>2. Effected' /\ AddsNone /\ UNCHANGED faults
    BY <2>1, FinishEffected
  <2> QED
    BY <1>1, <1>2, <1>4, <2>1, <2>2, AttemptedNone
<1>11. CASE BotchRaises \/ ScriptCancelled
  <2>1. UNCHANGED <<files, submitted, faults, batch>>
    BY <1>11 DEF BotchRaises, ScriptCancelled, toolVars
  <2>2. \/ UNCHANGED events
        \/ \E e \in TraceEvents : Record(<<e>>) /\ e.kind \in {"ModelCall", "AgentError"}
    <3>1. "exception" \in ErrorTypes
      BY DEF ErrorTypes
    <3>2. UNCHANGED events \/ Record(<<AgentError("exception")>>)
      BY <1>11 DEF BotchRaises, ScriptCancelled, toolVars
    <3> QED
      BY <3>1, <3>2, ErrorTyped
  <2>3. Effected' /\ AddsNone
    BY <2>1, <2>2, AsideEffected
  <2> QED
    BY <1>1, <1>2, <2>1, <2>3, AttemptedNone
<1> QED
  BY <1>7, <1>8, <1>9, <1>10, <1>11 DEF ScriptNext

-----------------------------------------------------------------------------
(***************************************************************************)
(* The replay                                                              *)
(***************************************************************************)

LEMMA ToolsAppend ==
  ASSUME NEW calls \in Seq(ToolCalls), NEW c \in ToolCalls
  PROVE  Tools(Append(calls, c)) = Append(Tools(calls), c.tool)
<1> DEFINE more == Append(calls, c)
           s == Tools(calls)
           t == Append(s, c.tool)
           n == Len(calls)
           S == {d.tool : d \in ToolCalls}
<1>1. /\ more \in Seq(ToolCalls) /\ n \in Nat /\ Len(more) = n + 1
      /\ \A j \in 1 .. n : more[j] = calls[j]
      /\ more[n + 1] = c
  BY AppendProperties
<1>2. DOMAIN calls = 1 .. n /\ DOMAIN more = 1 .. n + 1
  BY <1>1
<1>3. s = [k \in 1 .. n |-> calls[k].tool] /\ Tools(more) = [k \in 1 .. n + 1 |-> more[k].tool]
  BY <1>2 DEF Tools
<1>4. s \in Seq(S) /\ Len(s) = n
  BY <1>1, <1>3
<1>5. c.tool \in S
  OBVIOUS
<1>6. /\ t \in Seq(S) /\ Len(t) = n + 1
      /\ \A j \in 1 .. n : t[j] = s[j]
      /\ t[n + 1] = c.tool
  BY <1>4, <1>5, AppendProperties
<1>7. Tools(more) \in Seq(S) /\ Len(Tools(more)) = n + 1
  BY <1>1, <1>3
<1> HIDE DEF more, s, t, n, S
<1>8. \A j \in 1 .. n + 1 : Tools(more)[j] = t[j]
  <2>1. \A j \in 1 .. n : Tools(more)[j] = t[j]
    BY <1>1, <1>3, <1>6
  <2>2. Tools(more)[n + 1] = t[n + 1]
    BY <1>1, <1>3, <1>6
  <2> QED
    BY <1>1, <2>1, <2>2
<1>9. Tools(more) = t
  BY <1>6, <1>7, <1>8, SeqEqual
<1> QED
  BY <1>9 DEF more, s, t

LEMMA ToolsNone ==
  ASSUME NEW calls \in Seq(ToolCalls)
  PROVE  Tools(calls) = <<>> <=> DOMAIN calls = {}
<1>1. DOMAIN Tools(calls) = DOMAIN calls
  BY DEF Tools
<1>2. DOMAIN <<>> = {}
  OBVIOUS
<1>3. DOMAIN calls = {} => calls = <<>>
  OBVIOUS
<1>4. calls = <<>> => Tools(calls) = <<>>
  BY <1>2 DEF Tools
<1> QED
  BY <1>1, <1>2, <1>3, <1>4

\* What a trace has that is fresh.
LEMMA FreshCalls ==
  ASSUME NEW es, es = << [kind |-> "TaskStarted"] >>
  PROVE  /\ es \in Seq(TraceEvents) /\ All(es) = <<>> /\ CallsIn(es) = {}
         /\ NoReplace(<<>>) /\ LeftBy(<<>>, InitialFiles)
<1>1. [kind |-> "TaskStarted"] \in [kind : {"TaskStarted", "Submission"}]
  OBVIOUS
<1>2. [kind |-> "TaskStarted"] \in TraceEvents
  BY <1>1 DEF TraceEvents
<1>3. es \in Seq(TraceEvents) /\ Len(es) = 1 /\ DOMAIN es = {1} /\ es[1].kind = "TaskStarted"
  BY <1>2
<1>4. CallsIn(es) = {}
  BY <1>3 DEF CallsIn, IsCall
<1>5. 1 \in 1 .. Len(es) /\ ~Taken(es, ToolNames, 1)
  BY <1>3 DEF Taken, IsCall
<1>6. /\ CallsUpTo(es, ToolNames)[1] = CallsUpTo(es, ToolNames)[0]
      /\ CallsUpTo(es, ToolNames)[0] = <<>>
  <2>1. PICK n \in 1 .. Len(es) : n = 1 /\ n - 1 = 0 /\ ~Taken(es, ToolNames, n)
    BY <1>3, <1>5
  <2>2. /\ CallsUpTo(es, ToolNames)[n] = CallsUpTo(es, ToolNames)[n - 1]
        /\ CallsUpTo(es, ToolNames)[0] = <<>>
    BY ONLY <1>3, <2>1, CallsStep, Zenon
  <2> QED
    BY <2>1, <2>2
<1>7. All(es) = <<>>
  BY <1>3, <1>6 DEF All, CallSequence
<1>8. DOMAIN <<>> = {}
  OBVIOUS
<1> QED
  BY <1>3, <1>4, <1>7, <1>8 DEF NoReplace, LeftBy, WritesTo

\* The recording of an attempt is that of its calls.
LEMMA StartRecords ==
  ASSUME IInv, Effected, Attempted, StartReplay
  PROVE  Effected' /\ Recorded' /\ Followed'
<1>1. /\ pc \in AgentPlaces /\ pc' = "replaying" /\ recording' = events /\ reached' = files
      /\ files' = InitialFiles /\ events' = << [kind |-> "TaskStarted"] >> /\ submitted' = FALSE
      /\ UNCHANGED <<faults, policy, next, skipped>>
  BY DEF StartReplay, Over, AgentPlaces
<1>2. /\ All(events') = <<>> /\ CallsIn(events') = {}
      /\ NoReplace(<<>>) /\ LeftBy(<<>>, InitialFiles)
  BY <1>1, FreshCalls
<1>3. Kinds("ToolCall")' = {}
  BY <1>2 DEF CallsIn, Kinds, IsCall
<1>4. Effected'
  BY <1>1, <1>2, <1>3 DEF Effected
<1>5. Kinds("ToolCall") = CallsIn(events)
  BY DEF CallsIn, Kinds, IsCall
<1>6. PICK es \in Seq(TraceEvents) : es = events /\ es = recording'
  BY <1>1 DEF IInv, Typed, TypeOK
<1>7. Recorded'
  <2>1. files \in [Paths -> {Absent, Binary} \cup Text]
    BY DEF IInv, Typed
  <2>2. (\E k \in DOMAIN es : es[k].kind = "Submission") <=>
             \E k \in CallsIn(es) : es[k].call.tool = "submit"
    <3>1. submitted <=> Kinds("Submission") # {}
      BY DEF IInv, EndsOnce
    <3>2. Kinds("Submission") # {} <=> \E k \in DOMAIN es : es[k].kind = "Submission"
      BY <1>6 DEF Kinds
    <3>3. submitted <=> \E k \in CallsIn(es) : es[k].call.tool = "submit"
      BY <1>5, <1>6 DEF Effected
    <3> QED
      BY <3>1, <3>2, <3>3
  <2>3. faults = <<>> => \A i, j \in CallsIn(es) : OnBinary(es[i].call) => j <= i
    BY <1>1, <1>5, <1>6 DEF Attempted
  <2>4. faults = <<>> /\ NoReplace(All(es)) => LeftBy(All(es), files)
    BY <1>6 DEF Effected
  <2>5. policy # NoPolicy => \A i \in CallsIn(es) : es[i].call.tool \in Replayable
    BY <1>1, <1>5, <1>6 DEF Attempted
  <2> QED
    BY <1>1, <1>6, <2>1, <2>2, <2>3, <2>4, <2>5 DEF Recorded
<1>8. Followed'
  <2>1. next' - 1 = 0 /\ skipped' = <<>>
    BY <1>1 DEF IInv, ReplayLater, Attempted
  <2>2. /\ CallsUpTo(es, Replayable)[0] = <<>>
        /\ CallsUpTo(es, ToolNames \ Replayable)[0] = <<>>
    BY CallsStep
  <2>3. Tools(<<>>) = <<>>
    <3>1. <<>> \in Seq(ToolCalls)
      OBVIOUS
    <3>2. DOMAIN <<>> = {}
      OBVIOUS
    <3> QED
      BY <3>1, <3>2, ToolsNone
  <2> QED
    BY <1>1, <1>2, <1>6, <2>1, <2>2, <2>3 DEF Followed, Repeated
<1> QED
  BY <1>4, <1>7, <1>8

\* The recording stays.
LEMMA RecordingKept ==
  ASSUME Recorded, pc \in {"replaying", "retesting", "replayed"},
         UNCHANGED <<recording, reached, policy>>, faults' = <<>> => faults = <<>>
  PROVE  Recorded'
BY DEF Recorded

\* The next event: a call that can be replayed, one that cannot, or no call.
LEMMA NextRepeated ==
  ASSUME IInv, pc \in {"replaying", "retesting"}, next <= Len(recording)
  PROVE  /\ Event.kind # "ToolCall" =>
              \A tools : CallsUpTo(recording, tools)[next] = CallsUpTo(recording, tools)[next - 1]
         /\ Event.kind = "ToolCall" /\ Event.call.tool \in Replayable =>
              /\ CallsUpTo(recording, Replayable)[next] =
                    Append(CallsUpTo(recording, Replayable)[next - 1], Event.call)
              /\ CallsUpTo(recording, ToolNames \ Replayable)[next] =
                    CallsUpTo(recording, ToolNames \ Replayable)[next - 1]
         /\ Event.kind = "ToolCall" /\ Event.call.tool \notin Replayable =>
              /\ CallsUpTo(recording, Replayable)[next] = CallsUpTo(recording, Replayable)[next - 1]
              /\ Tools(CallsUpTo(recording, ToolNames \ Replayable)[next]) =
                    Append(Tools(CallsUpTo(recording, ToolNames \ Replayable)[next - 1]),
                           Event.call.tool)
<1>1. /\ recording \in Seq(TraceEvents) /\ next \in 1 .. Len(recording)
      /\ next - 1 \in 0 .. Len(recording) /\ Event = recording[next] /\ Event \in TraceEvents
  BY EventTyped DEF IInv, Typed, TypeOK, Event
<1>2. \A tools :
        Taken(recording, tools, next) <=> Event.kind = "ToolCall" /\ Event.call.tool \in tools
  BY <1>1 DEF Taken, IsCall
<1>3. \A tools :
        /\ Taken(recording, tools, next) => CallsUpTo(recording, tools)[next] =
              Append(CallsUpTo(recording, tools)[next - 1], Event.call)
        /\ ~Taken(recording, tools, next) =>
              CallsUpTo(recording, tools)[next] = CallsUpTo(recording, tools)[next - 1]
  BY <1>1, CallsStep
<1>4. Event.kind = "ToolCall" => Event.call \in ToolCalls /\ Event.call.tool \in ToolNames
  BY <1>1, CallOfEvent DEF IsCall
<1>5. CallsUpTo(recording, ToolNames \ Replayable)[next - 1] \in Seq(ToolCalls)
  BY <1>1, CallsTyped
<1>6. Event.kind = "ToolCall" =>
        Tools(Append(CallsUpTo(recording, ToolNames \ Replayable)[next - 1], Event.call)) =
          Append(Tools(CallsUpTo(recording, ToolNames \ Replayable)[next - 1]), Event.call.tool)
  BY <1>4, <1>5, ToolsAppend
<1> HIDE DEF Event
<1> QED
  BY <1>2, <1>3, <1>4, <1>6

\* After the last call the calls stay as they are.
LEMMA LastRepeated ==
  ASSUME IInv, pc \in {"replaying", "retesting"}, next <= Len(recording),
         \A j \in CallsIn(recording) : j <= next
  PROVE  \A tools : CallsUpTo(recording, tools)[Len(recording)] = CallsUpTo(recording, tools)[next]
<1>1. /\ recording \in Seq(TraceEvents) /\ Len(recording) \in 0 .. Len(recording)
      /\ next \in 0 .. Len(recording) /\ next \in Nat /\ Len(recording) \in Nat
  BY DEF IInv, Typed, TypeOK
<1>2. \A k \in next + 1 .. Len(recording) : k \in DOMAIN recording /\ ~(k <= next)
  BY <1>1
<1>3. \A k \in next + 1 .. Len(recording) : \A tools : ~Taken(recording, tools, k)
  BY <1>2 DEF CallsIn, Taken
<1> QED
  BY <1>1, <1>3, CallsStay

\* A step of a replay.
LEMMA ReplayFollows ==
  ASSUME IInv, Effected, Recorded, Followed,
         \/ ReplayModelCall \/ ReplayAgentError \/ PassOver \/ ReplayCall \/ ReplayCrash
         \/ ReplayTests \/ ReplayTestsEnd \/ Skip \/ EndReplay
  PROVE  Effected' /\ Recorded' /\ Followed'
<1>1. /\ pc \in {"replaying", "retesting"} /\ pc' \in {"replaying", "retesting", "replayed"}
      /\ UNCHANGED <<recording, reached, policy>>
  BY DEF ReplayModelCall, ReplayAgentError, PassOver, ReplayCall, ReplayCrash, ReplayTests,
         ReplayTestsEnd, Skip, EndReplay, Advance, At, replayVars
<1>2. /\ recording \in Seq(TraceEvents) /\ Len(recording) \in Nat /\ next \in Nat
      /\ next \in 1 .. Len(recording) + 1 /\ (next + 1) - 1 = next
  BY DEF IInv, Typed, TypeOK
<1>3. CASE ReplayModelCall \/ ReplayAgentError \/ PassOver
  <2>1. /\ pc = "replaying" /\ next <= Len(recording) /\ Event.kind # "ToolCall"
        /\ pc' = pc /\ next' = next + 1 /\ UNCHANGED <<files, submitted, faults, skipped>>
    BY <1>3 DEF ReplayModelCall, ReplayAgentError, PassOver, At, Advance, toolVars
  <2>2. \/ UNCHANGED events
        \/ \E e \in TraceEvents : Record(<<e>>) /\ e.kind \in {"ModelCall", "AgentError"}
    <3>1. CASE ReplayModelCall
      <4>1. Record(<<[kind |-> "ModelCall", cached |-> TRUE]>>)
        BY <3>1 DEF ReplayModelCall
      <4>2. PICK e \in TraceEvents : e = [kind |-> "ModelCall", cached |-> TRUE]
                                     /\ e.kind = "ModelCall"
        BY ModelCallTyped
      <4> QED
        BY <4>1, <4>2
    <3>2. CASE ReplayAgentError
      <4>1. PICK e \in TraceEvents : e = Event
        BY <1>1, <2>1, EventTyped
      <4> QED
        BY <3>2, <4>1 DEF ReplayAgentError, At
    <3> QED
      BY <1>3, <3>1, <3>2 DEF PassOver, toolVars
  <2>3. Effected' /\ AddsNone
    BY <2>1, <2>2, AsideEffected
  <2>4. Recorded'
    BY <1>1, <2>1, RecordingKept
  <2>5. Followed'
    BY <1>1, <1>2, <2>1, <2>3, NextRepeated DEF Followed, Repeated, AddsNone
  <2> QED
    BY <2>3, <2>4, <2>5
<1>4. CASE ReplayCall
  <2>1. /\ pc = "replaying" /\ next <= Len(recording) /\ Event.kind = "ToolCall"
        /\ Event.call.tool \in Replayable /\ Invoke(Event.call, FALSE)
        /\ pc' = pc /\ next' = next + 1 /\ UNCHANGED skipped
    BY <1>4 DEF ReplayCall, At, Advance
  <2>2. PICK c \in Calls : c = Event.call
    BY <1>1, <2>1, EventTyped
  <2>3. Effected' /\ Adds(c) /\ (faults' = <<>> => faults = <<>>)
    BY <2>1, <2>2, CallEffected
  <2>4. Recorded'
    BY <1>1, <2>3, RecordingKept
  <2>5. Followed'
    BY <1>1, <1>2, <2>1, <2>2, <2>3, NextRepeated DEF Followed, Repeated, Adds
  <2> QED
    BY <2>3, <2>4, <2>5
<1>5. CASE ReplayCrash
  <2>1. /\ pc = "replaying" /\ next <= Len(recording) /\ Event.kind = "ToolCall"
        /\ Event.call.tool \in Replayable /\ Invoke(Event.call, TRUE)
        /\ pc' = "replayed" /\ UNCHANGED skipped
    BY <1>5 DEF ReplayCrash, At, replayVars
  <2>2. PICK c \in Calls : c = Event.call
    BY <1>1, <2>1, EventTyped
  <2>3. Effected' /\ Adds(c) /\ UNCHANGED faults /\ (faults = <<>> => OnBinary(c))
    BY <2>1, <2>2, CrashEffected
  <2>4. Recorded'
    BY <1>1, <2>3, RecordingKept
  <2>5. faults = <<>> => \A tools :
          CallsUpTo(recording, tools)[Len(recording)] = CallsUpTo(recording, tools)[next]
    <3>1. next \in CallsIn(recording) /\ recording[next].call = c
      BY <1>2, <2>1, <2>2 DEF CallsIn, IsCall, Event
    <3>2. faults = <<>> => \A j \in CallsIn(recording) : j <= next
      BY <1>1, <2>3, <3>1 DEF Recorded
    <3> QED
      BY <1>1, <2>1, <3>2, LastRepeated
  <2>6. next \in 0 .. Len(recording) /\ UNCHANGED <<recording, next>>
    BY <1>1, <1>2, <1>5, <2>1 DEF ReplayCrash, replayVars
  <2>7. Repeated(next)' /\ (faults' = <<>> => Repeated(Len(recording))')
    BY <1>1, <1>2, <2>1, <2>2, <2>3, <2>5, <2>6, NextRepeated DEF Followed, Repeated, Adds
  <2>8. PartRepeated'
    BY <2>6, <2>7 DEF PartRepeated
  <2>9. Followed'
    BY <2>1, <2>7, <2>8 DEF Followed
  <2> QED
    BY <2>3, <2>4, <2>9
<1>6. CASE ReplayTests
  <2>1. /\ pc = "replaying" /\ next <= Len(recording) /\ Event.kind = "ToolCall"
        /\ StartTests(Event.call) /\ pc' = "retesting" /\ next' = next /\ UNCHANGED skipped
    BY <1>6 DEF ReplayTests, At, replayVars
  <2>2. PICK c \in Calls : c = Event.call
    BY <1>1, <2>1, EventTyped
  <2>3. Effected' /\ Adds(c) /\ UNCHANGED faults /\ c.tool = "run_tests"
    BY <2>1, <2>2, StartEffected
  <2>4. Event.call.tool \in Replayable
    BY <2>2, <2>3 DEF Replayable
  <2>5. Recorded'
    BY <1>1, <2>3, RecordingKept
  <2>6. Followed'
    BY <1>1, <1>2, <2>1, <2>2, <2>3, <2>4, NextRepeated DEF Followed, Repeated, Adds
  <2> QED
    BY <2>3, <2>5, <2>6
<1>7. CASE ReplayTestsEnd
  <2>1. /\ pc = "retesting" /\ FinishTests /\ pc' = "replaying" /\ next' = next + 1
        /\ UNCHANGED skipped
    BY <1>7 DEF ReplayTestsEnd
  <2>2. Effected' /\ AddsNone /\ UNCHANGED faults
    BY <2>1, FinishEffected DEF Testing
  <2>3. Recorded'
    BY <1>1, <2>2, RecordingKept
  <2>4. Followed'
    BY <1>1, <1>2, <2>1, <2>2 DEF Followed, Repeated, AddsNone
  <2> QED
    BY <2>2, <2>3, <2>4
<1>8. CASE Skip
  <2>1. /\ pc = "replaying" /\ next <= Len(recording) /\ Event.kind = "ToolCall"
        /\ Event.call.tool \notin Replayable /\ skipped' = Append(skipped, Event.call.tool)
        /\ pc' = pc /\ next' = next + 1 /\ UNCHANGED <<files, submitted, faults, events>>
    BY <1>8 DEF Skip, At, Advance, toolVars
  <2>2. Effected' /\ AddsNone
    BY <2>1, AsideEffected
  <2>3. Recorded'
    BY <1>1, <2>1, RecordingKept
  <2>4. Followed'
    BY <1>1, <1>2, <2>1, <2>2, NextRepeated DEF Followed, Repeated, AddsNone
  <2> QED
    BY <2>2, <2>3, <2>4
<1>9. CASE EndReplay
  <2>1. /\ pc = "replaying" /\ next > Len(recording) /\ pc' = "replayed"
        /\ UNCHANGED <<files, submitted, faults, events, skipped>>
    BY <1>9 DEF EndReplay, toolVars, replayVars
  <2>2. next - 1 = Len(recording)
    BY <1>2, <2>1
  <2>3. Effected' /\ AddsNone
    BY <2>1, AsideEffected
  <2>4. Recorded'
    BY <1>1, <2>1, RecordingKept
  <2>5. Repeated(Len(recording))'
    BY <1>1, <2>1, <2>2 DEF Followed, Repeated
  <2>6. Len(recording') \in 0 .. Len(recording')
    BY <1>1, <1>2
  <2>7. PartRepeated'
    BY <2>5, <2>6 DEF PartRepeated
  <2>8. Followed'
    BY <2>1, <2>5, <2>7 DEF Followed
  <2> QED
    BY <2>3, <2>4, <2>8
<1> QED
  BY <1>3, <1>4, <1>5, <1>6, <1>7, <1>8, <1>9

LEMMA InitFaithful == Init => Faithful
<1> SUFFICES ASSUME Init PROVE Faithful
  OBVIOUS
<1>1. /\ files = InitialFiles /\ events = << [kind |-> "TaskStarted"] >> /\ submitted = FALSE
      /\ skipped = <<>> /\ pc \in {"asking", "scripted"}
      /\ policy # NoPolicy => \E p \in Controls : batch = Script(p)
  BY DEF Init, AgentInit, ScriptInit, FreshTools
<1>2. /\ All(events) = <<>> /\ CallsIn(events) = {}
      /\ NoReplace(<<>>) /\ LeftBy(<<>>, InitialFiles)
  BY <1>1, FreshCalls
<1>3. Kinds("ToolCall") = {}
  BY <1>2 DEF CallsIn, Kinds, IsCall
<1>4. Effected
  BY <1>1, <1>2, <1>3 DEF Effected
<1>5. ASSUME NEW p \in Controls, NEW c \in Range(Script(p))
      PROVE  c.tool \in Replayable \cup {"botch"}
  BY <1>5, ScriptTyped DEF InScript, Replayable
<1>6. Attempted
  BY <1>1, <1>3, <1>5 DEF Attempted
<1> QED
  BY <1>1, <1>4, <1>6 DEF Faithful, Recorded, Followed

LEMMA NextFaithful ==
  ASSUME IInv, Controlled, Faithful, [Next]_vars
  PROVE  Faithful'
<1>1. CASE Attempting
  <2>1. Effected' /\ Attempted' /\ pc' \in AgentPlaces
    BY <1>1, AgentAttempts, ScriptAttempts DEF Attempting, Faithful
  <2>2. pc' \notin {"replaying", "retesting", "replayed"}
    BY <2>1 DEF AgentPlaces
  <2> QED
    BY <2>1, <2>2 DEF Faithful, Recorded, Followed
<1>2. CASE LoadFails
  <2>1. pc' = "unloadable" /\ UNCHANGED <<files, submitted, faults, events>>
    BY <1>2 DEF LoadFails, toolVars
  <2>2. Effected'
    BY <2>1, AsideEffected DEF Faithful
  <2> QED
    BY <2>1, <2>2 DEF Faithful, Attempted, Recorded, Followed, AgentPlaces
<1>3. CASE StartReplay
  <2>1. Effected' /\ Recorded' /\ Followed' /\ pc' = "replaying"
    BY <1>3, StartRecords DEF Faithful, StartReplay
  <2> QED
    BY <2>1 DEF Faithful, Attempted, AgentPlaces
<1>4. CASE \/ ReplayModelCall \/ ReplayAgentError \/ PassOver \/ ReplayCall \/ ReplayCrash
           \/ ReplayTests \/ ReplayTestsEnd \/ Skip \/ EndReplay
  <2>1. Effected' /\ Recorded' /\ Followed'
    BY <1>4, ReplayFollows DEF Faithful
  <2>2. pc' \in {"replaying", "retesting", "replayed"}
    BY <1>4 DEF ReplayModelCall, ReplayAgentError, PassOver, ReplayCall, ReplayCrash, ReplayTests,
                ReplayTestsEnd, Skip, EndReplay, Advance, At
  <2> QED
    BY <2>1, <2>2 DEF Faithful, Attempted, AgentPlaces
<1>5. CASE UNCHANGED vars
  <2>1. /\ UNCHANGED <<files, events, submitted, faults, pc, batch>>
        /\ UNCHANGED <<policy, recording, reached, next, skipped>>
    BY <1>5 DEF vars, toolVars, agentVars, replayVars
  <2>2. Kinds("ToolCall")' = Kinds("ToolCall")
    BY <2>1 DEF Kinds
  <2>3. Effected' /\ Attempted'
    BY <2>1, <2>2 DEF Faithful, Effected, Attempted
  <2>4. Recorded' /\ Followed'
    BY <2>1 DEF Faithful, Recorded, Followed, PartRepeated, Repeated
  <2> QED
    BY <2>3, <2>4 DEF Faithful
<1>6. CASE CodeChanges
  <2>1. /\ UNCHANGED <<events, submitted, pc, batch>> /\ faults' # <<>> /\ pc # "replayed"
        /\ UNCHANGED <<policy, recording, reached, next, skipped>>
    BY <1>6, ChangesEffects DEF CodeChanges, agentVars, replayVars, IInv
  <2>2. Kinds("ToolCall")' = Kinds("ToolCall")
    BY <2>1 DEF Kinds
  <2>3. Effected' /\ Attempted'
    BY <2>1, <2>2 DEF Faithful, Effected, Attempted
  <2>4. Recorded' /\ Followed'
    BY <2>1 DEF Faithful, Recorded, Followed, Repeated
  <2> QED
    BY <2>3, <2>4 DEF Faithful
<1> QED
  BY <1>1, <1>2, <1>3, <1>4, <1>5, <1>6 DEF Next

LEMMA CallsNone ==
  ASSUME NEW es \in Seq(TraceEvents), NEW tools
  PROVE  DOMAIN CallSequence(es, tools) = {} <=> \A k \in 1 .. Len(es) : ~Taken(es, tools, k)
<1>1. Len(es) \in 0 .. Len(es)
  OBVIOUS
<1> QED
  BY <1>1, CallsAre DEF CallSequence

\* The calls of a trace and of its calls' sequence submit both or neither.
LEMMA Submitting ==
  ASSUME NEW es \in Seq(TraceEvents), NEW tools, "submit" \in tools
  PROVE  (\E k \in CallsIn(es) : es[k].call.tool = "submit") <=>
            \E j \in DOMAIN CallSequence(es, tools) : CallSequence(es, tools)[j].tool = "submit"
<1>1. Len(es) \in 0 .. Len(es) /\ DOMAIN es = 1 .. Len(es)
  OBVIOUS
<1>2. \A k \in CallsIn(es) : k \in 1 .. Len(es) /\
         (es[k].call.tool = "submit" => Taken(es, tools, k))
  BY <1>1 DEF CallsIn, Taken
<1>3. \A k \in 1 .. Len(es) : Taken(es, tools, k) => k \in CallsIn(es)
  BY <1>1 DEF CallsIn, Taken
<1> QED
  BY <1>1, <1>2, <1>3, CallsAre DEF CallSequence

\* The first part of t is s.
GoesOn(s, t) == Len(s) <= Len(t) /\ \A k \in 1 .. Len(s) : t[k] = s[k]

\* The calls up to an event are the first of all the calls.
LEMMA CallsPrefix ==
  ASSUME NEW es \in Seq(TraceEvents), NEW tools, NEW m \in 0 .. Len(es)
  PROVE  \A n \in m .. Len(es) : GoesOn(CallsUpTo(es, tools)[m], CallsUpTo(es, tools)[n])
<1> DEFINE F == CallsUpTo(es, tools)
           Before(n) == /\ Len(F[m]) <= Len(F[n])
                        /\ \A k \in 1 .. Len(F[m]) : F[n][k] = F[m][k]
           T == {n \in m .. Len(es) : ~Before(n)}
<1>1. /\ \A n \in 1 .. Len(es) : /\ Taken(es, tools, n) => F[n] = Append(F[n - 1], es[n].call)
                                 /\ ~Taken(es, tools, n) => F[n] = F[n - 1]
      /\ \A n \in 0 .. Len(es) : F[n] \in Seq(ToolCalls)
  BY CallsStep, CallsTyped
<1> HIDE DEF F
<1>2. ASSUME T # {} PROVE FALSE
  <2>1. PICK n \in T : \A y \in T : n <= y
    <3>1. T \subseteq Nat
      OBVIOUS
    <3> HIDE DEF T
    <3> QED
      BY <1>2, <3>1, LeastNumber
  <2>2. Len(F[m]) \in Nat
    BY <1>1
  <2>3. n # m
    BY <2>1, <2>2
  <2>4. n \in 1 .. Len(es) /\ n - 1 \in m .. Len(es) /\ n - 1 \in 0 .. Len(es) /\ n - 1 \notin T
    BY <2>1, <2>3
  <2>5. Before(n - 1) /\ F[n - 1] \in Seq(ToolCalls)
    BY <1>1, <2>4
  <2>6. Before(n)
    <3>1. CASE Taken(es, tools, n)
      <4>1. es[n].call \in ToolCalls
        BY <2>4, <3>1, CallOfEvent DEF Taken
      <4>2. F[n] = Append(F[n - 1], es[n].call)
        BY <1>1, <2>4, <3>1
      <4>3. /\ Len(F[n]) = Len(F[n - 1]) + 1 /\ Len(F[n - 1]) \in Nat
            /\ \A k \in 1 .. Len(F[n - 1]) : F[n][k] = F[n - 1][k]
        BY <2>5, <4>1, <4>2, AppendProperties
      <4>4. \A k \in 1 .. Len(F[m]) : k \in 1 .. Len(F[n - 1])
        BY <2>2, <2>5, <4>3
      <4> QED
        BY <2>2, <2>5, <4>3, <4>4
    <3>2. CASE ~Taken(es, tools, n)
      BY <1>1, <2>4, <2>5, <3>2
    <3> QED
      BY <3>1, <3>2
  <2> QED
    BY <2>1, <2>6
<1> QED
  BY <1>2 DEF F, GoesOn

\* A sequence that agrees with a longer one is a prefix of it.
LEMMA PrefixOf ==
  ASSUME NEW S, NEW s \in Seq(S), NEW t \in Seq(S), Len(s) <= Len(t),
         \A k \in 1 .. Len(s) : t[k] = s[k]
  PROVE  IsPrefix(s, t)
<1>1. PICK m, n \in Nat : m = Len(s) /\ n = Len(t) /\ m <= n
  OBVIOUS
<1>2. SubSeq(s, 1, m) = [k \in 1 .. m |-> s[k]] /\ SubSeq(t, 1, m) = [k \in 1 .. m |-> t[k]]
  BY <1>1
<1>3. SubSeq(s, 1, m) = SubSeq(t, 1, m)
  BY <1>1, <1>2
<1> QED
  BY <1>1, <1>3 DEF IsPrefix

\* What has been replayed of a recording is the first part of its calls.
LEMMA PartOfRecording ==
  ASSUME NEW es \in Seq(TraceEvents), NEW n \in 0 .. Len(es), NEW tools
  PROVE  /\ IsPrefix(CallsUpTo(es, tools)[n], CallSequence(es, tools))
         /\ IsPrefix(Tools(CallsUpTo(es, tools)[n]), Tools(CallSequence(es, tools)))
<1>1. PICK s, t \in Seq(ToolCalls) :
         s = CallsUpTo(es, tools)[n] /\ t = CallSequence(es, tools)
  BY CallsTyped DEF CallSequence
<1>2. GoesOn(s, t)
  <2>1. PICK m \in n .. Len(es) : m = Len(es)
    OBVIOUS
  <2>2. s = CallsUpTo(es, tools)[n] /\ t = CallsUpTo(es, tools)[m]
    BY <1>1, <2>1 DEF CallSequence
  <2>3. GoesOn(CallsUpTo(es, tools)[n], CallsUpTo(es, tools)[m])
    BY <2>1, CallsPrefix
  <2> QED
    BY <2>2, <2>3
<1>3. IsPrefix(s, t)
  BY <1>2, PrefixOf DEF GoesOn
<1>4. /\ Tools(s) \in Seq({c.tool : c \in ToolCalls}) /\ Len(Tools(s)) = Len(s)
      /\ Tools(t) \in Seq({c.tool : c \in ToolCalls}) /\ Len(Tools(t)) = Len(t)
      /\ \A k \in 1 .. Len(s) : Tools(s)[k] = s[k].tool
      /\ \A k \in 1 .. Len(t) : Tools(t)[k] = t[k].tool
  <2> DEFINE names == {c.tool : c \in ToolCalls}
  <2>1. ASSUME NEW calls \in Seq(ToolCalls)
        PROVE  /\ Tools(calls) \in Seq(names) /\ Len(Tools(calls)) = Len(calls)
               /\ \A k \in 1 .. Len(calls) : Tools(calls)[k] = calls[k].tool
    <3>1. PICK m \in Nat : m = Len(calls) /\ DOMAIN calls = 1 .. m
      OBVIOUS
    <3>2. \A k \in 1 .. m : calls[k] \in ToolCalls
      BY <3>1
    <3>3. \A k \in 1 .. m : calls[k].tool \in names
      BY <3>2
    <3> HIDE DEF names
    <3>4. Tools(calls) = [k \in 1 .. m |-> calls[k].tool]
      BY <3>1 DEF Tools
    <3> QED
      BY <3>1, <3>3, <3>4
  <2> HIDE DEF names
  <2> QED
    BY <2>1 DEF names
<1>5. \A k \in 1 .. Len(s) : k \in 1 .. Len(t)
  BY <1>2 DEF GoesOn
<1>6. IsPrefix(Tools(s), Tools(t))
  BY <1>2, <1>4, <1>5, PrefixOf DEF GoesOn
<1> QED
  BY <1>1, <1>3, <1>6

LEMMA Reproduces ==
  ASSUME IInv, Faithful
  PROVE  ReplayReproduces
<1>a. ASSUME pc = "replayed"
      PROVE  /\ IsPrefix(CallSequence(events, ToolNames), CallSequence(recording, Replayable))
             /\ IsPrefix(skipped, Tools(CallSequence(recording, ToolNames \ Replayable)))
  <2>1. PICK n \in 0 .. Len(recording) : Repeated(n)
    BY <1>a DEF Faithful, Followed, PartRepeated
  <2>2. recording \in Seq(TraceEvents)
    BY DEF IInv, Typed, TypeOK
  <2> QED
    BY <2>1, <2>2, PartOfRecording DEF Repeated, All
<1> SUFFICES ASSUME pc = "replayed", faults = <<>>
             PROVE  /\ CallSequence(events, ToolNames) = CallSequence(recording, Replayable)
                    /\ skipped = Tools(CallSequence(recording, ToolNames \ Replayable))
                    /\ submitted <=> \E k \in DOMAIN recording : recording[k].kind = "Submission"
                    /\ skipped = <<>> => files = reached
                    /\ policy # NoPolicy => skipped = <<>>
  BY <1>a DEF ReplayReproduces
<1>1. /\ events \in Seq(TraceEvents) /\ recording \in Seq(TraceEvents)
      /\ files \in [Paths -> {Absent, Binary} \cup Text]
  BY DEF IInv, Typed, TypeOK
<1>2. /\ CallSequence(events, ToolNames) = CallSequence(recording, Replayable)
      /\ skipped = Tools(CallSequence(recording, ToolNames \ Replayable))
  BY DEF Faithful, Followed, Repeated, All, CallSequence
<1>3. /\ reached \in [Paths -> {Absent, Binary} \cup Text]
      /\ (\E k \in DOMAIN recording : recording[k].kind = "Submission") <=>
             \E k \in CallsIn(recording) : recording[k].call.tool = "submit"
      /\ NoReplace(All(recording)) => LeftBy(All(recording), reached)
      /\ policy # NoPolicy => \A i \in CallsIn(recording) : recording[i].call.tool \in Replayable
  BY DEF Faithful, Recorded
<1>4. submitted <=> \E k \in DOMAIN recording : recording[k].kind = "Submission"
  <2>1. "submit" \in ToolNames /\ "submit" \in Replayable
    BY DEF ToolNames, Replayable
  <2>2. Kinds("ToolCall") = CallsIn(events)
    BY DEF CallsIn, Kinds, IsCall
  <2>3. submitted <=> \E k \in CallsIn(events) : events[k].call.tool = "submit"
    BY <2>2 DEF Faithful, Effected
  <2> QED
    BY <1>1, <1>2, <1>3, <2>1, <2>3, Submitting
<1>5. skipped = <<>> <=> \A k \in 1 .. Len(recording) : ~Taken(recording, ToolNames \ Replayable, k)
  <2>1. CallSequence(recording, ToolNames \ Replayable) \in Seq(ToolCalls)
    BY <1>1, CallsTyped DEF CallSequence
  <2> QED
    BY <1>1, <1>2, <2>1, ToolsNone, CallsNone
<1>6. ASSUME skipped = <<>> PROVE files = reached
  <2>1. \A k \in 1 .. Len(recording) :
          Taken(recording, ToolNames, k) <=> Taken(recording, Replayable, k)
    <3>1. \A k \in 1 .. Len(recording) : ~Taken(recording, ToolNames \ Replayable, k)
      BY <1>5, <1>6
    <3>2. Replayable \subseteq ToolNames
      BY DEF Replayable, ToolNames
    <3> QED
      BY <3>1, <3>2 DEF Taken
  <2>2. CallSequence(recording, ToolNames) = CallSequence(recording, Replayable)
    BY <1>1, <2>1, CallsOfAll
  <2>3. PICK calls \in Seq(ToolCalls) : /\ calls = All(events) /\ calls = All(recording)
                                        /\ calls = CallSequence(recording, Replayable)
    BY <1>1, <1>2, <2>2, AllTyped DEF All
  <2>4. NoReplace(calls)
    <3>1. \A j \in DOMAIN calls : \E k \in 1 .. Len(recording) :
             Taken(recording, Replayable, k) /\ recording[k].call = calls[j]
      <4>1. /\ Len(recording) \in 0 .. Len(recording)
            /\ calls = CallsUpTo(recording, Replayable)[Len(recording)]
        BY <1>1, <2>3 DEF CallSequence
      <4> QED
        BY <1>1, <4>1, CallsAre
    <3> QED
      BY <3>1 DEF NoReplace, Taken, Replayable
  <2>5. LeftBy(calls, files) /\ LeftBy(calls, reached)
    BY <1>3, <2>3, <2>4 DEF Faithful, Effected
  <2>6. \A p \in Paths : files[p] = reached[p]
    BY <2>5, LeftUnique
  <2> QED
    BY <1>1, <1>3, <2>6
<1>7. policy # NoPolicy => skipped = <<>>
  <2>1. DOMAIN recording = 1 .. Len(recording)
    BY <1>1
  <2>2. policy # NoPolicy =>
          \A k \in 1 .. Len(recording) : ~Taken(recording, ToolNames \ Replayable, k)
    BY <1>3, <2>1 DEF CallsIn, Taken
  <2> QED
    BY <1>5, <2>2
<1> QED
  BY <1>2, <1>4, <1>5, <1>6, <1>7

-----------------------------------------------------------------------------
(***************************************************************************)
(* The theorems                                                            *)
(***************************************************************************)

\* The inductive invariant holds of every attempt and of its replay.
THEOREM SpecIInv == Spec => []IInv
BY InitSound, NextKeeps, PTL DEF Spec

\* A policy goes by its script throughout.
LEMMA AlwaysControlled == Spec => []Controlled
<1>1. IInv /\ Controlled /\ [Next]_vars => Controlled'
  BY PolicyKeeps, OthersKeep
<1> QED
  BY <1>1, InitControlled, SpecIInv, PTL DEF Spec

\* Every variable of an attempt and of its replay has its type: an event of the
\* trace, a call that is still to be made, the place in the recording.
THEOREM TypeCorrect == Spec => []TypeOK
<1>1. IInv => TypeOK
  BY DEF IInv, Typed
<1> QED
  BY <1>1, SpecIInv, PTL

\* Requests to the model hold a conversation in which every call is answered, and
\* every call on the trace has its result before the next one, unless it raised
\* or was interrupted and is the last (model_agent.py, tools.py, replay.py).
THEOREM CallsAlwaysAnswered == Spec => []CallsAnswered
<1>1. IInv => RequestsWellFormed
  <2> SUFFICES ASSUME IInv, pc = "asking"
               PROVE  /\ messages[Len(messages)].role # "assistant"
                      /\ \A i \in DOMAIN messages : messages[i].role = "assistant" =>
                           LET calls == messages[i].calls IN
                           /\ i + Len(calls) <= Len(messages)
                           /\ \A k \in DOMAIN calls : messages[i + k] = ToolMessage(calls[k])
                           /\ i + Len(calls) < Len(messages)
                                => messages[i + Len(calls) + 1].role # "tool"
    BY DEF RequestsWellFormed
  <2>1. messages \in Seq(Messages) /\ messages[Len(messages)].role # "assistant"
    BY DEF IInv, Conversing
  <2>2. ASSUME NEW i \in DOMAIN messages, messages[i].role = "assistant"
        PROVE  /\ i + Len(messages[i].calls) <= Len(messages)
               /\ \A k \in DOMAIN messages[i].calls :
                     messages[i + k] = ToolMessage(messages[i].calls[k])
               /\ i + Len(messages[i].calls) < Len(messages)
                    => messages[i + Len(messages[i].calls) + 1].role # "tool"
    <3>1. Spoken(i)
      BY <2>2 DEF Spoken
    <3>2. Settled(i)
      BY <3>1 DEF IInv, Conversing
    <3>3. DOMAIN messages[i].calls = 1 .. Len(messages[i].calls)
      BY <2>1, <3>1, SpokenCalls
    <3> QED
      BY <3>2, <3>3 DEF Settled, AnsweredUpTo
  <2> QED
    BY <2>1, <2>2
<1>2. IInv => CallsHaveResults
  <2> SUFFICES ASSUME IInv, NEW i \in DOMAIN events, IsCall(events[i])
               PROVE  LET id == events[i].id
                          later == {j \in DOMAIN events : j > i /\ IsCall(events[j])}
                      IN  \/ /\ Cardinality(ResultsOf(id)) = 1
                             /\ \A k \in ResultsOf(id) :
                                  /\ k > i
                                  /\ events[k].tool = events[i].call.tool
                                  /\ \A j \in later : k < j
                          \/ /\ ResultsOf(id) = {} /\ later = {}
                             /\ pc \in {"testing", "checking", "retesting", "crashed", "cancelled",
                                       "replayed", "unloadable"}
    BY DEF CallsHaveResults
  <2> DEFINE later == {j \in DOMAIN events : j > i /\ IsCall(events[j])}
  <2>1. i \in Kinds("ToolCall") /\ later = {j \in Kinds("ToolCall") : j > i}
    BY DEF Kinds, IsCall
  <2>2. ResultsOf(events[i].id) = ResultsIn(events, events[i].id)
    BY DEF ResultsOf, ResultsIn
  <2> HIDE DEF later
  <2>3. CASE HasResult(i)
    <3>1. PICK r \in DOMAIN events :
            /\ ResultsIn(events, events[i].id) = {r}
            /\ r > i /\ events[r].tool = events[i].call.tool
            /\ \A j \in Kinds("ToolCall") : j > i => r < j
      BY <2>3 DEF HasResult
    <3>2. Cardinality(ResultsOf(events[i].id)) = 1
      BY <2>2, <3>1, FS_Singleton
    <3> QED
      BY <2>1, <2>2, <3>1, <3>2 DEF later
  <2>4. CASE Unanswered(i) /\ pc \in Interrupted
    <3>1. later = {}
      <4>1. events \in Seq(TraceEvents)
        BY DEF IInv, Typed, TypeOK
      <4>2. \A j \in Kinds("ToolCall") : j \in Nat /\ j <= i
        BY <2>4, <4>1 DEF Kinds, Unanswered
      <4>3. i \in Nat
        BY <4>1
      <4> QED
        BY <2>1, <4>2, <4>3
    <3> QED
      BY <2>2, <2>4, <3>1 DEF Unanswered, Interrupted, later
  <2> QED
    BY <2>1, <2>3, <2>4 DEF IInv, ResultsInOrder
<1> QED
  BY <1>1, <1>2, SpecIInv, PTL DEF CallsAnswered

\* The trace alone tells what an attempt did to its files and how it ended, and
\* the controls hold: a policy that handles the fault leaves the solution, one that
\* does not leaves what was there (tools.py, trace.py, scripted.py).  The edits on
\* the trace add up to every file but those that the disk failed or that the code
\* run by run_tests has changed, at any time and without a trace; the controls
\* hold where there was neither.
THEOREM TraceAlwaysTells == Spec => []TraceTells
<1>1. IInv => EndExplained
  BY DEF IInv
<1>2. IInv => TraceTellsFiles
  <2> SUFFICES ASSUME IInv
               PROVE  /\ \A p \in Paths : p \notin Range(faults) => files[p] = Traced(p)
                      /\ Touched \subseteq {events[k].path : k \in Kinds("FileEdit")} \cup Range(faults)
    BY DEF TraceTellsFiles
  <2>1. events \in Seq(TraceEvents)
    BY DEF IInv, Typed, TypeOK
  <2>2. ASSUME NEW p \in Paths, p \notin Range(faults) PROVE files[p] = Traced(p)
    <3>1. Traced(p) = IF EditsOf(p) = {} THEN InitialFiles[p]
                      ELSE events[CHOOSE k \in EditsOf(p) : \A j \in EditsOf(p) : j <= k].contents
      <4>1. EditsOf(p) = {k \in DOMAIN events : events[k].kind = "FileEdit" /\ events[k].path = p}
        BY DEF EditsOf, Kinds
      <4> QED
        BY <4>1 DEF Traced
    <3>2. CASE EditsOf(p) = {}
      BY <2>2, <3>1, <3>2 DEF IInv, FilesTraced
    <3>3. CASE EditsOf(p) # {}
      <4>1. PICK k \in EditsOf(p) : /\ \A j \in EditsOf(p) : j <= k
                                    /\ files[p] = events[k].contents
        BY <2>2, <3>3 DEF IInv, FilesTraced
      <4>2. EditsOf(p) \subseteq Nat
        BY <2>1 DEF EditsOf, Kinds
      <4>3. \A i \in EditsOf(p) : (\A j \in EditsOf(p) : j <= i) => i = k
        BY <4>1, <4>2
      <4>4. (CHOOSE i \in EditsOf(p) : \A j \in EditsOf(p) : j <= i) = k
        BY <4>1, <4>3
      <4> QED
        BY <3>1, <3>3, <4>1, <4>4
    <3> QED
      BY <3>2, <3>3
  <2>3. ASSUME NEW p \in Touched
        PROVE  p \in {events[k].path : k \in Kinds("FileEdit")} \cup Range(faults)
    <3>1. p \in Paths /\ files[p] # InitialFiles[p]
      BY TouchedChanged
    <3>2. p \notin Range(faults) => \E k \in Kinds("FileEdit") : events[k].path = p
      BY <3>1 DEF IInv, FilesTraced, EditsOf
    <3> QED
      BY <3>2
  <2> QED
    BY <2>2, <2>3
<1>3. IInv /\ Controlled => ControlsHold
  <2> SUFFICES ASSUME IInv, Controlled, policy # NoPolicy, pc = "ended", faults = <<>>
               PROVE  LET tried == Range(policy.escape_attempts)
                          traced(kind) == {events[k].path : k \in Kinds(kind)}
                          meant == (IF Handles(policy) THEN DOMAIN Solved ELSE {})
                                   \cup (IF Botches(policy) THEN {policy.target} ELSE {})
                                   \cup (IF policy.scope_creep THEN {NotesPath} ELSE {})
                      IN /\ Handles(policy) => Passing
                         /\ ~Handles(policy) /\ Passing =>
                              \A p \in DOMAIN Solved : InitialFiles[p] = Solved[p]
                         /\ Touched \subseteq meant \cup tried
                         /\ \A p \in tried :
                              p \in traced(IF Outside(p) THEN "SafetyViolation" ELSE "FileEdit")
    BY DEF ControlsHold
  <2>1. policy \in Controls /\ batch = <<>> /\ OnScript
    BY DEF IInv, Typed, TypeOK, Controlled
  <2>2. \A c \in Range(Script(policy)) : Done(c)
    <3>1. Range(<<>>) = {}
      BY DEF Range
    <3> QED
      BY <2>1, <3>1 DEF OnScript
  <2>3. DOMAIN Solved \subseteq Paths
    BY ControlsAssumption
  <2>4. Handles(policy) => Passing
    <3>1. \A q \in DOMAIN Solved : /\ Writing(q, Solved[q]).tool = "write_file"
                                   /\ Writing(q, Solved[q]).path = q
                                   /\ Writing(q, Solved[q]).contents = Solved[q]
      BY DEF Writing
    <3>2. Handles(policy) => \A q \in DOMAIN Solved : Done(Writing(q, Solved[q]))
      BY <2>1, <2>2, ScriptTyped
    <3> QED
      BY <2>3, <3>1, <3>2 DEF Done, Passing
  <2>5. ASSUME ~Handles(policy), Passing, NEW p \in DOMAIN Solved
        PROVE  InitialFiles[p] = Solved[p]
    <3>1. files[p] = Solved[p] /\ (files[p] = InitialFiles[p] \/ Remarked(files[p]))
      BY <2>1, <2>5 DEF OnScript, Passing
    <3>2. ~Remarked(Solved[p])
      BY ControlsAssumption DEF Remarked, Last
    <3> QED
      BY <3>1, <3>2
  <2>6. Touched \subseteq MeantBy(policy)
    BY <2>1, TouchedChanged DEF OnScript
  <2>7. ASSUME NEW p \in Range(policy.escape_attempts)
        PROVE  IF Outside(p) THEN \E k \in Kinds("SafetyViolation") : events[k].path = p
               ELSE \E k \in Kinds("FileEdit") : events[k].path = p
    <3>1. Done(Writing(p, <<"pwned">>))
      BY <2>1, <2>2, ScriptTyped
    <3>2. Writing(p, <<"pwned">>).tool = "write_file" /\ Writing(p, <<"pwned">>).path = p
      BY DEF Writing
    <3> QED
      BY <3>1, <3>2 DEF Done, Outside
  <2> QED
    BY <2>4, <2>5, <2>6, <2>7 DEF MeantBy
<1> QED
  BY <1>1, <1>2, <1>3, AlwaysControlled, SpecIInv, PTL DEF TraceTells

\* A replay makes again the first calls that it can make, in their order, and
\* names the others in theirs, whatever the disk and the code under test do to
\* either of the two.  Where they do nothing it makes and names all of them, and
\* one that named none ends with the files, the calls and the submission of the
\* attempt, as after every policy (agent/replay.py).
THEOREM ReplayIsFaithful == Spec => []ReplayReproduces
<1>1. IInv /\ Controlled /\ Faithful /\ [Next]_vars => Faithful'
  BY NextFaithful
<1>2. IInv /\ Faithful => ReplayReproduces
  BY Reproduces
<1> QED
  BY <1>1, <1>2, InitFaithful, SpecIInv, AlwaysControlled, PTL DEF Spec
=============================================================================
