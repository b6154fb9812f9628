----------------------------- MODULE MCAnalysis -----------------------------
(***************************************************************************)
(* Small records of every kind: five tool calls of an attempt; two runs    *)
(* compared, with two samples of two cases, with one of three, with two of *)
(* four that end at equal rates, with attempts that do not complete and    *)
(* are recorded during a load, and under several suites; one run of every  *)
(* shape of failure; three runs to select from; a run whose results the    *)
(* store may refuse; four labelled examples; three pairs; and two          *)
(* builders, an editor and a reader of one dataset directory.              *)
(***************************************************************************)
EXTENDS Analysis

MCWeights == [redundant_read |-> 30, failed_tool_call |-> 45, blind_edit |-> 30,
              excess_tool_call |-> 6, tool_call_budget |-> 3, recovery_credit |-> 30,
              pass_threshold |-> 180, unrelated_file |-> 75, untouched_target |-> 150]
MCAllowance == [tokens |-> 10, model_calls |-> 2, seconds |-> 10, pass_threshold |-> 150]

Call(tool, path) == [kind |-> "ToolCall", call |-> [tool |-> tool, path |-> path]]
Answer(tool, ok) == [kind |-> "ToolResult", tool |-> tool, ok |-> ok]
Read(p) == << [kind |-> "ModelCall"], Call("read_file", p), Answer("read_file", TRUE)>>
Write(p) == <<Call("write_file", p), [kind |-> "FileEdit", path |-> p], Answer("write_file", TRUE)>>
Tests(ok) == <<Call("run_tests", ""), [kind |-> "CommandRun", argv |-> "pytest"], Answer("run_tests", ok)>>
Escape == <<Call("read_file", "/"), [kind |-> "SafetyViolation"], Answer("read_file", FALSE)>>
MCEventGroups == {Read("m"), Write("m"), Write("ci"), Tests(TRUE), Tests(FALSE), Escape}

Attempt(status, exit, touched, es) ==
    [status |-> status, exit |-> exit, touched |-> touched, targets |-> {"m"}, trace |-> es,
     tokens |-> IF status = "completed" THEN Len(es) ELSE 0, seconds |-> 1,
     response |-> << [tool |-> "record_verdict", malformed |-> FALSE, verdict |-> "fail"] >>]
Good == Attempt("completed", "ok", {"m"}, Write("m") \o Tests(TRUE))
Bad == Attempt("completed", "failed", {"m"}, Write("m"))
Late == Attempt("timed_out", "none", {}, <<>>)
Broken == Attempt("infra_error", "none", {}, <<>>)
Idle == Attempt("completed", "failed", {}, Tests(FALSE))
Lazy == Attempt("completed", "failed", {}, <<>>)
Stray == Attempt("completed", "failed", {"ci"}, Write("ci") \o Tests(FALSE))
Wide == Attempt("completed", "ok", {"m", "x"}, Write("m") \o Write("x") \o Tests(TRUE) \o Escape)
Wrong == Attempt("completed", "failed", {"m"}, Read("m") \o Write("m") \o Tests(FALSE))
Hung == Attempt("completed", "timed_out", {"m", "x"}, Tests(FALSE))

NoPlan == [runs |-> {}, cases |-> {}, samples |-> 1, configs |-> {}, attempts |-> {},
           alphas |-> {}, late |-> 0,
           refusals |-> FALSE, traced |-> FALSE, judged |-> FALSE, probed |-> FALSE, filed |-> FALSE]
Config(suite) == [dataset |-> "seeded-bugs", suite |-> suite, agent |-> "a"]
Default == {Config("default")}
Usual == <<6, 10>>
Ends == {<<0, 1>>, <<1, 1>>}

\* Where every attempt may turn out to be any.
Sketches ==
    [trace |-> [NoPlan EXCEPT !.traced = TRUE],
     compare |-> [NoPlan EXCEPT !.runs = {"r1", "r2"}, !.cases = {"c1", "c2"}, !.samples = 2,
                    !.configs = Default, !.attempts = {Good, Bad}, !.alphas = {Usual}],
     paired |-> [NoPlan EXCEPT !.runs = {"r1", "r2"}, !.cases = {"c1", "c2", "c3"},
                    !.configs = Default, !.attempts = {Good, Bad}, !.alphas = {Usual}],
     partial |-> [NoPlan EXCEPT !.runs = {"r1", "r2"}, !.cases = {"c1", "c2"},
                    !.configs = Default, !.attempts = {Good, Bad, Late},
                    !.alphas = {Usual} \cup Ends, !.late = 2],
     suites |-> [NoPlan EXCEPT !.runs = {"r1", "r2"}, !.cases = {"c1"}, !.attempts = {Wide, Bad, Late},
                    !.configs = {Config("default"), Config("strict"), Config("outcome_only")},
                    !.alphas = {Usual}, !.late = 1],
     cluster |-> [NoPlan EXCEPT !.runs = {"r1"}, !.cases = {"c1", "c2", "c3"},
                    !.configs = {Config("default"), Config("outcome_only")},
                    !.attempts = {Good, Bad, Late, Broken, Idle, Lazy, Stray, Wide, Wrong, Hung}],
     select |-> [NoPlan EXCEPT !.runs = {"r1", "r2", "r3"}, !.cases = {"c1", "c2"},
                    !.configs = Default, !.attempts = {Good, Lazy, Late}],
     gate |-> [NoPlan EXCEPT !.runs = {"r1"}, !.cases = {"c1", "c2"}, !.samples = 2,
                    !.configs = {Config("default"), Config("outcome_only")},
                    !.refusals = TRUE, !.attempts = {Good, Bad, Wide, Late, Broken}],
     judge |-> [NoPlan EXCEPT !.judged = TRUE],
     probe |-> [NoPlan EXCEPT !.probed = TRUE],
     dataset |-> [NoPlan EXCEPT !.filed = TRUE]]

\* One run passes two of four cases, the other one half of each: equal rates,
\* and two majorities that are lost.
Even == [NoPlan EXCEPT !.runs = {"r1", "r2"}, !.cases = {"c1", "c2", "c3", "c4"}, !.samples = 2,
            !.configs = Default, !.attempts = {Good, Bad}, !.alphas = {Usual}]
EvenOutcomes(r, c, sample) ==
    IF r = "r2" THEN IF sample = 1 THEN {Good} ELSE {Bad}
    ELSE IF sample = 2 THEN {} ELSE IF c \in {"c1", "c2"} THEN {Good} ELSE {Bad}

Keys(plan) == plan.runs \X (plan.cases \X (1 .. plan.samples))
MCPlans ==
    [s \in DOMAIN Sketches |->
        LET plan == Sketches[s] IN plan @@ [outcomes |-> [k \in Keys(plan) |-> plan.attempts]]]
    @@ [even |-> Even @@ [outcomes |-> [k \in Keys(Even) |-> EvenOutcomes(k[1], k[2][1], k[2][2])]]]
MCStudies == DOMAIN MCPlans

\* The catalogue has eight templates and twelve words.
Order(version, count, seed) ==
    [name |-> "synth", version |-> version, count |-> count, seed |-> seed]
MCOrders == {Order("v1", 1, 7), Order("v2", 2, 8), Order("v2", 0, 8)}
MCKinds == <<"off_by_one", "inverted_comparison", "mutable_default", "missing_empty_case",
             "wrong_exception_type", "integer_division", "exclusive_boundary", "missing_tiebreak">>
MCWords == [seed \in {7, 8} |-> [w \in 1 .. 12 |-> (5 * w + seed) % 12]]

MCCaseOrder == <<"c1", "c2", "c3", "c4">>
MCBugKinds == [c \in {"c1", "c2"} |-> IF c = "c1" THEN "off_by_one" ELSE "none_check"]
MCLimits == [min_success |-> 60, max_unsafe |-> 1, max_infra |-> 1]
=============================================================================
