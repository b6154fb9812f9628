------------------------------ MODULE Analysis ------------------------------
(***************************************************************************)
(* What is recorded, and what can be read from it at any moment: the trace *)
(* of an attempt that the evaluators score (Scoring), the results of runs  *)
(* that are compared, clustered, selected from and gated (Comparison,      *)
(* Clustering, Commands), and the verdicts of a judge beside those of      *)
(* people (JudgeEval).                                                     *)
(*                                                                         *)
(* A run is recorded result by result (pipeline.execute_run), may stop     *)
(* short, and a result that the store refuses stays with the caller only.  *)
(* The datasets that runs load are written and read meanwhile, too         *)
(* (DatasetFiles).                                                         *)
(* The commands read the database while it is being written, so the        *)
(* properties speak of every prefix, and where the scores of an attempt    *)
(* matter of every load of it (Commands!Loads).  A behaviour records what  *)
(* its `study` plans and nothing else; the studies keep the instances      *)
(* small.                                                                  *)
(***************************************************************************)
EXTENDS Commands, DatasetFiles

CONSTANTS
    Studies,    \* what may be recorded
    Plans,      \* of each: runs, cases, samples, configs, the attempts that
                \* they may turn out to be, and the outcomes that each one may
                \* have of them; the levels of comparisons; bound of the model
                \* on the attempts that are recorded during a load
    EventGroups,    \* what a tool call may leave on a trace
    MaxEvents,  \* bound of the model on the trace
    HumanLabels, JudgeLabels, Preferences,  \* verdicts
    MaxExamples,    \* bound of the model on the examples of a gold set
    MaxPairs    \* bound of the model on the pairs of a probe

\* A run has finitely many attempts, is scored by a registered suite, and may
\* be selected from; an attempt has a trace, and has used what it has used.
ASSUME PlansAssumption ==
    \A s \in Studies :
        LET plan == Plans[s]
        IN /\ IsFiniteSet(plan.runs) /\ Cardinality(plan.runs) <= MaxRuns
           /\ IsFiniteSet(plan.cases)
           /\ plan.cases \subseteq Range(CaseOrder)
           /\ plan.samples \in 1 .. MaxSamples
           /\ \A config \in plan.configs : config.suite \in DOMAIN Suites
           /\ \A a \in plan.attempts :
                /\ a.trace \in Seq(Range(a.trace))
                /\ a.tokens \in Nat /\ a.seconds \in Nat

\* What an attempt turns out to be is planned, and a comparison has a level.
ASSUME OutcomesAssumption ==
    \A s \in Studies :
        LET plan == Plans[s]
        IN /\ plan.outcomes \in
                [plan.runs \X (plan.cases \X (1 .. plan.samples)) -> SUBSET plan.attempts]
           /\ \A alpha \in plan.alphas : Level(alpha)
           /\ plan.late \in Nat

\* A tool call leaves its events in an order.
ASSUME EventsAssumption == \A es \in EventGroups : es \in Seq(Range(es))

\* A judge prefers one of the two candidates, or neither.
ASSUME VerdictsAssumption == Preferences \subseteq {"a", "b", "tie"}

VARIABLES
    study,      \* the plan of the behaviour
    trace,      \* the events of an attempt
    db,         \* the recorded runs
    refused,    \* results that the store refused, by run
    examples,   \* gold set: the verdict of a person, that of the judge
    pairs       \* probe: verdicts in both orders, whether the author is family

records == <<trace, db, refused, examples, pairs>>
vars == <<study, records, files>>
Plan == Plans[study]

Init ==
    /\ study \in Studies
    /\ trace = << [kind |-> "TaskStarted"] >>
    /\ db = <<>>
    /\ refused = [r \in Plan.runs |-> {}]
    /\ examples = <<>> /\ pairs = <<>>
    /\ FilesInit

-----------------------------------------------------------------------------
\* A tool call and what it led to.
RecordEvents(es) ==
    /\ Plan.traced
    /\ Len(trace) + Len(es) <= MaxEvents
    /\ trace' = trace \o es
    /\ UNCHANGED <<study, files, db, refused, examples, pairs>>

\* The CaseResult of an attempt: LocalBackend.execute for one that completed,
\* _status_result of the scheduler for any other.  The attempt itself is
\* history.
ResultOf(suite, a) ==
    LET none == [name \in {} |-> 0]
        es == IF a.status = "completed" THEN Evaluate(suite, a) ELSE none
    IN [status |-> a.status, passed |-> a.status = "completed" /\ Verdict(suite, es),
        evaluators |-> es, tokens |-> a.tokens, duration |-> a.seconds, attempt |-> a]

\* execute_run: the header is stored before the first attempt.
StartRun(r, config) ==
    /\ r \notin DOMAIN db
    /\ LET started == [config |-> config, results |-> <<>>]
       IN db' = [s \in DOMAIN db \cup {r} |-> IF s = r THEN started ELSE db[s]]
    /\ UNCHANGED <<study, files, trace, refused, examples, pairs>>

Pending(r) == (Plan.cases \X (1 .. Plan.samples)) \ (DOMAIN db[r].results \cup refused[r])

\* persist: a result reaches the store, in whatever order attempts end.
RecordResult(r, k, a) ==
    /\ r \in DOMAIN db /\ k \in Pending(r)
    /\ LET result == ResultOf(Suites[db[r].config.suite], a)
       IN db' = [db EXCEPT ![r].results =
                    [j \in DOMAIN @ \cup {k} |-> IF j = k THEN result ELSE @[j]]]
    /\ UNCHANGED <<study, files, trace, refused, examples, pairs>>

\* The store refuses it: the caller is warned and the command goes on.
RefuseResult(r, k) ==
    /\ Plan.refusals
    /\ r \in DOMAIN db /\ k \in Pending(r)
    /\ refused' = [refused EXCEPT ![r] = @ \cup {k}]
    /\ UNCHANGED <<study, files, trace, db, examples, pairs>>

\* A verdict file and a gold set have one line for an example.
RecordVerdict(h, j) ==
    /\ Plan.judged
    /\ Len(examples) < MaxExamples
    /\ examples' = Append(examples, [human |-> h, judge |-> j])
    /\ UNCHANGED <<study, files, trace, db, refused, pairs>>

\* A pair of candidates, shown to the judge in both orders.
RecordPair(f, s, own) ==
    /\ Plan.probed
    /\ Len(pairs) < MaxPairs
    /\ pairs' = Append(pairs, [forward |-> f, swapped |-> s, own |-> own])
    /\ UNCHANGED <<study, files, trace, db, refused, examples>>

Next ==
    \/ \E es \in EventGroups : RecordEvents(es)
    \/ \E r \in Plan.runs :
        \/ \E config \in Plan.configs : StartRun(r, config)
        \/ \E k \in Plan.cases \X (1 .. Plan.samples) :
            (\E a \in Plan.outcomes[<<r, k>>] : RecordResult(r, k, a)) \/ RefuseResult(r, k)
    \/ \E h \in HumanLabels, j \in JudgeLabels : RecordVerdict(h, j)
    \/ \E f, s \in Preferences, own \in BOOLEAN : RecordPair(f, s, own)
    \/ Plan.filed /\ FilesNext /\ UNCHANGED <<study, records>>

Spec == Init /\ [][Next]_vars

-----------------------------------------------------------------------------
Recorded == DOMAIN db
RealOf(result) == result.attempt

\* No score leaves its range, however long the trace.
ScoresInRange ==
    LET es == [patch |-> PatchLocality(EditedPaths(trace), ReadPaths(trace)),
               trajectory |-> Trajectory(trace), safety |-> Safety(trace),
               efficiency |-> Efficiency(trace, Len(trace), Len(trace))]
    IN \A name \in DOMAIN es : es[name].score \in 0 .. Full

\* The last green run after a red one decides, by what was edited since the
\* red one before it.
RecoveryEarned ==
    LET reds == TestResults(trace, FALSE)
        greens == {g \in TestResults(trace, TRUE) : \E r \in reds : r < g}
    IN Recovered(trace) <=>
        /\ greens # {}
        /\ EditBetween(trace, Max({r \in reds : r < Max(greens)}), Max(greens))

\* A suite that gates on more passes less, and a judge has no say.
GatesOrdered ==
    \A a \in Plan.attempts : a.status = "completed" =>
        LET V(suite) == Verdict(suite, Evaluate(suite, a))
        IN /\ V(Suites.strict) => V(Suites.default)
           /\ \A name \in DOMAIN Suites : V(WithJudge(Suites[name])) = V(Suites[name])

\* A step of the trace: a finding is never forgotten, and the score of the
\* trajectory rises only with a recovery or when a file is read that was edited
\* unread - the order of the two does not matter to extract_signals.
ScoreMoves ==
    LET es == trace'
        Fresh == ReadPaths(es) \ ReadPaths(trace)
    IN
    /\ ~Safety(trace).passed => ~Safety(es).passed
    /\ Trajectory(es).score > Trajectory(trace).score =>
        \/ Recovered(es) /\ ~Recovered(trace)
        \/ Fresh \cap EditedPaths(trace) # {}

\* evaluators/: what a trace is scored at stays in range as it grows; recovery
\* is credited for exactly the runs that the loop of extract_signals means; the
\* strict suite implies the default one and a judge does not gate
\* (registry.py:59); and no event undoes a finding or earns points that are not
\* due.
ScoringSound == [](ScoresInRange /\ RecoveryEarned /\ GatesOrdered) /\ [][ScoreMoves]_trace

-----------------------------------------------------------------------------
\* A run without the attempts that did not complete.
Stripped(run) ==
    [run EXCEPT !.results = 
        [k \in {j \in DOMAIN run.results : run.results[j].status = "completed"} |-> run.results[k]]]

\* "comparing a run against itself must never report a change".
SelfQuiet ==
    \A r \in Recorded, alpha \in Plan.alphas :
        LET self == Compare(db[r], db[r], alpha)
        IN /\ ComparisonVerdict(self) \in {"no significant change", "not comparable"}
           /\ self.delta = 0 /\ Range(self.kinds) \cap {"fixed", "broken"} = {}

\* The other way round, the same difference with the other sign.  Majorities that
\* differ significantly between equal rates (compare.py:107) are an improvement
\* both ways: there the verdict does not mirror.
Mirrored(there, back) ==
    LET verdicts == <<ComparisonVerdict(there), ComparisonVerdict(back)>>
    IN /\ back.delta = -there.delta
       /\ back.test.significant = there.test.significant
       /\ IF there.delta = 0
          THEN verdicts \in {<<v, v>> : v \in {"not comparable", "no significant change",
                                               "improvement"}}
          ELSE verdicts \in {<<"not comparable", "not comparable">>,
                             <<"no significant change", "no significant change">>,
                             <<"regression", "improvement">>, <<"improvement", "regression">>}

\* With one completed attempt of every case the verdict says what the test
\* says.  With more, the rates can move one way and the majorities another.
FollowsTest(before, after, report) ==
    (\A c \in report.shared : Tally(before, c).total = 1 /\ Tally(after, c).total = 1) =>
        ComparisonVerdict(report) \in {"not comparable", "no significant change", report.test.direction}

\* required_sample_size is asked always, and whatever two runs have recorded its
\* question is in the domain, but for the two levels at the ends: --alpha takes
\* zero and one, and there compare() raises.
PowerDefined(report, alpha) ==
    Answerable(report.asked) <=> 0 < alpha[1] /\ alpha[1] < alpha[2]

\* No draw of the bootstrap lies outside of what single cases did.
BootstrapBounded(report) ==
    report.shared # {} =>
        LET n == Cardinality(report.shared)
        IN \A mean \in BootstrapMeans(report.shared, report.deltas) :
            n * Min(Range(report.deltas)) <= mean /\ mean <= n * Max(Range(report.deltas))

\* The estimators count the k-subsets of the completed attempts of a case.
EstimatorsCount(run) ==
    \A k \in 1 .. Plan.samples :
        LET report == Stability(run, k)
        IN \A c \in DOMAIN report.at_k :
            LET done == {j \in Completed(run) : j[1] = c}
                good == PassedOf(run, done)
                draws == kSubset(k, done)
            IN /\ report.at_k[c] = Cardinality({d \in draws : d \cap good # {}})
               /\ report.hat_k[c] = Cardinality({d \in draws : d \subseteq good})

\* An attempt that completed and was loaded with its scores.
WithScores(run) == {k \in Completed(run) : DOMAIN run.results[k].evaluators # {}}

\* An evaluator that one run lacks counts as zero in it.  Between two loads of one
\* suite there is none, as long as each has the scores of one attempt; a load
\* that came before them all counts as zero in every dimension.
DimensionsReal(before, after) ==
    /\ before.config.suite = after.config.suite
    /\ WithScores(before) # {} /\ WithScores(after) # {}
    => DOMAIN Dimensions(before, after) =
            DOMAIN EvaluatorScores(before) \cap DOMAIN EvaluatorScores(after)

\* Attempts that were recorded while the two runs were loaded change nothing of
\* the report but the dimensions, and the command fails for a loss only.
LoadsAgree(b, a, alpha, there) ==
    \A before \in Loads(db[b], Plan.late), after \in Loads(db[a], Plan.late) :
        LET loaded == [db EXCEPT ![b] = before, ![a] = after]
            exit == CompareCommand(loaded, b, a, alpha)
        IN /\ Compare(before, after, alpha) = there
           /\ DimensionsReal(before, after)
           /\ exit = "traceback" <=> ~Answerable(there.asked)
           /\ exit = "check_failed" => there.delta < 0

\* compare.py:145 and stats/: whichever results of two runs are there, in
\* whichever order they came, and whichever of them were recorded while the runs
\* were loaded, a run does not differ from itself, a difference between rates
\* mirrors when the runs are swapped, attempts that did not complete have no
\* influence (compare.py:119), required_sample_size has an answer at any level
\* but zero and one, and the estimators mean what sampling.py says.
ComparisonSound ==
    /\ SelfQuiet
    /\ \A r \in Recorded : EstimatorsCount(db[r])
    /\ \A b, a \in Recorded, alpha \in Plan.alphas : b # a =>
        LET there == Compare(db[b], db[a], alpha)
        IN /\ Mirrored(there, Compare(db[a], db[b], alpha))
           /\ there = Compare(Stripped(db[b]), Stripped(db[a]), alpha)
           /\ FollowsTest(db[b], db[a], there)
           /\ PowerDefined(there, alpha)
           /\ BootstrapBounded(there)
           /\ LoadsAgree(b, a, alpha, there)

-----------------------------------------------------------------------------
AttemptsIn(clusters) == [i \in DOMAIN clusters |-> clusters[i].attempts]
LabelIn(clusters) == [i \in DOMAIN clusters |-> Label(clusters[i].signature)]

\* Every failure is in one cluster, and the largest come first.
Partitioned(run, clusters) ==
    LET parts == AttemptsIn(clusters)
    IN /\ UNION Range(parts) = {k \in DOMAIN run.results : ~run.results[k].passed}
       /\ \A i, j \in DOMAIN clusters : i < j =>
            /\ parts[i] \cap parts[j] = {}
            /\ Cardinality(parts[i]) >= Cardinality(parts[j])

\* A label says what the attempts did, as far as the suite looked at it: an
\* evaluator that did not run leaves nothing in the result, which reads like
\* an attempt that did nothing.
LabelsTell(run, clusters) ==
    \A i \in DOMAIN clusters : \A k \in clusters[i].attempts :
        LET real == RealOf(run.results[k])
            label == Label(clusters[i].signature)
            Looked(name) == name \in DOMAIN run.results[k].evaluators
        IN /\ (real.status = "infra_error") = (label = "infrastructure fault")
           /\ label = "ran out of time" => "timed_out" \in {real.status, real.exit}
           /\ label = "changed nothing" /\ Looked("patch_locality") => real.touched = {}
           /\ label = "edited without tests" /\ Looked("trajectory") =>
                CallsTo(real.trace, "run_tests") = {}
           /\ label = "edited the right file" =>
                real.touched = real.targets /\ Findings(real.trace) = {}

\* A shift tells of every failure as long as no two clusters share a label.
\* Where two do, the dictionary keeps one of them.
ShiftConserves(run, clusters) ==
    LET shift == ClusterShift(<<>>, clusters)
        told == SumFunction([label \in DOMAIN shift |-> shift[label][2]])
    IN /\ told <= Cardinality(Failures(run))
       /\ told = Cardinality(Failures(run)) <=> IsInjective(LabelIn(clusters))

\* Purity is one exactly when no cluster mixes two faults.
PurityTells(clusters) ==
    LET purity == OverallPurity(clusters)
        kinds == {DOMAIN KindCounts(clusters[i]) : i \in DOMAIN clusters} \ {{}}
    IN kinds # {} =>
        /\ 0 < purity[1] /\ purity[1] <= purity[2]
        /\ purity[1] = purity[2] <=> \A ks \in kinds : Cardinality(ks) = 1

\* clustering.py:154: the clusters account for every failure, once; their
\* labels are true; and a shift between runs accounts for all of them under the
\* condition that clustering.py:210 does not check.
ClusteringSound ==
    \A r \in Recorded :
        LET clusters == ClusterCommand(db, r, "loaded").clusters
        IN /\ Partitioned(db[r], clusters)
           /\ LabelsTell(db[r], clusters)
           /\ ShiftConserves(db[r], clusters)
           /\ PurityTells(clusters)

-----------------------------------------------------------------------------
\* discriminative.py:123 and :78: what is chosen fits the budget, nothing that
\* is left out fits what remains, no uninformative case keeps an informative one
\* out, a case is informative exactly when two runs disagree on it, and with an
\* odd number of samples they disagree exactly where the comparison sees a
\* change: a half counts as passed here and as failed there.
SelectionFills ==
    LET values == ScoreCases(db)
        chosen == SelectCommand(db, Recorded).chosen
        informative == {c \in DOMAIN values : values[c].discrimination > 0}
        Odd(c) == \A r \in Recorded : c \in Tallied(db[r]) => Tally(db[r], c).total % 2 = 1
    IN
    /\ chosen.spent = SumFunction([c \in chosen.cases |-> values[c].cost])
    /\ chosen.spent <= Budget
    /\ \A c \in DOMAIN values \ chosen.cases : chosen.spent + values[c].cost > Budget
    /\ Select([c \in informative |-> values[c]], Budget).cases = chosen.cases \cap informative
    /\ \A c \in DOMAIN values : Odd(c) =>
        (c \in informative <=>
            \E b, a \in {r \in Recorded : c \in Tallied(db[r])} :
                c \in Table(db[b], db[a]).only_after)

-----------------------------------------------------------------------------
Humans == [i \in DOMAIN examples |-> examples[i].human]
Judges == [i \in DOMAIN examples |-> examples[i].judge]
Equal(f, g) == f[1] * g[2] = g[1] * f[2]

\* Kappa is one for a judge that always agrees, never more, and never above
\* zero for one that always says the same, unless people did, too.
KappaMeans ==
    LET k == Kappa(Humans, Judges)
        n == Len(examples)
    IN examples # <<>> =>
        /\ k[2] > 0 /\ k[1] <= k[2] /\ k[1] >= -k[2]
        /\ k[1] = k[2] <=> Agreed(Humans, Judges) = n
        /\ Equal(k, Kappa(Judges, Humans))
        /\ Cardinality(Range(Judges)) = 1 /\ Range(Judges) # Range(Humans) => k[1] <= 0
        /\ JudgeCommand(Humans, Judges) = "ok" => 100 * k[1] >= Threshold * k[2]

\* The classes account for every example.
ClassesCount ==
    LET classes == PerClass(Humans, Judges)
        Sum(field) == SumFunction([l \in DOMAIN classes |-> classes[l][field]])
        missed == Len(examples) - Agreed(Humans, Judges)
    IN /\ SumFunction([l \in DOMAIN classes |-> Support(classes[l])]) = Len(examples)
       /\ Sum("false_positives") = missed
       /\ Sum("false_negatives") = missed

\* A judge that looks at the position alone is never consistent, one that
\* looks at the content alone always is, and a tie in one order only is on
\* neither side.
PositionTells ==
    LET forward == [i \in DOMAIN pairs |-> pairs[i].forward]
        swapped == [i \in DOMAIN pairs |-> pairs[i].swapped]
        bias == PositionBias(forward, swapped)
        skew == PositionalSkew(bias)
    IN /\ bias.consistent \cap (bias.first \cup bias.second) = {}
       /\ (\A i \in DOMAIN pairs : forward[i] = "a" /\ swapped[i] = "a") =>
            bias.first = DOMAIN pairs /\ (pairs # <<>> => skew = <<Len(pairs), Len(pairs)>>)
       /\ (\A i \in DOMAIN pairs : {forward[i], swapped[i]} = {"a", "b"}) =>
            bias.consistent = DOMAIN pairs /\ skew[1] = 0
       /\ DOMAIN pairs \ (bias.consistent \cup bias.first \cup bias.second)
            = {i \in DOMAIN pairs : (forward[i] = "tie") # (swapped[i] = "tie")}

\* Whose family is whose does not change the size of the gap.
PreferenceMirrors ==
    LET verdicts == [i \in DOMAIN pairs |-> IF pairs[i].forward = "a" THEN "pass" ELSE "fail"]
        own == [i \in DOMAIN pairs |-> pairs[i].own]
        other == [i \in DOMAIN pairs |-> ~pairs[i].own]
    IN Prefers(SelfPreference(verdicts, own)) = Prefers(SelfPreference(verdicts, other))

\* judge_eval/: agreement corrected for chance is what agreement.py:108 says,
\* and the probes tell position and family from content.
JudgesMeasured == KappaMeans /\ ClassesCount /\ PositionTells /\ PreferenceMirrors

-----------------------------------------------------------------------------
Planned == Plan.cases \X (1 .. Plan.samples)
Kept(r) == DOMAIN db[r].results = Planned

\* cli/main.py:424: a gate that passes says something of every attempt that was
\* planned, provided that the run had ended when it was loaded - so that no scores
\* are missing from what was - that the store kept all of it and that the suite
\* looks at safety.  Without them it judges what is there: a run
\* that was interrupted, or is still being written, passes with its first good
\* attempts.
GateMeans ==
    \A r \in Recorded :
        LET Real(k) == RealOf(db[r].results[k])
            good == {k \in Planned : db[r].results[k].passed}
            breached == {k \in Planned : Real(k).status = "completed" /\ Findings(Real(k).trace) # {}}
            judged == Cardinality(Planned) - Limits.max_infra
        IN Kept(r) /\ GateCommand(db, r) = "ok" =>
            /\ 100 * Cardinality(good) >= Limits.min_success * judged
            /\ "safety" \in Suites[db[r].config.suite].evaluators =>
                Cardinality(breached) <= Limits.max_unsafe
=============================================================================
