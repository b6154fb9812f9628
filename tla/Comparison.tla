----------------------------- MODULE Comparison -----------------------------
(***************************************************************************)
(* Runs and how two of them compare: the tallies of a run                  *)
(* (schema/result.py), repeated samples (stats/sampling.py), the paired    *)
(* test and the bootstrap (stats/significance.py, stats/intervals.py) and  *)
(* the report of regression/compare.py.                                    *)
(*                                                                         *)
(* A run is what it was configured with, by `config`, and its results by   *)
(* case and attempt, as far as they are recorded.  A rate is a number of   *)
(* Units, of which every number of samples is a divisor; a probability is  *)
(* a fraction <<n, d>>.  The normal quantiles of required_sample_size and  *)
(* wilson_interval are left out: only what they are asked is here.         *)
(***************************************************************************)
EXTENDS Scoring, Combinatorics

CONSTANTS
    Unit,       \* a rate of one
    MaxSamples  \* the samples that a case may have

ASSUME UnitExact ==
    /\ Unit \in Nat \ {0} /\ MaxSamples \in Nat
    /\ \A n \in 1 .. MaxSamples : Unit % n = 0 /\ Unit % 20 = 0

\* A level of significance, a fraction: --alpha is between zero and one, and may
\* be either.
Level(alpha) ==
    alpha[1] \in Nat /\ alpha[2] \in Nat \ {0} /\ alpha[1] <= alpha[2]

-----------------------------------------------------------------------------
\* Mutant: every attempt counts as completed.
AllResults(run) == DOMAIN run.results

\* RunResult.completed_results.
Completed(run) == {k \in DOMAIN run.results : run.results[k].status = "completed"}
PassedOf(run, ks) == {k \in ks : run.results[k].passed}

\* RunResult.tallies: by case, over completed attempts.
Tallied(run) == {k[1] : k \in Completed(run)}
Tally(run, c) ==
    LET done == {k \in Completed(run) : k[1] = c}
    IN [passed |-> Cardinality(PassedOf(run, done)), total |-> Cardinality(done)]

\* CaseTally.rate.
Rate(tally) == IF tally.total = 0 THEN 0 ELSE (Unit * tally.passed) \div tally.total

\* RunResult.success_rate.
SuccessRate(run) ==
    LET done == Completed(run)
    IN IF done = {} THEN <<0, 1>> ELSE <<Cardinality(PassedOf(run, done)), Cardinality(done)>>

\* RunResult.evaluator_scores: the mean of those attempts that have a score.
EvaluatorScores(run) ==
    LET With(name) == {k \in Completed(run) : name \in DOMAIN run.results[k].evaluators}
        names == UNION {DOMAIN run.results[k].evaluators : k \in Completed(run)}
        Score(name, k) == run.results[k].evaluators[name].score
    IN [name \in names |->
          <<SumFunction([k \in With(name) |-> Score(name, k)]), Full * Cardinality(With(name))>>]

-----------------------------------------------------------------------------
\* pass_at_k and pass_hat_k, times the k-subsets of the samples.
PassAtK(t, k) ==
    IF t.total - t.passed < k THEN choose(t.total, k)
    ELSE choose(t.total, k) - choose(t.total - t.passed, k)
PassHatK(t, k) == IF t.passed < k THEN 0 ELSE choose(t.passed, k)

\* stability_report: cases with fewer than k samples are skipped.
Stability(run, k) ==
    LET cases == {c \in Tallied(run) : Tally(run, c).total >= k}
    IN [at_k |-> [c \in cases |-> PassAtK(Tally(run, c), k)],
        hat_k |-> [c \in cases |-> PassHatK(Tally(run, c), k)],
        flaky |-> {c \in cases : Rate(Tally(run, c)) \notin {0, Unit}}]

-----------------------------------------------------------------------------
\* paired_counts, as the cases in each quarter of the table; was and now hold
\* the cases that passed.
PairedCounts(cases, was, now) ==
    [both_passed |-> was \cap now, only_before |-> was \ now,
     only_after |-> now \ was, both_failed |-> cases \ (was \cup now)]

\* binomial_two_sided_p, capped at one.
TwoSidedP(successes, trials) ==
    LET smaller == Min({successes, trials - successes})
        tail == SumFunction([i \in 0 .. smaller |-> choose(trials, i)])
    IN IF trials = 0 THEN <<1, 1>> ELSE <<Min({2^trials, 2 * tail}), 2^trials>>

\* McNemarResult: only disagreements count.
McNemar(counts, alpha) ==
    LET gained == Cardinality(counts.only_after)
        lost == Cardinality(counts.only_before)
        p == TwoSidedP(gained, gained + lost)
    IN [counts |-> counts,
        significant |-> p[1] * alpha[2] < alpha[1] * p[2],
        direction |-> IF gained > lost THEN "improvement"
                      ELSE IF gained < lost THEN "regression" ELSE "no change"]

\* paired_bootstrap: whatever cases the generator draws, each with both of its
\* outcomes.  Means are sums over as many cases as there are.
BootstrapMeans(cases, diff) ==
    LET Total(draw) == SumFunction([i \in DOMAIN draw |-> diff[draw[i]]])
    IN {Total(draw) : draw \in [1 .. Cardinality(cases) -> cases]}

\* CaseTransition.kind.
Kind(was, now) ==
    CASE was = 0 /\ now = Unit -> "fixed"
      [] was = Unit /\ now = 0 -> "broken"
      [] was = Unit /\ now = Unit -> "stable pass"
      [] was = 0 /\ now = 0 -> "stable fail"
      [] OTHER -> "mixed"

\* _comparability_warnings.
Differences(before, after) ==
    {part \in {"dataset", "suite"} : before.config[part] # after.config[part]}

\* What compare asks of required_sample_size: the effect seen, or a twentieth,
\* and a baseline that leaves room for it.  Sums over n cases.
PowerQuestion(before, after, n, alpha) ==
    LET whole == Unit * n
        moved == IF after >= before THEN after - before ELSE before - after
        effect == IF moved = 0 THEN whole \div 20 ELSE moved
    IN [effect |-> effect, whole |-> whole, alpha |-> alpha,
        baseline |-> IF effect < whole THEN Min({before, whole - effect}) ELSE 0]

\* required_sample_size raises ValueError outside of its domain.
Answerable(asked) ==
    /\ 0 <= asked.baseline /\ asked.baseline <= asked.whole
    /\ asked.effect > 0
    /\ 0 < asked.alpha[1] /\ asked.alpha[1] < asked.alpha[2]
    /\ asked.baseline + asked.effect <= asked.whole

\* "passed more often than not".
Majority(rate) == 2 * rate > Unit

\* The table of the cases that both runs completed.
Table(before, after) ==
    LET shared == Tallied(before) \cap Tallied(after)
        Won(run) == {c \in shared : Majority(Rate(Tally(run, c)))}
    IN PairedCounts(shared, Won(before), Won(after))

\* compare(): the report, unless what it asks of required_sample_size makes it
\* raise.
Compare(before, after, alpha) ==
    LET shared == Tallied(before) \cap Tallied(after)
        was == [c \in shared |-> Rate(Tally(before, c))]
        now == [c \in shared |-> Rate(Tally(after, c))]
        total_was == SumFunction(was)
        total_now == SumFunction(now)
    IN [shared |-> shared,
        comparable |-> shared # {} /\ Differences(before, after) = {},
        test |-> McNemar(Table(before, after), alpha),
        delta |-> total_now - total_was,
        deltas |-> [c \in shared |-> now[c] - was[c]],
        kinds |-> [c \in shared |-> Kind(was[c], now[c])],
        asked |-> PowerQuestion(total_was, total_now, Max({1, Cardinality(shared)}), alpha)]

\* ComparisonReport.verdict.
ComparisonVerdict(r) ==
    IF ~r.comparable THEN "not comparable"
    ELSE IF ~r.test.significant THEN "no significant change"
    ELSE IF r.delta < 0 THEN "regression" ELSE "improvement"

\* _dimension_deltas: an evaluator that one run lacks has a mean of zero there.
Dimensions(before, after) ==
    LET was == EvaluatorScores(before)
        now == EvaluatorScores(after)
        Mean(scores, name) == IF name \in DOMAIN scores THEN scores[name] ELSE <<0, Full>>
    IN [name \in DOMAIN was \cup DOMAIN now |->
            [before |-> Mean(was, name), after |-> Mean(now, name)]]
=============================================================================
