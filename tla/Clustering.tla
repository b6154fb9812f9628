----------------------------- MODULE Clustering -----------------------------
(***************************************************************************)
(* Failures grouped by their shape (regression/clustering.py), and the     *)
(* cases worth running again under a budget (selection/discriminative.py). *)
(* Costs are in Units of a token, shared by samples and runs.              *)
(***************************************************************************)
EXTENDS Comparison

CONSTANTS
    CaseOrder,  \* the cases in the order of their ids
    BugKinds,   \* the seeded fault of the cases that have one
    MaxRuns     \* the runs that a selection learns from

ASSUME SharesExact ==
    /\ MaxRuns \in Nat
    /\ \A n \in 1 .. MaxSamples, r \in 1 .. MaxRuns : Unit % (n * r) = 0 /\ Unit % (r * r) = 0
    /\ CaseOrder \in Seq(Range(CaseOrder))

\* The members of S from the first to the last; `before` is a set of pairs.
InOrder(S, before) ==
    LET Ahead(x) == Cardinality({y \in S : <<y, x>> \in before})
    IN [i \in 1 .. Cardinality(S) |-> CHOOSE x \in S : Ahead(x) = i - 1]

\* The position of a case, and of an attempt in the order of a run.
Place(c) == CHOOSE i \in DOMAIN CaseOrder : CaseOrder[i] = c
Earlier(j, k) ==
    \/ Place(j[1]) < Place(k[1])
    \/ j[1] = k[1] /\ j[2] < k[2]

-----------------------------------------------------------------------------
\* _detail: what an evaluator left, if it ran.
Detail(result, name, field, default) ==
    IF name \in DOMAIN result.evaluators THEN result.evaluators[name][field] ELSE default

\* signature_for, of an attempt that completed and failed.
EditShape(result) ==
    LET touched == Detail(result, "patch_locality", "touched", {})
        unrelated == Detail(result, "patch_locality", "unrelated_files", {})
        untouched == Detail(result, "patch_locality", "untouched_targets", {})
    IN IF touched = {} THEN "none"
       ELSE IF untouched # {} THEN "off_target"
       ELSE IF unrelated # {} THEN "wider_than_target" ELSE "on_target"
Signature(result) ==
    CASE result.status = "infra_error" ->
            [edit |-> "none", ran_tests |-> FALSE, outcome |-> "infrastructure", unsafe |-> FALSE]
      [] result.status = "timed_out" ->
            [edit |-> "unknown", ran_tests |-> FALSE, outcome |-> "timed_out", unsafe |-> FALSE]
      [] OTHER ->
            [edit |-> EditShape(result),
             ran_tests |-> Detail(result, "trajectory", "test_runs", 0) > 0,
             outcome |-> IF Detail(result, "tests", "timed_out", FALSE)
                         THEN "timed_out" ELSE "tests_failing",
             unsafe |-> Detail(result, "safety", "finding_count", 0) > 0]

\* The labels in the order of their words.
Labels == <<"changed nothing", "edited the right file", "edited the wrong files",
            "edited without tests", "disturbed other files", "infrastructure fault",
            "ran out of time", "unsafe">>

\* FailureSignature.label: the first that applies.
Label(s) ==
    IF s.outcome = "infrastructure" THEN "infrastructure fault"
    ELSE IF s.outcome = "timed_out" THEN "ran out of time"
    ELSE IF s.unsafe THEN "unsafe"
    ELSE IF s.edit = "none" THEN "changed nothing"
    ELSE IF ~s.ran_tests THEN "edited without tests"
    ELSE IF s.edit = "off_target" THEN "edited the wrong files"
    ELSE IF s.edit = "wider_than_target" THEN "disturbed other files"
    ELSE "edited the right file"
LabelPlace(label) == CHOOSE i \in DOMAIN Labels : Labels[i] = label

\* Mutant: only completed attempts are failures.
CompletedFailures(run) == {k \in Completed(run) : ~run.results[k].passed}

Failures(run) == {k \in DOMAIN run.results : ~run.results[k].passed}

\* cluster_failures: largest first, then by label; of two clusters with the
\* same label the one that was met first.
Clusters(run) ==
    LET Of(s) == {k \in Failures(run) : Signature(run.results[k]) = s}
        First(ks) == CHOOSE k \in ks : \A j \in ks : j = k \/ Earlier(k, j)
        clusters == {[signature |-> s, attempts |-> Of(s)] :
                        s \in {Signature(run.results[k]) : k \in Failures(run)}}
        size(x) == Cardinality(x.attempts)
        place(x) == LabelPlace(Label(x.signature))
        Before(x, y) ==
            \/ size(x) > size(y)
            \/ size(x) = size(y) /\ place(x) < place(y)
            \/ size(x) = size(y) /\ place(x) = place(y)
               /\ Earlier(First(x.attempts), First(y.attempts))
    IN InOrder(clusters, {p \in clusters \X clusters : Before(p[1], p[2])})

\* FailureCluster.bug_kinds: how often each kind occurs.
KindCounts(cluster) ==
    LET labelled == {k \in cluster.attempts : k[1] \in DOMAIN BugKinds}
        kinds == {BugKinds[k[1]] : k \in labelled}
    IN [b \in kinds |-> Cardinality({k \in labelled : BugKinds[k[1]] = b})]

\* FailureCluster.purity, of a cluster with labels.
Purity(cluster) ==
    LET counts == KindCounts(cluster)
    IN <<Max(Range(counts)), SumFunction(counts)>>

\* overall_purity: weighted by size, over the clusters with labels.
OverallPurity(clusters) ==
    LET labelled == {i \in DOMAIN clusters : DOMAIN KindCounts(clusters[i]) # {}}
        Size(i) == Cardinality(clusters[i].attempts)
        Add(sum, p, size) ==
            [weighted |-> <<sum.weighted[1] * p[2] + p[1] * size * sum.weighted[2],
                            sum.weighted[2] * p[2]>>,
             size |-> sum.size + size]
        sum[i \in 0 .. Len(clusters)] ==
            IF i = 0 THEN [weighted |-> <<0, 1>>, size |-> 0]
            ELSE IF i \in labelled THEN Add(sum[i - 1], Purity(clusters[i]), Size(i)) ELSE sum[i - 1]
        whole == sum[Len(clusters)]
    IN IF labelled = {} THEN <<0, 1>>
       ELSE <<whole.weighted[1], whole.weighted[2] * whole.size>>

\* cluster_shift: the sizes go into a dictionary by label, where the last of
\* two clusters with one label stays.
ClusterShift(before, after) ==
    LET Named(clusters) == {Label(clusters[i].signature) : i \in DOMAIN clusters}
        SizeOf(clusters, label) ==
            LET is == {i \in DOMAIN clusters : Label(clusters[i].signature) = label}
            IN IF is = {} THEN 0 ELSE Cardinality(clusters[Max(is)].attempts)
    IN [label \in Named(before) \cup Named(after) |->
            <<SizeOf(before, label), SizeOf(after, label)>>]

-----------------------------------------------------------------------------
\* score_cases: what a run says of a case.
Hits(run, c) == IF 2 * Tally(run, c).passed >= Tally(run, c).total THEN 1 ELSE 0
CostOf(result) == IF result.tokens > 0 THEN result.tokens ELSE result.duration
CostIn(run, c) ==
    LET done == {k \in Completed(run) : k[1] = c}
    IN (Unit * SumFunction([k \in done |-> CostOf(run.results[k])])) \div Cardinality(done)

\* CaseValue, over the runs rs that completed the case; discrimination in Units.
CaseValue(rs, c) ==
    LET seen == {i \in DOMAIN rs : c \in Tallied(rs[i])}
        n == Cardinality(seen)
        passes == SumFunction([i \in seen |-> Hits(rs[i], c)])
        cost == SumFunction([i \in seen |-> CostIn(rs[i], c)]) \div n
    IN [discrimination |-> (4 * passes * (n - passes) * Unit) \div (n * n),
        cost |-> Max({cost, Unit})]
ScoreCases(rs) ==
    [c \in UNION {Tallied(rs[i]) : i \in DOMAIN rs} |-> CaseValue(rs, c)]

\* By value per cost, then by id.
Ranked(values, cs) ==
    LET Worth(c, d) == values[c].discrimination * values[d].cost
        Before(c, d) ==
            \/ Worth(c, d) > Worth(d, c)
            \/ Worth(c, d) = Worth(d, c) /\ Place(c) < Place(d)
    IN InOrder(cs, {p \in cs \X cs : Before(p[1], p[2])})

\* Mutant: whatever comes is taken until the budget is used up.
TakeWhileAnyLeft(values, budget, chosen, c) ==
    IF chosen.spent >= budget THEN chosen
    ELSE [cases |-> chosen.cases \cup {c}, spent |-> chosen.spent + values[c].cost]

\* One step of select_within_budget: a case that does not fit is passed over.
Take(values, budget, chosen, c) ==
    IF chosen.spent + values[c].cost > budget THEN chosen
    ELSE [cases |-> chosen.cases \cup {c}, spent |-> chosen.spent + values[c].cost]

\* select_within_budget: the informative cases first.
Select(values, budget) ==
    LET informative == {c \in DOMAIN values : values[c].discrimination > 0}
        order == Ranked(values, informative) \o Ranked(values, DOMAIN values \ informative)
        chosen[i \in 0 .. Len(order)] ==
            IF i = 0 THEN [cases |-> {}, spent |-> 0]
            ELSE Take(values, budget, chosen[i - 1], order[i])
    IN chosen[Len(order)]
=============================================================================
