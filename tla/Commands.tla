------------------------------ MODULE Commands ------------------------------
(***************************************************************************)
(* The commands that judge recorded runs (cli/main.py): what they load,    *)
(* and the exit that a pipeline acts on - "ok", "check_failed" or, when    *)
(* they cannot answer, "usage"; an exception that no command handles ends  *)
(* in a "traceback".  `loaded` is a function from the runs that the        *)
(* database holds to what load_run returned of them: all of a run, a part  *)
(* of it, or nothing yet.  Tables and JSON are left out.                   *)
(***************************************************************************)
EXTENDS Clustering, JudgeEval

CONSTANTS
    Limits,     \* --min-success (in hundredths), --max-unsafe, --max-infra
    Budget      \* --budget of select, in Units

ASSUME LimitsAssumption ==
    Limits.min_success \in Nat /\ Limits.max_unsafe \in Int /\ Limits.max_infra \in Int
    /\ Budget \in Nat

\* load_run reads the scores first and the attempts second, in two snapshots: an
\* attempt that is recorded in between has no scores.
Torn(run, late) ==
    [run EXCEPT !.results =
        [k \in DOMAIN run.results |->
            IF k \in late THEN [run.results[k] EXCEPT !.evaluators = <<>>]
            ELSE run.results[k]]]

\* What load_run may return of a run while up to `most` attempts are recorded.
Loads(run, most) ==
    {Torn(run, late) : late \in {ks \in SUBSET DOMAIN run.results : Cardinality(ks) <= most}}

\* A usage error where there is no such run.
WithRun(loaded, r, exit) == IF r \in DOMAIN loaded THEN exit ELSE "usage"

Unsafe(run) ==
    {k \in Completed(run) : "safety" \in DOMAIN run.results[k].evaluators
                            /\ ~run.results[k].evaluators["safety"].passed}

\* Mutant: an attempt that ran out of time is no fault.
InfraErrors(run) == {k \in DOMAIN run.results : run.results[k].status = "infra_error"}

\* Whatever did not complete.
HarnessFaults(run) == DOMAIN run.results \ Completed(run)

\* gate_command: the three checks, and an attempt to judge.
GateCommand(loaded, r) ==
    LET run == loaded[r]
        rate == SuccessRate(run)
        ok == /\ 100 * rate[1] >= Limits.min_success * rate[2]
              /\ Cardinality(Unsafe(run)) <= Limits.max_unsafe
              /\ Cardinality(HarnessFaults(run)) <= Limits.max_infra
              /\ Completed(run) # {}
    IN WithRun(loaded, r, IF ok THEN "ok" ELSE "check_failed")

\* compare_command, with --alpha and --fail-on-regression.
CompareCommand(loaded, before, after, alpha) ==
    LET report == Compare(loaded[before], loaded[after], alpha)
    IN WithRun(loaded, before, WithRun(loaded, after,
            IF ~Answerable(report.asked) THEN "traceback"
            ELSE IF ComparisonVerdict(report) = "regression" THEN "check_failed" ELSE "ok"))

\* cluster_command: the clusters, and their purity where there are labels.  They
\* come from the dataset, "loaded", "missing" or - not handled - "drifted".
ClusterCommand(loaded, r, dataset) ==
    LET clusters == Clusters(loaded[r])
        labelled == dataset = "loaded" /\ BugKinds # <<>>
    IN [exit |-> WithRun(loaded, r, IF dataset = "drifted" THEN "traceback" ELSE "ok"),
        clusters |-> clusters,
        purity |-> IF labelled THEN OverallPurity(clusters) ELSE <<>>]

\* select_command, from the recent runs.
SelectCommand(loaded, recent) ==
    [exit |-> IF recent = {} THEN "usage" ELSE "ok",
     chosen |-> Select(ScoreCases([r \in recent |-> loaded[r]]), Budget)]

\* judge_validate: as many verdicts as there are examples, and enough of them
\* right.  The command has no flags for the probes.
JudgeCommand(human, verdicts) ==
    IF human = <<>> \/ Len(human) # Len(verdicts) THEN "usage"
    ELSE IF ValidateJudge(human, verdicts, <<>>).passed THEN "ok" ELSE "check_failed"
=============================================================================
