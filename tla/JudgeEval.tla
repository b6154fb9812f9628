----------------------------- MODULE JudgeEval -----------------------------
(***************************************************************************)
(* What a judge is worth (judge_eval/): its verdicts against the labels of *)
(* a gold set, and the probes for position bias and self-preference.       *)
(* Both are sequences over the same examples; a number is a fraction.      *)
(***************************************************************************)
EXTENDS Integers, SequencesExt

CONSTANTS
    Threshold   \* the kappa that is required, in hundredths

-----------------------------------------------------------------------------
\* confusion_matrix: how often (human, judge) occurs.
CountOf(human, judge, h, j) == Cardinality({i \in DOMAIN human : human[i] = h /\ judge[i] = j})
LabelsOf(human, judge) == Range(human) \cup Range(judge)

\* The examples on which both agree, and the product of the shares of a label,
\* summed over the labels.
Agreed(human, judge) == Cardinality({i \in DOMAIN human : human[i] = judge[i]})
ByChance(human, judge) ==
    LET Share(seq, label) == Cardinality({i \in DOMAIN seq : seq[i] = label})
    IN SumFunction([label \in LabelsOf(human, judge) |->
                        Share(human, label) * Share(judge, label)])

\* Mutant: agreement by chance is left in.
PlainAccuracy(human, judge) == <<Agreed(human, judge), Len(human)>>

\* cohens_kappa: undefined when both used one label throughout.
Kappa(human, judge) ==
    LET n == Len(human)
        observed == Agreed(human, judge)
        expected == ByChance(human, judge)
    IN IF expected >= n * n THEN <<IF observed >= n THEN 1 ELSE 0, 1>>
       ELSE <<observed * n - expected, n * n - expected>>

\* ClassMetrics, of each label.
PerClass(human, judge) ==
    LET labels == LabelsOf(human, judge)
    IN [l \in labels |->
          [true_positives |-> CountOf(human, judge, l, l),
           false_positives |-> SumFunction([o \in labels \ {l} |-> CountOf(human, judge, o, l)]),
           false_negatives |-> SumFunction([o \in labels \ {l} |-> CountOf(human, judge, l, o)])]]
Support(m) == m.true_positives + m.false_negatives
-----------------------------------------------------------------------------
\* The labels of the two candidates exchanged.
Undone(verdict) ==
    IF verdict = "a" THEN "b" ELSE IF verdict = "b" THEN "a" ELSE verdict

\* position_bias, as the pairs on each side.
PositionBias(forward, swapped) ==
    LET consistent == {i \in DOMAIN forward : forward[i] = Undone(swapped[i])}
        Both(label) == {i \in DOMAIN forward \ consistent :
                            forward[i] = label /\ swapped[i] = label}
    IN [consistent |-> consistent, first |-> Both("a"), second |-> Both("b")]

\* positional_skew, over the pairs that position decided.
PositionalSkew(bias) ==
    LET first == Cardinality(bias.first)
        second == Cardinality(bias.second)
    IN IF first + second = 0 THEN <<0, 1>> ELSE <<first - second, first + second>>

\* self_preference: verdicts on the judge's own family and on the others.
SelfPreference(verdicts, own) ==
    LET Side(flag) == {i \in DOMAIN verdicts : own[i] = flag}
        Favourable(flag) == {i \in Side(flag) : verdicts[i] = "pass"}
        Rated(flag) == IF Side(flag) = {} THEN <<0, 1>>
                       ELSE <<Cardinality(Favourable(flag)), Cardinality(Side(flag))>>
    IN [own |-> Rated(TRUE), other |-> Rated(FALSE),
        comparable |-> Side(TRUE) # {} /\ Side(FALSE) # {}]

\* The gap between both rates reaches 15 points, in one direction or the other.
Prefers(p) ==
    LET gap == p.own[1] * p.other[2] - p.other[1] * p.own[2]
        d == p.own[2] * p.other[2]
    IN p.comparable /\ (100 * gap >= 15 * d \/ -100 * gap >= 15 * d)

\* GoldSet.label_balance and _imbalance_warning.
Imbalanced(human) ==
    \E label \in Range(human) :
        10 * Cardinality({i \in DOMAIN human : human[i] = label}) >= 8 * Len(human)

-----------------------------------------------------------------------------
\* ValidationReport.passed.
Usable(kappa) == 100 * kappa[1] >= Threshold * kappa[2]

\* validate_judge, of a gold set that has examples; own is empty where the
\* authors are not given.
ValidateJudge(human, judge, own) ==
    LET kappa == Kappa(human, judge)
        prefers == own # <<>> /\ Prefers(SelfPreference(judge, own))
    IN [kappa |-> kappa,
        accuracy |-> <<Agreed(human, judge), Len(human)>>,
        per_class |-> PerClass(human, judge),
        passed |-> Usable(kappa),
        warnings |-> (IF Imbalanced(human) THEN {"imbalanced"} ELSE {})
                     \cup (IF Len(human) < 20 THEN {"few"} ELSE {})
                     \cup (IF prefers THEN {"prefers"} ELSE {})]
=============================================================================
