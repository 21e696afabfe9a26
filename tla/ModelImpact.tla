---------------------------- MODULE ModelImpact ----------------------------
(***************************************************************************)
(* What a candidate dataset does to a model: model_impact_eligibility.py   *)
(* decides whether the question can be asked, model_impact.py trains on    *)
(* source and candidate and judges the difference.                         *)
(*                                                                         *)
(* A row is its id, its label and whether it is synthetic; a manifest maps *)
(* ids to splits. The fitted model is the library's: its metrics on a test *)
(* set, in percent, are inputs, and what the code makes of them is here.   *)
(***************************************************************************)
EXTENDS Integers, Sequences, FiniteSets, FiniteSetsExt, SequencesExt, Precedence

CONSTANT NoValue    \* a report, a label or a metric that is not there

-----------------------------------------------------------------------------
(* Eligibility. r: a CheckModelImpactEligibilityRequest.                   *)

MinLabeled == 50
MinRare == 5
MinSplits == 2

RequestedTarget(r) ==
    IF r.profile # NoValue /\ r.profile.target # NoValue THEN r.profile.target
    ELSE IF r.manifest # NoValue THEN r.manifest.target ELSE NoValue

TargetHasMissing(r) == r.profile # NoValue /\ r.profile.targetMissing

\* class counts, by label; without class diagnostics nobody is labelled.
Cohorts(r) ==
    IF r.profile = NoValue \/ r.profile.classes = NoValue THEN [label \in {} |-> 0]
    ELSE r.profile.classes.counts

Labeled(r) == MapThenSumSet(LAMBDA label : Cohorts(r)[label], DOMAIN Cohorts(r))

RareCount(r) ==
    IF DOMAIN Cohorts(r) = {} \/ r.profile.classes.rare \notin DOMAIN Cohorts(r) THEN 0
    ELSE Cohorts(r)[r.profile.classes.rare]

SplitsUsed(r) == {r.manifest.splits[id] : id \in DOMAIN r.manifest.splits}

\* A report that is not there blocks nothing.
LeakageBlocks(r) ==
    r.leakage # NoValue /\ {"training", "evaluation", "detected"} \cap r.leakage # {}

\* In the order the reasons are added; the first is the primary one.
EligibilityReasons ==
    <<"unsupported_task_type", "target_label_missing", "target_column_has_missing_values",
      "not_enough_labeled_samples", "not_enough_rare_class_samples", "split_manifest_missing",
      "split_manifest_insufficient_splits", "leakage_blocker_present">>

NotEligibleReasons(r) ==
    {reason \in ToSet(EligibilityReasons) :
        CASE reason = "unsupported_task_type" -> r.task # "classification"
          [] reason = "target_label_missing" -> RequestedTarget(r) = NoValue
          [] reason = "target_column_has_missing_values" -> TargetHasMissing(r)
          [] reason = "not_enough_labeled_samples" -> Labeled(r) < MinLabeled
          [] reason = "not_enough_rare_class_samples" -> RareCount(r) < MinRare
          [] reason = "split_manifest_missing" -> r.manifest = NoValue
          [] reason = "split_manifest_insufficient_splits" ->
                r.manifest # NoValue /\ Cardinality(SplitsUsed(r)) < MinSplits
          [] OTHER -> LeakageBlocks(r)}

\* A report that is not eligible always comes with a fallback.
Eligibility(r) ==
    LET reasons == NotEligibleReasons(r)
    IN  [eligible |-> reasons = {}, reasons |-> reasons,
         primary |-> IF reasons = {} THEN "supervised_classification_with_target"
                     ELSE FirstOf(EligibilityReasons, reasons),
         fallback |-> reasons # {}]

-----------------------------------------------------------------------------
(* The runner. q: a RunModelImpactRequest, with the rows read and the      *)
(* metrics each fit yields.                                                *)

RowsOf(rows, manifest, split) ==
    {row \in rows : row.id \in DOMAIN manifest /\ manifest[row.id] = split}

RowsToTrainOn(rows, manifest) == RowsOf(rows, manifest, "train")

TestRows(rows, manifest) ==
    LET test == RowsOf(rows, manifest, "test")
    IN  IF test # {} THEN test ELSE RowsOf(rows, manifest, "validation")

Labels(rows) == {row.label : row \in rows}

ClassifierFailure(train, test) ==
    IF train = {} THEN "empty_train_split"
    ELSE IF test = {} THEN "empty_test_split"
    ELSE IF Cardinality(Labels(train)) < 2 THEN "single_class_in_train_split" ELSE NoValue

\* PR-AUC needs the rare class on both sides, its recall one sample of it.
MetricsOf(train, test, rare, measured) ==
    [measured EXCEPT
        !.prAuc = IF rare \in Labels(train) \cap Labels(test) THEN @ ELSE NoValue,
        !.recall = IF rare \in Labels(test) THEN @ ELSE 0]

Delta(after, before) ==
    [recall |-> after.recall - before.recall, macro |-> after.macro - before.macro,
     weighted |-> after.weighted - before.weighted,
     prAuc |-> IF NoValue \in {after.prAuc, before.prAuc} THEN NoValue
               ELSE after.prAuc - before.prAuc]

MacroDrop == 3
WeightedDrop == 3
RecallDrop == 5
PrAucDrop == 3
TstrLimit == 10
TrtsLimit == 20

Degradations(d) ==
    (IF d.recall <= -RecallDrop THEN {"recall"} ELSE {})
        \cup (IF d.macro <= -MacroDrop THEN {"macro"} ELSE {})
        \cup (IF d.weighted <= -WeightedDrop THEN {"weighted"} ELSE {})
        \cup (IF d.prAuc # NoValue /\ d.prAuc <= -PrAucDrop THEN {"pr_auc"} ELSE {})

NothingFalls(d) ==
    d.macro >= 0 /\ d.weighted >= 0 /\ (d.prAuc = NoValue \/ d.prAuc >= 0)

\* metrics_unchanged and mixed_metric_movement are both for review.
Verdict(d, blocker) ==
    IF blocker THEN "rejected"
    ELSE IF Degradations(d) # {} THEN "degraded"
    ELSE IF d.recall > 0 /\ NothingFalls(d) THEN "improved" ELSE "requires_review"

\* Variant: the augmented train rows stand for the synthetic ones.
AllTrainRows(rows, manifest) == RowsToTrainOn(rows, manifest)

SyntheticTrain(rows, manifest) == {row \in RowsToTrainOn(rows, manifest) : row.synthetic}

\* Train on synthetic rows and test on real ones, and the reverse: both fits
\* must succeed before either counts.
TstrTrts(q) ==
    LET synthetic == SyntheticTrain(q.candidate, q.candidateSplit)
        tstr == ClassifierFailure(synthetic, TestRows(q.source, q.sourceSplit))
        trts == ClassifierFailure(RowsToTrainOn(q.source, q.sourceSplit), synthetic)
    IN  [available |-> q.synthetic /\ synthetic # {} /\ tstr = NoValue /\ trts = NoValue,
         drop |-> q.baseline.macro - q.tstrMacro,
         shift |-> q.measured.macro - q.trtsMacro]

Abs(x) == IF x < 0 THEN -x ELSE x

Utility(q, d, verdict, tstr) ==
    IF ~q.synthetic THEN "not_applicable"
    ELSE IF q.blocker \/ verdict = "degraded" THEN "rejected"
    ELSE IF ~tstr.available THEN "requires_review"
    ELSE IF tstr.drop > TstrLimit THEN "rejected"
    ELSE IF Abs(tstr.shift) <= TrtsLimit /\ verdict = "improved" THEN "recommended"
    ELSE "requires_review"

\* The failure of the baseline is raised before that of the candidate.
RunFailure(q) ==
    LET base == ClassifierFailure(RowsToTrainOn(q.source, q.sourceSplit), TestRows(q.source, q.sourceSplit))
    IN  IF base # NoValue THEN base
        ELSE ClassifierFailure(RowsToTrainOn(q.candidate, q.candidateSplit),
                        TestRows(q.candidate, q.candidateSplit))

Fitted(rows, manifest, rare, measured) ==
    MetricsOf(RowsToTrainOn(rows, manifest), TestRows(rows, manifest), rare, measured)

ModelImpactReport(q) ==
    LET before == Fitted(q.source, q.sourceSplit, q.rare, q.baseline)
        after == Fitted(q.candidate, q.candidateSplit, q.rare, q.measured)
        d == Delta(after, before)
        verdict == Verdict(d, q.blocker)
    IN  [verdict |-> verdict, degraded |-> Degradations(d), delta |-> d,
         utility |-> Utility(q, d, verdict, TstrTrts(q))]

=============================================================================
