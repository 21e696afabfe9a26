--------------------------- MODULE MCModelImpact ---------------------------
(***************************************************************************)
(* Model impact over small splits with and without synthetic rows and over *)
(* metrics around each threshold, and eligibility around each minimum.     *)
(***************************************************************************)
EXTENDS ModelImpact, CaseSubject

Row(id, label, synthetic) == [id |-> id, label |-> label, synthetic |-> synthetic]

SourceRows == {Row(1, "a", FALSE), Row(2, "rare", FALSE), Row(3, "a", FALSE), Row(4, "rare", FALSE)}

\* SMOTE adds rows of the rare class, a copula rows of both.
CandidateVariants ==
    {SourceRows, SourceRows \cup {Row(5, "rare", TRUE)},
     SourceRows \cup {Row(5, "rare", TRUE), Row(6, "a", TRUE)}}

SourceSplits ==
    {<<"train", "train", "test", "test">>, <<"train", "train", "validation", "validation">>,
     <<"train", "validation", "train", "test">>}

\* A split of the source leaves the new rows out, one of the candidate trains on them.
CandidateSplits(split) == {split, split \o <<"train", "train">>}

Metrics(recall, macro, weighted, prAuc) ==
    [recall |-> recall, macro |-> macro, weighted |-> weighted, prAuc |-> prAuc]

\* One metric moves at a time, by nothing, by a little or past its limit.
MeasuredMetrics ==
    {Metrics(r, m, w, p) : r \in {45, 46, 50, 60}, m \in {47, 48, 50, 52}, w \in {47, 48, 50},
                           p \in {47, 49, 51}}

ImpactCases ==
    UNION {[kind : {"impact"}, source : {SourceRows}, candidate : CandidateVariants, sourceSplit : {split},
            candidateSplit : CandidateSplits(split), rare : {"rare"},
            baseline : {Metrics(50, 50, 50, 50)}, measured : MeasuredMetrics,
            tstrMacro : {39, 40}, trtsMacro : {30, 50}, synthetic : BOOLEAN,
            blocker : BOOLEAN] : split \in SourceSplits}

Counts(rare, rest) == [rare |-> "r", counts |-> ("r" :> rare @@ "a" :> rest)]

EligibilityCases ==
    [kind : {"eligibility"}, task : {"classification", "regression"},
     profile : {NoValue} \cup
        [target : {"y", NoValue}, targetMissing : BOOLEAN,
         classes : {NoValue, Counts(5, 45), Counts(4, 60), Counts(5, 44)}],
     manifest : {NoValue} \cup
        [target : {"y", NoValue},
         splits : {<<>>, <<"train", "train">>, <<"train", "test">>, <<"test", "validation">>}],
     leakage : {NoValue, {}, {"training", "detected"}, {"evaluation"}, {"detected"}}]

-----------------------------------------------------------------------------
(* Properties. s is a case.                                                *)

\* A verdict follows the evidence: nothing that fell is called improved, no
\* loss past its limit escapes, validation blockers reject, and exchanging the
\* two datasets never leaves both improved.
VerdictFollowsMetrics(s) ==
    LET r == ModelImpactReport(s)
        swapped == ModelImpactReport([s EXCEPT !.source = s.candidate, !.candidate = s.source,
                       !.sourceSplit = s.candidateSplit, !.candidateSplit = s.sourceSplit,
                       !.baseline = s.measured, !.measured = s.baseline])
    IN  /\ s.blocker <=> r.verdict = "rejected"
        /\ r.verdict = "improved" =>
              /\ r.delta.recall > 0 /\ r.delta.macro >= 0 /\ r.delta.weighted >= 0
              /\ r.degraded = {} /\ swapped.verdict # "improved"
        /\ r.delta.macro <= -MacroDrop => r.verdict \in {"degraded", "rejected"}

\* Synthetic data is recommended only if a model trained on synthetic rows
\* alone was tested: two synthetic classes among the train rows, a verdict that
\* improved, and both cross tests within their limits.
RecommendedWasTested(s) ==
    LET r == ModelImpactReport(s)
        synthetic == {row \in s.candidate : row.synthetic /\ row.id \in DOMAIN s.candidateSplit
                                              /\ s.candidateSplit[row.id] = "train"}
    IN  /\ r.utility = "recommended" =>
              /\ r.verdict = "improved" /\ s.synthetic
              /\ Cardinality(Labels(synthetic)) > 1
              /\ s.tstrMacro >= s.baseline.macro - TstrLimit
        /\ r.verdict \in {"degraded", "rejected"} => r.utility \in {"rejected", "not_applicable"}

\* The model-impact question is asked of a dataset only with a target that has
\* no gaps, enough samples over all classes and of the rare one, two splits and
\* no known leakage; a refusal names its first reason and leaves a fallback.
EligibilityIsGrounded(s) ==
    LET e == Eligibility(s)
    IN  /\ e.eligible =>
              /\ s.profile # NoValue /\ ~s.profile.targetMissing /\ s.manifest # NoValue
              /\ s.profile.target # NoValue \/ s.manifest.target # NoValue
              /\ s.profile.classes # NoValue
              /\ s.profile.classes.counts[s.profile.classes.rare] >= MinRare
              /\ SumFunction(s.profile.classes.counts) >= MinLabeled
              /\ Cardinality(SplitsUsed(s)) >= MinSplits
              /\ s.leakage \in {NoValue, {}}
        /\ ~e.eligible => e.primary \in e.reasons /\ e.fallback

EvidenceBacksVerdict(s) ==
    /\ s.kind = "impact" /\ RunFailure(s) = NoValue =>
          VerdictFollowsMetrics(s) /\ RecommendedWasTested(s)
    /\ s.kind = "eligibility" => EligibilityIsGrounded(s)

\* model_impact.py, model_impact_eligibility.py: a verdict follows from what was
\* measured, and the question is asked only of data that can answer it.
VerdictsNeedEvidence == EvidenceBacksVerdict(subject)

=============================================================================
