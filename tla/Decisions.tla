----------------------------- MODULE Decisions -----------------------------
(***************************************************************************)
(* The decision core: app/kernel/decision_policy.py rates one object,      *)
(* decision_report.py decides about a dataset, dataforge_score.py scores   *)
(* it, method_selection.py recommends methods and external_api_policy.py   *)
(* guards network egress. Pure functions of their inputs.                  *)
(*                                                                         *)
(* Scores are percent, weights percent; a privacy risk, of which the code  *)
(* tells less than one percent from none, and a score value are in units of*)
(* 1/10000. A reason list is a set: no decision depends on its order, and  *)
(* PrimaryReason finds a listed code for every object it is asked about.   *)
(***************************************************************************)
EXTENDS Integers, Sequences, FiniteSets, FiniteSetsExt, SequencesExt, Precedence

CONSTANT Unavailable    \* a signal whose status is not available

-----------------------------------------------------------------------------
(* Hard gates.                                                             *)

HardGates ==
    <<"pii_unmasked", "target_column_missing", "split_leakage", "external_api_raw_pii",
      "target_leakage_candidate", "business_rule_failure", "plugin_disabled",
      "method_disabled_by_policy", "method_disabled_by_readiness">>

GateAction(gate) ==
    CASE gate = "pii_unmasked" -> "BLOCK_PRIVACY_REVIEW"
      [] gate \in {"target_column_missing", "target_leakage_candidate"} -> "BLOCK_TRAINING"
      [] gate = "split_leakage" -> "BLOCK_MODEL_EVALUATION"
      [] gate = "external_api_raw_pii" -> "BLOCK_EXTERNAL_API_CALL"
      [] gate = "business_rule_failure" -> "BLOCK_RULES_REVIEW"
      [] gate = "plugin_disabled" -> "BLOCK_PLUGIN_EXECUTION"
      [] OTHER -> "BLOCK_METHOD"

\* in: a PolicyInputEnvelope. profile, risk and split are the flags they raise.
GateTriggered(gate, in) ==
    CASE gate = "pii_unmasked" -> gate \in in.risk \cup in.profile
      [] gate = "external_api_raw_pii" -> gate \in in.risk
      [] gate = "split_leakage" -> gate \in in.split
      [] gate = "plugin_disabled" -> "disabled" \in in.plugins
      [] gate = "method_disabled_by_policy" ->
            \E m \in in.methods : "disabled_by_policy" \in {m.policy, m.status}
      [] gate = "method_disabled_by_readiness" ->
            \E m \in in.methods : "disabled_by_readiness" \in {m.policy, m.status}
      [] OTHER -> gate \in in.profile

\* policy: the gates and the recommendation rules that are enabled.
DatasetGates(policy, in) ==
    {g \in ToSet(HardGates) \cap policy.gates : GateTriggered(g, in)}

AtLeast(signal, threshold) == signal # Unavailable /\ signal >= threshold

\* The object's own privacy risk triggers the PII gate, enabled or not.
ObjectGates(policy, ev, in) ==
    DatasetGates(policy, in) \cup (IF AtLeast(ev.privacy, 8000) THEN {"pii_unmasked"} ELSE {})

-----------------------------------------------------------------------------
(* The object value score.                                                 *)

SignalOr(signal, default) == IF signal = Unavailable THEN default ELSE signal

Uncertainty(ev) ==
    CASE ev.uncertainty # Unavailable -> ev.uncertainty
      [] ev.uncertainty = Unavailable /\ ev.entropy # Unavailable -> ev.entropy
      [] {ev.uncertainty, ev.entropy} = {Unavailable} /\ ev.ambiguous # Unavailable ->
            ev.ambiguous
      [] OTHER -> IF ev.confidence = Unavailable THEN 0 ELSE 100 - ev.confidence

Components(ev) ==
    LET rare == SignalOr(ev.rare, 0)
        label == SignalOr(ev.label, 0)
        labelError == SignalOr(ev.labelError, 0)
    IN  [learning |-> Max({rare, Uncertainty(ev), SignalOr(ev.ambiguous, 0), labelError, label}),
         rarity |-> rare, uncertainty |-> Uncertainty(ev),
         business |-> SignalOr(ev.business, 0), duplicate |-> SignalOr(ev.duplicate, 0),
         quality |-> 100 - SignalOr(ev.quality, 100), privacy |-> SignalOr(ev.privacy, 0),
         labelRisk |-> Max({label, labelError})]

Clamp(x, top) == IF x < 0 THEN 0 ELSE IF x > top THEN top ELSE x

\* Diversity has a weight and is always zero.
ObjectValue(ev) ==
    LET c == Components(ev)
    IN  Clamp(25 * c.learning + 20 * c.rarity + 20 * c.uncertainty + 10 * c.business
              - 15 * c.duplicate - 10 * c.quality - (25 * c.privacy) \div 100 - 10 * c.labelRisk, 10000)

ComponentReasons(ev) ==
    LET c == Components(ev)
    IN  {code \in {"exact_duplicate", "rare_class_underrepresented", "text_pii_detected",
                   "severe_outlier", "ambiguous_object", "probable_label_error"} :
            CASE code = "exact_duplicate" -> c.duplicate >= 50
              [] code = "rare_class_underrepresented" -> c.rarity >= 70
              [] code = "text_pii_detected" -> c.privacy > 0
              [] code = "severe_outlier" -> c.quality >= 75
              [] code = "ambiguous_object" -> c.uncertainty >= 50
              [] OTHER -> c.labelRisk >= 50}

-----------------------------------------------------------------------------
(* Recommendations from evidence.                                          *)

RuleReasons ==
    {"missing_numeric", "exact_duplicate", "rare_class_underrepresented", "text_pii_detected",
     "severe_outlier", "ambiguous_object", "probable_label_error"}

RuleMatches(reason, ev) ==
    CASE reason = "missing_numeric" -> FALSE
      [] reason = "exact_duplicate" -> AtLeast(ev.duplicate, 50)
      [] reason = "rare_class_underrepresented" -> AtLeast(ev.rare, 70)
      [] reason = "text_pii_detected" ->
            ev.modality \in {"text", "document_ocr"} /\ AtLeast(ev.privacy, 100)
      [] reason = "severe_outlier" -> ev.quality # Unavailable /\ ev.quality <= 25
      [] reason = "ambiguous_object" -> AtLeast(ev.ambiguous, 50)
      [] OTHER -> AtLeast(ev.labelError, 50)

MatchedRules(policy, ev) == {r \in RuleReasons \cap policy.rules : RuleMatches(r, ev)}

RecommendedReasons(policy, ev) ==
    LET rules == MatchedRules(policy, ev)
    IN  rules \cup (IF "ambiguous_object" \in rules
                    THEN {"high_model_uncertainty", "low_prediction_margin"} ELSE {})
              \cup (IF "probable_label_error" \in rules
                    THEN {"high_confidence_label_conflict"} ELSE {})

RulePrecedence ==
    <<"probable_label_error", "ambiguous_object", "text_pii_detected", "exact_duplicate",
      "missing_numeric", "rare_class_underrepresented">>

RuleAction(rule) ==
    CASE rule \in {"probable_label_error", "ambiguous_object"} -> "SEND_TO_LABEL_REVIEW"
      [] rule = "text_pii_detected" -> "SEND_TO_PRIVACY_REVIEW"
      [] rule = "exact_duplicate" -> "REMOVE_DUPLICATE"
      [] rule = "missing_numeric" -> "IMPUTE_MISSING_VALUES"
      [] OTHER -> "AUGMENT_RARE_CLASS"

\* The first rule that matched decides. OutlierPolicy: a severe outlier matches
\* its rule (REPORT_AND_REVIEW) and the object is kept.
ActionOfRules(rules) ==
    IF rules \cap ToSet(RulePrecedence) = {} THEN "KEEP"
    ELSE RuleAction(FirstOf(RulePrecedence, rules))

\* Variant: a high score outranks the gates.
ScoreFirst(policy, ev, in) ==
    LET gates == ObjectGates(policy, ev, in)
    IN  [id |-> ev.id, modality |-> ev.modality,
         action |-> IF gates # {} /\ ObjectValue(ev) < 3000 THEN "BLOCK_EXPORT"
                    ELSE ActionOfRules(MatchedRules(policy, ev)),
         gates |-> IF ObjectValue(ev) < 3000 THEN gates ELSE {},
         reasons |-> RecommendedReasons(policy, ev) \cup ComponentReasons(ev) \cup {"export_ready"},
         evaluated |-> Unavailable, refs |-> ev.refs, value |-> ObjectValue(ev)]

\* evaluate_object_decision and _object_context: gates first, the score explains.
ObjectDecision(policy, ev, in) ==
    LET gates == ObjectGates(policy, ev, in)
        codes == RecommendedReasons(policy, ev) \cup gates \cup ComponentReasons(ev)
    IN  [id |-> ev.id, modality |-> ev.modality,
         action |-> IF gates # {} THEN "BLOCK_EXPORT"
                    ELSE ActionOfRules(MatchedRules(policy, ev)),
         gates |-> gates,
         reasons |-> IF codes = {} THEN {"export_ready"} ELSE codes,
         evaluated |-> IF gates = {} THEN Unavailable
                       ELSE GateAction(FirstOf(HardGates, gates)),
         refs |-> ev.refs, value |-> ObjectValue(ev)]

-----------------------------------------------------------------------------
(* The decision report.                                                    *)

LimitedRefs(refs) == SubSeq(refs, 1, IF Len(refs) < 3 THEN Len(refs) ELSE 3)

\* One blocker per code, with the evidence of every object it blocks.
CriticalBlockers(policy, in, decisions) ==
    LET objects == ToSet(decisions)
        Refs(code) == UNION {ToSet(LimitedRefs(d.refs)) : d \in {o \in objects : code \in o.gates}}
    IN  {[code |-> code, refs |-> Refs(code)] :
            code \in DatasetGates(policy, in) \cup UNION {d.gates : d \in objects}}

\* A blocked object is recommended for nothing but a privacy review.
ReviewOf(d) ==
    CASE d.action = "BLOCK_EXPORT" ->
            IF "pii_unmasked" \in d.reasons THEN "SEND_TO_PRIVACY_REVIEW" ELSE "NONE"
      [] d.action = "KEEP" -> "NONE"
      [] OTHER -> d.action

PrimaryReasons ==
    <<"probable_label_error", "ambiguous_object", "text_pii_detected", "pii_unmasked",
      "exact_duplicate", "rare_class_underrepresented", "missing_numeric">>

PrimaryReason(reasons) == FirstOf(PrimaryReasons, reasons)

GroupOf(d) == <<ReviewOf(d), d.modality, PrimaryReason(d.reasons)>>

\* One recommended action per group of objects with the same review, modality
\* and primary reason; requires_approval never holds, as no group is synthetic.
RecommendedActions(decisions) ==
    LET reviewed == {i \in DOMAIN decisions : ReviewOf(decisions[i]) # "NONE"}
    IN  {[group |-> g,
          objects |-> {i \in reviewed : GroupOf(decisions[i]) = g},
          reasons |-> UNION {decisions[i].reasons \ {"export_ready"} :
                                i \in {j \in reviewed : GroupOf(decisions[j]) = g}}] :
            g \in {GroupOf(decisions[i]) : i \in reviewed}}

ReadinessOf(blockers, actions) ==
    IF blockers # {} THEN "BLOCKED"
    ELSE IF actions # {} THEN "NOT_READY_FOR_EXPORT" ELSE "READY_FOR_EXPORT"

ReadinessScore(readiness) ==
    CASE readiness = "BLOCKED" -> 0
      [] readiness = "NOT_READY_FOR_EXPORT" -> 75
      [] readiness = "READY_FOR_EXPORT" -> 100

\* Recommended actions come before blockers here.
NextJob(blockers, actions) ==
    IF actions # {} THEN "PREVIEW_ACTION_PLAN"
    ELSE IF blockers # {} THEN "NONE" ELSE "EXPORT"

DecisionReport(policy, bundles, in) ==
    LET decisions == [i \in DOMAIN bundles |-> ObjectDecision(policy, bundles[i], in)]
        blockers == CriticalBlockers(policy, in, decisions)
        actions == RecommendedActions(decisions)
    IN  [objects |-> decisions, blockers |-> blockers, actions |-> actions,
         readiness |-> ReadinessOf(blockers, actions),
         score |-> ReadinessScore(ReadinessOf(blockers, actions)),
         next |-> NextJob(blockers, actions), safe |-> actions # {}]

Codes(report) == {b.code : b \in report.blockers}

-----------------------------------------------------------------------------
(* The DataForge score of a dataset. profile and text are reports or       *)
(* Unavailable; counts of zero rows leave a component at its best.         *)

Ratio(part, whole) == (100 * part) \div whole

Completeness(p) ==
    IF p = Unavailable \/ p.cells = 0 THEN 100 ELSE Clamp(100 - Ratio(p.missing, p.cells), 100)

\* The mean of what can be said of rules, target and text.
Validity(p, t) ==
    LET rules == IF p # Unavailable /\ p.passRate # Unavailable THEN <<p.passRate>> ELSE <<>>
        target == IF p # Unavailable THEN <<IF p.targetMissing THEN 0 ELSE 100>> ELSE <<>>
        text == IF t # Unavailable /\ t.records > 0 THEN <<Ratio(t.valid, t.records)>> ELSE <<>>
        parts == rules \o target \o text
    IN  IF parts = <<>> THEN 100 ELSE FoldLeft(+, 0, parts) \div Len(parts)

DuplicateRatios(p, t) ==
    (IF p # Unavailable /\ p.rows > 0 THEN {Ratio(p.duplicates, p.rows)} ELSE {})
        \cup (IF t # Unavailable /\ t.valid > 0 THEN {Ratio(t.duplicates, t.valid)} ELSE {})

Uniqueness(p, t) == Clamp(100 - Max(DuplicateRatios(p, t) \cup {0}), 100)

UnmaskedPii(report, t) ==
    \/ "pii_unmasked" \in Codes(report)
    \/ t # Unavailable /\ t.pii > t.redacted

PrivacySafety(report, t) ==
    IF "pii_unmasked" \in Codes(report) THEN 0
    ELSE IF t = Unavailable \/ t.valid = 0 THEN 100
    ELSE Clamp(100 - Ratio(Max({0, t.pii - t.redacted}), t.valid), 100)

ModelReadiness(p, report, leak) ==
    IF leak \/ {"split_leakage", "target_leakage_candidate"} \cap Codes(report) # {} THEN 0
    ELSE IF p # Unavailable /\ p.leakageCandidates THEN 30
    ELSE IF p # Unavailable /\ p.targetMissing THEN 0 ELSE 100

PenaltyOf(code) ==
    CASE code = "unmasked_pii" -> 30 [] code = "split_leakage" -> 40
      [] code = "target_leakage_candidate" -> 25 [] OTHER -> 10

Penalties(p, t, report, leak) ==
    {code \in {"unmasked_pii", "split_leakage", "target_leakage_candidate",
               "severe_duplicates", "severe_class_imbalance"} :
        CASE code = "unmasked_pii" -> UnmaskedPii(report, t)
          [] code = "split_leakage" -> leak \/ "split_leakage" \in Codes(report)
          [] code = "target_leakage_candidate" ->
                \/ "target_leakage_candidate" \in Codes(report)
                \/ p # Unavailable /\ p.leakageCandidates
          [] code = "severe_duplicates" -> \E r \in DuplicateRatios(p, t) : r >= 5
          [] OTHER -> p # Unavailable /\ p.classes /\ (p.imbalance >= 10 \/ p.minority <= 5)}

HardBlocked(report) == report.readiness = "BLOCKED" \/ report.blockers # {}

DataForgeScore(p, t, report, leak) ==
    LET penalties == Penalties(p, t, report, leak)
        lineage == IF p = Unavailable THEN 100 ELSE p.lineage
        raw == 15 * Completeness(p) + 15 * Validity(p, t) + 12 * Uniqueness(p, t)
               + 15 * (IF p # Unavailable /\ p.classes THEN p.balance ELSE 100)
               + 18 * PrivacySafety(report, t) + 15 * ModelReadiness(p, report, leak)
               + 10 * lineage - 100 * MapThenSumSet(PenaltyOf, penalties)
    IN  [value |-> Clamp(raw, 10000), penalties |-> penalties,
         readiness |-> IF HardBlocked(report) THEN "BLOCKED"
                       ELSE IF penalties # {} THEN "READY_WITH_WARNINGS" ELSE "READY_FOR_EXPORT",
         reasons |-> penalties \cup Codes(report) \cup UNION {a.reasons : a \in report.actions}]

-----------------------------------------------------------------------------
(* Method selection.                                                       *)

SegmentDependent(column) ==
    column.segments # {} /\ Max(column.segments) - Min(column.segments) >= 20

Candidate(id, status) ==
    [id |-> id, status |-> status,
     policy |-> IF status \in {"recommended", "available"} THEN "enabled" ELSE status]

ImputationMethod(column) == IF SegmentDependent(column) THEN "group_median" ELSE "median"

ImputationRecommendation(column) ==
    LET chosen == ImputationMethod(column)
        Offered(id) == Candidate(id, IF id = chosen THEN "recommended" ELSE "available")
    IN  [target |-> column.name, action |-> "impute", method |-> chosen, blocked |-> {"target_imputation"},
         candidates |-> {Offered("group_median"), Offered("median"),
                         Candidate("missingness_indicator", "available"),
                         Candidate("pmm", "disabled_by_policy")}]


Imputable(p, column) ==
    column.missing > 0 /\ column.name # p.target /\ column.known /\ column.numeric

RareClassNeedsPolicy(p) == p.classes /\ (p.minority <= 10 \/ p.imbalance >= 3)

RareClassRecommendation(p) ==
    [target |-> p.target, action |-> "augment", method |-> "class_weights", blocked |-> {},
     candidates |->
        {Candidate("class_weights", "recommended")}
            \cup {Candidate(id, "available") : id \in {"undersampling_majority", "rare_case_review",
                     "collect_more_real_data", "gaussian_copula"}}
            \cup {Candidate(id, "disabled_by_readiness") : id \in {"smote", "borderline_smote", "adasyn"}}
            \cup {Candidate("ctgan", "disabled_by_policy")}]

MethodRecommendations(p) ==
    {ImputationRecommendation(c) : c \in {col \in p.columns : Imputable(p, col)}}
        \cup (IF RareClassNeedsPolicy(p) THEN {RareClassRecommendation(p)} ELSE {})

ExternalApiAllowed(config) == config.allow /\ config.profile # "banking_strict"

BlockedReason(config) ==
    IF config.profile = "banking_strict" THEN "banking_strict_profile_blocks_external_api"
    ELSE "external_api_disabled_by_policy"

=============================================================================
