--------------------------- MODULE ReleaseGating ---------------------------
(***************************************************************************)
(* The decisions between an executed action plan and a releasable export:  *)
(* the validation gates (app/plugins/validation/gates.py), the candidate   *)
(* version built from their report (app/kernel/candidate_version.py), the  *)
(* export readiness gates (app/kernel/export_package.py) and the artifacts *)
(* the API may name (app/orchestration/apply_runtime.py), with the dataset *)
(* card that tells a reader about them (app/reports/dataset_card.py).      *)
(*                                                                         *)
(* Rows, patterns and distances are abstracted to an observation: what the *)
(* gates can tell apart about the candidate, the source and the plan.      *)
(***************************************************************************)

CONSTANT None       \* absent report, artifact, action or verdict

RuleFindings == {"none", "clean", "warning", "critical"}
LeakageFindings == {"none", "clean", "noted", "evaluation", "training", "both"}
\* Distance of the synthetic rows to their nearest real rows: no synthetic
\* rows; far from all; under the DCR threshold only; within epsilon only;
\* both; an exact copy of a real row.
Distances == {"none", "far", "low_dcr", "near", "colliding", "copy"}
SourceReads == {"approved", "changed", "missing"}
Verdicts == {"improved", "requires_review", "degraded", "rejected"}

Observations ==
    [missingColumns : BOOLEAN, nonNumeric : BOOLEAN, rules : RuleFindings,
     pii : BOOLEAN, restricted : BOOLEAN, leakage : LeakageFindings,
     distance : Distances, source : SourceReads]

-----------------------------------------------------------------------------
(* Validation gates.                                                       *)

Gate(name, status, severity, action) ==
    [name |-> name, status |-> status, severity |-> severity, action |-> action]

Passed(name) == Gate(name, "passed", "info", None)
NotApplicable(name) == Gate(name, "not_applicable", "info", None)
Warning(name) == Gate(name, "failed", "warning", None)
Blocker(name, action) == Gate(name, "failed", "blocker", action)

SchemaGate(o) ==
    CASE o.missingColumns -> Blocker("schema_validation", "block_export")
      [] ~o.missingColumns /\ o.nonNumeric -> Warning("schema_validation")
      [] OTHER -> Passed("schema_validation")

BusinessRulesGate(o) ==
    CASE o.rules = "none" -> NotApplicable("business_rules")
      [] o.rules = "clean" -> Passed("business_rules")
      [] o.rules = "warning" -> Warning("business_rules")
      [] OTHER -> Blocker("business_rules", "block_export")

PrivacyGate(o) ==
    CASE ~o.pii -> Passed("privacy_check")
      [] o.pii /\ o.restricted -> Blocker("privacy_check", "block_export")
      [] OTHER -> Warning("privacy_check")

\* The report's training block takes precedence over its evaluation block.
SplitLeakageGate(o) ==
    CASE o.leakage = "none" -> NotApplicable("split_leakage_check")
      [] o.leakage = "clean" -> Passed("split_leakage_check")
      [] o.leakage \in {"training", "both"} ->
            Blocker("split_leakage_check", "block_training")
      [] o.leakage = "evaluation" ->
            Blocker("split_leakage_check", "block_model_evaluation")
      [] OTHER -> Warning("split_leakage_check")

SyntheticGate(name, o, failing) ==
    CASE o.distance = "none" -> NotApplicable(name)
      [] o.distance \in failing -> Blocker(name, "block_export")
      [] OTHER -> Passed(name)

DcrGate(o) ==
    SyntheticGate("synthetic_dcr_check", o, {"low_dcr", "colliding", "copy"})

ExactDuplicateGate(o) ==
    SyntheticGate("synthetic_exact_duplicate_to_real", o, {"copy"})

NearestNeighborGate(o) ==
    SyntheticGate("synthetic_nearest_neighbor_privacy", o,
                  {"near", "colliding", "copy"})

\* Variant: a source that cannot be read is left to the next gate.
MissingSourcePasses(o) ==
    IF o.source # "changed" THEN Passed("raw_artifact_immutability")
                            ELSE Blocker("raw_artifact_immutability", "block_export")

\* Fails closed: a source that cannot be read again counts as changed.
RawImmutabilityGate(o) ==
    IF o.source = "approved" THEN Passed("raw_artifact_immutability")
                             ELSE Blocker("raw_artifact_immutability", "block_export")

Gates(o) ==
    {SchemaGate(o), BusinessRulesGate(o), PrivacyGate(o), SplitLeakageGate(o),
     DcrGate(o), ExactDuplicateGate(o), NearestNeighborGate(o),
     RawImmutabilityGate(o)}

IsBlocking(g) == g.status = "failed" /\ g.severity = "blocker"

Blockers(gates) == {g \in gates : IsBlocking(g)}

Blocks(gates, action) == \E g \in Blockers(gates) : g.action = action

OverallStatus(gates) ==
    IF \E g \in gates : g.status = "failed" THEN "failed" ELSE "passed"

CandidateStatus(gates, rawUnchanged) ==
    CASE Blockers(gates) # {} \/ ~rawUnchanged -> "validation_failed"
      [] Blockers(gates) = {} /\ rawUnchanged /\ OverallStatus(gates) = "failed" ->
            "review_required"
      [] OTHER -> "ok"

ValidationReport(o) ==
    LET gates == Gates(o)
        rawUnchanged == o.source = "approved"
        status == CandidateStatus(gates, rawUnchanged)
    IN  [overall |-> OverallStatus(gates),
         candidateStatus |-> status,
         rawUnchanged |-> rawUnchanged,
         blockExport |-> Blocks(gates, "block_export") \/ status = "validation_failed",
         blockModelEvaluation |-> Blocks(gates, "block_model_evaluation"),
         blockTraining |-> Blocks(gates, "block_training"),
         blockerNames |-> {g.name : g \in Blockers(gates)}]

-----------------------------------------------------------------------------
(* Candidate version.                                                      *)

VersionStatus(report) ==
    CASE report = None -> "failed"
      [] report # None /\ report.candidateStatus = "validation_failed" -> "blocked"
      [] report # None /\ report.candidateStatus = "review_required" -> "review_required"
      [] OTHER -> "proposed"

CandidateVersion(report) ==
    [status |-> VersionStatus(report),
     blockExport |-> IF report = None THEN TRUE ELSE report.blockExport,
     blockModelEvaluation |->
        IF report = None THEN TRUE ELSE report.blockModelEvaluation,
     blockTraining |-> IF report = None THEN TRUE ELSE report.blockTraining,
     reasons |-> IF report = None THEN {} ELSE report.blockerNames,
     rawUnchanged |-> IF report = None THEN None ELSE report.rawUnchanged]

-----------------------------------------------------------------------------
(* Dataset card, built before the export package and without a decision    *)
(* report: its blockers are those of the version, its verdict is shown as  *)
(* a figure among the metrics.                                             *)

CardBlockers(version) == version.reasons

DatasetCard(version, report, verdict) ==
    [status |-> version.status, blockers |-> CardBlockers(version), impact |-> verdict,
     gates |-> IF report = None THEN None ELSE report.overall]

-----------------------------------------------------------------------------
(* Export package.  A request names the version and everything the gates   *)
(* consult; each gate contributes the reason codes it blocks with.         *)

CandidateGateCodes(version) ==
    CASE ~version.blockExport -> {}
      [] version.blockExport /\ version.reasons # {} -> version.reasons
      [] OTHER -> {"candidate_block_export_flag"}

\* The report is believed first, the version's own summary only without it.
RawUnchanged(version, report) ==
    IF report # None THEN report.rawUnchanged ELSE version.rawUnchanged

RawGateCodes(version, report) ==
    IF RawUnchanged(version, report) = FALSE THEN {"raw_artifact_changed"} ELSE {}

ValidationGateCodes(report) ==
    IF report = None THEN {} ELSE report.blockerNames

TextPrivacyCodes(unmasked) == IF unmasked THEN {"pii_unmasked"} ELSE {}

BlockedObjectCodes(version) ==
    IF version.blockExport THEN {"blocked_objects_present"} ELSE {}

\* Variant: only a rejected verdict blocks.
DegradedPasses(verdict, required) ==
    CASE verdict = None /\ required -> {"model_impact_report_required"}
      [] verdict = "rejected" -> {"model_impact_rejected"}
      [] OTHER -> {}

ModelImpactCodes(verdict, required) ==
    CASE verdict = None /\ required -> {"model_impact_report_required"}
      [] verdict = "rejected" -> {"model_impact_rejected"}
      [] verdict = "degraded" -> {"model_impact_degraded"}
      [] OTHER -> {}

RequiredArtifactCodes(hasCard, hasLineage) ==
    (IF hasCard THEN {} ELSE {"dataset_card_artifact_missing"})
    \cup (IF hasLineage THEN {} ELSE {"lineage_artifact_missing"})

BlockedReasons(version, report, verdict, required, unmasked, hasCard, hasLineage) ==
    UNION {CandidateGateCodes(version), RawGateCodes(version, report),
           ValidationGateCodes(report), TextPrivacyCodes(unmasked),
           BlockedObjectCodes(version), ModelImpactCodes(verdict, required),
           RequiredArtifactCodes(hasCard, hasLineage)}

\* A blocked package names its manifest only.
ExportPackage(reasons) ==
    [status |-> IF reasons = {} THEN "ready" ELSE "blocked",
     reasons |-> reasons,
     artifacts |-> IF reasons = {} THEN {"manifest", "tabular", "card", "lineage"}
                                   ELSE {"manifest"}]

\* What apply_runtime passes: no text report, card and lineage just built.
RuntimePackage(version, report, verdict, required) ==
    ExportPackage(BlockedReasons(version, report, verdict, required,
                                 FALSE, TRUE, TRUE))

-----------------------------------------------------------------------------
(* References the API response may carry.                                  *)

\* Variant: a blocked candidate keeps its reference.
OnlyFailedWithheld(version) == version # None /\ version.status # "failed"

FinalCandidate(version) ==
    version # None /\ version.status \notin {"blocked", "failed"}

FinalExport(package) == package # None /\ package.status = "ready"

=============================================================================
