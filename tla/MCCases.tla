------------------------------ MODULE MCCases ------------------------------
(***************************************************************************)
(* The pure parts of the service, each over its own cases: a state is one  *)
(* case. The cases and what must hold of one are defined beside each part. *)
(***************************************************************************)
EXTENDS MCReleaseGating, MCDecisions, MCModelImpact, MCTabularData, MCTextPrivacy,
        MCRecommendedSteps

Evidence == INSTANCE MCEvidence

CaseInit ==
    \/ subject \in ReleaseCases
    \/ subject \in DecisionCases
    \/ subject \in RecommendationCases
    \/ subject \in ImpactCases
    \/ subject \in EligibilityCases
    \/ subject \in TabularCases
    \/ subject \in IngestionCases
    \/ subject \in RedactionCases
    \/ subject \in Evidence!AnalysisCases

CaseNext == UNCHANGED subject

CaseSpec == CaseInit /\ [][CaseNext]_subject

SplitInit == subject \in SplitCases

-----------------------------------------------------------------------------

\* text_ocr and object_analytics: a finding reaches the passport of its object, if
\* the id of its record is its own, and otherwise that of the last one with the id,
\* and from there the decision; a redaction leaves none.
PassportsCarryFindings ==
    /\ subject.kind = "redaction" => RedactionIsComplete(subject)
    /\ Evidence!FindingsReachTheirObject(subject)

=============================================================================
