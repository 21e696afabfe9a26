-------------------------- MODULE MCReleaseGating --------------------------
(***************************************************************************)
(* ReleaseGating over every observation, model-impact verdict and export   *)
(* requirement, decided as the runtime decides it.                         *)
(***************************************************************************)
EXTENDS ReleaseGating, CaseSubject

ReleaseCases ==
    [kind : {"release"}, obs : Observations, verdict : Verdicts \cup {None}, required : BOOLEAN]

-----------------------------------------------------------------------------
(* Properties. s is a case.                                                *)

\* A package is READY for exactly the cases the release policy names, although
\* the decision is spread over three modules: every blocking finding of the
\* gates, a source that is not the approved one, and a rejected, degraded or
\* missing required model-impact verdict each block it, and nothing else does.
SafeToExport(s) ==
    /\ ~s.obs.missingColumns
    /\ s.obs.rules # "critical"
    /\ ~(s.obs.pii /\ s.obs.restricted)
    /\ s.obs.leakage \in {"none", "clean", "noted"}
    /\ s.obs.distance \in {"none", "far"}
    /\ s.obs.source = "approved"
    /\ s.verdict \notin {"rejected", "degraded"}
    /\ s.required => s.verdict # None

\* What the API response and the export package say of one run agree: an
\* export reference never comes without a candidate reference, and a blocked
\* candidate has reason codes an auditor can follow.
ReferencesAgree(version, package) ==
    /\ FinalExport(package) => FinalCandidate(version)
    /\ version.status = "blocked" => version.reasons # {} /\ version.blockExport
    /\ package.status = "blocked" => package.reasons # {}
    /\ version.blockExport <=> ~FinalCandidate(version)

\* An unreadable or changed source blocks through the report's flag, through
\* a named blocker and through the candidate, whatever else was found.
ChangedSourceBlocksEverywhere(s, report, package) ==
    s.obs.source # "approved" =>
        /\ "raw_artifact_immutability" \in report.blockerNames
        /\ ~report.rawUnchanged
        /\ {"raw_artifact_changed", "blocked_objects_present"} \subseteq package.reasons
        /\ package.artifacts = {"manifest"}

\* A reader of the card can tell why a package is blocked: every blocker of the
\* gates is listed, with a status that is not proposed, and a card without
\* blockers belongs to a package that is ready, or is held back for its
\* model-impact verdict, or for want of one, which the card shows.
CardTellsWhy(s, card, package) ==
    /\ card.blockers \subseteq package.reasons
    /\ card.blockers # {} <=> card.status = "blocked"
    /\ card.blockers # {} => card.gates = "failed"
    /\ card.blockers = {} /\ package.status = "blocked" =>
          card.impact \in {"rejected", "degraded"} \/ (s.required /\ card.impact = None)

\* All four, of one case.
PackageFollowsPolicy(s) ==
    s.kind = "release" =>
        LET report == ValidationReport(s.obs)
            version == CandidateVersion(report)
            package == RuntimePackage(version, report, s.verdict, s.required)
        IN  /\ (package.status = "ready") <=> SafeToExport(s)
            /\ ReferencesAgree(version, package)
            /\ ChangedSourceBlocksEverywhere(s, report, package)
            /\ CardTellsWhy(s, DatasetCard(version, report, s.verdict), package)

\* gates.py, candidate_version.py, export_package.py: a package is READY for
\* exactly the cases the release policy names, and what the three builders say
\* of it agrees.
ReadyExactlyWhenSafe == PackageFollowsPolicy(subject)

=============================================================================
