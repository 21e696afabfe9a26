--------------------------- MODULE ObjectEvidence ---------------------------
(***************************************************************************)
(* An ANALYZE_ONLY run over an archive: the stages of                      *)
(* app/orchestration/analyze_runtime.py in their order, from the bytes to  *)
(* the passports, their evidence and the decisions. It composes the        *)
(* ingestion, the text checks, the tabular profile and the decision core.  *)
(***************************************************************************)
EXTENDS ObjectPassports

CONSTANTS Word, DuplicateIdLimit, OutlierIdLimit

Tabular == INSTANCE TabularProfile
Core == INSTANCE Decisions WITH Unavailable <- Missing

TableOf(entry) == [columns |-> entry.columns, rows |-> entry.table]

\* run: the archive, the policy it is opened with, the predictions or Missing,
\* and the request for the profile.
Source(run) ==
    TableOf(run.archive.entries[Min(OfKind(run.archive, "transactions"))])

Tables(run) ==
    LET places == InOrder(OfKind(run.archive, "transactions"))
    IN  [k \in DOMAIN places |-> TableOf(run.archive.entries[places[k]])]

NoPredictions == [signals |-> <<>>]

\* The stage that raises first; what was stored before it stays stored.
AnalyzeFailure(run) ==
    LET texts == {"support_messages", "ocr_records"}
        opened == FirstReason(<<OpenFailure(run.archive, run.policy)>>)
        built == IF opened # Missing THEN opened ELSE BuildFailure(run.archive)
        manifest == AssetManifest(run.archive)
    IN  IF built # Missing THEN built
        ELSE FirstReason(
            <<JsonlFailure(ManifestBytes(manifest), "manifest"),
              IF run.predictions = Missing THEN Missing
              ELSE JsonlFailure(run.predictions, "predictions"),
              Tabular!ProfileFailure(Tables(run)),
              When(\E kind \in texts : OfKind(run.archive, kind) = {}, "ValueError")>>)

Errors(run) ==
    IF run.predictions = Missing THEN NoPredictions
    ELSE ModelErrorReport(AssetManifest(run.archive).rows, PredictionRows(run.predictions))

Passports(run) ==
    PassportsOf([rows |-> AssetManifest(run.archive).rows, text |-> TextReportOf(run.archive),
                 errors |-> Errors(run), table |-> Source(run),
                 profile |-> Tabular!Profile(Source(run), run.request)])

\* The report is built without a policy input: only signals of objects gate.
NoPolicyInput == [risk |-> {}, profile |-> {}, split |-> {}, plugins |-> {}, methods |-> {}]

DecisionsOf(passports) ==
    Core!DecisionReport([gates |-> ToSet(Core!HardGates), rules |-> Core!RuleReasons],
                        Bundles(passports), NoPolicyInput)

=============================================================================
