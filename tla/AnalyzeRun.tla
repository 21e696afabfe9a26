----------------------------- MODULE AnalyzeRun -----------------------------
(***************************************************************************)
(* One analyze-dataset request: the handler of app/api/main.py, the        *)
(* launcher of app/orchestration/analyze_workflow.py, the asset graph of   *)
(* assets.py and the runtime of analyze_runtime.py that builds all outputs *)
(* of a run when its first asset asks for them.                            *)
(*                                                                         *)
(* The source archive is read three times while the outputs are built and  *)
(* may be missing at any of them; every save may meet an error of the      *)
(* object store, which turns the run into a reference-only one.            *)
(***************************************************************************)
EXTENDS Naturals, Sequences, SequencesExt

CONSTANT MaxOutages     \* bound on how often the archive goes missing or returns

ASSUME OutageAssumption == MaxOutages \in Nat

VARIABLES
    pc,           \* position of handler and launcher
    predictions,  \* the request names prediction artifacts
    token,        \* the run's cancellation token is triggered
    early,        \* history: it was triggered before the last check
    archive,      \* the archive can be read
    outages,      \* how often that has changed
    state,        \* AnalyzeExecutionState, shared by the assets of the run
    work,         \* the asset that runs and what it is at
    builds,       \* history: builds that were started
    finished,     \* assets that have been materialized
    failed,       \* assets that have raised
    shown,        \* the job's latest event
    ends,         \* history: its terminal events
    recorded      \* ComputeResultStore has a record of the run

worldVars == <<token, early, archive, outages>>
launchVars == <<pc, shown, ends, recorded>>
graphVars == <<state, work, builds, finished, failed>>
analyzeVars == <<predictions, worldVars, launchVars, graphVars>>

-----------------------------------------------------------------------------
(* The asset graph.                                                        *)

BaseAssets ==
    <<"raw_manifest", "validated_manifest", "tabular_profile_report",
      "object_analytics_passports", "evidence_bundle", "decision_report",
      "recommended_actions", "review_queue">>

PredictionAssets ==
    <<"prediction_manifest", "prediction_validation_report",
      "model_error_analysis_report", "ambiguous_object_candidates",
      "probable_label_error_candidates">>

Assets == ToSet(BaseAssets \o PredictionAssets)

\* expected_analyze_outputs, in the order of the reference-only outputs.
Expected == IF predictions THEN BaseAssets \o PredictionAssets ELSE BaseAssets
Selected == ToSet(Expected)

\* Variant, used alone: the manifest is validated without the raw one.
BelowManifest ==
    {<<"validated_manifest", "tabular_profile_report">>,
     <<"tabular_profile_report", "object_analytics_passports">>,
     <<"object_analytics_passports", "evidence_bundle">>,
     <<"evidence_bundle", "decision_report">>,
     <<"decision_report", "recommended_actions">>,
     <<"decision_report", "review_queue">>,
     <<"validated_manifest", "prediction_manifest">>,
     <<"prediction_manifest", "prediction_validation_report">>,
     <<"prediction_validation_report", "model_error_analysis_report">>,
     <<"model_error_analysis_report", "ambiguous_object_candidates">>,
     <<"model_error_analysis_report", "probable_label_error_candidates">>}

Deps == BelowManifest \cup {<<"raw_manifest", "validated_manifest">>}

\* Variant: the percentages of two stages swapped.
SwappedStages ==
    [raw_manifest |-> 10, validated_manifest |-> 25, tabular_profile_report |-> 55,
     object_analytics_passports |-> 45, evidence_bundle |-> 70,
     prediction_manifest |-> 35, prediction_validation_report |-> 62,
     model_error_analysis_report |-> 68, ambiguous_object_candidates |-> 72,
     probable_label_error_candidates |-> 74, decision_report |-> 80,
     recommended_actions |-> 90, review_queue |-> 95]

\* Percent shown when an asset finishes.
StageProgress ==
    [raw_manifest |-> 10, validated_manifest |-> 25, tabular_profile_report |-> 45,
     object_analytics_passports |-> 55, evidence_bundle |-> 70,
     prediction_manifest |-> 35, prediction_validation_report |-> 62,
     model_error_analysis_report |-> 68, ambiguous_object_candidates |-> 72,
     probable_label_error_candidates |-> 74, decision_report |-> 80,
     recommended_actions |-> 90, review_queue |-> 95]

-----------------------------------------------------------------------------
(* The stages of _build_real_outputs, with what each leaves in the state.  *)

Stage(reads, artifacts, count) ==
    [reads |-> reads, artifacts |-> artifacts, counts |-> count]

ModelErrorStages ==
    IF predictions
    THEN <<Stage(FALSE, {"prediction_manifest"}, {}),
           Stage(FALSE, {"prediction_validation_report"}, {}),
           Stage(FALSE, {"model_error_analysis_report"}, {}),
           Stage(FALSE, {"ambiguous_object_candidates"}, {}),
           Stage(FALSE, {"probable_label_error_candidates"}, {})>>
    ELSE <<Stage(FALSE, {}, {})>>       \* the not-applicable report

BuildStages ==
    <<Stage(TRUE, {"raw_manifest"}, {}),
      Stage(FALSE, {"validated_manifest"}, {}),
      Stage(FALSE, {}, {"manifest_row_count"})>>
    \o ModelErrorStages \o
    <<Stage(TRUE, {"tabular_profile_report"}, {}),
      Stage(TRUE, {}, {}),              \* text and OCR payloads
      Stage(FALSE, {"object_analytics_passports", "evidence_bundle",
                    "decision_report"}, {}),
      Stage(FALSE, {"recommended_actions"}, {}),
      Stage(FALSE, {"review_queue"}, {"review_queue_size"})>>

AnalyzeInit ==
    /\ predictions \in BOOLEAN
    /\ token = FALSE /\ early = FALSE
    /\ archive \in BOOLEAN /\ outages = 0
    /\ pc = "registered"
    /\ shown = [status |-> "none", progress |-> 0]
    /\ ends = <<>> /\ recorded = FALSE
    /\ state = [artifacts |-> [a \in Assets |-> "none"], counts |-> {},
                mode |-> "none", built |-> FALSE]
    /\ work = [asset |-> "none", task |-> "idle", next |-> 1]
    /\ builds = 0
    /\ finished = {} /\ failed = {}

-----------------------------------------------------------------------------
(* The world: a cancel from another thread, the archive.                   *)

TokenTriggered ==
    /\ pc \notin {"returned", "raised", "done"}
    /\ ~token
    /\ token' = TRUE
    /\ early' = (pc \in {"registered", "launching", "materializing", "materialized"})
    /\ UNCHANGED <<predictions, archive, outages, launchVars, graphVars>>

ArchiveChanges ==
    /\ outages < MaxOutages
    /\ outages' = outages + 1
    /\ archive' = ~archive
    /\ UNCHANGED <<predictions, token, early, launchVars, graphVars>>

-----------------------------------------------------------------------------
(* launch_analyze_dataset_workflow and its handler.                        *)

Emit(status, progress) == shown' = [status |-> status, progress |-> progress]
End(status, progress) == Emit(status, progress) /\ ends' = Append(ends, status)
Launcher == UNCHANGED <<predictions, worldVars, graphVars, recorded>>
Silent == UNCHANGED <<shown, ends>>

CancelBeforeStart ==
    /\ pc = "registered"
    /\ token
    /\ pc' = "raised"
    /\ End("cancelled", 0)
    /\ Launcher

PassFirstCheck ==
    pc = "registered" /\ ~token /\ pc' = "launching" /\ Silent /\ Launcher

\* The idempotency key and build_definitions are outside the try: their errors
\* leave without an event.
LauncherRaises ==
    pc \in {"registered", "launching"} /\ pc' = "raised" /\ Silent /\ Launcher

BeginMaterialize == pc = "launching" /\ pc' = "materializing" /\ Silent /\ Launcher

\* materialize itself raises: classified, and not checked for a cancel.
MaterializeRaises ==
    /\ pc = "materializing"
    /\ pc' = "raised"
    /\ End("failed", 0)
    /\ Launcher

DepsOf(a) == {d \in Assets : <<d, a>> \in Deps}

\* Variant: an asset that has raised is run again.
FailedRunAgain == {a \in Selected \ finished : DepsOf(a) \subseteq finished}

Runnable == {a \in Selected \ (finished \cup failed) : DepsOf(a) \subseteq finished}

\* Every selected asset has run, or is below one that has failed.
MaterializeReturns ==
    /\ pc = "materializing"
    /\ work.asset = "none"
    /\ Runnable = {}
    /\ pc' = "materialized"
    /\ Silent
    /\ Launcher

CancelAfterMaterialize ==
    /\ pc = "materialized"
    /\ token
    /\ pc' = "raised"
    /\ End("cancelled", 50)
    /\ Launcher

\* Variant: the token is not checked again.
PassUnchecked == pc = "materialized" /\ pc' = "checked" /\ Silent /\ Launcher

PassLastCheck ==
    pc = "materialized" /\ ~token /\ pc' = "checked" /\ Silent /\ Launcher

\* Variant: an unsuccessful result is raised without an event.
FailSilently ==
    pc = "checked" /\ failed # {} /\ pc' = "raised" /\ Silent /\ Launcher

ReportFailure ==
    /\ pc = "checked"
    /\ failed # {}
    /\ pc' = "raised"
    /\ End("failed", 0)
    /\ Launcher

EmitCompleted ==
    /\ pc = "checked"
    /\ failed = {}
    /\ pc' = "returned"
    /\ End("completed", 100)
    /\ Launcher

\* The handler discards the token and records the job of a launch that returned.
RecordJob ==
    /\ pc \in {"returned", "raised"}
    /\ pc' = "done"
    /\ recorded' = (pc = "returned")
    /\ UNCHANGED <<predictions, worldVars, graphVars, shown, ends>>

-----------------------------------------------------------------------------
(* _materialize_analyze_asset and ensure_analyze_outputs.                  *)

Rest == [asset |-> "none", task |-> "idle", next |-> 1]
Busy(task) == pc = "materializing" /\ work.task = task
Asset == UNCHANGED <<predictions, worldVars, pc, ends, recorded>>

\* Assets run one at a time; the first one starts the build.
StartAsset(a) ==
    /\ pc = "materializing"
    /\ work.asset = "none"
    /\ a \in Runnable
    /\ work' = [asset |-> a, task |-> IF state.built THEN "emit" ELSE "real", next |-> 1]
    /\ builds' = IF state.built THEN builds ELSE builds + 1
    /\ UNCHANGED <<state, finished, failed, shown>>
    /\ Asset

\* Go on with the stages of a task, or set built and emit after the last.
Advance(last, artifacts, newCounts) ==
    /\ state' = [state EXCEPT !.artifacts = artifacts, !.counts = @ \cup newCounts,
                              !.built = last]
    /\ work' = [work EXCEPT !.task = IF last THEN "emit" ELSE @, !.next = @ + 1]
    /\ UNCHANGED <<builds, finished, failed, shown>>
    /\ Asset

Mark(names, origin) ==
    [a \in Assets |-> IF a \in names THEN origin ELSE state.artifacts[a]]

BuildStage ==
    LET s == BuildStages[work.next] IN
    /\ Busy("real")
    /\ s.reads => archive
    /\ Advance(work.next = Len(BuildStages), Mark(s.artifacts, "real"), s.counts)

\* An ObjectStorageError at any stage, the missing archive among them, restarts
\* the build as a reference-only one; what was built so far stays in the state.
StorageError ==
    /\ Busy("real")
    /\ state' = [state EXCEPT !.mode = "reference_only"]
    /\ work' = [work EXCEPT !.task = "reference", !.next = 1]
    /\ UNCHANGED <<builds, finished, failed, shown>>
    /\ Asset

\* Variant: only outputs that are missing are replaced by references.
ReferenceIfMissing ==
    LET a == Expected[work.next] IN
    /\ Busy("reference")
    /\ Advance(work.next = Len(Expected),
               Mark(IF state.artifacts[a] = "none" THEN {a} ELSE {}, "reference"), {})

SaveReference ==
    /\ Busy("reference")
    /\ Advance(work.next = Len(Expected), Mark({Expected[work.next]}, "reference"), {})

\* The asset raises: any other error of a stage, any error of a reference-only
\* save or of the event sink.
AssetRaises ==
    /\ pc = "materializing"
    /\ work.asset # "none"
    /\ failed' = failed \cup {work.asset}
    /\ work' = Rest
    /\ UNCHANGED <<state, builds, finished, shown>>
    /\ Asset

EmitStage ==
    /\ Busy("emit")
    /\ Emit("running", StageProgress[work.asset])
    /\ finished' = finished \cup {work.asset}
    /\ work' = Rest
    /\ UNCHANGED <<state, builds, failed>>
    /\ Asset

Launch ==
    \/ CancelBeforeStart \/ PassFirstCheck
    \/ LauncherRaises \/ BeginMaterialize
    \/ MaterializeRaises \/ MaterializeReturns
    \/ CancelAfterMaterialize \/ PassLastCheck
    \/ ReportFailure \/ EmitCompleted \/ RecordJob

Materialize ==
    \/ \E a \in Assets : StartAsset(a)
    \/ BuildStage \/ StorageError \/ SaveReference \/ AssetRaises \/ EmitStage

AnalyzeNext == Launch \/ Materialize \/ TokenTriggered \/ ArchiveChanges

AnalyzeSpec == AnalyzeInit /\ [][AnalyzeNext]_analyzeVars

\* A handler that has started is executed by its thread to the end.
FairAnalyzeSpec == AnalyzeSpec /\ WF_analyzeVars(Launch \/ Materialize)

-----------------------------------------------------------------------------
(* Properties.                                                             *)

\* Assets finish or fail but not both, and only an asset that runs has a task.
AnalyzeTypeOK ==
    /\ pc \in {"registered", "launching", "materializing", "materialized",
               "checked", "returned", "raised", "done"}
    /\ {predictions, token, early, archive, recorded} \subseteq BOOLEAN
    /\ state.artifacts \in [Assets -> {"none", "real", "reference"}]
    /\ state.counts \subseteq {"manifest_row_count", "review_queue_size"}
    /\ state.mode \in {"none", "reference_only"} /\ state.built \in BOOLEAN
    /\ work.asset \in Assets \cup {"none"}
    /\ work.task \in {"idle", "real", "reference", "emit"}
    /\ work.task = "idle" <=> work.asset = "none"
    /\ work.next \in 1 .. Len(BuildStages) + Len(Expected)
    /\ finished \subseteq Selected /\ failed \subseteq Selected
    /\ finished \cap failed = {}

\* A run that announces COMPLETED has every expected output, and either all of
\* them come from the build or all are references and say so: an outage in the
\* middle of the build leaves no mixture behind.
CompletedSetIsWhole ==
    "completed" \in ToSet(ends) =>
        /\ finished = Selected
        /\ \/ /\ state.mode = "none"
              /\ state.counts = {"manifest_row_count", "review_queue_size"}
              /\ \A a \in Selected : state.artifacts[a] = "real"
           \/ /\ state.mode = "reference_only"
              /\ \A a \in Selected : state.artifacts[a] = "reference"

\* The outputs are built once for a run: an asset whose build raised takes all
\* others with it, so that no other asset builds over what it left.
OutputsBuiltOnce ==
    /\ builds <= 1
    /\ finished # {} => state.built

\* Unlike an apply run, an analyze run announces one end: a cancel before the
\* last check and COMPLETED exclude each other, and only runs that announced
\* COMPLETED and nothing else are recorded.
AnalyzeEndsOnce ==
    /\ Len(ends) <= 1
    /\ early => "completed" \notin ToSet(ends)
    /\ recorded => ends = <<"completed">>

\* The progress each finished asset was shown with.
Reached == [a \in finished |-> StageProgress[a]]

\* Where the outputs of a completed run come from.
Origin ==
    IF "completed" \notin ToSet(ends) THEN "none"
    ELSE IF \A a \in Selected : state.artifacts[a] = "real" THEN "build"
    ELSE IF \A a \in Selected : state.artifacts[a] = "reference" THEN "references"
    ELSE "mixed"

Contract ==
    INSTANCE AnalysisContract
    WITH Outputs <- Assets, Needs <- Deps, asked <- Selected, reached <- Reached, origin <- Origin

\* Events and outputs of an analysis are what AnalysisContract promises: in
\* whatever order the graph is run an asset shows more progress than the assets
\* it depends on, and nothing follows the end.
ImplementsAnalysisContract == Contract!ContractSpec

\* A job that has shown progress is told how the run ended, whatever fails.
StartedAnalyzeReportsAnEnd == (shown.status = "running") ~> (ends # <<>>)

=============================================================================
