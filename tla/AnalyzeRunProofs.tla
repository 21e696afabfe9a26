-------------------------- MODULE AnalyzeRunProofs --------------------------
(***************************************************************************)
(* What AnalyzeRun guarantees for any number of outages: whatever fails,   *)
(* and in whatever order the assets run, an analysis is built once, ends   *)
(* once, and announces COMPLETED for a whole set of outputs only.          *)
(***************************************************************************)
EXTENDS AnalyzeRun, TLAPS

Counts == {"manifest_row_count", "review_queue_size"}

\* The outputs are all built or all references, and the state says which.
OutputsWhole ==
    \/ /\ state.mode = "none" /\ state.counts = Counts
       /\ \A a \in Selected : state.artifacts[a] = "real"
    \/ /\ state.mode = "reference_only"
       /\ \A a \in Selected : state.artifacts[a] = "reference"

\* State and work have their fields.
FieldInv ==
    /\ state \in [artifacts : [Assets -> {"none", "real", "reference"}],
                  counts : SUBSET Counts, mode : {"none", "reference_only"},
                  built : BOOLEAN]
    /\ work \in [asset : Assets \cup {"none"}, next : Nat,
                 task : {"idle", "real", "reference", "emit"}]
    /\ builds \in {0, 1}

\* An asset that runs has neither finished nor failed, and its inputs are there.
WorkInv ==
    /\ work.next \in 1 .. Len(BuildStages) + Len(Expected)
    /\ work.asset # "none" =>
          work.asset \in Runnable /\ DepsOf(work.asset) \subseteq finished

\* How far a build has come, and what it has left in the state by then.
BuildInv ==
    /\ work.task = "real" =>
          /\ ~state.built /\ state.mode = "none"
          /\ work.next \in 1 .. Len(BuildStages)
          /\ \A i \in 1 .. work.next - 1 :
                /\ \A a \in BuildStages[i].artifacts : state.artifacts[a] = "real"
                /\ BuildStages[i].counts \subseteq state.counts
    /\ work.task = "reference" =>
          /\ ~state.built /\ state.mode = "reference_only"
          /\ work.next \in 1 .. Len(Expected)
          /\ \A i \in 1 .. work.next - 1 : state.artifacts[Expected[i]] = "reference"
    /\ work.task = "emit" => state.built
    /\ state.built => OutputsWhole

\* Until the outputs are built only the first asset can run or have failed.
FirstInv ==
    /\ state.built => builds = 1
    /\ ~state.built =>
          /\ finished = {}
          /\ \/ builds = 0 /\ work.asset = "none" /\ failed = {} /\ state.mode = "none"
             \/ builds = 1 /\ work.asset = "raw_manifest" /\ failed = {}
             \/ builds = 1 /\ work.asset = "none" /\ failed = {"raw_manifest"}

\* No terminal event yet, or this one and no other.
Open == ends = <<>>
Ended(status) == ends = <<status>>

\* The terminal event fits the position of handler and launcher.
EndInv ==
    /\ early => token
    /\ pc \in {"checked", "returned"} => ~early
    /\ recorded => pc = "done"
    /\ \/ Open /\ pc # "returned" /\ ~recorded
       \/ /\ Ended("completed") /\ pc \in {"returned", "done"}
          /\ ~early /\ finished = Selected
       \/ /\ Ended("cancelled") \/ Ended("failed")
          /\ pc \in {"raised", "done"} /\ ~recorded
    /\ pc \in {"materialized", "checked"} => Runnable = {}

AnalyzeInv == AnalyzeTypeOK /\ FieldInv /\ WorkInv /\ BuildInv /\ FirstInv /\ EndInv

-----------------------------------------------------------------------------
(* The graph and the stages, for requests with and without predictions.    *)

Base ==
    {"raw_manifest", "validated_manifest", "tabular_profile_report",
     "object_analytics_passports", "evidence_bundle", "decision_report",
     "recommended_actions", "review_queue"}

OfPredictions ==
    {"prediction_manifest", "prediction_validation_report",
     "model_error_analysis_report", "ambiguous_object_candidates",
     "probable_label_error_candidates"}

\* The assets by name, and those a request selects.
LEMMA AssetNames ==
    ASSUME predictions \in BOOLEAN
    PROVE  /\ Assets = Base \cup OfPredictions
           /\ Selected = IF predictions THEN Assets ELSE Base
<1>1. Assets = Base \cup OfPredictions
  BY DEF Assets, BaseAssets, PredictionAssets, ToSet, Base, OfPredictions
<1>2. ToSet(BaseAssets) = Base
  BY DEF BaseAssets, ToSet, Base
<1>3. ToSet(BaseAssets \o PredictionAssets) = Assets
  BY DEF Assets
<1> QED
  BY <1>1, <1>2, <1>3 DEF Selected, Expected

\* Every asset except the first needs another one.
LEMMA OnlyRawManifestIsFirst ==
    ASSUME predictions \in BOOLEAN, NEW a \in Assets, DepsOf(a) = {}
    PROVE  a = "raw_manifest"
<1> SUFFICES ASSUME a # "raw_manifest" PROVE \E d \in Assets : <<d, a>> \in Deps
  BY DEF DepsOf
<1>1. Base \subseteq Assets /\ OfPredictions \subseteq Assets
  BY AssetNames
<1>2. a \in (Base \cup OfPredictions) \ {"raw_manifest"}
  BY AssetNames
<1> QED
  BY <1>1, <1>2 DEF Base, OfPredictions, Deps, BelowManifest

\* When nothing has failed and nothing can run, everything has finished.
LEMMA NothingIsLeft ==
    ASSUME predictions \in BOOLEAN, finished \subseteq Selected, failed = {},
           Runnable = {}
    PROVE  finished = Selected
<1>1. \A a \in Selected : DepsOf(a) \subseteq finished => a \in finished
  BY DEF Runnable
<1>2. DepsOf("raw_manifest") = {}
  BY DEF DepsOf, Deps, BelowManifest
<1>3. /\ DepsOf("validated_manifest") \subseteq {"raw_manifest"}
      /\ DepsOf("tabular_profile_report") \subseteq {"validated_manifest"}
      /\ DepsOf("object_analytics_passports") \subseteq {"tabular_profile_report"}
      /\ DepsOf("evidence_bundle") \subseteq {"object_analytics_passports"}
      /\ DepsOf("decision_report") \subseteq {"evidence_bundle"}
      /\ DepsOf("recommended_actions") \subseteq {"decision_report"}
      /\ DepsOf("review_queue") \subseteq {"decision_report"}
  BY DEF DepsOf, Deps, BelowManifest
<1>4. /\ DepsOf("prediction_manifest") \subseteq {"validated_manifest"}
      /\ DepsOf("prediction_validation_report") \subseteq {"prediction_manifest"}
      /\ DepsOf("model_error_analysis_report") \subseteq {"prediction_validation_report"}
      /\ DepsOf("ambiguous_object_candidates") \subseteq {"model_error_analysis_report"}
      /\ DepsOf("probable_label_error_candidates") \subseteq {"model_error_analysis_report"}
  BY DEF DepsOf, Deps, BelowManifest
<1>5. Base \subseteq Selected
  BY AssetNames
<1>6. {"raw_manifest", "validated_manifest", "tabular_profile_report"} \subseteq finished
  BY <1>1, <1>2, <1>3, <1>5 DEF Base
<1>7. {"object_analytics_passports", "evidence_bundle", "decision_report"} \subseteq finished
  BY <1>1, <1>3, <1>5, <1>6 DEF Base
<1>8. Base \subseteq finished
  BY <1>1, <1>3, <1>5, <1>6, <1>7 DEF Base
<1>9. CASE predictions = FALSE
  BY <1>8, <1>9, AssetNames
<1>10. CASE predictions = TRUE
  <2>1. OfPredictions \subseteq Selected
    BY <1>10, AssetNames
  <2>2. OfPredictions \subseteq finished
    BY <1>1, <1>4, <1>6, <2>1 DEF OfPredictions
  <2> QED
    BY <1>8, <2>2, <1>10, AssetNames
<1> QED
  BY <1>9, <1>10

\* Progress grows along every edge of the graph.
LEMMA ProgressGrows ==
    ASSUME NEW a \in Assets, NEW d \in DepsOf(a)
    PROVE  StageProgress[d] < StageProgress[a]
  BY DEF DepsOf, Deps, BelowManifest, StageProgress

\* The stages leave every output and both counts behind.
LEMMA StagesAreWhole ==
    ASSUME predictions \in BOOLEAN
    PROVE  /\ Len(BuildStages) \in Nat \ {0}
           /\ \A i \in 1 .. Len(BuildStages) : BuildStages[i].counts \subseteq Counts
           /\ \A a \in Selected : \E i \in 1 .. Len(BuildStages) :
                 a \in BuildStages[i].artifacts
           /\ \A c \in Counts : \E i \in 1 .. Len(BuildStages) :
                 c \in BuildStages[i].counts
<1>1. CASE predictions = TRUE
  BY <1>1, AssetNames DEF BuildStages, ModelErrorStages, Stage, Counts, Base, OfPredictions
<1>2. CASE predictions = FALSE
  BY <1>2, AssetNames DEF BuildStages, ModelErrorStages, Stage, Counts, Base, OfPredictions
<1> QED
  BY <1>1, <1>2

\* The expected outputs are the selected assets.
LEMMA ExpectedIsSelected ==
    ASSUME predictions \in BOOLEAN
    PROVE  /\ Len(Expected) \in Nat \ {0}
           /\ Expected \in Seq(Assets)
           /\ \A a \in Selected : \E i \in 1 .. Len(Expected) : Expected[i] = a
<1>1. CASE predictions = TRUE
  BY <1>1, AssetNames DEF Expected, Selected, ToSet, BaseAssets, PredictionAssets, Base, OfPredictions
<1>2. CASE predictions = FALSE
  BY <1>2, AssetNames DEF Expected, Selected, ToSet, BaseAssets, PredictionAssets, Base, OfPredictions
<1> QED
  BY <1>1, <1>2

-----------------------------------------------------------------------------
(* The invariant holds initially.                                          *)

LEMMA AnalyzeInitInv == AnalyzeInit => AnalyzeInv
<1> SUFFICES ASSUME AnalyzeInit PROVE AnalyzeInv
  OBVIOUS
<1>1. predictions \in BOOLEAN /\ "none" \notin Assets
  BY AssetNames DEF AnalyzeInit, Base, OfPredictions
<1>2. /\ Len(BuildStages) \in Nat \ {0} /\ Len(Expected) \in Nat \ {0}
  BY <1>1, StagesAreWhole, ExpectedIsSelected
<1>3. AnalyzeTypeOK
  <2>1. 1 \in 1 .. Len(BuildStages) + Len(Expected)
    BY <1>2
  <2>2. {predictions, token, early, archive, recorded} \subseteq BOOLEAN
    BY DEF AnalyzeInit
  <2>3. /\ work.asset = "none" /\ work.task = "idle" /\ work.next = 1
        /\ state.artifacts = [a \in Assets |-> "none"] /\ state.counts = {}
        /\ state.mode = "none" /\ state.built = FALSE
    BY DEF AnalyzeInit
  <2> QED
    BY <2>1, <2>2, <2>3 DEF AnalyzeInit, AnalyzeTypeOK
<1>4. FieldInv
  BY <1>1 DEF AnalyzeInit, FieldInv, Counts
<1>5. WorkInv /\ BuildInv /\ FirstInv
  BY <1>1, <1>2 DEF AnalyzeInit, WorkInv, BuildInv, FirstInv
<1>6. EndInv
  <2>1. Open
    BY DEF AnalyzeInit, Open
  <2> QED
    BY <2>1 DEF AnalyzeInit, EndInv
<1> QED
  BY <1>3, <1>4, <1>5, <1>6 DEF AnalyzeInv

-----------------------------------------------------------------------------
(* Steps of the launcher, of the handler and of the world leave the graph  *)
(* and its state alone.                                                    *)

\* Selection, outputs and stages depend on the request only.
LEMMA RequestFixed ==
    ASSUME predictions' = predictions
    PROVE  /\ Selected' = Selected /\ Expected' = Expected
           /\ BuildStages' = BuildStages
  BY DEF Selected, Expected, BuildStages, ModelErrorStages

\* The parts of the invariant about the graph do not depend on the rest.
LEMMA GraphUntouched ==
    ASSUME AnalyzeInv, UNCHANGED <<predictions, graphVars>>
    PROVE  /\ WorkInv' /\ BuildInv' /\ FirstInv' /\ Runnable' = Runnable
           /\ Selected' = Selected
<1>1. Selected' = Selected /\ Expected' = Expected /\ BuildStages' = BuildStages
  BY RequestFixed
<1>2. Runnable' = Runnable
  BY <1>1 DEF graphVars, Runnable
<1>3. WorkInv'
  BY <1>1, <1>2 DEF AnalyzeInv, WorkInv, graphVars
<1>4. BuildInv'
  BY <1>1 DEF AnalyzeInv, BuildInv, OutputsWhole, graphVars
<1>5. FirstInv'
  BY DEF AnalyzeInv, FirstInv, graphVars
<1> QED
  BY <1>1, <1>2, <1>3, <1>4, <1>5

\* The first terminal event is the only one so far.
LEMMA FirstEnd ==
    ASSUME Open, NEW status \in {"completed", "cancelled", "failed"}, NEW progress,
           End(status, progress)
    PROVE  Ended(status)'
  BY DEF Open, Ended, End

LEMMA EndKept ==
    ASSUME ends' = ends
    PROVE  (Open <=> Open') /\ \A status : Ended(status) <=> Ended(status)'
  BY DEF Open, Ended

\* The only terminal event of a launcher that goes on is still to come.
LEMMA LaunchInv ==
    ASSUME AnalyzeInv, Launch
    PROVE  AnalyzeInv'
<1> USE DEF AnalyzeInv
<1>1. UNCHANGED <<predictions, worldVars, graphVars>>
  BY DEF Launch, CancelBeforeStart, PassFirstCheck, LauncherRaises, BeginMaterialize,
         MaterializeRaises, MaterializeReturns, CancelAfterMaterialize, PassLastCheck,
         ReportFailure, EmitCompleted, RecordJob, Launcher
<1>2. /\ WorkInv' /\ BuildInv' /\ FirstInv' /\ Runnable' = Runnable
      /\ Selected' = Selected
  BY <1>1, GraphUntouched
<1>3. Expected' = Expected /\ BuildStages' = BuildStages
  BY <1>1, RequestFixed
<1>4. /\ pc' \in {"registered", "launching", "materializing", "materialized",
                  "checked", "returned", "raised", "done"}
      /\ recorded' \in BOOLEAN
      /\ EndInv'
  <2> USE <1>1, <1>2 DEF EndInv, AnalyzeTypeOK, worldVars, graphVars
  <2>1. CASE PassFirstCheck \/ LauncherRaises \/ BeginMaterialize \/ MaterializeReturns
    <3>1. ends' = ends /\ pc \in {"registered", "launching", "materializing"}
      BY <2>1 DEF PassFirstCheck, LauncherRaises, BeginMaterialize, MaterializeReturns, Silent
    <3> QED
      BY <2>1, <3>1, EndKept DEF PassFirstCheck, LauncherRaises, BeginMaterialize,
         MaterializeReturns, Launcher
  <2>2. CASE CancelBeforeStart
    <3>1. Open /\ End("cancelled", 0)
      BY <2>2 DEF CancelBeforeStart
    <3> QED
      BY <2>2, <3>1, FirstEnd DEF CancelBeforeStart, Launcher
  <2>3. CASE MaterializeRaises
    <3>1. Open /\ End("failed", 0)
      BY <2>3 DEF MaterializeRaises
    <3> QED
      BY <2>3, <3>1, FirstEnd DEF MaterializeRaises, Launcher
  <2>4. CASE CancelAfterMaterialize
    <3>1. Open /\ End("cancelled", 50)
      BY <2>4 DEF CancelAfterMaterialize
    <3> QED
      BY <2>4, <3>1, FirstEnd DEF CancelAfterMaterialize, Launcher
  <2>5. CASE PassLastCheck
    <3>1. ends' = ends
      BY <2>5 DEF PassLastCheck, Silent
    <3> QED
      BY <2>5, <3>1, EndKept DEF PassLastCheck, Launcher
  <2>6. CASE ReportFailure
    <3>1. Open /\ End("failed", 0)
      BY <2>6 DEF ReportFailure
    <3> QED
      BY <2>6, <3>1, FirstEnd DEF ReportFailure, Launcher
  <2>7. CASE EmitCompleted
    <3>1. Open /\ End("completed", 100)
      BY <2>7 DEF EmitCompleted
    <3>2. finished = Selected
      BY <2>7, NothingIsLeft DEF EmitCompleted
    <3> QED
      BY <2>7, <3>1, <3>2, FirstEnd DEF EmitCompleted, Launcher
  <2>8. CASE RecordJob
    <3>1. ends' = ends
      BY <2>8 DEF RecordJob
    <3> QED
      BY <2>8, <3>1, EndKept DEF RecordJob
  <2> QED
    BY <2>1, <2>2, <2>3, <2>4, <2>5, <2>6, <2>7, <2>8 DEF Launch
<1>5. FieldInv'
  BY <1>1, <1>4 DEF FieldInv, graphVars
<1>6. AnalyzeTypeOK'
  BY <1>1, <1>2, <1>3, <1>4 DEF AnalyzeTypeOK, worldVars, graphVars
<1> QED
  BY <1>2, <1>4, <1>5, <1>6

\* A cancel that comes after the last check is not an early one.
LEMMA WorldInv ==
    ASSUME AnalyzeInv, TokenTriggered \/ ArchiveChanges \/ UNCHANGED analyzeVars
    PROVE  AnalyzeInv'
<1> USE DEF AnalyzeInv
<1>1. UNCHANGED <<predictions, graphVars>> /\ UNCHANGED launchVars
  BY DEF TokenTriggered, ArchiveChanges, analyzeVars
<1>2. /\ WorkInv' /\ BuildInv' /\ FirstInv' /\ Runnable' = Runnable
      /\ Selected' = Selected
  BY <1>1, GraphUntouched
<1>3. Expected' = Expected /\ BuildStages' = BuildStages
  BY <1>1, RequestFixed
<1>4. FieldInv'
  BY <1>1 DEF FieldInv, graphVars, launchVars
<1>5. token' \in BOOLEAN /\ early' \in BOOLEAN /\ archive' \in BOOLEAN
  <2>1. CASE TokenTriggered
    BY <2>1 DEF TokenTriggered, AnalyzeTypeOK
  <2>2. CASE ArchiveChanges
    BY <2>2 DEF ArchiveChanges, AnalyzeTypeOK
  <2>3. CASE UNCHANGED analyzeVars
    BY <2>3 DEF analyzeVars, worldVars, AnalyzeTypeOK
  <2> QED
    BY <2>1, <2>2, <2>3
<1>6. AnalyzeTypeOK'
  BY <1>1, <1>2, <1>3, <1>5 DEF AnalyzeTypeOK, launchVars, graphVars
<1>7. EndInv'
  <2>1. (Open <=> Open') /\ \A status : Ended(status) <=> Ended(status)'
    BY <1>1, EndKept DEF launchVars
  <2> QED
    BY <1>1, <1>2, <2>1 DEF TokenTriggered, ArchiveChanges, analyzeVars, worldVars, launchVars,
       graphVars, EndInv, AnalyzeTypeOK
<1> QED
  BY <1>2, <1>4, <1>6, <1>7

-----------------------------------------------------------------------------
(* Steps of the asset that runs.                                           *)

\* Assets report no end: while they run the launcher still has to.
LEMMA AssetsEndNothing ==
    ASSUME AnalyzeInv, pc = "materializing", Asset
    PROVE  /\ EndInv' /\ predictions \in BOOLEAN /\ predictions' = predictions
           /\ Selected' = Selected /\ Expected' = Expected
           /\ BuildStages' = BuildStages
<1>1. predictions \in BOOLEAN /\ predictions' = predictions
  BY DEF AnalyzeInv, AnalyzeTypeOK, Asset
<1>2. (Open <=> Open') /\ \A status : Ended(status) <=> Ended(status)'
  BY EndKept DEF Asset
<1>3. EndInv'
  BY <1>2 DEF AnalyzeInv, EndInv, Asset, worldVars
<1> QED
  BY <1>1, <1>3, RequestFixed

\* The parts of AnalyzeTypeOK that assets change follow from the other parts.
LEMMA AssetTypes ==
    ASSUME AnalyzeInv, pc = "materializing", Asset, FieldInv', WorkInv',
           work'.task = "idle" <=> work'.asset = "none",
           finished' \subseteq Selected, failed' \subseteq Selected,
           finished' \cap failed' = {}
    PROVE  AnalyzeTypeOK'
<1>1. Selected' = Selected /\ Expected' = Expected /\ BuildStages' = BuildStages
  BY AssetsEndNothing
<1>2. /\ state'.artifacts \in [Assets -> {"none", "real", "reference"}]
      /\ state'.counts \subseteq {"manifest_row_count", "review_queue_size"}
      /\ state'.mode \in {"none", "reference_only"} /\ state'.built \in BOOLEAN
      /\ work'.asset \in Assets \cup {"none"}
      /\ work'.task \in {"idle", "real", "reference", "emit"}
  BY DEF FieldInv, Counts
<1>3. /\ pc' = pc /\ predictions' = predictions /\ token' = token
      /\ early' = early /\ archive' = archive /\ recorded' = recorded
  BY DEF Asset, worldVars
<1> QED
  BY <1>1, <1>2, <1>3 DEF AnalyzeInv, AnalyzeTypeOK, WorkInv

\* The first asset that starts, and no other, starts the build.
LEMMA StartInv ==
    ASSUME AnalyzeInv, NEW a \in Assets, StartAsset(a)
    PROVE  AnalyzeInv'
<1> USE DEF AnalyzeInv
<1>1. pc = "materializing" /\ Asset
  BY DEF StartAsset
<1>2. /\ EndInv' /\ predictions \in BOOLEAN
      /\ Selected' = Selected /\ Expected' = Expected /\ BuildStages' = BuildStages
  BY <1>1, AssetsEndNothing
<1>3. /\ work.asset = "none" /\ a \in Runnable /\ a # "none"
      /\ work' = [asset |-> a, task |-> IF state.built THEN "emit" ELSE "real", next |-> 1]
      /\ builds' = IF state.built THEN builds ELSE builds + 1
      /\ state' = state /\ finished' = finished /\ failed' = failed
  BY <1>2, AssetNames DEF StartAsset, Base, OfPredictions
<1>4. /\ work'.asset = a /\ work'.next = 1
      /\ work'.task = IF state.built THEN "emit" ELSE "real"
      /\ state.built \in BOOLEAN
  BY <1>3 DEF FieldInv
<1>5. Len(BuildStages) \in Nat \ {0} /\ Len(Expected) \in Nat \ {0}
  BY <1>2, StagesAreWhole, ExpectedIsSelected
<1>6. Runnable' = Runnable
  BY <1>2, <1>3 DEF Runnable
<1>7. DepsOf(a) \subseteq finished
  BY <1>3 DEF Runnable
<1>8. BuildInv' /\ FirstInv'
  <2>1. CASE state.built
    <3>1. FirstInv'
      BY <1>3, <1>4, <2>1 DEF FirstInv
    <3>2. BuildInv'
      BY <1>2, <1>3, <1>4, <2>1 DEF BuildInv, OutputsWhole
    <3> QED
      BY <3>1, <3>2
  <2>2. CASE ~state.built
    <3>1. finished = {} /\ work.asset = "none"
      BY <1>3, <2>2 DEF FirstInv
    <3>2. a = "raw_manifest"
      BY <1>2, <1>7, <3>1, OnlyRawManifestIsFirst
    <3>3. a \notin failed
      BY <1>3 DEF Runnable
    <3>4. builds = 0 /\ failed = {} /\ state.mode = "none"
      BY <1>3, <2>2, <3>2, <3>3, AssetNames DEF FirstInv
    <3>5. FirstInv'
      BY <1>3, <1>4, <2>2, <3>1, <3>2, <3>4 DEF FirstInv
    <3>6. BuildInv'
      BY <1>2, <1>3, <1>4, <1>5, <2>2, <3>4 DEF BuildInv
    <3> QED
      BY <3>5, <3>6
  <2> QED
    BY <2>1, <2>2
<1>9. builds' \in {0, 1}
  BY <1>3, <1>4, <1>8 DEF FirstInv
<1>10. WorkInv'
  BY <1>2, <1>3, <1>4, <1>5, <1>6, <1>7 DEF WorkInv
<1>11. FieldInv'
  BY <1>3, <1>9 DEF FieldInv
<1>12. AnalyzeTypeOK'
  BY <1>1, <1>3, <1>4, <1>10, <1>11, AssetTypes DEF AnalyzeTypeOK
<1> QED
  BY <1>2, <1>8, <1>10, <1>11, <1>12

\* A task that goes on: the same asset, with the state it has got to.
LEMMA AdvanceInv ==
    ASSUME AnalyzeInv, pc = "materializing", work.task \in {"real", "reference"},
           NEW last \in BOOLEAN, NEW artifacts \in [Assets -> {"none", "real", "reference"}],
           NEW counts \in SUBSET Counts,
           Advance(last, artifacts, counts),
           work.next + 1 \in 1 .. Len(BuildStages) + Len(Expected),
           BuildInv'
    PROVE  AnalyzeInv'
<1> USE DEF AnalyzeInv
<1>1. Asset
  BY DEF Advance
<1>2. /\ EndInv' /\ predictions \in BOOLEAN
      /\ Selected' = Selected /\ Expected' = Expected /\ BuildStages' = BuildStages
  BY <1>1, AssetsEndNothing
<1>3. /\ builds' = builds /\ finished' = finished /\ failed' = failed
      /\ state' = [state EXCEPT !.artifacts = artifacts, !.counts = @ \cup counts, !.built = last]
      /\ work' = [work EXCEPT !.task = IF last THEN "emit" ELSE @, !.next = @ + 1]
  BY DEF Advance
<1>4. FieldInv'
  <2>1. state.counts \cup counts \in SUBSET Counts /\ work.next + 1 \in Nat
    BY DEF FieldInv
  <2>2. state' = [state EXCEPT !.artifacts = artifacts, !.counts = state.counts \cup counts,
                               !.built = last]
    BY <1>3 DEF FieldInv
  <2>3. work' \in [asset : Assets \cup {"none"}, next : Nat,
                   task : {"idle", "real", "reference", "emit"}]
    BY <1>3, <2>1 DEF FieldInv
  <2>4. state' \in [artifacts : [Assets -> {"none", "real", "reference"}],
                    counts : SUBSET Counts, mode : {"none", "reference_only"},
                    built : BOOLEAN]
    BY <2>1, <2>2 DEF FieldInv
  <2> QED
    BY <1>3, <2>3, <2>4 DEF FieldInv
<1>5. /\ work'.asset = work.asset /\ work'.next = work.next + 1
      /\ work'.task = IF last THEN "emit" ELSE work.task
      /\ state'.built = last /\ state'.mode = state.mode
  BY <1>3 DEF FieldInv
<1>6. Runnable' = Runnable
  BY <1>2, <1>3 DEF Runnable
<1>7. WorkInv'
  BY <1>2, <1>3, <1>5, <1>6 DEF WorkInv
<1>8. ~state.built /\ work.asset # "none"
  BY DEF BuildInv, AnalyzeTypeOK
<1>9. FirstInv'
  BY <1>3, <1>5, <1>8 DEF FirstInv
<1>10. AnalyzeTypeOK'
  BY <1>1, <1>3, <1>4, <1>5, <1>7, <1>8, AssetTypes DEF AnalyzeTypeOK
<1> QED
  BY <1>2, <1>4, <1>7, <1>9, <1>10

\* Marking outputs yields outputs, and leaves those of earlier stages real.
LEMMA MarkTyped ==
    ASSUME FieldInv, NEW names, NEW origin \in {"real", "reference"}
    PROVE  /\ Mark(names, origin) \in [Assets -> {"none", "real", "reference"}]
           /\ \A a \in Assets : Mark(names, origin)[a] =
                 IF a \in names THEN origin ELSE state.artifacts[a]
  BY DEF FieldInv, Mark

\* Outputs are assets.
LEMMA StageArtifacts ==
    ASSUME predictions \in BOOLEAN
    PROVE  \A i \in 1 .. Len(BuildStages) : BuildStages[i].artifacts \subseteq Assets
<1>1. CASE predictions = TRUE
  BY <1>1, AssetNames DEF BuildStages, ModelErrorStages, Stage, Base, OfPredictions
<1>2. CASE predictions = FALSE
  BY <1>2, AssetNames DEF BuildStages, ModelErrorStages, Stage, Base, OfPredictions
<1> QED
  BY <1>1, <1>2

\* A build that has come to its last stage has all outputs and both counts.
LEMMA BuildStageInv ==
    ASSUME AnalyzeInv, BuildStage
    PROVE  AnalyzeInv'
<1> USE DEF AnalyzeInv
<1> DEFINE s == BuildStages[work.next]
           last == work.next = Len(BuildStages)
           artifacts == Mark(s.artifacts, "real")
<1>1. /\ pc = "materializing" /\ work.task = "real"
      /\ Advance(last, artifacts, s.counts)
  BY DEF BuildStage, Busy
<1>2. /\ predictions \in BOOLEAN
      /\ Selected' = Selected /\ Expected' = Expected /\ BuildStages' = BuildStages
  BY <1>1, AssetsEndNothing DEF Advance
<1>3. /\ ~state.built /\ state.mode = "none"
      /\ work.next \in 1 .. Len(BuildStages)
      /\ \A i \in 1 .. work.next - 1 :
            /\ \A a \in BuildStages[i].artifacts : state.artifacts[a] = "real"
            /\ BuildStages[i].counts \subseteq state.counts
  BY <1>1 DEF BuildInv
<1>4. Len(BuildStages) \in Nat \ {0} /\ Len(Expected) \in Nat \ {0}
  BY <1>2, StagesAreWhole, ExpectedIsSelected
<1>5. /\ artifacts \in [Assets -> {"none", "real", "reference"}]
      /\ \A a \in Assets : artifacts[a] =
            IF a \in s.artifacts THEN "real" ELSE state.artifacts[a]
  BY MarkTyped
<1>6. s.counts \in SUBSET Counts
  BY <1>2, <1>3, StagesAreWhole
<1>7. /\ state'.artifacts = artifacts /\ state'.counts = state.counts \cup s.counts
      /\ state'.mode = "none" /\ state'.built = last
      /\ work'.task = (IF last THEN "emit" ELSE "real") /\ work'.next = work.next + 1
  BY <1>1, <1>3 DEF Advance, FieldInv
<1>8. \A i \in 1 .. work.next :
         /\ \A a \in BuildStages[i].artifacts : artifacts[a] = "real"
         /\ BuildStages[i].counts \subseteq state'.counts
  <2> SUFFICES ASSUME NEW i \in 1 .. work.next
               PROVE  /\ \A a \in BuildStages[i].artifacts : artifacts[a] = "real"
                      /\ BuildStages[i].counts \subseteq state'.counts
    OBVIOUS
  <2>1. BuildStages[i].artifacts \subseteq Assets
    BY <1>2, <1>3, <1>4, StageArtifacts
  <2>2. CASE i = work.next
    BY <1>5, <1>7, <2>1, <2>2
  <2>3. CASE i # work.next
    <3>1. i \in 1 .. work.next - 1
      BY <1>3, <1>4, <2>3
    <3> QED
      BY <1>3, <1>5, <1>7, <2>1, <3>1
  <2> QED
    BY <2>2, <2>3
<1>9. BuildInv'
  <2>1. CASE last
    <3>1. \A a \in Selected : artifacts[a] = "real"
      BY <1>2, <1>8, <2>1, StagesAreWhole
    <3>2. Counts \subseteq state'.counts /\ state'.counts \subseteq Counts
      BY <1>2, <1>6, <1>7, <1>8, <2>1, StagesAreWhole DEF FieldInv
    <3>3. OutputsWhole'
      BY <1>2, <1>7, <3>1, <3>2 DEF OutputsWhole
    <3> QED
      BY <1>7, <2>1, <3>3 DEF BuildInv
  <2>2. CASE ~last
    <3>1. work'.next \in 1 .. Len(BuildStages) /\ work'.next - 1 = work.next
      BY <1>3, <1>4, <1>7, <2>2
    <3> QED
      BY <1>2, <1>7, <1>8, <2>2, <3>1 DEF BuildInv
  <2> QED
    BY <2>1, <2>2
<1>10. work.next + 1 \in 1 .. Len(BuildStages) + Len(Expected)
  BY <1>3, <1>4
<1> HIDE DEF s, last, artifacts
<1>11. last \in BOOLEAN
  BY DEF last
<1> QED
  BY <1>1, <1>5, <1>6, <1>9, <1>10, <1>11, AdvanceInv

\* A reference-only run that has come to its last output has only references.
LEMMA SaveReferenceInv ==
    ASSUME AnalyzeInv, SaveReference
    PROVE  AnalyzeInv'
<1> USE DEF AnalyzeInv
<1> DEFINE last == work.next = Len(Expected)
           artifacts == Mark({Expected[work.next]}, "reference")
<1>1. /\ pc = "materializing" /\ work.task = "reference"
      /\ Advance(last, artifacts, {})
  BY DEF SaveReference, Busy
<1>2. /\ predictions \in BOOLEAN
      /\ Selected' = Selected /\ Expected' = Expected /\ BuildStages' = BuildStages
  BY <1>1, AssetsEndNothing DEF Advance
<1>3. /\ ~state.built /\ state.mode = "reference_only"
      /\ work.next \in 1 .. Len(Expected)
      /\ \A i \in 1 .. work.next - 1 : state.artifacts[Expected[i]] = "reference"
  BY <1>1 DEF BuildInv
<1>4. Len(BuildStages) \in Nat \ {0} /\ Len(Expected) \in Nat \ {0}
  BY <1>2, StagesAreWhole, ExpectedIsSelected
<1>5. /\ artifacts \in [Assets -> {"none", "real", "reference"}]
      /\ \A a \in Assets : artifacts[a] =
            IF a \in {Expected[work.next]} THEN "reference" ELSE state.artifacts[a]
  BY MarkTyped
<1>6. /\ state'.artifacts = artifacts /\ state'.mode = "reference_only" /\ state'.built = last
      /\ work'.task = (IF last THEN "emit" ELSE "reference") /\ work'.next = work.next + 1
  BY <1>1, <1>3 DEF Advance, FieldInv
<1>7. \A i \in 1 .. work.next : artifacts[Expected[i]] = "reference"
  <2> SUFFICES ASSUME NEW i \in 1 .. work.next PROVE artifacts[Expected[i]] = "reference"
    OBVIOUS
  <2>1. Expected[i] \in Assets
    BY <1>2, <1>3, <1>4, ExpectedIsSelected
  <2>2. CASE i = work.next
    BY <1>5, <2>1, <2>2
  <2>3. CASE i # work.next
    <3>1. i \in 1 .. work.next - 1
      BY <1>3, <1>4, <2>3
    <3> QED
      BY <1>3, <1>5, <2>1, <3>1
  <2> QED
    BY <2>2, <2>3
<1>8. BuildInv'
  <2>1. CASE last
    <3>1. \A a \in Selected : artifacts[a] = "reference"
      BY <1>2, <1>7, <2>1, ExpectedIsSelected
    <3>2. OutputsWhole'
      BY <1>2, <1>6, <3>1 DEF OutputsWhole
    <3>3. work'.task = "emit" /\ state'.built
      BY <1>6, <2>1
    <3> QED
      BY <3>2, <3>3 DEF BuildInv
  <2>2. CASE ~last
    <3>1. work.next + 1 \in 1 .. Len(Expected) /\ (work.next + 1) - 1 = work.next
      BY <1>3, <1>4, <2>2
    <3>2. work'.next \in 1 .. Len(Expected) /\ work'.next - 1 = work.next
      BY <1>6, <3>1
    <3> QED
      BY <1>2, <1>6, <1>7, <2>2, <3>2 DEF BuildInv
  <2> QED
    BY <2>1, <2>2
<1>9. work.next + 1 \in 1 .. Len(BuildStages) + Len(Expected)
  BY <1>3, <1>4
<1> HIDE DEF last, artifacts
<1>10. last \in BOOLEAN
  BY DEF last
<1> QED
  BY <1>1, <1>5, <1>8, <1>9, <1>10, AdvanceInv

\* A reference-only build starts over, as often as an asset that runs asks for it.
LEMMA StorageErrorInv ==
    ASSUME AnalyzeInv, StorageError
    PROVE  AnalyzeInv'
<1> USE DEF AnalyzeInv
<1>1. /\ pc = "materializing" /\ work.task = "real" /\ Asset
      /\ state' = [state EXCEPT !.mode = "reference_only"]
      /\ work' = [work EXCEPT !.task = "reference", !.next = 1]
      /\ builds' = builds /\ finished' = finished /\ failed' = failed
  BY DEF StorageError, Busy
<1>2. /\ EndInv' /\ predictions \in BOOLEAN
      /\ Selected' = Selected /\ Expected' = Expected /\ BuildStages' = BuildStages
  BY <1>1, AssetsEndNothing
<1>3. Len(BuildStages) \in Nat \ {0} /\ Len(Expected) \in Nat \ {0}
  BY <1>2, StagesAreWhole, ExpectedIsSelected
<1>4. FieldInv'
  BY <1>1 DEF FieldInv
<1>5. /\ work'.asset = work.asset /\ work'.next = 1 /\ work'.task = "reference"
      /\ state'.built = state.built /\ state'.mode = "reference_only"
  BY <1>1 DEF FieldInv
<1>6. ~state.built /\ work.asset # "none"
  BY <1>1 DEF BuildInv, AnalyzeTypeOK
<1>7. Runnable' = Runnable
  BY <1>1, <1>2 DEF Runnable
<1>8. WorkInv'
  BY <1>1, <1>2, <1>3, <1>5, <1>7 DEF WorkInv
<1>9. BuildInv'
  BY <1>2, <1>3, <1>5, <1>6 DEF BuildInv
<1>10. FirstInv'
  BY <1>1, <1>5, <1>6 DEF FirstInv
<1>11. AnalyzeTypeOK'
  BY <1>1, <1>4, <1>5, <1>6, <1>8, AssetTypes DEF AnalyzeTypeOK
<1> QED
  BY <1>2, <1>4, <1>8, <1>9, <1>10, <1>11

\* An asset that leaves, with its event or with an error, gives its place back.
LEMMA RestInv ==
    ASSUME AnalyzeInv, Asset, pc = "materializing", work.asset # "none",
           work' = Rest, state' = state, builds' = builds,
           \/ /\ state.built
              /\ finished' = finished \cup {work.asset} /\ failed' = failed
           \/ finished' = finished /\ failed' = failed \cup {work.asset}
    PROVE  AnalyzeInv'
<1> USE DEF AnalyzeInv
<1>1. /\ EndInv' /\ predictions \in BOOLEAN
      /\ Selected' = Selected /\ Expected' = Expected /\ BuildStages' = BuildStages
  BY AssetsEndNothing
<1>2. Len(BuildStages) \in Nat \ {0} /\ Len(Expected) \in Nat \ {0}
  BY <1>1, StagesAreWhole, ExpectedIsSelected
<1>3. work'.asset = "none" /\ work'.task = "idle" /\ work'.next = 1
  BY DEF Rest
<1>4. work.asset \in Selected \ (finished \cup failed)
  BY DEF WorkInv, Runnable
<1>5. FieldInv'
  BY DEF FieldInv, Rest
<1>6. WorkInv'
  BY <1>1, <1>2, <1>3 DEF WorkInv
<1>7. BuildInv'
  BY <1>1, <1>3 DEF BuildInv, OutputsWhole
<1>8. FirstInv'
  BY <1>3 DEF FirstInv
<1>9. /\ finished' \subseteq Selected /\ failed' \subseteq Selected
      /\ finished' \cap failed' = {}
  BY <1>4 DEF AnalyzeTypeOK
<1>10. AnalyzeTypeOK'
  BY <1>3, <1>5, <1>6, <1>9, AssetTypes
<1> QED
  BY <1>1, <1>5, <1>6, <1>7, <1>8, <1>10

-----------------------------------------------------------------------------
(* Every step, and the theorems.                                           *)

LEMMA AnalyzeInvStep == AnalyzeInv /\ [AnalyzeNext]_analyzeVars => AnalyzeInv'
<1> SUFFICES ASSUME AnalyzeInv, [AnalyzeNext]_analyzeVars PROVE AnalyzeInv'
  OBVIOUS
<1>1. CASE Launch
  BY <1>1, LaunchInv
<1>2. CASE TokenTriggered \/ ArchiveChanges \/ UNCHANGED analyzeVars
  BY <1>2, WorldInv
<1>3. ASSUME NEW a \in Assets, StartAsset(a) PROVE AnalyzeInv'
  BY <1>3, StartInv
<1>4. CASE BuildStage \/ SaveReference \/ StorageError
  BY <1>4, BuildStageInv, SaveReferenceInv, StorageErrorInv
<1>5. CASE AssetRaises
  BY <1>5, RestInv DEF AssetRaises
<1>6. CASE EmitStage
  <2>1. state.built /\ work.asset # "none"
    BY <1>6 DEF EmitStage, Busy, AnalyzeInv, BuildInv, AnalyzeTypeOK
  <2> QED
    BY <1>6, <2>1, RestInv DEF EmitStage, Busy
<1> QED
  BY <1>1, <1>2, <1>3, <1>4, <1>5, <1>6 DEF AnalyzeNext, Materialize

\* What is true of launcher, graph and outputs after every step of a run.
THEOREM AnalyzeInvariant == AnalyzeSpec => []AnalyzeInv
<1>1. AnalyzeInit => AnalyzeInv
  BY AnalyzeInitInv
<1>2. AnalyzeInv /\ [AnalyzeNext]_analyzeVars => AnalyzeInv'
  BY AnalyzeInvStep
<1> QED
  BY <1>1, <1>2, PTL DEF AnalyzeSpec

\* Launcher, state of the run and assets keep their types: an asset never both
\* finishes and fails.
THEOREM AnalyzeTypeCorrect == AnalyzeSpec => []AnalyzeTypeOK
<1>1. AnalyzeInv => AnalyzeTypeOK
  BY DEF AnalyzeInv
<1> QED
  BY <1>1, AnalyzeInvariant, PTL

\* COMPLETED is announced for a whole set of outputs, all built or all
\* references, however often the object store fails.
THEOREM CompletedSetsAreWhole == AnalyzeSpec => []CompletedSetIsWhole
<1>1. AnalyzeInv => CompletedSetIsWhole
  <2> SUFFICES ASSUME AnalyzeInv, "completed" \in ToSet(ends)
               PROVE  finished = Selected /\ OutputsWhole
    BY DEF CompletedSetIsWhole, OutputsWhole, Counts
  <2>1. Ended("completed")
    BY DEF AnalyzeInv, EndInv, Open, Ended, ToSet
  <2>2. finished = Selected
    BY <2>1 DEF AnalyzeInv, EndInv, Open, Ended
  <2>3. "raw_manifest" \in Selected
    BY AssetNames DEF AnalyzeInv, AnalyzeTypeOK, Base
  <2>4. state.built
    BY <2>2, <2>3 DEF AnalyzeInv, FirstInv
  <2> QED
    BY <2>2, <2>4 DEF AnalyzeInv, BuildInv
<1> QED
  BY <1>1, AnalyzeInvariant, PTL

\* No asset builds over what another has left behind.
THEOREM AnalysesBuildOnce == AnalyzeSpec => []OutputsBuiltOnce
<1>1. AnalyzeInv => OutputsBuiltOnce
  BY DEF AnalyzeInv, FieldInv, FirstInv, OutputsBuiltOnce
<1> QED
  BY <1>1, AnalyzeInvariant, PTL

\* A run tells the platform of one end, and only completed ones are recorded.
THEOREM AnalysesEndOnce == AnalyzeSpec => []AnalyzeEndsOnce
<1>1. AnalyzeInv => AnalyzeEndsOnce
  <2> SUFFICES ASSUME AnalyzeInv PROVE AnalyzeEndsOnce
    OBVIOUS
  <2>1. CASE Open
    <3>1. ends = <<>> /\ ~recorded
      BY <2>1 DEF AnalyzeInv, EndInv, Open, Ended
    <3>2. Len(ends) = 0 /\ ToSet(ends) = {}
      BY <3>1 DEF ToSet
    <3> QED
      BY <3>1, <3>2 DEF AnalyzeEndsOnce
  <2>2. CASE Ended("completed")
    BY <2>2 DEF AnalyzeInv, EndInv, Open, Ended, AnalyzeEndsOnce, ToSet
  <2>3. CASE Ended("cancelled") \/ Ended("failed")
    <3>1. ~recorded
      BY <2>3 DEF AnalyzeInv, EndInv, Open, Ended
    <3>2. Len(ends) = 1 /\ ToSet(ends) \subseteq {"cancelled", "failed"}
      BY <2>3 DEF Ended, ToSet
    <3> QED
      BY <3>1, <3>2 DEF AnalyzeEndsOnce
  <2> QED
    BY <2>1, <2>2, <2>3 DEF AnalyzeInv, EndInv
<1> QED
  BY <1>1, AnalyzeInvariant, PTL

-----------------------------------------------------------------------------
(* The contract with the platform.                                         *)

\* An end that has been announced, by the event it leaves to be seen.
StatusInv ==
    /\ shown.status \in {"none", "running", "completed", "cancelled", "failed"}
    /\ Open <=> shown.status \in {"none", "running"}
    /\ pc \in {"registered", "launching"} => finished = {}

\* Steps outside the graph and outside the launcher show nothing.
LEMMA StatusStep ==
    ASSUME AnalyzeInv, StatusInv, [AnalyzeNext]_analyzeVars
    PROVE  StatusInv'
<1>1. CASE UNCHANGED <<shown, ends>> /\ finished' = finished /\ pc' \in {pc} \cup
              {"launching", "materializing", "materialized", "checked", "returned", "raised", "done"}
           /\ (pc' = "launching" => pc \in {"registered", "launching"})
  BY <1>1 DEF StatusInv, Open
<1>2. ASSUME NEW status \in {"completed", "cancelled", "failed"}, NEW progress,
             End(status, progress), finished' = finished,
             pc' \notin {"registered", "launching"}
      PROVE  StatusInv'
  <2>1. shown' = [status |-> status, progress |-> progress] /\ ends' = Append(ends, status)
    BY <1>2 DEF End, Emit
  <2>2. ends \in {<<>>, <<"completed">>, <<"cancelled">>, <<"failed">>}
    BY DEF AnalyzeInv, EndInv, Open, Ended
  <2>3. ends' # <<>>
    BY <2>1, <2>2
  <2> QED
    BY <1>2, <2>1, <2>3 DEF StatusInv, Open
<1>3. CASE Launch
  <2>1. finished' = finished
    BY <1>3 DEF Launch, CancelBeforeStart, PassFirstCheck, LauncherRaises, BeginMaterialize,
       MaterializeRaises, MaterializeReturns, CancelAfterMaterialize, PassLastCheck,
       ReportFailure, EmitCompleted, RecordJob, Launcher, graphVars
  <2>2. CASE CancelBeforeStart \/ MaterializeRaises \/ CancelAfterMaterialize
             \/ ReportFailure \/ EmitCompleted
    BY <1>2, <2>1, <2>2 DEF CancelBeforeStart, MaterializeRaises, CancelAfterMaterialize,
       ReportFailure, EmitCompleted
  <2>3. CASE PassFirstCheck \/ LauncherRaises \/ BeginMaterialize \/ MaterializeReturns
             \/ PassLastCheck \/ RecordJob
    BY <1>1, <2>1, <2>3 DEF PassFirstCheck, LauncherRaises, BeginMaterialize,
       MaterializeReturns, PassLastCheck, RecordJob, Silent
  <2> QED
    BY <1>3, <2>2, <2>3 DEF Launch
<1>4. CASE TokenTriggered \/ ArchiveChanges \/ UNCHANGED analyzeVars
  BY <1>1, <1>4 DEF TokenTriggered, ArchiveChanges, analyzeVars, launchVars, graphVars
<1>5. CASE EmitStage
  <2>1. shown'.status = "running" /\ ends' = ends /\ pc = "materializing" /\ pc' = pc
    BY <1>5 DEF EmitStage, Emit, Asset, Busy
  <2>2. Open
    BY <2>1 DEF AnalyzeInv, EndInv
  <2> QED
    BY <2>1, <2>2 DEF StatusInv, Open
<1>6. CASE Materialize /\ ~EmitStage
  BY <1>1, <1>6 DEF Materialize, StartAsset, BuildStage, StorageError, SaveReference,
     Advance, AssetRaises, Asset
<1> QED
  BY <1>3, <1>4, <1>5, <1>6 DEF AnalyzeNext

\* The published origin is that of the whole set, and none before the end.
OriginFits ==
    /\ ~Ended("completed") => Origin = "none"
    /\ Ended("completed") => Origin \in {"build", "references"}

LEMMA OriginKnown == AnalyzeInv => OriginFits
<1> SUFFICES ASSUME AnalyzeInv PROVE OriginFits
  OBVIOUS
<1> USE DEF OriginFits
<1>1. CASE ~Ended("completed")
  <2>1. Open \/ Ended("cancelled") \/ Ended("failed")
    BY <1>1 DEF AnalyzeInv, EndInv
  <2>2. "completed" \notin ToSet(ends)
    BY <2>1 DEF Open, Ended, ToSet
  <2> QED
    BY <1>1, <2>2 DEF Origin
<1>2. CASE Ended("completed")
  <2>1. "completed" \in ToSet(ends)
    BY <1>2 DEF Ended, ToSet
  <2>2. finished = Selected
    BY <1>2 DEF AnalyzeInv, EndInv, Open, Ended
  <2>3. "raw_manifest" \in Selected
    BY AssetNames DEF AnalyzeInv, AnalyzeTypeOK, Base
  <2>4. OutputsWhole
    BY <2>2, <2>3 DEF AnalyzeInv, FirstInv, BuildInv
  <2>5. CASE \A a \in Selected : state.artifacts[a] = "real"
    BY <1>2, <2>1, <2>5 DEF Origin
  <2>6. CASE ~\A a \in Selected : state.artifacts[a] = "real"
    <3>1. \A a \in Selected : state.artifacts[a] = "reference"
      BY <2>4, <2>6 DEF OutputsWhole
    <3> QED
      BY <1>2, <2>1, <2>6, <3>1 DEF Origin
  <2> QED
    BY <1>2, <2>5, <2>6
<1> QED
  BY <1>1, <1>2

LEMMA OriginAfter == AnalyzeInv' => OriginFits'
  BY OriginKnown, PTL

\* Outputs and their origin stay as they are unless an asset runs or a run ends.
LEMMA ContractParts ==
    ASSUME predictions' = predictions, finished' = finished
    PROVE  Selected' = Selected /\ Reached' = Reached
  BY RequestFixed DEF Reached

LEMMA NothingShown ==
    ASSUME AnalyzeInv, AnalyzeInv', predictions' = predictions,
           UNCHANGED <<shown, ends, finished>>,
           state' = state \/ pc = "materializing"
    PROVE  UNCHANGED Contract!contractVars
<1>1. Selected' = Selected /\ Reached' = Reached
  BY ContractParts
<1>2. Origin' = Origin
  <2>1. CASE state' = state
    BY <1>1, <2>1 DEF Origin
  <2>2. CASE pc = "materializing"
    <3>1. ~Ended("completed") /\ ~Ended("completed")'
      BY <2>2, EndKept DEF AnalyzeInv, EndInv, Open, Ended
    <3> QED
      BY <3>1, OriginKnown, OriginAfter DEF OriginFits
  <2> QED
    BY <2>1, <2>2
<1> QED
  BY <1>1, <1>2 DEF Contract!contractVars

\* Percentages of assets lie between the beginning and the end.
LEMMA PercentTyped ==
    ASSUME predictions \in BOOLEAN
    PROVE  \A a \in Assets : StageProgress[a] \in 1 .. 99
  BY AssetNames DEF Base, OfPredictions, StageProgress

\* The step the contract takes for each end.
LEMMA EndIsShown ==
    ASSUME NEW status, NEW progress, End(status, progress)
    PROVE  shown' = Contract!Event(status, progress) /\ ends' = Append(ends, status)
  BY DEF End, Emit, Contract!Event

LEMMA ContractLaunch ==
    ASSUME AnalyzeInv, AnalyzeInv', StatusInv, Launch
    PROVE  Contract!ContractNext \/ UNCHANGED Contract!contractVars
<1>1. UNCHANGED <<predictions, state, finished, failed>>
  BY DEF Launch, CancelBeforeStart, PassFirstCheck, LauncherRaises, BeginMaterialize,
     MaterializeRaises, MaterializeReturns, CancelAfterMaterialize, PassLastCheck,
     ReportFailure, EmitCompleted, RecordJob, Launcher, graphVars
<1>2. Selected' = Selected /\ Reached' = Reached /\ DOMAIN Reached = finished
  BY <1>1, ContractParts DEF Reached
<1>3. CASE UNCHANGED <<shown, ends>>
  BY <1>1, <1>3, NothingShown
<1>4. ASSUME NEW status \in {"cancelled", "failed"}, NEW progress, End(status, progress),
             pc \in {"registered", "materializing", "materialized", "checked"}
      PROVE  /\ Contract!Ongoing /\ Origin' = Origin
             /\ shown' = Contract!Event(status, progress)
  <2>1. Open
    BY <1>4 DEF AnalyzeInv, EndInv
  <2>2. Contract!Ongoing
    BY <2>1 DEF StatusInv, Contract!Ongoing
  <2>3. Ended(status)'
    BY <1>4, <2>1, FirstEnd
  <2>4. ~Ended("completed") /\ ~Ended("completed")'
    BY <2>1, <2>3 DEF Open, Ended
  <2>5. Origin = "none" /\ Origin' = "none"
    BY <2>4, OriginKnown, OriginAfter DEF OriginFits
  <2> QED
    BY <1>4, <2>2, <2>5, EndIsShown
<1>5. CASE CancelBeforeStart
  <2>1. DOMAIN Reached = {}
    BY <1>2, <1>5 DEF CancelBeforeStart, StatusInv
  <2>2. Contract!Cancel
    BY <1>2, <1>4, <1>5, <2>1 DEF CancelBeforeStart, Contract!Cancel
  <2> QED
    BY <2>2 DEF Contract!ContractNext
<1>6. CASE CancelAfterMaterialize
  <2>1. Contract!Cancel
    BY <1>2, <1>4, <1>6 DEF CancelAfterMaterialize, Contract!Cancel
  <2> QED
    BY <2>1 DEF Contract!ContractNext
<1>7. CASE MaterializeRaises \/ ReportFailure
  <2>1. Contract!Fail
    BY <1>2, <1>4, <1>7 DEF MaterializeRaises, ReportFailure, Contract!Fail
  <2> QED
    BY <2>1 DEF Contract!ContractNext
<1>8. CASE EmitCompleted
  <2>1. Open /\ End("completed", 100)
    BY <1>8 DEF EmitCompleted, AnalyzeInv, EndInv
  <2>2. Contract!Ongoing
    BY <2>1 DEF StatusInv, Contract!Ongoing
  <2>3. finished = Selected
    BY <1>8, NothingIsLeft DEF EmitCompleted, AnalyzeInv, EndInv, AnalyzeTypeOK
  <2>4. Ended("completed")'
    BY <2>1, FirstEnd
  <2>5. Origin' \in {"build", "references"}
    BY <2>4, OriginAfter DEF OriginFits
  <2>6. Contract!Publish
    BY <1>2, <2>1, <2>2, <2>3, <2>5, EndIsShown DEF Contract!Publish
  <2> QED
    BY <2>6 DEF Contract!ContractNext
<1>9. CASE PassFirstCheck \/ LauncherRaises \/ BeginMaterialize \/ MaterializeReturns
           \/ PassLastCheck \/ RecordJob
  BY <1>3, <1>9 DEF PassFirstCheck, LauncherRaises, BeginMaterialize, MaterializeReturns,
     PassLastCheck, RecordJob, Silent
<1> QED
  BY <1>5, <1>6, <1>7, <1>8, <1>9 DEF Launch

\* An asset that finishes shows its output.
LEMMA ContractEmit ==
    ASSUME AnalyzeInv, AnalyzeInv', StatusInv, EmitStage
    PROVE  \E o \in Assets : Contract!ShowOutput(o)
<1> DEFINE a == work.asset
           p == StageProgress[a]
<1>1. a # "none" /\ a \in Assets /\ a \in Runnable /\ DepsOf(a) \subseteq finished
  BY DEF EmitStage, Busy, AnalyzeInv, AnalyzeTypeOK, WorkInv
<1>2. /\ shown' = Contract!Event("running", p)
      /\ finished' = finished \cup {a} /\ predictions' = predictions /\ ends' = ends
  BY DEF EmitStage, Emit, Asset, Contract!Event
<1>3. Open /\ ~Ended("completed") /\ ~Ended("completed")'
  BY <1>2, EndKept DEF EmitStage, Busy, AnalyzeInv, EndInv, Open, Ended
<1>4. Contract!Ongoing /\ Origin' = Origin
  BY <1>3, OriginKnown, OriginAfter DEF OriginFits, StatusInv, Contract!Ongoing
<1>5. p \in 1 .. 99
  BY <1>1, PercentTyped DEF AnalyzeInv, AnalyzeTypeOK
<1>6. Contract!NeededFor(a) = DepsOf(a)
  BY DEF Contract!NeededFor, DepsOf
<1>7. a \in Selected \ finished
  BY <1>1 DEF Runnable
<1>8. DOMAIN Reached = finished /\ \A d \in finished : Reached[d] = StageProgress[d]
  BY DEF Reached
<1>9. \A d \in DepsOf(a) : Reached[d] < p
  BY <1>1, <1>8, ProgressGrows
<1>10. Reached' = [q \in DOMAIN Reached \cup {a} |-> IF q = a THEN p ELSE Reached[q]]
  BY <1>2, <1>7, <1>8 DEF Reached
<1>11. Selected' = Selected
  BY <1>2, RequestFixed
<1> HIDE DEF a, p
<1>12. Contract!ShowOutput(a)
  BY <1>1, <1>2, <1>4, <1>5, <1>6, <1>7, <1>8, <1>9, <1>10, <1>11 DEF Contract!ShowOutput
<1> QED
  BY <1>1, <1>12

LEMMA ContractStep ==
    ASSUME AnalyzeInv, AnalyzeInv', StatusInv, [AnalyzeNext]_analyzeVars
    PROVE  [Contract!ContractNext]_Contract!contractVars
<1>1. CASE Launch
  BY <1>1, ContractLaunch
<1>2. CASE EmitStage
  BY <1>2, ContractEmit DEF Contract!ContractNext
<1>3. CASE TokenTriggered \/ ArchiveChanges \/ UNCHANGED analyzeVars
  BY <1>3, NothingShown DEF TokenTriggered, ArchiveChanges, analyzeVars, launchVars, graphVars
<1>4. CASE Materialize /\ ~EmitStage
  BY <1>4, NothingShown DEF Materialize, StartAsset, BuildStage, StorageError, SaveReference,
     Advance, AssetRaises, Asset, Busy
<1> QED
  BY <1>1, <1>2, <1>3, <1>4 DEF AnalyzeNext

\* An analysis shows each output after those it is made of and with more
\* progress, ends once, and publishes all outputs of one origin or none.
THEOREM AnalysesKeepTheContract == AnalyzeSpec => ImplementsAnalysisContract
<1>1. AnalyzeInit => StatusInv /\ Contract!ContractInit
  <2> SUFFICES ASSUME AnalyzeInit PROVE StatusInv /\ Contract!ContractInit
    OBVIOUS
  <2>1. StatusInv
    BY DEF AnalyzeInit, StatusInv, Open
  <2>2. predictions \in BOOLEAN /\ Selected \in SUBSET Assets
    BY AssetNames DEF AnalyzeInit
  <2>3. Reached = [o \in {} |-> 0]
    BY DEF AnalyzeInit, Reached
  <2>4. Origin = "none"
    BY DEF AnalyzeInit, Origin, ToSet
  <2>5. shown = Contract!Event("none", 0)
    BY DEF AnalyzeInit, Contract!Event
  <2> QED
    BY <2>1, <2>2, <2>3, <2>4, <2>5 DEF Contract!ContractInit
<1>2. AnalyzeInv /\ StatusInv /\ [AnalyzeNext]_analyzeVars => StatusInv'
  BY StatusStep
<1>3. AnalyzeInv /\ AnalyzeInv' /\ StatusInv /\ [AnalyzeNext]_analyzeVars
          => [Contract!ContractNext]_Contract!contractVars
  BY ContractStep
<1> QED
  BY <1>1, <1>2, <1>3, AnalyzeInvariant, PTL
  DEF AnalyzeSpec, ImplementsAnalysisContract, Contract!ContractSpec

=============================================================================
