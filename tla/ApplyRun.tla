------------------------------ MODULE ApplyRun ------------------------------
(***************************************************************************)
(* An execute-approved request from handler to response:                   *)
(* execute_approved_action_plan of app/api/main.py,                        *)
(* launch_apply_actions_workflow of app/orchestration/apply_workflow.py,   *)
(* the event of each asset of app/orchestration/apply_assets.py, and the   *)
(* job record of app/api/store.py, composed with the cancellation registry *)
(* they share: every step of a run is a step of CancellationRegistry, or   *)
(* leaves the registry alone.                                              *)
(*                                                                         *)
(* What an asset computes is ApplyRuntime's; here it finishes or fails.    *)
(***************************************************************************)
EXTENDS CancellationRegistry, Integers, Sequences

VARIABLES
    asset,      \* assets materialized by each run; -1 before emit_started
    broken,     \* runs in which an asset has raised
    shown,      \* the latest event of each job in the platform's tape
    ended,      \* the terminal events each run has emitted
    reasons,    \* the error codes of the FAILED events
    record      \* ComputeResultStore._jobs: the run each record is from

launchVars == <<asset, broken, shown, ended, reasons, record>>
applyVars == <<tokens, discarded, triggered, run, req, waiting, doomed,
               asset, broken, shown, ended, reasons, record>>

\* Variant: the percentages of two stages swapped.
SwappedProgress == <<30, 50, 75, 65, 90>>

\* Percent shown when each of the first five assets finishes; the sixth,
\* export_package, emits COMPLETED.
StageProgress == <<30, 50, 65, 75, 90>>
AssetCount == 6
Refs == {"candidate", "export"}

\* final_export_ref implies final_candidate_ref (see ReleaseGating).
FinalRefs == {{}, {"candidate"}, {"candidate", "export"}}

ApplyInit ==
    /\ RegInit
    /\ asset = [r \in Runs |-> -1]
    /\ broken = {}
    /\ shown = [j \in Jobs |-> [status |-> "none", progress |-> 0, refs |-> {}]]
    /\ ended = [r \in Runs |-> {}]
    /\ reasons = {}
    /\ record = [j \in Jobs |-> None]

-----------------------------------------------------------------------------
(* RunStatusBridge.                                                        *)

Emit(r, status, progress, refs) ==
    shown' = [shown EXCEPT ![run[r].job] =
                [status |-> status, progress |-> progress, refs |-> refs]]

EmitProgress(r, status, progress) ==
    Emit(r, status, progress, {}) /\ UNCHANGED <<ended, reasons>>

EmitEnd(r, status, progress, refs) ==
    /\ Emit(r, status, progress, refs)
    /\ ended' = [ended EXCEPT ![r] = @ \cup {status}]

EmitFailed(r, code) ==
    EmitEnd(r, "failed", 0, {}) /\ reasons' = reasons \cup {code}

EmitCancelled(r, progress) ==
    EmitEnd(r, "cancelled", progress, {}) /\ UNCHANGED reasons

-----------------------------------------------------------------------------
(* launch_apply_actions_workflow.                                          *)

\* ValueError or an unresolvable configuration: no event at all.
RefuseLaunch(r) == Refuse(r) /\ UNCHANGED launchVars

CancelBeforeStart(r) ==
    /\ PreCheckCancelled(r)
    /\ EmitCancelled(r, 0)
    /\ UNCHANGED <<asset, broken, record>>

PassPreCheck(r) == PreCheckPasses(r) /\ UNCHANGED launchVars

\* build_definitions raises outside the launcher's try.
DefinitionsRaise(r) == asset[r] = -1 /\ Raise(r) /\ UNCHANGED launchVars

Materializing(r) ==
    /\ Turn(r)
    /\ run[r].pc = "running"
    /\ r \notin broken
    /\ UNCHANGED regVars

EmitStarted(r) ==
    /\ Materializing(r)
    /\ asset[r] = -1
    /\ asset' = [asset EXCEPT ![r] = 0]
    /\ EmitProgress(r, "queued", 0)
    /\ UNCHANGED <<broken, record>>

FinishAsset(r) ==
    /\ Materializing(r)
    /\ asset[r] \in 0 .. AssetCount - 2
    /\ asset' = [asset EXCEPT ![r] = @ + 1]
    /\ EmitProgress(r, "running", StageProgress[asset[r] + 1])
    /\ UNCHANGED <<broken, record>>

\* Variants: the last asset materialized again, and one that raises after it
\* has emitted COMPLETED.
ExportPackageAgain(r) ==
    /\ Materializing(r)
    /\ asset[r] >= AssetCount - 1
    /\ asset' = [asset EXCEPT ![r] = @ + 1]
    /\ \E refs \in FinalRefs : EmitEnd(r, "completed", 100, refs)
    /\ UNCHANGED <<broken, reasons, record>>

CompletedThenRaises(r) ==
    /\ Materializing(r)
    /\ asset[r] = AssetCount - 1
    /\ broken' = broken \cup {r}
    /\ EmitEnd(r, "completed", 100, {})
    /\ UNCHANGED <<asset, reasons, record>>

\* The last asset announces the run as COMPLETED itself.
FinishExportPackage(r) ==
    /\ Materializing(r)
    /\ asset[r] = AssetCount - 1
    /\ asset' = [asset EXCEPT ![r] = @ + 1]
    /\ \E refs \in FinalRefs : EmitEnd(r, "completed", 100, refs)
    /\ UNCHANGED <<broken, reasons, record>>

\* An asset raises: with raise_on_error=False the rest is skipped.
FailAsset(r) ==
    /\ Materializing(r)
    /\ asset[r] \in 0 .. AssetCount - 1
    /\ broken' = broken \cup {r}
    /\ UNCHANGED <<asset, shown, ended, reasons, record>>

\* materialize itself raises, before any asset runs: a classified FAILED.
MaterializeRaises(r) ==
    /\ asset[r] = 0
    /\ Raise(r)
    /\ EmitFailed(r, "classified")
    /\ UNCHANGED <<asset, broken, record>>

Materialized(r) == asset[r] = AssetCount \/ r \in broken

\* Variant: a cancelled run returns without its CANCELLED event.
SilentCancel(r) ==
    Materialized(r) /\ PostCheckCancelled(r) /\ UNCHANGED launchVars

CancelAfterMaterialize(r) ==
    /\ Materialized(r)
    /\ PostCheckCancelled(r)
    /\ EmitCancelled(r, 50)
    /\ UNCHANGED <<asset, broken, record>>

\* Variant: an unsuccessful result returned without a FAILED event.
SilentFailure(r) ==
    /\ r \in broken
    /\ PostCheckPasses(r)
    /\ run'[r].outcome = "failed"
    /\ UNCHANGED launchVars

ReportFailure(r) ==
    /\ r \in broken
    /\ PostCheckPasses(r)
    /\ run'[r].outcome = "failed"
    /\ EmitFailed(r, "internal_error")
    /\ UNCHANGED <<asset, broken, record>>

ReturnResult(r) ==
    /\ Materialized(r)
    /\ r \notin broken
    /\ PostCheckPasses(r)
    /\ run'[r].outcome = "succeeded"
    /\ UNCHANGED launchVars

-----------------------------------------------------------------------------
(* The rest of the handlers.                                               *)

DiscardToken(r) == Discard(r) /\ UNCHANGED launchVars

\* Variant: a record is written whatever the launcher returned.
RecordAnyway(r) ==
    /\ Respond(r)
    /\ record' = [record EXCEPT ![run[r].job] = r]
    /\ UNCHANGED <<asset, broken, shown, ended, reasons>>

\* A launch that raised leaves the handler without a record.
RecordJob(r) ==
    /\ Respond(r)
    /\ record' = IF run[r].outcome = "succeeded"
                 THEN [record EXCEPT ![run[r].job] = r] ELSE record
    /\ UNCHANGED <<asset, broken, shown, ended, reasons>>

CancelJob(c) == CancelStep(c) /\ UNCHANGED launchVars

Continue(r) ==
    \/ RefuseLaunch(r) \/ CancelBeforeStart(r) \/ PassPreCheck(r)
    \/ DefinitionsRaise(r) \/ EmitStarted(r) \/ FinishAsset(r)
    \/ FinishExportPackage(r) \/ FailAsset(r) \/ MaterializeRaises(r)
    \/ CancelAfterMaterialize(r) \/ ReportFailure(r) \/ ReturnResult(r)
    \/ DiscardToken(r) \/ RecordJob(r)

Launch(r) == \E j \in Jobs : Register(r, j) /\ UNCHANGED launchVars

ApplyNext ==
    \/ \E r \in Runs : Launch(r) \/ Continue(r)
    \/ \E c \in Cancels : CancelJob(c)

ApplySpec == ApplyInit /\ [][ApplyNext]_applyVars

\* A handler that has started is run to its end by its thread or event loop;
\* nothing forces a request to arrive.
FairApplySpec ==
    /\ ApplySpec
    /\ \A r \in Runs : WF_applyVars(Continue(r))
    /\ \A c \in Cancels : WF_applyVars(CancelTrigger(c) /\ UNCHANGED launchVars)

-----------------------------------------------------------------------------
(* Properties.                                                             *)

ApplyTypeOK ==
    /\ RegTypeOK
    /\ asset \in [Runs -> -1 .. AssetCount]
    /\ broken \subseteq Runs
    /\ shown \in [Jobs -> [status : {"none", "queued", "running", "completed",
                                     "failed", "cancelled"},
                           progress : 0 .. 100, refs : SUBSET Refs]]
    /\ ended \in [Runs -> SUBSET {"completed", "failed", "cancelled"}]
    /\ reasons \subseteq {"classified", "internal_error"}
    /\ record \in [Jobs -> Runs \cup {None}]

\* The record the platform can fetch is of a run that announced COMPLETED and
\* nothing else: no failed or cancelled attempt is ever served as a result.
RecordsOnlyCompletedRuns ==
    \A j \in Jobs : record[j] # None =>
        run[record[j]].job = j /\ ended[record[j]] = {"completed"}

\* A run never reports two ends.  Needs handlers that are not interleaved.
OneEndPerRun == \A r \in Runs : \A s, t \in ended[r] : s = t

\* tests/test_cancellation_retry.py: a cancelled run never emits COMPLETED,
\* so downstream consumers never see a promoted candidate of it.
CancelledRunsNeverComplete ==
    \A r \in Runs : ~({"completed", "cancelled"} \subseteq ended[r])

\* apply_workflow.py: failures are classified into a stable reason.
FailuresAreClassified == "internal_error" \notin reasons

\* Until a finished run gives its token back, the platform's latest event of
\* the job says what became of that run: a cancel, a refused launch or a
\* failure never leaves the event of another outcome standing.
ViewMatchesOutcome ==
    \A r \in Runs :
        run[r].pc = "leaving" /\ ended[r] # {} =>
            /\ shown[run[r].job].status \in ended[r]
            /\ run[r].outcome = "succeeded" =>
                  shown[run[r].job].status = "completed"
            /\ run[r].outcome = "cancelled" =>
                  shown[run[r].job].status = "cancelled"

\* Every run that told the platform it was queued reports an end.
StartedRunsReportAnEnd ==
    \A r \in Runs : asset[r] = 0 ~> ended[r] # {}

Contract == INSTANCE JobContract WITH view <- shown

\* The events of the service's jobs are what JobContract promises.
ImplementsJobContract == Contract!ContractSpec

=============================================================================
