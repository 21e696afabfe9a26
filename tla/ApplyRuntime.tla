---------------------------- MODULE ApplyRuntime ----------------------------
(***************************************************************************)
(* One execution of an approved action plan: the functions of              *)
(* app/orchestration/apply_runtime.py in the order the six apply assets    *)
(* call them, over the run's ApplyExecutionState.                          *)
(*                                                                         *)
(* The source object lives in a store other writers reach.  The run reads  *)
(* it again and again - for a step, for its columns, for the immutability  *)
(* gate, for the distance reference, for the split and for the model       *)
(* impact baseline - and each read is an action of its own here, so the    *)
(* source may change or become unreadable between any two of them.         *)
(***************************************************************************)
EXTENDS ReleaseGating, Naturals, Sequences

CONSTANTS
    Plans,              \* the action plans of the model: sequences of steps
    Findings,           \* what the gates may find in the candidate rows
    MaxDisturbances     \* bound on the external writer's actions

Steps == {"impute", "duplicates", "smote", "unsupported"}
Contents == {"approved", "changed"}

ASSUME RuntimeAssumption ==
    /\ Plans \subseteq Seq(Steps) \ {<<>>}
    /\ Findings \subseteq [missingColumns : BOOLEAN, nonNumeric : BOOLEAN,
                           rules : RuleFindings, pii : BOOLEAN,
                           restricted : BOOLEAN]
    /\ MaxDisturbances \in Nat
    /\ None \notin Contents \cup Verdicts \cup {"candidate", "placeholder"}
    /\ \A o \in Observations :
          None # ValidationReport(o) /\ None # CandidateVersion(ValidationReport(o))

VARIABLES
    content, readable,  \* the source object: its bytes, and whether get succeeds
    disturbances,       \* external changes so far
    restored,           \* history: the approved bytes were put back
    job,                \* the launch: plan, required, byRef, labelled
    pc,                 \* the next function of the run, or its outcome
    step,               \* index of the next plan step
    finding,            \* what the gates saw, until their report is built
    state,              \* ApplyExecutionState
    proposed,           \* DATASET_VERSION_PROPOSED audit events
    published           \* final references in the export_package asset

external == <<content, readable, disturbances, restored>>
runtimeVars == <<content, readable, disturbances, restored, job, pc, step, finding,
                 state, proposed, published>>

Pcs == {"resolve", "steps", "columns", "gates", "reference",
        "split", "impact", "outputs", "card", "tabular", "package",
        "completed", "failed"}

\* expected: the bytes the source reference's hash stands for.
\* base: the bytes the candidate was derived from.
EmptyState ==
    [expected |-> None, base |-> None, synthetic |-> FALSE, split |-> None,
     report |-> None, impact |-> None, baseline |-> None, tried |-> FALSE,
     version |-> None, tabular |-> FALSE, package |-> None]

RuntimeInit ==
    /\ content \in Contents
    /\ readable \in BOOLEAN
    /\ disturbances = 0
    /\ restored = FALSE
    /\ job \in [plan : Plans, required : BOOLEAN, byRef : BOOLEAN,
                labelled : BOOLEAN]
    /\ pc = "resolve"
    /\ step = 1
    /\ finding = None
    /\ state = EmptyState
    /\ proposed = 0
    /\ published = [candidate |-> FALSE, export |-> FALSE]

-----------------------------------------------------------------------------
(* The world outside: another writer, or the object store failing.         *)

ChangeContent ==
    /\ disturbances < MaxDisturbances
    /\ content' \in Contents \ {content}
    /\ restored' = (restored \/ content' = "approved")
    /\ disturbances' = disturbances + 1
    /\ UNCHANGED <<readable, job, pc, step, finding, state, proposed, published>>

ToggleReadable ==
    /\ disturbances < MaxDisturbances
    /\ readable' = ~readable
    /\ disturbances' = disturbances + 1
    /\ UNCHANGED <<content, restored, job, pc, step, finding, state, proposed,
                   published>>

-----------------------------------------------------------------------------
(* Steps of the run.                                                       *)

At(label) == pc = label /\ UNCHANGED <<external, job>>

Goto(label) == pc' = label /\ UNCHANGED <<step, finding, proposed, published>>

\* An exception leaves the execution state as it is and fails the asset.
Raise(label) == At(label) /\ Goto("failed") /\ UNCHANGED state

\* Any function of the run may raise for its own reasons.
Raises == \E label \in Pcs \ {"completed", "failed", "impact", "split"} : Raise(label)

\* The reference's hash: given with the launch, or read from the object's
\* metadata, where an unlabelled object yields an all-zero placeholder.
ExpectedContent ==
    CASE job.byRef -> "approved"
      [] ~job.byRef /\ job.labelled -> content
      [] OTHER -> "placeholder"

ResolveSource ==
    /\ At("resolve")
    /\ readable
    /\ state' = [state EXCEPT !.expected = ExpectedContent]
    /\ Goto("steps")

\* The bytes a step reads: the source for the first, a candidate afterwards.
FirstStep == step = 1

StepInput == IF FirstStep THEN content ELSE state.base

\* Only the duplicates step compares the bytes it read with the expected hash.
InputAccepted ==
    /\ FirstStep => readable
    /\ FirstStep /\ job.plan[step] = "duplicates" => content = state.expected

SplitAfter ==
    CASE job.plan[step] # "smote" -> state.split
      [] job.plan[step] = "smote" -> "candidate"

ExecuteStep ==
    /\ At("steps")
    /\ step <= Len(job.plan)
    /\ job.plan[step] # "unsupported"
    /\ InputAccepted
    /\ state' = [state EXCEPT
                    !.base = StepInput,
                    !.split = SplitAfter,
                    !.synthetic = @ \/ job.plan[step] = "smote"]
    /\ step' = step + 1
    /\ UNCHANGED <<pc, finding, proposed, published>>

\* Variant: the loop over the steps ends one step early.
StepsDoneEarly ==
    /\ At("steps")
    /\ step >= Len(job.plan)
    /\ Goto("columns")
    /\ UNCHANGED state

StepsDone ==
    /\ At("steps")
    /\ step > Len(job.plan)
    /\ Goto("columns")
    /\ UNCHANGED state

ReadColumns ==
    /\ At("columns")
    /\ readable
    /\ Goto("gates")
    /\ UNCHANGED state

\* Variants of the immutability gate: a source that cannot be read, or one
\* whose reference carries no hash, taken for the approved one.
UnreadableIsApproved ==
    IF readable /\ content # state.expected THEN "changed" ELSE "approved"

PlaceholderMatchesAll ==
    CASE ~readable -> "missing"
      [] readable /\ state.expected \in {content, "placeholder"} -> "approved"
      [] OTHER -> "changed"

\* What the immutability gate makes of the source at this moment.
SourceRead ==
    CASE ~readable -> "missing"
      [] readable /\ content = state.expected -> "approved"
      [] OTHER -> "changed"

WithReport(f, distance) ==
    [state EXCEPT !.report = ValidationReport(
        [missingColumns |-> f.missingColumns, nonNumeric |-> f.nonNumeric,
         rules |-> f.rules, pii |-> f.pii, restricted |-> f.restricted,
         leakage |-> "none", distance |-> distance, source |-> f.source])]

\* Candidate gates and immutability gate; a candidate with synthetic rows
\* still needs the reference rows, read from the source once more.
RunGates ==
    /\ At("gates")
    /\ \E f \in Findings :
         LET seen == [missingColumns |-> f.missingColumns,
                      nonNumeric |-> f.nonNumeric, rules |-> f.rules,
                      pii |-> f.pii, restricted |-> f.restricted,
                      source |-> SourceRead]
         IN  IF state.synthetic
             THEN /\ pc' = "reference"
                  /\ finding' = seen
                  /\ UNCHANGED state
             ELSE /\ pc' = "split"
                  /\ UNCHANGED finding
                  /\ state' = WithReport(seen, "none")
    /\ UNCHANGED <<step, proposed, published>>

ReadReference ==
    /\ At("reference")
    /\ readable
    /\ \E d \in Distances : state' = WithReport(finding, d)
    /\ finding' = None
    /\ pc' = "split"
    /\ UNCHANGED <<step, proposed, published>>

-----------------------------------------------------------------------------
(* ensure_model_impact_report: called by its own asset and again, when it  *)
(* left no report, while the final outputs are built.                      *)

Attempted == [state EXCEPT !.tried = TRUE]

\* Variant: the call is repeated until there is a report.
CallAgain == "split"

\* A call that left no report: the export_package asset calls once more.
NextCall == IF state.tried THEN "outputs" ELSE "split"

\* Fails and is swallowed, unless the plan requires the verdict.
ImpactRaises ==
    /\ pc \in {"split", "impact"}
    /\ UNCHANGED <<external, job>>
    /\ state' = IF job.required THEN state ELSE Attempted
    /\ Goto(IF job.required THEN "failed" ELSE NextCall)

EnsureSplit ==
    /\ At("split")
    /\ state.split = None => readable
    /\ state' = [state EXCEPT !.split = IF @ = None THEN content ELSE @]
    /\ Goto("impact")

\* A candidate without numeric feature columns is not measured at all.
ImpactNotApplicable ==
    /\ At("impact")
    /\ state' = Attempted
    /\ Goto(NextCall)

RunModelImpact ==
    /\ At("impact")
    /\ readable
    /\ \E v \in Verdicts :
         state' = [Attempted EXCEPT !.impact = v, !.baseline = content]
    /\ Goto("outputs")

-----------------------------------------------------------------------------
(* build_final_apply_outputs.                                              *)

\* Variant: a proposal that may be published again.
ProposeAgain ==
    /\ At("outputs")
    /\ state' = [state EXCEPT !.version = CandidateVersion(state.report)]
    /\ proposed' = proposed + 1
    /\ pc' \in {"outputs", "card"}
    /\ UNCHANGED <<step, finding, published>>

\* The version is saved, then proposed to the platform, whatever its status.
BuildCandidateVersion ==
    /\ At("outputs")
    /\ state' = [state EXCEPT !.version = CandidateVersion(state.report)]
    /\ proposed' = proposed + 1
    /\ pc' = "card"
    /\ UNCHANGED <<step, finding, published>>

BuildCardAndLineage == At("card") /\ Goto("tabular") /\ UNCHANGED state

\* Variant: the export files are written whatever the candidate's status.
AlwaysWriteTabular ==
    /\ At("tabular")
    /\ state' = [state EXCEPT !.tabular = TRUE]
    /\ Goto("package")

WriteTabularExport ==
    /\ At("tabular")
    /\ state' = [state EXCEPT !.tabular = state.version.status # "blocked"]
    /\ Goto("package")

BuildExportPackage ==
    /\ At("package")
    /\ LET package == RuntimePackage(state.version, state.report, state.impact,
                                     job.required)
       IN  /\ state' = [state EXCEPT !.package = package]
           /\ published' = [candidate |-> FinalCandidate(state.version),
                            export |-> FinalExport(package)]
    /\ pc' = "completed"
    /\ UNCHANGED <<step, finding, proposed>>

RunNext ==
    \/ ResolveSource \/ ExecuteStep \/ StepsDone \/ ReadColumns \/ RunGates
    \/ ReadReference \/ EnsureSplit \/ ImpactNotApplicable \/ RunModelImpact
    \/ ImpactRaises \/ BuildCandidateVersion \/ BuildCardAndLineage
    \/ WriteTabularExport \/ BuildExportPackage \/ Raises

RuntimeNext == RunNext \/ ChangeContent \/ ToggleReadable

RuntimeSpec == RuntimeInit /\ [][RuntimeNext]_runtimeVars

\* The run is a sequence of calls on one thread: it never just stops.
FairRuntimeSpec == RuntimeSpec /\ WF_runtimeVars(RunNext)

-----------------------------------------------------------------------------
(* Properties.                                                             *)

RuntimeTypeOK ==
    /\ content \in Contents /\ readable \in BOOLEAN /\ disturbances \in Nat
    /\ restored \in BOOLEAN
    /\ job \in [plan : Plans, required : BOOLEAN, byRef : BOOLEAN,
                labelled : BOOLEAN]
    /\ pc \in Pcs /\ step \in Nat \ {0} /\ proposed \in {0, 1}
    /\ state.expected \in {"approved", "changed", "placeholder", None}
    /\ state.base \in Contents \cup {None}
    /\ state.split \in Contents \cup {"candidate", None}
    /\ state.impact \in Verdicts \cup {None}
    /\ state.baseline \in Contents \cup {None}
    /\ state.synthetic \in BOOLEAN /\ state.tried \in BOOLEAN
    /\ state.tabular \in BOOLEAN
    /\ published \in [candidate : BOOLEAN, export : BOOLEAN]

Ready == state.package # None /\ state.package.status = "ready"

\* An export that can be published was validated without a blocker against a
\* source whose hash was known and matched, and no verdict the plan asked for
\* is missing or bad - although report, verdict, version and package are
\* built by different calls, two of which may fail silently.
ReadyExportIsValidated ==
    Ready =>
        /\ state.report # None /\ state.report.blockerNames = {}
        /\ state.report.rawUnchanged /\ state.expected \in Contents
        /\ state.impact \notin {"rejected", "degraded"}
        /\ job.required => state.impact # None
        /\ published.candidate /\ state.tabular

\* A source that changes and stays changed cannot slip through: although only
\* the duplicates step compares hashes, a published export was computed from
\* the very bytes its source reference stands for.  It can be computed from
\* others when the approved bytes are put back before the immutability gate.
ReadyFromExpectedBytes == Ready /\ ~restored => state.base = state.expected

\* Candidates are validated only after every step of the plan has run, and a
\* plan with a step the runtime does not support is never validated at all.
WholePlanIsValidated ==
    state.report # None =>
        /\ step = Len(job.plan) + 1
        /\ \A i \in DOMAIN job.plan : job.plan[i] # "unsupported"

\* Neither export files nor references of a candidate whose export its
\* validation blocked; the two guards test different fields.
BlockedCandidateStaysInside ==
    state.version # None /\ state.version.blockExport =>
        ~state.tabular /\ ~published.candidate /\ ~published.export

\* apply_workflow.py: cancelled or failed runs must not publish a candidate.
FailedRunsProposeNothing == pc = "failed" => proposed = 0

\* Every run ends, however often the source disappears, and the model-impact
\* call is not repeated for ever.
RunEnds == <>(pc \in {"completed", "failed"})

=============================================================================
