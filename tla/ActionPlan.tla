----------------------------- MODULE ActionPlan -----------------------------
(***************************************************************************)
(* The life of an action plan: app/kernel/action_plan.py builds a preview  *)
(* from method recommendations and checks a plan before it is executed;    *)
(* the handlers of app/api/main.py keep plans and job results in the       *)
(* ComputeResultStore of app/api/store.py, labelled with the idempotency   *)
(* keys of app/kernel/idempotency.py.                                      *)
(*                                                                         *)
(* The platform holds the previews it received, may edit a plan before it  *)
(* sends it back, and approves plans. A hash is the content it stands for; *)
(* a request that is refused changes nothing. What a run does inside is    *)
(* ApplyRun's: here it is accepted or raises.                              *)
(***************************************************************************)
EXTENDS Precedence

CONSTANTS
    Jobs,               \* platform job ids
    PreviewRequests,    \* payloads of POST action-plans/preview
    SourceVersions,     \* dataset versions execute requests may name
    Artifacts,          \* lists of input artifact references sent with a request
    Predictions,        \* lists of prediction references sent with a request
    ApprovalRequests,   \* approval request ids of the platform
    None,
    MaxPreviews,        \* bound: previews built
    MaxEdits,           \* bound: plans the platform edits
    MaxApprovals,       \* bound: approvals the platform gives
    MaxRuns             \* bound: runs accepted

ASSUME PlanAssumption ==
    /\ {MaxPreviews, MaxEdits, MaxApprovals, MaxRuns} \subseteq Nat
    /\ None \notin ApprovalRequests
    /\ \A refs \in Artifacts \cup Predictions : refs \in Seq({refs[i] : i \in DOMAIN refs})

VARIABLES
    known,      \* plans the platform holds, as previewed or edited
    approvals,  \* ActionPlanApprovalMetadata records the platform has issued
    jobs,       \* ComputeResultStore._jobs
    plans,      \* ComputeResultStore._action_plans
    clock,      \* created_at of the next preview
    edits,      \* plans edited so far
    approved,   \* history: the plans approvals were given for
    runs        \* history: the runs that were accepted

planVars == <<known, approvals, jobs, plans, clock, edits, approved, runs>>

Elements(s) == {s[i] : i \in DOMAIN s}
Distinct(s) == \A i, j \in DOMAIN s : s[i] = s[j] => i = j

PlanInit ==
    /\ known = {} /\ approvals = {} /\ approved = {} /\ runs = {}
    /\ jobs = [j \in Jobs |-> None]
    /\ plans = {}
    /\ clock = 0 /\ edits = 0

-----------------------------------------------------------------------------
(* The preview.                                                            *)

Synthetic == {"smote", "gaussian_copula", "borderline_smote", "adasyn", "ctgan"}

Recommendation(req, id) == CHOOSE r \in Elements(req.payload) : r.id = id

\* The override of a recommendation wins over its recommended method.
MethodOf(req, rec) ==
    IF rec.id \in DOMAIN req.overrides THEN req.overrides[rec.id] ELSE rec.method

Selectable(rec, method) ==
    /\ method \notin rec.blocked
    /\ method \in DOMAIN rec.status
    /\ rec.status[method] \in {"recommended", "available"}
    /\ method \in rec.enabled

StepType(action, method) ==
    IF action = "augment" /\ method = "class_weights" THEN "configure_weights" ELSE action

StepGates(rec, method) ==
    IF rec.action = "augment"
    THEN IF method \in Synthetic
         THEN {"leakage", "schema", "rules", "synthetic_quality", "privacy", "impact"}
         ELSE {"schema", "rules", "impact"}
    ELSE {"schema", "rules", "privacy"} \cup (IF rec.impact THEN {"impact"} ELSE {})

StepPreconditions(rec, method) ==
    {"immutable_source"}
        \cup (IF rec.action = "impute" THEN {"target_not_imputed"} ELSE {})
        \cup (IF method \in Synthetic THEN {"train_split", "no_leakage"} ELSE {})

StepId(rec, method) == <<rec.action, method, rec.issue>>

StepConfig(rec, method) ==
    [method |-> method, target |-> rec.target,
     split |-> IF rec.action = "augment" /\ method \in Synthetic THEN "train" ELSE None]

ConfigHash(rec, method) == <<rec.action, StepConfig(rec, method), method, rec.id>>

StepKey(configHash, depends, id) == <<configHash, depends, id>>

BuildStep(rec, method, depends, inputs) ==
    [id |-> StepId(rec, method), type |-> StepType(rec.action, method),
     depends |-> depends, method |-> method, plugin |-> rec.plugin,
     config |-> StepConfig(rec, method), configHash |-> ConfigHash(rec, method),
     key |-> StepKey(ConfigHash(rec, method), depends, StepId(rec, method)),
     gates |-> StepGates(rec, method), pre |-> StepPreconditions(rec, method), inputs |-> inputs,
     scope |-> "candidate_only"]

\* Each step waits for the one before it.
Steps(req) ==
    [i \in DOMAIN req.selected |->
        LET rec == Recommendation(req, req.selected[i])
            before == Recommendation(req, req.selected[i - 1])
        IN  BuildStep(rec, MethodOf(req, rec),
                IF i = 1 THEN <<>> ELSE <<StepId(before, MethodOf(req, before))>>, req.inputs)]

\* The order of the checks of build_action_plan_preview: ids, selection, methods.
PreviewAccepted(req) ==
    /\ Distinct([i \in DOMAIN req.payload |-> req.payload[i].id])
    /\ \A id \in Elements(req.selected) : \E r \in Elements(req.payload) : r.id = id
    /\ \A id \in Elements(req.selected) :
          LET rec == Recommendation(req, id) IN Selectable(rec, MethodOf(req, rec))

\* The validator of ActionPlan, for previews and for plans sent back.
WellFormed(plan) ==
    /\ Distinct([i \in DOMAIN plan.steps |-> plan.steps[i].id])
    /\ \A s \in Elements(plan.steps) : \A d \in Elements(s.depends) :
          \E t \in Elements(plan.steps) : t.id = d

PolicyVersion(req) ==
    LET versions == {Recommendation(req, id).policy : id \in Elements(req.selected)}
    IN  IF Cardinality(versions) = 1 THEN CHOOSE v \in versions : TRUE ELSE "mixed"

PreviewOf(req, now) ==
    [id |-> <<req.report, req.selected, req.overrides, req.version>>,
     version |-> req.version, report |-> req.report, target |-> req.target,
     selected |-> req.selected, policy |-> PolicyVersion(req),
     approval |-> \E id \in Elements(req.selected) : Recommendation(req, id).approval,
     request |-> None, mode |-> "preview", steps |-> Steps(req), created |-> now]

PlanRecord(plan, job, hash, steps) ==
    [plan |-> plan, job |-> job, hash |-> hash, steps |-> steps]

\* Variant: a record is added and the one it replaces stays.
AddPlanRecord(rec) == plans \cup {rec}

\* Variant: a preview keeps the execution metadata of the record it replaces.
KeepExecution(rec) ==
    LET old == {r \in plans : r.plan.id = rec.plan.id}
    IN  (plans \ old) \cup
            {IF rec.hash = None /\ old # {}
             THEN [rec EXCEPT !.hash = (CHOOSE r \in old : TRUE).hash]
             ELSE rec}

\* record_action_plan: at most one record for an action_plan_id.
WithPlanRecord(rec) == {r \in plans : r.plan.id # rec.plan.id} \cup {rec}

PreviewActionPlan(j, req) ==
    /\ clock < MaxPreviews
    /\ PreviewAccepted(req)
    /\ LET plan == PreviewOf(req, clock)
       IN  /\ WellFormed(plan)
           /\ known' = known \cup {plan}
           /\ plans' = WithPlanRecord(PlanRecord(plan, j, None, <<>>))
    /\ clock' = clock + 1
    /\ UNCHANGED <<approvals, jobs, edits, approved, runs>>

-----------------------------------------------------------------------------
(* The platform.                                                           *)

\* A key is a digest of the step alone, which the platform can compute as well.
Rekeyed(step) == [step EXCEPT !.key = StepKey(step.configHash, step.depends, step.id)]

\* A step in the platform's hands: any part of it may change, and its key be made
\* to fit or not.
EditedSteps(plan, i) ==
    LET step == plan.steps[i]
        forms == {[step EXCEPT !.method = "other"], [step EXCEPT !.inputs = <<>>],
                  [step EXCEPT !.id[1] = "renamed"], [step EXCEPT !.configHash[1] = "other"],
                  [step EXCEPT !.scope = "production"]}
                    \cup {[step EXCEPT !.depends = d] :
                             d \in {<<>>} \cup {<<t.id>> : t \in Elements(plan.steps)}}
    IN  forms \cup {Rekeyed(form) : form \in forms}

Reorderings(steps) ==
    {[i \in DOMAIN steps |-> steps[p[i]]] :
        p \in {q \in [DOMAIN steps -> DOMAIN steps] : Distinct(q)}}

\* What the platform may make of a plan before it sends it back.
EditedForms(plan) ==
    {[plan EXCEPT !.request = a] : a \in ApprovalRequests}
        \cup {[plan EXCEPT !.mode = "apply"], [plan EXCEPT !.target = "renamed"],
              [plan EXCEPT !.approval = FALSE], [plan EXCEPT !.steps = Tail(plan.steps)]}
        \cup {[plan EXCEPT !.steps = steps] : steps \in Reorderings(plan.steps)}
        \cup UNION {{[plan EXCEPT !.steps[i] = step] : step \in EditedSteps(plan, i)} :
                        i \in DOMAIN plan.steps}

EditPlan(plan) ==
    /\ edits < MaxEdits
    /\ plan.steps # <<>>
    /\ \E form \in EditedForms(plan) : known' = known \cup {form}
    /\ edits' = edits + 1
    /\ UNCHANGED <<approvals, jobs, plans, clock, approved, runs>>

\* action_plan_integrity_hash: of the whole plan.
Hash(plan) == <<"sha256", plan>>

ApprovePlan(plan, request) ==
    /\ Cardinality(approvals) < MaxApprovals
    /\ plan.request \in {None, request}
    /\ approvals' = approvals \cup
          {[request |-> request, planId |-> plan.id, hash |-> Hash(plan),
            report |-> plan.report, version |-> plan.version]}
    /\ approved' = approved \cup {plan}
    /\ UNCHANGED <<known, jobs, plans, clock, edits, runs>>

-----------------------------------------------------------------------------
(* Execution.                                                              *)

\* The keys say nothing of the order of the steps, and of their method, config and
\* inputs only what the approval of the whole plan covers as well.
StepIntegrity(plan) ==
    \A s \in Elements(plan.steps) :
        s.key = StepKey(s.configHash, s.depends, s.id) /\ s.scope = "candidate_only"

\* Variant: the approval is matched by ids alone.
ApprovalNamesPlan(plan, meta) ==
    /\ plan.request # None => meta.request = plan.request
    /\ meta.planId = plan.id

ApprovalMatches(plan, meta) ==
    /\ plan.request # None => meta.request = plan.request
    /\ meta.planId = plan.id
    /\ meta.hash = Hash(plan)
    /\ meta.report = plan.report
    /\ meta.version = plan.version

ExecutionValid(plan, meta, version) ==
    /\ plan.version = version
    /\ plan.mode = "preview"
    /\ plan.steps # <<>>
    /\ StepIntegrity(plan)
    /\ plan.approval => meta # None
    /\ meta # None => ApprovalMatches(plan, meta)

\* launch_apply_actions_workflow refuses a plan nobody approved, although the
\* handler lets a plan without requires_approval pass.
LauncherAccepts(meta) == meta # None

Footprint(plan) == {<<s.plugin, s.method>> : s \in Elements(plan.steps)}

Hashes(refs) == {ref.hash : ref \in Elements(refs)}

\* Variant: the key of an apply run leaves the plan out.
KeyOfSteps(plan, version, inputs) ==
    [workflow |-> "apply", scope |-> <<version, plan.id>>, inputs |-> Hashes(inputs),
     steps |-> [i \in DOMAIN plan.steps |-> plan.steps[i].key], plugins |-> Footprint(plan)]

\* The hashes of the inputs are sorted and deduplicated; the steps keep their order.
ApplyKey(plan, version, inputs) ==
    [workflow |-> "apply", scope |-> <<version, plan.id>>, inputs |-> Hashes(inputs),
     plan |-> Hash(plan), config |-> plan.steps[1].configHash,
     steps |-> [i \in DOMAIN plan.steps |-> plan.steps[i].key], plugins |-> Footprint(plan)]

AnalyzeKey(version, inputs, predictions) ==
    [workflow |-> "analyze", scope |-> version,
     inputs |-> Hashes(inputs), predictions |-> Hashes(predictions)]

PlanInputs(plan) == UNION {Elements(s.inputs) : s \in Elements(plan.steps)}

RawKinds == {"raw_transactions", "raw_dataset_archive"}
ArchiveKinds == {"raw_dataset_archive", "demo_archive"}

\* Variant: a raw reference comes before one the plan names.
RawBeforeNamed(plan, refs) ==
    LET raw == {ref \in Elements(refs) : ref.kind \in RawKinds}
    IN  IF raw # {} THEN raw ELSE Elements(refs)

\* _select_source_ref takes the first of these.
SourceCandidates(plan, refs) ==
    LET named == {ref \in Elements(refs) : ref.uri \in PlanInputs(plan)}
        raw == {ref \in Elements(refs) : ref.kind \in RawKinds}
    IN  IF named # {} THEN named ELSE IF raw # {} THEN raw ELSE Elements(refs)

\* Without references the first input of the steps is read.
ApplySource(plan, refs) ==
    IF refs = <<>>
    THEN plan.steps[Min({i \in DOMAIN plan.steps : plan.steps[i].inputs # <<>>})].inputs[1]
    ELSE FirstOf(refs, SourceCandidates(plan, refs)).uri

\* _archive_ref takes the first of these.
ArchiveCandidates(refs) ==
    LET archives == {ref \in Elements(refs) : ref.kind \in ArchiveKinds}
    IN  IF archives # {} THEN archives ELSE Elements(refs)

AnalyzeSource(refs) == FirstOf(refs, ArchiveCandidates(refs)).uri

JobRecord(workflow, key, planId, hash) ==
    [workflow |-> workflow, key |-> key, planId |-> planId, hash |-> hash]

\* execute_approved_action_plan, for a run that completes; one that raises
\* leaves both tables alone.
ExecuteApproved(j, plan, meta, version, inputs) ==
    /\ Cardinality(runs) < MaxRuns
    /\ WellFormed(plan)
    /\ ExecutionValid(plan, meta, version)
    /\ LauncherAccepts(meta)
    /\ inputs # <<>> \/ PlanInputs(plan) # {}
    /\ LET key == ApplyKey(plan, version, inputs)
       IN  /\ jobs' = [jobs EXCEPT ![j] = JobRecord("apply", key, plan.id, Hash(plan))]
           /\ plans' = WithPlanRecord(PlanRecord(plan, j, Hash(plan),
                          [i \in DOMAIN plan.steps |-> plan.steps[i].id]))
           /\ runs' = runs \cup {[workflow |-> "apply", job |-> j, plan |-> plan,
                          version |-> version, inputs |-> inputs, predictions |-> <<>>,
                          source |-> ApplySource(plan, inputs), prediction |-> None, key |-> key]}
    /\ UNCHANGED <<known, approvals, clock, edits, approved>>

\* analyze_dataset, for a run that completes: the same table, the same job ids.
\* Of the predictions sent, the first list entry is read.
AnalyzeDataset(j, version, inputs, predictions) ==
    /\ Cardinality(runs) < MaxRuns
    /\ inputs # <<>>
    /\ LET key == AnalyzeKey(version, inputs, predictions)
       IN  /\ jobs' = [jobs EXCEPT ![j] = JobRecord("analyze", key, None, None)]
           /\ runs' = runs \cup {[workflow |-> "analyze", job |-> j, plan |-> None,
                          version |-> version, inputs |-> inputs, predictions |-> predictions,
                          source |-> AnalyzeSource(inputs),
                          prediction |-> IF predictions = <<>> THEN None ELSE predictions[1].uri,
                          key |-> key]}
    /\ UNCHANGED <<known, approvals, plans, clock, edits, approved>>

PlanNext ==
    \/ \E j \in Jobs, req \in PreviewRequests : PreviewActionPlan(j, req)
    \/ \E plan \in known : EditPlan(plan)
    \/ \E plan \in known, a \in ApprovalRequests : ApprovePlan(plan, a)
    \/ \E j \in Jobs, plan \in known, meta \in approvals \cup {None},
          v \in SourceVersions, inputs \in Artifacts : ExecuteApproved(j, plan, meta, v, inputs)
    \/ \E j \in Jobs, v \in SourceVersions, inputs \in Artifacts, predictions \in Predictions :
          AnalyzeDataset(j, v, inputs, predictions)

PlanSpec == PlanInit /\ [][PlanNext]_planVars

-----------------------------------------------------------------------------
(* Properties.                                                             *)

\* The platform's plans and the store's tables stay in their shape: a job has
\* at most one record, a plan id at most one record.
PlanTypeOK ==
    /\ approved \subseteq known
    /\ DOMAIN jobs = Jobs
    /\ \A r, q \in plans : r.plan.id = q.plan.id => r = q
    /\ {r.plan : r \in plans} \subseteq known
    /\ clock \in 0..MaxPreviews /\ edits \in 0..MaxEdits

\* What runs is what was approved: every apply run the service accepted is of
\* a plan that was approved exactly as it ran, edits included, whether or not
\* the plan itself says that it needs an approval (validate_action_plan_execution,
\* launch_apply_actions_workflow).
RunsAreApproved == \A r \in runs : r.workflow = "apply" => r.plan \in approved

\* What the read endpoints return of a job or of an executed plan is of one
\* accepted run: the hash under a plan is the hash of that plan, and a job
\* record names a plan that ran under this job.
RecordsDescribeRuns ==
    /\ \A rec \in plans : rec.hash # None =>
          /\ rec.hash = Hash(rec.plan)
          /\ rec.steps = [i \in DOMAIN rec.plan.steps |-> rec.plan.steps[i].id]
          /\ \E r \in runs : r.plan = rec.plan /\ r.job = rec.job
    /\ \A j \in Jobs : jobs[j] # None =>
          \E r \in runs :
              /\ r.job = j /\ r.workflow = jobs[j].workflow /\ r.key = jobs[j].key
              /\ r.workflow = "apply" => jobs[j].hash = Hash(r.plan)

\* A job key names one request: no edit of a plan, whether its steps are reordered,
\* their keys made to fit or left as they were, lets a run share the key of a run
\* of another plan, and no two workflows, versions or sets of artifacts share one
\* (compute_apply_idempotency_key, compute_analyze_idempotency_key).
KeysTellRequestsApart ==
    \A r, q \in runs : r.key = q.key =>
        /\ r.workflow = q.workflow /\ r.plan = q.plan /\ r.version = q.version
        /\ Hashes(r.inputs) = Hashes(q.inputs) /\ Hashes(r.predictions) = Hashes(q.predictions)

SameRequest(r, q) ==
    /\ r.workflow = q.workflow /\ r.plan = q.plan /\ r.version = q.version
    /\ Elements(r.inputs) = Elements(q.inputs) /\ Elements(r.predictions) = Elements(q.predictions)

Sole(S) == \A a, b \in S : a = b

\* The references that say themselves that they are the source of the run.
NamedSources(r) ==
    {ref \in Elements(r.inputs) :
        IF r.workflow = "apply" THEN ref.uri \in PlanInputs(r.plan) ELSE ref.kind \in ArchiveKinds}

NamesItsWork(r) ==
    /\ NamedSources(r) # {} /\ Sole(NamedSources(r))
    /\ Sole(Elements(r.predictions))

\* A retry that lists its artifacts in another order, or one of them twice, gets
\* the key of the run it repeats, and where the request leaves no choice it reads
\* the same source and the same predictions (collect_artifact_hashes,
\* _select_source_ref, _archive_ref).
RetriesAreRecognised ==
    \A r, q \in runs : SameRequest(r, q) =>
        /\ r.key = q.key
        /\ NamesItsWork(r) => r.source = q.source /\ r.prediction = q.prediction

\* idempotency.py:4: "Two compute runs with identical idempotency keys must
\* produce identical artifact hashes". The key forgets the order in which the
\* artifacts are listed, and the source and the predictions are chosen by it.
SameKeySameArtifacts ==
    \A r, q \in runs : r.key = q.key => r.source = q.source /\ r.prediction = q.prediction

=============================================================================
