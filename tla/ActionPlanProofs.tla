-------------------------- MODULE ActionPlanProofs --------------------------
(***************************************************************************)
(* What holds of ActionPlan for any number of jobs, requests, edits,       *)
(* approvals and runs.                                                     *)
(***************************************************************************)
EXTENDS ActionPlan, WellFoundedInduction, TLAPS

-----------------------------------------------------------------------------
(* The invariant. An approval is for a plan the platform held, and a hash  *)
(* names one plan, so that a run which matches an approval is of a plan    *)
(* that was approved; a key is a function of what the run is about.        *)

ApprovalInv == \A m \in approvals : \E p \in approved : m.hash = Hash(p)

KeyOfRun(r) ==
    IF r.workflow = "apply"
    THEN ApplyKey(r.plan, r.version, r.inputs)
    ELSE AnalyzeKey(r.version, r.inputs, r.predictions)

\* A run that names its source and its predictions reads what it names.
ReadsWhatItNames(r) ==
    /\ \A ref \in NamedSources(r) : Sole(NamedSources(r)) => r.source = ref.uri
    /\ \A ref \in Elements(r.predictions) : Sole(Elements(r.predictions)) => r.prediction = ref.uri
    /\ Elements(r.predictions) = {} => r.prediction = None

SoundRun(r) ==
    /\ r.workflow \in {"apply", "analyze"}
    /\ r.workflow = "apply" => r.predictions = <<>>
    /\ r.workflow = "analyze" => r.plan = None
    /\ r.key = KeyOfRun(r)
    /\ ReadsWhatItNames(r)

RunInv == \A r \in runs : SoundRun(r)

PlanInv ==
    /\ PlanTypeOK
    /\ ApprovalInv
    /\ RunInv
    /\ RunsAreApproved
    /\ RecordsDescribeRuns

-----------------------------------------------------------------------------
(* Lemmas.                                                                 *)

\* action_plan_integrity_hash covers the whole plan: equal hashes, equal plans.
LEMMA HashIsInjective ==
  ASSUME NEW p, NEW q, Hash(p) = Hash(q)
  PROVE  p = q
BY DEF Hash

\* record_action_plan leaves one record for each plan id, the new one for its own.
LEMMA RecordsStayUnique ==
  ASSUME NEW rec, \A r, q \in plans : r.plan.id = q.plan.id => r = q
  PROVE  /\ \A r, q \in WithPlanRecord(rec) : r.plan.id = q.plan.id => r = q
         /\ WithPlanRecord(rec) \subseteq plans \cup {rec}
BY DEF WithPlanRecord

\* validate_action_plan_execution and the launcher together let only a plan
\* pass that is the plan of an approval, whatever requires_approval says.
LEMMA AcceptedIsApproved ==
  ASSUME ApprovalInv, NEW plan, NEW meta \in approvals \cup {None}, NEW version,
         ExecutionValid(plan, meta, version), LauncherAccepts(meta)
  PROVE  plan \in approved
<1>1. meta \in approvals /\ meta.hash = Hash(plan)
  BY DEF ExecutionValid, LauncherAccepts, ApprovalMatches
<1>2. PICK p \in approved : meta.hash = Hash(p)
  BY <1>1 DEF ApprovalInv
<1>3. p = plan
  BY <1>1, <1>2, HashIsInjective
<1> QED
  BY <1>3

\* A set of naturals that is not empty has a least element.
LEMMA LeastExists ==
  ASSUME NEW S \in SUBSET Nat, S # {}
  PROVE  Min(S) \in S
<1> DEFINE Less == {ss \in Nat \X Nat : ss[1] < ss[2]}
<1>1. IsWellFoundedOn(Less, Nat)
  BY NatLessThanWellFounded, Zenon DEF OpToRel
<1> HIDE DEF Less
<1>2. PICK m \in S : \A n \in S : <<n, m>> \notin Less
  BY <1>1, WFMin
<1>3. ASSUME NEW n \in S PROVE m <= n
  <2>1. n \in Nat /\ m \in Nat
    OBVIOUS
  <2>2. ~(n < m)
    BY <1>2, <2>1 DEF Less
  <2> QED
    BY <2>1, <2>2
<1> QED
  BY <1>3 DEF Min

\* Where only one of the references may be taken, it is, wherever it is listed.
LEMMA OnlyCandidateIsFirst ==
  ASSUME NEW refs, refs \in Seq(Elements(refs)), NEW ref \in Elements(refs), NEW S, S = {ref}
  PROVE  FirstOf(refs, S) = ref
<1> DEFINE places == {i \in DOMAIN refs : refs[i] \in S}
<1>1. places \in SUBSET Nat /\ places # {}
  BY DEF Elements
<1>2. Min(places) \in places
  BY <1>1, LeastExists
<1> QED
  BY <1>2 DEF FirstOf

\* _select_source_ref prefers what the plan names: the order of the references
\* does not count if there is one of it.
LEMMA NamedSourceIsApplied ==
  ASSUME NEW plan, NEW refs \in Artifacts,
         NEW ref \in {x \in Elements(refs) : x.uri \in PlanInputs(plan)},
         Sole({x \in Elements(refs) : x.uri \in PlanInputs(plan)})
  PROVE  ApplySource(plan, refs) = ref.uri
<1>1. refs \in Seq(Elements(refs)) /\ ref \in Elements(refs) /\ refs # <<>>
  BY PlanAssumption DEF Elements
<1>2. SourceCandidates(plan, refs) = {ref}
  BY DEF SourceCandidates, Sole
<1>3. FirstOf(refs, SourceCandidates(plan, refs)) = ref
  BY <1>1, <1>2, OnlyCandidateIsFirst
<1> QED
  BY <1>1, <1>3 DEF ApplySource

\* _archive_ref takes the archive, wherever it is listed, if there is one of it.
LEMMA OnlyArchiveIsAnalyzed ==
  ASSUME NEW refs \in Artifacts,
         NEW ref \in {x \in Elements(refs) : x.kind \in ArchiveKinds},
         Sole({x \in Elements(refs) : x.kind \in ArchiveKinds})
  PROVE  AnalyzeSource(refs) = ref.uri
<1>1. refs \in Seq(Elements(refs)) /\ ref \in Elements(refs)
  BY PlanAssumption DEF Elements
<1>2. ArchiveCandidates(refs) = {ref}
  BY DEF ArchiveCandidates, Sole
<1> QED
  BY <1>1, <1>2, OnlyCandidateIsFirst DEF AnalyzeSource

-----------------------------------------------------------------------------
(* Initially and after each operation.                                     *)

\* What is said of a run does not depend on the state it is said in.
LEMMA SoundRunsStaySound ==
  ASSUME RunInv, \A r \in runs' : r \in runs \/ SoundRun(r)
  PROVE  RunInv'
<1> SUFFICES ASSUME NEW r \in runs'
             PROVE  SoundRun(r)
  BY DEF RunInv, SoundRun, ReadsWhatItNames, NamedSources, Sole, KeyOfRun, ApplyKey, AnalyzeKey,
         Hashes, Hash, Footprint, Elements, PlanInputs, ArchiveKinds
<1> QED
  BY DEF RunInv

\* Nothing ran.
LEMMA NoRunIsSound ==
  ASSUME RunInv, runs' = runs
  PROVE  RunInv'
BY SoundRunsStaySound

LEMMA InitPlanInv ==
  PlanInit => PlanInv
BY PlanAssumption
   DEF PlanInit, PlanInv, PlanTypeOK, ApprovalInv, RunInv, RunsAreApproved,
       RecordsDescribeRuns

\* preview_action_plan replaces the record of its plan id by one without
\* execution metadata; nothing runs.
LEMMA PreviewKeepsInv ==
  ASSUME PlanInv, NEW j \in Jobs, NEW req \in PreviewRequests, PreviewActionPlan(j, req)
  PROVE  PlanInv'
<1> DEFINE plan == PreviewOf(req, clock)
           rec == PlanRecord(plan, j, None, <<>>)
<1>1. /\ known' = known \cup {plan} /\ plans' = WithPlanRecord(rec)
      /\ clock < MaxPreviews /\ clock' = clock + 1
      /\ UNCHANGED <<approvals, jobs, edits, approved, runs>>
  BY DEF PreviewActionPlan
<1>2. rec.plan = plan /\ rec.hash = None
  BY DEF PlanRecord
<1> HIDE DEF plan, rec
<1>3. PlanTypeOK'
  <2>1. /\ \A r, q \in plans' : r.plan.id = q.plan.id => r = q
        /\ plans' \subseteq plans \cup {rec}
    BY <1>1, RecordsStayUnique DEF PlanInv, PlanTypeOK
  <2>2. {r.plan : r \in plans'} \subseteq known'
    BY <2>1, <1>1, <1>2 DEF PlanInv, PlanTypeOK
  <2>3. clock' \in 0..MaxPreviews
    BY <1>1, PlanAssumption DEF PlanInv, PlanTypeOK
  <2> QED
    BY <2>1, <2>2, <2>3, <1>1 DEF PlanInv, PlanTypeOK
<1>4. ApprovalInv' /\ RunInv' /\ RunsAreApproved'
  BY <1>1, NoRunIsSound DEF PlanInv, ApprovalInv, RunsAreApproved, Hash
<1>5. RecordsDescribeRuns'
  <2>1. plans' \subseteq plans \cup {rec}
    BY <1>1, RecordsStayUnique DEF PlanInv, PlanTypeOK
  <2> QED
    BY <2>1, <1>1, <1>2 DEF PlanInv, RecordsDescribeRuns, Hash
<1> QED
  BY <1>3, <1>4, <1>5 DEF PlanInv

\* The platform edits a plan: it holds one more.
LEMMA EditKeepsInv ==
  ASSUME PlanInv, NEW plan \in known, EditPlan(plan)
  PROVE  PlanInv'
<1>1. known \subseteq known' /\ edits' \in 0..MaxEdits
  BY PlanAssumption DEF EditPlan, PlanInv, PlanTypeOK
<1>2. UNCHANGED <<approvals, jobs, plans, clock, approved, runs>>
  BY DEF EditPlan
<1>3. RunInv'
  BY <1>2, NoRunIsSound DEF PlanInv
<1>4. PlanTypeOK' /\ ApprovalInv' /\ RunsAreApproved' /\ RecordsDescribeRuns'
  BY <1>1, <1>2 DEF PlanInv, PlanTypeOK, ApprovalInv, RunsAreApproved, RecordsDescribeRuns, Hash
<1> QED
  BY <1>3, <1>4 DEF PlanInv

\* The platform approves a plan it holds, by its hash.
LEMMA ApproveKeepsInv ==
  ASSUME PlanInv, NEW plan \in known, NEW request \in ApprovalRequests, ApprovePlan(plan, request)
  PROVE  PlanInv'
<1> DEFINE meta == [request |-> request, planId |-> plan.id, hash |-> Hash(plan),
                    report |-> plan.report, version |-> plan.version]
<1>1. /\ approvals' = approvals \cup {meta} /\ approved' = approved \cup {plan}
      /\ UNCHANGED <<known, jobs, plans, clock, edits, runs>>
  BY DEF ApprovePlan
<1>2. meta.hash = Hash(plan)
  OBVIOUS
<1> HIDE DEF meta
<1>3. ApprovalInv'
  <2> SUFFICES ASSUME NEW m \in approvals'
               PROVE  \E p \in approved' : m.hash = Hash(p)
    BY DEF ApprovalInv, Hash
  <2>1. CASE m = meta
    BY <2>1, <1>1, <1>2
  <2>2. CASE m \in approvals
    BY <2>2, <1>1 DEF PlanInv, ApprovalInv
  <2> QED
    BY <2>1, <2>2, <1>1
<1>4. PlanTypeOK' /\ RunInv' /\ RunsAreApproved'
  BY <1>1, NoRunIsSound DEF PlanInv, PlanTypeOK, RunsAreApproved
<1>5. RecordsDescribeRuns'
  BY <1>1 DEF PlanInv, RecordsDescribeRuns, Hash
<1> QED
  BY <1>3, <1>4, <1>5 DEF PlanInv

\* execute_approved_action_plan records the run it accepted under its job and
\* under its plan.
LEMMA ExecuteKeepsInv ==
  ASSUME PlanInv, NEW j \in Jobs, NEW plan \in known, NEW meta \in approvals \cup {None},
         NEW version \in SourceVersions, NEW inputs \in Artifacts,
         ExecuteApproved(j, plan, meta, version, inputs)
  PROVE  PlanInv'
<1> DEFINE key == ApplyKey(plan, version, inputs)
           steps == [i \in DOMAIN plan.steps |-> plan.steps[i].id]
           rec == PlanRecord(plan, j, Hash(plan), steps)
           new == [workflow |-> "apply", job |-> j, plan |-> plan, version |-> version,
                   inputs |-> inputs, predictions |-> <<>>, source |-> ApplySource(plan, inputs),
                   prediction |-> None, key |-> key]
           job == JobRecord("apply", key, plan.id, Hash(plan))
<1>1. /\ jobs' = [jobs EXCEPT ![j] = job] /\ plans' = WithPlanRecord(rec)
      /\ runs' = runs \cup {new}
      /\ UNCHANGED <<known, approvals, clock, edits, approved>>
  BY DEF ExecuteApproved
<1>2. plan \in approved
  BY AcceptedIsApproved DEF ExecuteApproved, PlanInv
<1>3. rec.plan = plan /\ rec.hash = Hash(plan) /\ rec.steps = steps /\ rec.job = j
  BY DEF PlanRecord
<1>4. /\ new.workflow = "apply" /\ new.job = j /\ new.plan = plan /\ new.version = version
      /\ new.inputs = inputs /\ new.predictions = <<>> /\ new.key = key
      /\ new.source = ApplySource(plan, inputs) /\ new.prediction = None
  OBVIOUS
<1>5. job.workflow = "apply" /\ job.key = key /\ job.hash = Hash(plan)
  BY DEF JobRecord
<1>6. SoundRun(new)
  <2> HIDE DEF new, key
  <2>1. new.key = KeyOfRun(new)
    BY <1>4 DEF KeyOfRun, key
  <2>2. Elements(new.predictions) = {}
    BY <1>4 DEF Elements
  <2>3. ASSUME NEW ref \in NamedSources(new), Sole(NamedSources(new))
        PROVE  new.source = ref.uri
    <3>1. NamedSources(new) = {x \in Elements(inputs) : x.uri \in PlanInputs(plan)}
      BY <1>4 DEF NamedSources
    <3> QED
      BY <1>4, <2>3, <3>1, NamedSourceIsApplied
  <2> QED
    BY <1>4, <2>1, <2>2, <2>3 DEF SoundRun, ReadsWhatItNames
<1> HIDE DEF rec, new, job, key
<1>7. plans' \subseteq plans \cup {rec} /\ \A r, q \in plans' : r.plan.id = q.plan.id => r = q
  BY <1>1, RecordsStayUnique DEF PlanInv, PlanTypeOK
<1>8. PlanTypeOK'
  BY <1>1, <1>3, <1>7 DEF PlanInv, PlanTypeOK
<1>9. ApprovalInv'
  BY <1>1 DEF PlanInv, ApprovalInv, Hash
<1>10. RunInv'
  <2>1. \A r \in runs' : r \in runs \/ SoundRun(r)
    BY <1>1, <1>6
  <2> QED
    BY <2>1, SoundRunsStaySound DEF PlanInv
<1>11. RunsAreApproved'
  BY <1>1, <1>2, <1>4 DEF PlanInv, RunsAreApproved
<1>12. RecordsDescribeRuns'
  <2>1. ASSUME NEW c \in plans', c.hash # None
        PROVE  /\ c.hash = Hash(c.plan)
               /\ c.steps = [i \in DOMAIN c.plan.steps |-> c.plan.steps[i].id]
               /\ \E r \in runs' : r.plan = c.plan /\ r.job = c.job
    <3>1. CASE c = rec
      <4>1. c.hash = Hash(c.plan) /\ c.steps = [i \in DOMAIN c.plan.steps |-> c.plan.steps[i].id]
        BY <3>1, <1>3
      <4>2. new \in runs' /\ new.plan = c.plan /\ new.job = c.job
        BY <3>1, <1>1, <1>3, <1>4
      <4> QED
        BY <4>1, <4>2
    <3>2. CASE c \in plans
      BY <3>2, <2>1, <1>1 DEF PlanInv, RecordsDescribeRuns
    <3> QED
      BY <3>1, <3>2, <1>7
  <2>2. ASSUME NEW i \in Jobs, jobs'[i] # None
        PROVE  \E r \in runs' :
                  /\ r.job = i /\ r.workflow = jobs'[i].workflow /\ r.key = jobs'[i].key
                  /\ r.workflow = "apply" => jobs'[i].hash = Hash(r.plan)
    <3>1. CASE i = j
      <4>1. jobs'[i] = job
        BY <3>1, <1>1 DEF PlanInv, PlanTypeOK
      <4>2. new \in runs' /\ new.job = i /\ new.workflow = job.workflow /\ new.key = job.key
            /\ job.hash = Hash(new.plan)
        BY <3>1, <1>1, <1>4, <1>5
      <4> QED
        BY <4>1, <4>2
    <3>2. CASE i # j
      BY <3>2, <2>2, <1>1 DEF PlanInv, PlanTypeOK, RecordsDescribeRuns
    <3> QED
      BY <3>1, <3>2
  <2> QED
    BY <2>1, <2>2 DEF RecordsDescribeRuns, Hash
<1> QED
  BY <1>8, <1>9, <1>10, <1>11, <1>12 DEF PlanInv

\* analyze_dataset writes to the same job table and touches no plan.
LEMMA AnalyzeKeepsInv ==
  ASSUME PlanInv, NEW j \in Jobs, NEW version \in SourceVersions, NEW inputs \in Artifacts,
         NEW predictions \in Predictions, AnalyzeDataset(j, version, inputs, predictions)
  PROVE  PlanInv'
<1> DEFINE key == AnalyzeKey(version, inputs, predictions)
           first == IF predictions = <<>> THEN None ELSE predictions[1].uri
           new == [workflow |-> "analyze", job |-> j, plan |-> None, version |-> version,
                   inputs |-> inputs, predictions |-> predictions,
                   source |-> AnalyzeSource(inputs), prediction |-> first, key |-> key]
           job == JobRecord("analyze", key, None, None)
<1>1. /\ jobs' = [jobs EXCEPT ![j] = job] /\ runs' = runs \cup {new}
      /\ UNCHANGED <<known, approvals, plans, clock, edits, approved>>
  BY DEF AnalyzeDataset
<1>2. /\ new.workflow = "analyze" /\ new.job = j /\ new.plan = None /\ new.version = version
      /\ new.inputs = inputs /\ new.predictions = predictions /\ new.key = key
      /\ new.source = AnalyzeSource(inputs) /\ new.prediction = first
  OBVIOUS
<1>3. job.workflow = "analyze" /\ job.key = key
  BY DEF JobRecord
<1>4. SoundRun(new)
  <2> HIDE DEF new, key
  <2>1. new.key = KeyOfRun(new)
    BY <1>2 DEF KeyOfRun, key
  <2>2. ASSUME NEW ref \in NamedSources(new), Sole(NamedSources(new))
        PROVE  new.source = ref.uri
    <3>1. NamedSources(new) = {x \in Elements(inputs) : x.kind \in ArchiveKinds}
      BY <1>2 DEF NamedSources
    <3> QED
      BY <1>2, <2>2, <3>1, OnlyArchiveIsAnalyzed
  <2>3. predictions \in Seq(Elements(predictions))
    BY PlanAssumption DEF Elements
  <2>4. ASSUME NEW ref \in Elements(predictions), Sole(Elements(predictions))
        PROVE  first = ref.uri
    <3>1. predictions # <<>>
      BY DEF Elements
    <3>2. predictions[1] \in Elements(predictions)
      BY <3>1, <2>3 DEF Elements
    <3> QED
      BY <3>1, <3>2, <2>4 DEF Sole
  <2>5. Elements(predictions) = {} => first = None
    <3>1. predictions # <<>> => predictions[1] \in Elements(predictions)
      BY <2>3 DEF Elements
    <3> QED
      BY <3>1
  <2> HIDE DEF first
  <2> QED
    BY <1>2, <2>1, <2>2, <2>4, <2>5 DEF SoundRun, ReadsWhatItNames
<1> HIDE DEF new, job, key
<1>5. PlanTypeOK' /\ ApprovalInv' /\ RunsAreApproved'
  BY <1>1, <1>2 DEF PlanInv, PlanTypeOK, ApprovalInv, RunsAreApproved,
                    Hash
<1>6. RunInv'
  <2>1. \A r \in runs' : r \in runs \/ SoundRun(r)
    BY <1>1, <1>4
  <2> QED
    BY <2>1, SoundRunsStaySound DEF PlanInv
<1>7. RecordsDescribeRuns'
  <2>1. ASSUME NEW c \in plans', c.hash # None
        PROVE  /\ c.hash = Hash(c.plan)
               /\ c.steps = [i \in DOMAIN c.plan.steps |-> c.plan.steps[i].id]
               /\ \E r \in runs' : r.plan = c.plan /\ r.job = c.job
    BY <2>1, <1>1 DEF PlanInv, RecordsDescribeRuns
  <2>2. ASSUME NEW i \in Jobs, jobs'[i] # None
        PROVE  \E r \in runs' :
                  /\ r.job = i /\ r.workflow = jobs'[i].workflow /\ r.key = jobs'[i].key
                  /\ r.workflow = "apply" => jobs'[i].hash = Hash(r.plan)
    <3>1. CASE i = j
      <4>1. jobs'[i] = job
        BY <3>1, <1>1 DEF PlanInv, PlanTypeOK
      <4>2. new \in runs' /\ new.job = i /\ new.workflow = job.workflow /\ new.key = job.key
            /\ new.workflow # "apply"
        BY <3>1, <1>1, <1>2, <1>3
      <4> QED
        BY <4>1, <4>2
    <3>2. CASE i # j
      BY <3>2, <2>2, <1>1 DEF PlanInv, PlanTypeOK, RecordsDescribeRuns
    <3> QED
      BY <3>1, <3>2
  <2> QED
    BY <2>1, <2>2 DEF RecordsDescribeRuns, Hash
<1> QED
  BY <1>5, <1>6, <1>7 DEF PlanInv

-----------------------------------------------------------------------------
(* Theorems.                                                               *)

\* The invariant of the store, the approvals and the runs holds in every
\* reachable state.
THEOREM PlanInvariant == PlanSpec => []PlanInv
<1>1. PlanInv /\ [PlanNext]_planVars => PlanInv'
  <2> SUFFICES ASSUME PlanInv, [PlanNext]_planVars PROVE PlanInv'
    OBVIOUS
  <2>1. ASSUME NEW j \in Jobs, NEW req \in PreviewRequests, PreviewActionPlan(j, req)
        PROVE  PlanInv'
    BY <2>1, PreviewKeepsInv
  <2>2. ASSUME NEW plan \in known, EditPlan(plan)
        PROVE  PlanInv'
    BY <2>2, EditKeepsInv
  <2>3. ASSUME NEW plan \in known, NEW a \in ApprovalRequests, ApprovePlan(plan, a)
        PROVE  PlanInv'
    BY <2>3, ApproveKeepsInv
  <2>4. ASSUME NEW j \in Jobs, NEW plan \in known, NEW meta \in approvals \cup {None},
               NEW v \in SourceVersions, NEW inputs \in Artifacts,
               ExecuteApproved(j, plan, meta, v, inputs)
        PROVE  PlanInv'
    BY <2>4, ExecuteKeepsInv
  <2>5. ASSUME NEW j \in Jobs, NEW v \in SourceVersions, NEW inputs \in Artifacts,
               NEW predictions \in Predictions, AnalyzeDataset(j, v, inputs, predictions)
        PROVE  PlanInv'
    BY <2>5, AnalyzeKeepsInv
  <2>6. CASE UNCHANGED planVars
    <3>1. RunInv'
      BY <2>6, NoRunIsSound DEF planVars, PlanInv
    <3> QED
      BY <3>1, <2>6 DEF planVars, PlanInv, PlanTypeOK, ApprovalInv, RunsAreApproved,
                        RecordsDescribeRuns, Hash
  <2> QED
    BY <2>1, <2>2, <2>3, <2>4, <2>5, <2>6 DEF PlanNext
<1> QED
  BY InitPlanInv, <1>1, PTL DEF PlanSpec

\* Type correctness: one record for a job and for a plan id.
THEOREM PlanTypeCorrect == PlanSpec => []PlanTypeOK
<1>1. PlanInv => PlanTypeOK
  BY DEF PlanInv
<1> QED
  BY <1>1, PlanInvariant, PTL

\* Nothing runs that was not approved exactly as it runs: validation and the
\* launcher together leave no way around the approval.
THEOREM OnlyApprovedPlansRun == PlanSpec => []RunsAreApproved
<1>1. PlanInv => RunsAreApproved
  BY DEF PlanInv
<1> QED
  BY <1>1, PlanInvariant, PTL

\* What the read endpoints return is of a run that was accepted.
THEOREM RecordsAreOfRuns == PlanSpec => []RecordsDescribeRuns
<1>1. PlanInv => RecordsDescribeRuns
  BY DEF PlanInv
<1> QED
  BY <1>1, PlanInvariant, PTL

\* Job keys tell runs apart by workflow, plan, version and artifacts, whatever an
\* edit leaves of the step keys.
THEOREM KeysNameRequests == PlanSpec => []KeysTellRequestsApart
<1>1. PlanInv => KeysTellRequestsApart
  <2> SUFFICES ASSUME PlanInv, NEW r \in runs, NEW q \in runs, r.key = q.key
               PROVE  /\ r.workflow = q.workflow /\ r.plan = q.plan /\ r.version = q.version
                      /\ Hashes(r.inputs) = Hashes(q.inputs)
                      /\ Hashes(r.predictions) = Hashes(q.predictions)
    BY DEF KeysTellRequestsApart
  <2>1. SoundRun(r) /\ SoundRun(q)
    BY DEF PlanInv, RunInv
  <2>2. /\ KeyOfRun(r) = KeyOfRun(q)
        /\ r.workflow \in {"apply", "analyze"} /\ q.workflow \in {"apply", "analyze"}
    BY <2>1 DEF SoundRun
  <2>3. KeyOfRun(r).workflow = r.workflow /\ KeyOfRun(q).workflow = q.workflow
    BY <2>2 DEF KeyOfRun, ApplyKey, AnalyzeKey
  <2>4. CASE r.workflow = "apply" /\ q.workflow = "apply"
    <3>1. KeyOfRun(r) = ApplyKey(r.plan, r.version, r.inputs)
          /\ KeyOfRun(q) = ApplyKey(q.plan, q.version, q.inputs)
      BY <2>4 DEF KeyOfRun
    <3>2. /\ KeyOfRun(r).plan = Hash(r.plan) /\ KeyOfRun(q).plan = Hash(q.plan)
          /\ KeyOfRun(r).inputs = Hashes(r.inputs) /\ KeyOfRun(q).inputs = Hashes(q.inputs)
          /\ KeyOfRun(r).scope = <<r.version, r.plan.id>>
          /\ KeyOfRun(q).scope = <<q.version, q.plan.id>>
      BY <3>1 DEF ApplyKey
    <3>3. r.plan = q.plan
      BY <2>2, <3>2, HashIsInjective
    <3>4. r.predictions = <<>> /\ q.predictions = <<>>
      BY <2>1, <2>4 DEF SoundRun
    <3> QED
      BY <2>2, <2>4, <3>2, <3>3, <3>4
  <2>5. CASE r.workflow = "analyze" /\ q.workflow = "analyze"
    <3>1. KeyOfRun(r) = AnalyzeKey(r.version, r.inputs, r.predictions)
          /\ KeyOfRun(q) = AnalyzeKey(q.version, q.inputs, q.predictions)
      BY <2>5 DEF KeyOfRun
    <3>2. /\ KeyOfRun(r).scope = r.version /\ KeyOfRun(q).scope = q.version
          /\ KeyOfRun(r).inputs = Hashes(r.inputs) /\ KeyOfRun(q).inputs = Hashes(q.inputs)
          /\ KeyOfRun(r).predictions = Hashes(r.predictions)
          /\ KeyOfRun(q).predictions = Hashes(q.predictions)
      BY <3>1 DEF AnalyzeKey
    <3>3. r.plan = None /\ q.plan = None
      BY <2>1, <2>5 DEF SoundRun
    <3> QED
      BY <2>2, <2>5, <3>2, <3>3
  <2> QED
    BY <2>2, <2>3, <2>4, <2>5
<1> QED
  BY <1>1, PlanInvariant, PTL

\* A retry with its artifacts listed otherwise has the key of the run it repeats,
\* and reads the same where the request leaves no choice.
THEOREM RetriesKeepTheirKey == PlanSpec => []RetriesAreRecognised
<1>1. PlanInv => RetriesAreRecognised
  <2> SUFFICES ASSUME PlanInv, NEW r \in runs, NEW q \in runs, SameRequest(r, q)
               PROVE  /\ r.key = q.key
                      /\ NamesItsWork(r) => r.source = q.source /\ r.prediction = q.prediction
    BY DEF RetriesAreRecognised
  <2>1. SoundRun(r) /\ SoundRun(q)
    BY DEF PlanInv, RunInv
  <2>2. r.key = q.key
    <3>1. Hashes(r.inputs) = Hashes(q.inputs) /\ Hashes(r.predictions) = Hashes(q.predictions)
      BY DEF SameRequest, Hashes
    <3>2. KeyOfRun(r) = KeyOfRun(q)
      BY <3>1 DEF SameRequest, KeyOfRun, ApplyKey, AnalyzeKey
    <3> QED
      BY <2>1, <3>2 DEF SoundRun
  <2>3. ASSUME NamesItsWork(r)
        PROVE  r.source = q.source /\ r.prediction = q.prediction
    <3>1. NamedSources(r) = NamedSources(q)
      BY DEF SameRequest, NamedSources
    <3>2. PICK ref \in NamedSources(r) : TRUE
      BY <2>3 DEF NamesItsWork
    <3>3. r.source = ref.uri /\ q.source = ref.uri
      BY <2>1, <2>3, <3>1, <3>2 DEF SoundRun, ReadsWhatItNames, NamesItsWork
    <3>4. CASE Elements(r.predictions) = {}
      BY <2>1, <3>3, <3>4 DEF SoundRun, ReadsWhatItNames, SameRequest
    <3>5. ASSUME NEW p \in Elements(r.predictions)
          PROVE  r.prediction = q.prediction
      BY <2>1, <2>3, <3>5 DEF SoundRun, ReadsWhatItNames, SameRequest, NamesItsWork
    <3> QED
      BY <3>3, <3>4, <3>5
  <2> QED
    BY <2>2, <2>3
<1> QED
  BY <1>1, PlanInvariant, PTL

=============================================================================
