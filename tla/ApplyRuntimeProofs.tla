------------------------- MODULE ApplyRuntimeProofs -------------------------
(***************************************************************************)
(* What holds of every run of ApplyRuntime, for any plans, any findings    *)
(* and any number of external changes.                                     *)
(***************************************************************************)
EXTENDS ApplyRuntime, MCReleaseGating, TLAPS

ReportSpace == {ValidationReport(o) : o \in Observations}

VersionSpace == {CandidateVersion(r) : r \in ReportSpace \cup {None}}

PackageSpace ==
    {RuntimePackage(v, r, w, q) :
        v \in VersionSpace, r \in ReportSpace \cup {None},
        w \in Verdicts \cup {None}, q \in BOOLEAN}

StateSpace ==
    [expected : Contents \cup {"placeholder", None},
     base : Contents \cup {None}, synthetic : BOOLEAN,
     split : Contents \cup {"candidate", None},
     report : ReportSpace \cup {None}, impact : Verdicts \cup {None},
     baseline : Contents \cup {None}, tried : BOOLEAN,
     version : VersionSpace \cup {None}, tabular : BOOLEAN,
     package : PackageSpace \cup {None}]

FindingSpace ==
    [missingColumns : BOOLEAN, nonNumeric : BOOLEAN, rules : RuleFindings,
     pii : BOOLEAN, restricted : BOOLEAN, source : SourceReads]

TypeInv ==
    /\ content \in Contents /\ readable \in BOOLEAN
    /\ disturbances \in Nat /\ restored \in BOOLEAN
    /\ job \in [plan : Plans, required : BOOLEAN, byRef : BOOLEAN,
                labelled : BOOLEAN]
    /\ pc \in Pcs /\ step \in Nat /\ proposed \in {0, 1}
    /\ finding \in FindingSpace \cup {None}
    /\ state \in StateSpace
    /\ published \in [candidate : BOOLEAN, export : BOOLEAN]

-----------------------------------------------------------------------------
(* The operators of ReleaseGating.                                         *)

\* A report blocks the export exactly when it fails the candidate, and trusts
\* the source exactly when the gate read the approved bytes.
LEMMA ReportFacts ==
    ASSUME NEW o \in Observations
    PROVE  LET r == ValidationReport(o) IN
           /\ r.rawUnchanged \in BOOLEAN
           /\ r.rawUnchanged <=> o.source = "approved"
           /\ r.blockExport \in BOOLEAN
           /\ r.blockExport <=> r.candidateStatus = "validation_failed"
           /\ r.candidateStatus \in {"ok", "review_required", "validation_failed"}
<1> DEFINE g == Gates(o)
           raw == (o.source = "approved")
<1>1. Blocks(g, "block_export") => Blockers(g) # {}
  BY DEF Blocks
<1>2. CandidateStatus(g, raw) \in {"ok", "review_required", "validation_failed"}
  BY DEF CandidateStatus
<1>3. Blockers(g) # {} => CandidateStatus(g, raw) = "validation_failed"
  BY DEF CandidateStatus
<1>4. Blocks(g, "block_export") \in BOOLEAN
  BY DEF Blocks
<1> QED
  BY <1>1, <1>2, <1>3, <1>4 DEF ValidationReport

\* A candidate with a report takes its export block from it and is blocked or
\* failed exactly when that block is set.
LEMMA VersionFacts ==
    ASSUME NEW r \in ReportSpace
    PROVE  LET v == CandidateVersion(r) IN
           /\ r # None /\ v # None
           /\ v.blockExport \in BOOLEAN
           /\ v.blockExport <=> r.blockExport
           /\ v.status = "blocked" <=> r.blockExport
           /\ v.status # "failed"
<1>1. PICK o \in Observations : r = ValidationReport(o)
  BY DEF ReportSpace
<1>2. r # None /\ CandidateVersion(r) # None
  BY <1>1, RuntimeAssumption
<1>3. /\ r.blockExport \in BOOLEAN
      /\ r.blockExport <=> r.candidateStatus = "validation_failed"
      /\ r.candidateStatus \in {"ok", "review_required", "validation_failed"}
  BY <1>1, ReportFacts
<1>4. CandidateVersion(r).blockExport = r.blockExport
  BY <1>2 DEF CandidateVersion
<1>5. CandidateVersion(r).status = VersionStatus(r)
  BY DEF CandidateVersion
<1>6. /\ VersionStatus(r) = "blocked" <=> r.candidateStatus = "validation_failed"
      /\ VersionStatus(r) # "failed"
  BY <1>2, <1>3 DEF VersionStatus
<1> QED
  BY <1>2, <1>3, <1>4, <1>5, <1>6

\* A package is ready only when none of its gates has a reason to block.
LEMMA PackageFacts ==
    ASSUME NEW r \in ReportSpace, NEW w \in Verdicts \cup {None},
           NEW q \in BOOLEAN,
           RuntimePackage(CandidateVersion(r), r, w, q).status = "ready"
    PROVE  /\ r.blockerNames = {}
           /\ r.rawUnchanged
           /\ ~r.blockExport
           /\ w \notin {"rejected", "degraded"}
           /\ q => w # None
<1> DEFINE v == CandidateVersion(r)
           reasons == BlockedReasons(v, r, w, q, FALSE, TRUE, TRUE)
<1>1. r # None /\ v.blockExport \in BOOLEAN /\ (v.blockExport <=> r.blockExport)
  BY VersionFacts
<1>2. reasons = {}
  BY DEF RuntimePackage, ExportPackage
<1>3. /\ RawGateCodes(v, r) = {}
      /\ ValidationGateCodes(r) = {}
      /\ BlockedObjectCodes(v) = {}
      /\ ModelImpactCodes(w, q) = {}
  BY <1>2 DEF BlockedReasons
<1>4. r.blockerNames = {}
  BY <1>1, <1>3 DEF ValidationGateCodes
<1>5. ~r.blockExport
  BY <1>1, <1>3 DEF BlockedObjectCodes
<1>6. r.rawUnchanged \in BOOLEAN
  BY ReportFacts DEF ReportSpace
<1>7. r.rawUnchanged
  BY <1>1, <1>3, <1>6 DEF RawGateCodes, RawUnchanged
<1>8. None \notin Verdicts
  BY RuntimeAssumption
<1>9. w \notin {"rejected", "degraded"} /\ (q => w # None)
  BY <1>3, <1>8 DEF ModelImpactCodes, Verdicts
<1> QED
  BY <1>4, <1>5, <1>7, <1>9

\* A gate blocks on the findings it is there for and on no others.
LEMMA BlockingGates ==
    ASSUME NEW o \in Observations
    PROVE  /\ IsBlocking(SchemaGate(o)) <=> o.missingColumns
           /\ IsBlocking(BusinessRulesGate(o)) <=> o.rules = "critical"
           /\ IsBlocking(PrivacyGate(o)) <=> o.pii /\ o.restricted
           /\ IsBlocking(SplitLeakageGate(o)) <=> o.leakage \in {"evaluation", "training", "both"}
           /\ \/ IsBlocking(DcrGate(o))
              \/ IsBlocking(ExactDuplicateGate(o))
              \/ IsBlocking(NearestNeighborGate(o))
              <=> o.distance \in {"low_dcr", "near", "colliding", "copy"}
           /\ IsBlocking(RawImmutabilityGate(o)) <=> o.source # "approved"
<1> USE DEF IsBlocking, Passed, NotApplicable, Warning, Blocker, Gate
<1>1. IsBlocking(SchemaGate(o)) <=> o.missingColumns
  BY DEF SchemaGate
<1>2. IsBlocking(BusinessRulesGate(o)) <=> o.rules = "critical"
  BY DEF BusinessRulesGate, Observations, RuleFindings
<1>3. IsBlocking(PrivacyGate(o)) <=> o.pii /\ o.restricted
  BY DEF PrivacyGate
<1>4. IsBlocking(SplitLeakageGate(o)) <=> o.leakage \in {"evaluation", "training", "both"}
  BY DEF SplitLeakageGate
<1>5. \/ IsBlocking(DcrGate(o))
      \/ IsBlocking(ExactDuplicateGate(o))
      \/ IsBlocking(NearestNeighborGate(o))
      <=> o.distance \in {"low_dcr", "near", "colliding", "copy"}
  BY DEF DcrGate, ExactDuplicateGate, NearestNeighborGate, SyntheticGate
<1>6. IsBlocking(RawImmutabilityGate(o)) <=> o.source # "approved"
  BY DEF RawImmutabilityGate
<1> QED
  BY <1>1, <1>2, <1>3, <1>4, <1>5, <1>6

\* What the validation gates must find of a candidate for it to be exported.
CleanObservation(o) ==
    /\ ~o.missingColumns /\ o.rules # "critical" /\ ~(o.pii /\ o.restricted)
    /\ o.leakage \in {"none", "clean", "noted"} /\ o.distance \in {"none", "far"}
    /\ o.source = "approved"

\* The report names a blocker for exactly the observations that are not clean,
\* and blocks the export exactly when it names one.
LEMMA ReportBlocks ==
    ASSUME NEW o \in Observations
    PROVE  LET r == ValidationReport(o) IN
           /\ r.blockerNames = {} <=> CleanObservation(o)
           /\ r.blockExport <=> r.blockerNames # {}
           /\ r.blockerNames # {} => r.overall = "failed"
           /\ o.source # "approved" => "raw_artifact_immutability" \in r.blockerNames
<1> DEFINE g == Gates(o)
           r == ValidationReport(o)
<1>1. g = {SchemaGate(o), BusinessRulesGate(o), PrivacyGate(o), SplitLeakageGate(o),
           DcrGate(o), ExactDuplicateGate(o), NearestNeighborGate(o), RawImmutabilityGate(o)}
  BY DEF Gates
<1>2. /\ r.blockerNames = {b.name : b \in Blockers(g)}
      /\ r.overall = OverallStatus(g)
      /\ r.candidateStatus = CandidateStatus(g, o.source = "approved")
  BY DEF ValidationReport
<1> HIDE DEF g, r
<1>3. Blockers(g) = {} <=> CleanObservation(o)
  <2>1. Blockers(g) = {} <=>
           ~ \/ IsBlocking(SchemaGate(o)) \/ IsBlocking(BusinessRulesGate(o))
             \/ IsBlocking(PrivacyGate(o)) \/ IsBlocking(SplitLeakageGate(o))
             \/ \/ IsBlocking(DcrGate(o))
                \/ IsBlocking(ExactDuplicateGate(o))
                \/ IsBlocking(NearestNeighborGate(o))
             \/ IsBlocking(RawImmutabilityGate(o))
    BY <1>1 DEF Blockers
  <2>2. /\ o.leakage \in LeakageFindings /\ o.distance \in Distances
    BY DEF Observations
  <2> QED
    BY <2>1, <2>2, BlockingGates DEF CleanObservation, LeakageFindings, Distances
<1>4. r.blockerNames = {} <=> Blockers(g) = {}
  BY <1>2
<1>5. Blockers(g) # {} => r.overall = "failed"
  BY <1>2 DEF Blockers, IsBlocking, OverallStatus
<1>6. o.source # "approved" => "raw_artifact_immutability" \in r.blockerNames
  <2>1. ASSUME o.source # "approved"
        PROVE  RawImmutabilityGate(o) \in Blockers(g)
    BY <1>1, <2>1, BlockingGates DEF Blockers
  <2>2. RawImmutabilityGate(o).name = "raw_artifact_immutability"
    BY DEF RawImmutabilityGate, Passed, Blocker, Gate
  <2> QED
    BY <1>2, <2>1, <2>2
<1>7. r.blockExport <=> Blockers(g) # {}
  <2>1. r.blockExport <=> r.candidateStatus = "validation_failed"
    BY ReportFacts DEF r
  <2>2. r.candidateStatus = "validation_failed" <=> Blockers(g) # {} \/ o.source # "approved"
    BY <1>2 DEF CandidateStatus
  <2> QED
    BY <1>2, <1>6, <2>1, <2>2
<1> QED
  BY <1>3, <1>4, <1>5, <1>6, <1>7 DEF r

\* A verdict blocks when it is a loss, or missing where it is required.
LEMMA ImpactBlocks ==
    ASSUME NEW w \in Verdicts \cup {None}, NEW q \in BOOLEAN
    PROVE  ModelImpactCodes(w, q) = {} <=> w \notin {"rejected", "degraded"} /\ (q => w # None)
<1>1. None \notin Verdicts
  BY RuntimeAssumption
<1> QED
  BY <1>1 DEF ModelImpactCodes, Verdicts

\* The reasons of a package: nothing blocks but the report and the verdict.
LEMMA ReasonsOfPackage ==
    ASSUME NEW o \in Observations, NEW w \in Verdicts \cup {None}, NEW q \in BOOLEAN
    PROVE  LET r == ValidationReport(o)
               p == RuntimePackage(CandidateVersion(r), r, w, q)
           IN  /\ p.status = "ready" <=> p.reasons = {}
               /\ p.status = "blocked" <=> p.reasons # {}
               /\ p.reasons # {} => p.artifacts = {"manifest"}
               /\ p.reasons = {} <=> CleanObservation(o) /\ ModelImpactCodes(w, q) = {}
               /\ r.blockerNames \subseteq p.reasons
               /\ r.blockerNames # {} => "blocked_objects_present" \in p.reasons
               /\ o.source # "approved" => "raw_artifact_changed" \in p.reasons
<1> DEFINE r == ValidationReport(o)
           v == CandidateVersion(r)
           reasons == BlockedReasons(v, r, w, q, FALSE, TRUE, TRUE)
           p == RuntimePackage(v, r, w, q)
<1>1. r \in ReportSpace
  BY DEF ReportSpace
<1>2. r # None /\ (v.blockExport <=> r.blockExport) /\ v.blockExport \in BOOLEAN
  BY <1>1, VersionFacts
<1>3. v.reasons = r.blockerNames
  BY <1>2 DEF CandidateVersion
<1>4. p = ExportPackage(reasons)
  BY DEF RuntimePackage
<1>5. /\ r.rawUnchanged \in BOOLEAN /\ (r.rawUnchanged <=> o.source = "approved")
  BY ReportFacts
<1>6. /\ r.blockerNames = {} <=> CleanObservation(o)
      /\ r.blockExport <=> r.blockerNames # {}
  BY ReportBlocks
<1> HIDE DEF r, v, p
<1>7. reasons = UNION {CandidateGateCodes(v), RawGateCodes(v, r), r.blockerNames,
                       BlockedObjectCodes(v), ModelImpactCodes(w, q)}
  BY <1>2 DEF BlockedReasons, ValidationGateCodes, TextPrivacyCodes, RequiredArtifactCodes
<1>8. BlockedObjectCodes(v) = IF v.blockExport THEN {"blocked_objects_present"} ELSE {}
  BY DEF BlockedObjectCodes
<1>9. ~v.blockExport => CandidateGateCodes(v) = {}
  BY DEF CandidateGateCodes
<1>10. RawGateCodes(v, r) = IF o.source = "approved" THEN {} ELSE {"raw_artifact_changed"}
  BY <1>2, <1>5 DEF RawGateCodes, RawUnchanged
<1>11. CleanObservation(o) => o.source = "approved"
  BY DEF CleanObservation
<1> HIDE DEF reasons
<1>12. reasons = {} <=> CleanObservation(o) /\ ModelImpactCodes(w, q) = {}
  <2>1. ASSUME reasons = {} PROVE CleanObservation(o) /\ ModelImpactCodes(w, q) = {}
    BY <1>6, <1>7, <2>1
  <2>2. ASSUME CleanObservation(o), ModelImpactCodes(w, q) = {} PROVE reasons = {}
    BY <1>2, <1>6, <1>7, <1>8, <1>9, <1>10, <1>11, <2>2
  <2> QED
    BY <2>1, <2>2
<1>13. /\ r.blockerNames \subseteq reasons
       /\ r.blockerNames # {} => "blocked_objects_present" \in reasons
       /\ o.source # "approved" => "raw_artifact_changed" \in reasons
  BY <1>2, <1>6, <1>7, <1>8, <1>10
<1>14. /\ p.status = "ready" <=> p.reasons = {}
       /\ p.status = "blocked" <=> p.reasons # {}
       /\ p.reasons # {} => p.artifacts = {"manifest"}
       /\ p.reasons = reasons
  BY <1>4 DEF ExportPackage
<1> QED
  BY <1>12, <1>13, <1>14 DEF r, v, p

\* gates.py, candidate_version.py, export_package.py, dataset_card.py: of every
\* observation, verdict and requirement, a package is READY exactly when the
\* policy says so, and version, package and card tell one story.
LEMMA PackagesFollowPolicy ==
    ASSUME NEW s \in ReleaseCases
    PROVE  PackageFollowsPolicy(s)
<1> DEFINE r == ValidationReport(s.obs)
           v == CandidateVersion(r)
           p == RuntimePackage(v, r, s.verdict, s.required)
           card == DatasetCard(v, r, s.verdict)
<1>1. s.obs \in Observations /\ s.verdict \in Verdicts \cup {None} /\ s.required \in BOOLEAN
  BY DEF ReleaseCases
<1>2. /\ p.status = "ready" <=> p.reasons = {}
      /\ p.status = "blocked" <=> p.reasons # {}
      /\ p.reasons # {} => p.artifacts = {"manifest"}
      /\ p.reasons = {} <=> CleanObservation(s.obs) /\ ModelImpactCodes(s.verdict, s.required) = {}
      /\ r.blockerNames \subseteq p.reasons
      /\ r.blockerNames # {} => "blocked_objects_present" \in p.reasons
      /\ s.obs.source # "approved" => "raw_artifact_changed" \in p.reasons
  BY <1>1, ReasonsOfPackage
<1>3. /\ r.blockerNames = {} <=> CleanObservation(s.obs)
      /\ r.blockExport <=> r.blockerNames # {}
      /\ r.blockerNames # {} => r.overall = "failed"
      /\ s.obs.source # "approved" => "raw_artifact_immutability" \in r.blockerNames
  BY <1>1, ReportBlocks
<1>4. ModelImpactCodes(s.verdict, s.required) = {} <=>
         s.verdict \notin {"rejected", "degraded"} /\ (s.required => s.verdict # None)
  BY <1>1, ImpactBlocks
<1>5. r \in ReportSpace
  BY <1>1 DEF ReportSpace
<1>6. /\ r # None /\ v # None /\ (v.blockExport <=> r.blockExport)
      /\ (v.status = "blocked" <=> r.blockExport) /\ v.status # "failed"
  BY <1>5, VersionFacts
<1>7. v.reasons = r.blockerNames
  BY <1>6 DEF CandidateVersion
<1>8. /\ r.rawUnchanged <=> s.obs.source = "approved"
  BY <1>1, ReportFacts
<1>9. /\ card.status = v.status /\ card.blockers = v.reasons
      /\ card.impact = s.verdict /\ card.gates = r.overall
  BY <1>6 DEF DatasetCard, CardBlockers
<1> HIDE DEF r, v, p, card
<1>10. (p.status = "ready") <=> SafeToExport(s)
  BY <1>2, <1>4 DEF SafeToExport, CleanObservation
<1>11. ReferencesAgree(v, p)
  <2>1. FinalCandidate(v) <=> ~r.blockExport
    BY <1>6 DEF FinalCandidate
  <2>2. FinalExport(p) => p.status = "ready"
    BY DEF FinalExport
  <2> QED
    BY <1>2, <1>3, <1>6, <1>7, <2>1, <2>2 DEF ReferencesAgree
<1>12. ChangedSourceBlocksEverywhere(s, r, p)
  BY <1>2, <1>3, <1>8 DEF ChangedSourceBlocksEverywhere
<1>13. CardTellsWhy(s, card, p)
  BY <1>2, <1>3, <1>4, <1>6, <1>7, <1>9 DEF CardTellsWhy
<1> QED
  BY <1>10, <1>11, <1>12, <1>13 DEF PackageFollowsPolicy, r, v, p, card

\* gates.py:189, candidate_version.py:117, export_package.py:115: whatever the
\* gates observe, the verdict and the request, READY means what the policy says.
THEOREM ReleasePolicyHolds == subject \in ReleaseCases => ReadyExactlyWhenSafe
BY PackagesFollowPolicy DEF ReadyExactlyWhenSafe

-----------------------------------------------------------------------------
(* The inductive invariant.                                                *)

Executing == {"resolve", "steps"}
Validating == {"columns", "gates", "reference"}
Measuring == {"split", "impact", "outputs"}
Building == {"card", "tabular", "package"}

\* Every step before the current one was supported and ran on source bytes.
StepInv ==
    /\ step \in 1 .. Len(job.plan) + 1
    /\ \A i \in 1 .. step - 1 : job.plan[i] # "unsupported"
    /\ pc = "resolve" => step = 1 /\ state.expected = None /\ state.base = None
    /\ step > 1 => state.base \in Contents
    /\ pc \notin Executing \cup {"failed"} => step = Len(job.plan) + 1
    /\ state.report # None => step = Len(job.plan) + 1

\* While the approved bytes have not been put back, a changed source stays
\* changed, and so does what was read from it.
BytesInv ==
    ~restored =>
        /\ state.expected = "changed" =>
              content = "changed" /\ state.base \in {None, "changed"}
        /\ state.base = "changed" => content = "changed"

\* The hash of the reference is known, and the candidate's bytes have it.
Matches ==
    /\ state.expected \in Contents
    /\ restored \/ state.base = state.expected

\* What the gates concluded about the source carries over to the report.
GateInv ==
    /\ pc = "reference" =>
          finding \in FindingSpace /\ (finding.source = "approved" => Matches)
    /\ state.report # None /\ state.report.rawUnchanged => Matches
    /\ pc \in Executing \cup Validating => state.report = None
    /\ pc \in Measuring \cup Building \cup {"completed"} => state.report # None

\* Version, files and package are built once, in this order, from the report
\* the run ended validation with.
OutputInv ==
    /\ pc \in Executing \cup Validating \cup Measuring =>
          state.version = None /\ proposed = 0
    /\ state.version # None =>
          state.report # None /\ state.version = CandidateVersion(state.report)
    /\ pc \in Building \cup {"completed"} => state.version # None
    /\ state.tabular => state.version # None /\ state.version.status # "blocked"
    /\ pc \in {"package", "completed"} =>
          state.tabular = (state.version.status # "blocked")
    /\ pc # "completed" =>
          state.package = None /\ ~published.candidate /\ ~published.export
    /\ pc = "completed" =>
          /\ state.package = RuntimePackage(state.version, state.report,
                                            state.impact, job.required)
          /\ published = [candidate |-> FinalCandidate(state.version),
                          export |-> FinalExport(state.package)]

RuntimeInv == TypeInv /\ StepInv /\ BytesInv /\ GateInv /\ OutputInv

-----------------------------------------------------------------------------
(* Type correctness.                                                       *)

\* A run starts in the invariant: nothing has been read, built or proposed.
LEMMA RuntimeInitInv == RuntimeInit => RuntimeInv
<1> SUFFICES ASSUME RuntimeInit PROVE RuntimeInv
  OBVIOUS
<1>1. job.plan \in Seq(Steps) \ {<<>>}
  BY RuntimeAssumption DEF RuntimeInit
<1>2. state \in StateSpace
  BY DEF RuntimeInit, StateSpace, EmptyState
<1>3. TypeInv
  BY <1>2 DEF TypeInv, RuntimeInit, Pcs
<1>4. StepInv
  BY <1>1 DEF StepInv, RuntimeInit, EmptyState, Executing
<1>5. BytesInv /\ GateInv /\ OutputInv
  BY RuntimeAssumption DEF BytesInv, GateInv, OutputInv, RuntimeInit, EmptyState,
     Executing, Validating, Measuring, Building, Contents
<1> QED
  BY <1>3, <1>4, <1>5 DEF RuntimeInv

\* The gates' view of the source is one of three.
LEMMA SourceReadTyped == SourceRead \in SourceReads
  BY DEF SourceRead, SourceReads

\* A gate finding completed with a distance is an observation of ReleaseGating.
LEMMA ReportTyped ==
    ASSUME TypeInv, NEW f \in FindingSpace, NEW d \in Distances
    PROVE  \E o \in Observations :
              /\ o.source = f.source
              /\ WithReport(f, d) = [state EXCEPT !.report = ValidationReport(o)]
<1> DEFINE o == [missingColumns |-> f.missingColumns, nonNumeric |-> f.nonNumeric,
                 rules |-> f.rules, pii |-> f.pii, restricted |-> f.restricted,
                 leakage |-> "none", distance |-> d, source |-> f.source]
<1>1. o \in Observations
  BY DEF Observations, FindingSpace, LeakageFindings
<1> QED
  BY <1>1 DEF WithReport

\* Validation leaves every field of the state but the report as it was.
LEMMA ReportStep ==
    ASSUME TypeInv, NEW f \in FindingSpace, NEW d \in Distances,
           state' = WithReport(f, d)
    PROVE  /\ state' \in StateSpace
           /\ state'.report \in ReportSpace /\ state'.report # None
           /\ state'.report.rawUnchanged <=> f.source = "approved"
           /\ state'.expected = state.expected /\ state'.base = state.base
           /\ state'.version = state.version /\ state'.tabular = state.tabular
           /\ state'.package = state.package /\ state'.impact = state.impact
<1>1. PICK o \in Observations :
         /\ o.source = f.source
         /\ WithReport(f, d) = [state EXCEPT !.report = ValidationReport(o)]
  BY ReportTyped
<1>2. ValidationReport(o) \in ReportSpace /\ ValidationReport(o) # None
  BY RuntimeAssumption DEF ReportSpace
<1>3. ValidationReport(o).rawUnchanged <=> f.source = "approved"
  BY <1>1, ReportFacts
<1> HIDE DEF ReportSpace
<1>4. state \in StateSpace /\ state' = [state EXCEPT !.report = ValidationReport(o)]
  BY <1>1 DEF TypeInv
<1> QED
  BY <1>2, <1>3, <1>4 DEF StateSpace

-----------------------------------------------------------------------------
(* What the two actions that build the report do to the state.             *)

\* The gates either keep a finding for the reference rows or build the report,
\* and call the source approved only if it matches the expected hash.
LEMMA RunGatesEffect ==
    ASSUME TypeInv, RunGates
    PROVE  \E seen \in FindingSpace :
              /\ seen.source = SourceRead
              /\ \/ pc' = "reference" /\ finding' = seen /\ UNCHANGED state
                 \/ /\ pc' = "split" /\ UNCHANGED finding
                    /\ state' = WithReport(seen, "none")
<1> DEFINE Seen(f) == [missingColumns |-> f.missingColumns,
                       nonNumeric |-> f.nonNumeric, rules |-> f.rules,
                       pii |-> f.pii, restricted |-> f.restricted,
                       source |-> SourceRead]
<1>1. PICK f \in Findings :
         IF state.synthetic
         THEN pc' = "reference" /\ finding' = Seen(f) /\ UNCHANGED state
         ELSE pc' = "split" /\ UNCHANGED finding /\ state' = WithReport(Seen(f), "none")
  BY DEF RunGates
<1>2. Seen(f) \in FindingSpace /\ Seen(f).source = SourceRead
  BY RuntimeAssumption, SourceReadTyped DEF FindingSpace
<1> QED
  BY <1>1, <1>2

\* The reference rows complete the finding of the gates.
LEMMA ReadReferenceEffect ==
    ASSUME TypeInv, GateInv, ReadReference
    PROVE  \E d \in Distances :
              /\ pc = "reference" /\ finding \in FindingSpace
              /\ state' = WithReport(finding, d)
  BY DEF ReadReference, GateInv, At

\* Both leave everything but the report alone and end in "split".
LEMMA GatesEffect ==
    ASSUME TypeInv, GateInv, RunGates \/ ReadReference
    PROVE  /\ UNCHANGED <<external, job, step, proposed, published>>
           /\ pc \in Validating
           /\ state' \in StateSpace
           /\ state'.expected = state.expected /\ state'.base = state.base
           /\ state'.version = state.version /\ state'.tabular = state.tabular
           /\ state'.package = state.package
           /\ \/ /\ pc = "gates" /\ pc' = "reference" /\ UNCHANGED state
                 /\ finding' \in FindingSpace /\ finding'.source = SourceRead
              \/ /\ pc' = "split" /\ finding' \in FindingSpace \cup {None}
                 /\ state'.report \in ReportSpace /\ state'.report # None
                 /\ state'.report.rawUnchanged =>
                      \/ pc = "gates" /\ SourceRead = "approved"
                      \/ pc = "reference" /\ finding.source = "approved"
<1>1. CASE RunGates
  <2>1. UNCHANGED <<external, job, step, proposed, published>> /\ pc = "gates"
    BY <1>1 DEF RunGates, At
  <2>2. PICK seen \in FindingSpace :
           /\ seen.source = SourceRead
           /\ \/ pc' = "reference" /\ finding' = seen /\ UNCHANGED state
              \/ /\ pc' = "split" /\ UNCHANGED finding
                 /\ state' = WithReport(seen, "none")
    BY <1>1, RunGatesEffect
  <2>3. CASE pc' = "reference" /\ finding' = seen /\ UNCHANGED state
    BY <2>1, <2>2, <2>3 DEF TypeInv, Validating
  <2>4. CASE /\ pc' = "split" /\ UNCHANGED finding
             /\ state' = WithReport(seen, "none")
    <3>1. "none" \in Distances
      BY DEF Distances
    <3>2. /\ state' \in StateSpace
          /\ state'.report \in ReportSpace /\ state'.report # None
          /\ state'.report.rawUnchanged <=> seen.source = "approved"
          /\ state'.expected = state.expected /\ state'.base = state.base
          /\ state'.version = state.version /\ state'.tabular = state.tabular
          /\ state'.package = state.package
      BY <2>4, <3>1, ReportStep
    <3>3. finding' \in FindingSpace \cup {None}
      BY <2>4 DEF TypeInv
    <3> QED
      BY <2>1, <2>2, <2>4, <3>2, <3>3 DEF Validating
  <2> QED
    BY <2>2, <2>3, <2>4
<1>2. CASE ReadReference
  <2>1. PICK d \in Distances :
           /\ pc = "reference" /\ finding \in FindingSpace
           /\ state' = WithReport(finding, d)
    BY <1>2, ReadReferenceEffect
  <2>2. /\ UNCHANGED <<external, job, step, proposed, published>>
        /\ pc' = "split" /\ finding' = None
    BY <1>2 DEF ReadReference, At
  <2>3. /\ state' \in StateSpace
        /\ state'.report \in ReportSpace /\ state'.report # None
        /\ state'.report.rawUnchanged <=> finding.source = "approved"
        /\ state'.expected = state.expected /\ state'.base = state.base
        /\ state'.version = state.version /\ state'.tabular = state.tabular
        /\ state'.package = state.package
    BY <2>1, ReportStep
  <2> QED
    BY <2>1, <2>2, <2>3 DEF Validating
<1> QED
  BY <1>1, <1>2

-----------------------------------------------------------------------------
(* Every step preserves the invariant.                                     *)

\* A package of typed parts is in PackageSpace.
LEMMA PackageTyped ==
    ASSUME NEW v \in VersionSpace, NEW r \in ReportSpace \cup {None},
           NEW w \in Verdicts \cup {None}, NEW q \in BOOLEAN
    PROVE  RuntimePackage(v, r, w, q) \in PackageSpace
  BY DEF PackageSpace

\* The actions that touch the state by single fields keep it in StateSpace.
LEMMA RuntimeTypeStep ==
    ASSUME RuntimeInv, RuntimeNext
    PROVE  TypeInv'
<1> USE DEF TypeInv, At, Goto, external
<1>a. TypeInv /\ GateInv /\ StepInv
  BY DEF RuntimeInv
<1>1. CASE ChangeContent
  BY <1>a, <1>1 DEF ChangeContent
<1>2. CASE ToggleReadable
  BY <1>a, <1>2 DEF ToggleReadable
<1>3. CASE ResolveSource
  <2>1. ExpectedContent \in Contents \cup {"placeholder"}
    BY <1>a DEF ExpectedContent, Contents
  <2>2. state' \in StateSpace
    BY <1>a, <1>3, <2>1 DEF ResolveSource, StateSpace
  <2> QED
    BY <1>a, <1>3, <2>2 DEF ResolveSource, Pcs
<1>4. CASE ExecuteStep
  <2>1. StepInput \in Contents
    BY <1>a, <1>4 DEF ExecuteStep, StepInput, FirstStep, StepInv
  <2>2. SplitAfter \in Contents \cup {"candidate", None}
    BY <1>a, <1>4 DEF SplitAfter, StateSpace
  <2>3. \A b \in BOOLEAN :
           [state EXCEPT !.base = StepInput, !.split = SplitAfter,
                         !.synthetic = b] \in StateSpace
    BY <1>a, <2>1, <2>2 DEF StateSpace
  <2>4. (state.synthetic \/ job.plan[step] = "smote") \in BOOLEAN
    OBVIOUS
  <2>5. state' \in StateSpace
    BY <1>4, <2>3, <2>4, Zenon DEF ExecuteStep
  <2> QED
    BY <1>a, <1>4, <2>5 DEF ExecuteStep
<1>5. CASE StepsDone
  BY <1>a, <1>5 DEF StepsDone, Pcs
<1>6. CASE ReadColumns
  BY <1>a, <1>6 DEF ReadColumns, Pcs
<1>7. CASE RunGates \/ ReadReference
  BY <1>a, <1>7, GatesEffect DEF Pcs
<1>8. CASE EnsureSplit
  <2>1. state' \in StateSpace
    BY <1>a, <1>8 DEF EnsureSplit, StateSpace
  <2> QED
    BY <1>a, <1>8, <2>1 DEF EnsureSplit, Pcs
<1>9. Attempted \in StateSpace
  BY <1>a DEF Attempted, StateSpace
<1>10. CASE ImpactNotApplicable
  BY <1>a, <1>9, <1>10 DEF ImpactNotApplicable, NextCall, Pcs
<1>11. CASE RunModelImpact
  <2>1. PICK v \in Verdicts :
           state' = [Attempted EXCEPT !.impact = v, !.baseline = content]
    BY <1>11 DEF RunModelImpact
  <2>2. state' \in StateSpace
    BY <1>a, <1>9, <2>1 DEF StateSpace
  <2> QED
    BY <1>a, <1>11, <2>2 DEF RunModelImpact, Pcs
<1>12. CASE ImpactRaises
  BY <1>a, <1>9, <1>12 DEF ImpactRaises, NextCall, Pcs
<1>13. CASE BuildCandidateVersion
  <2>1. state.report \in ReportSpace \cup {None}
    BY <1>a DEF StateSpace
  <2>2. CandidateVersion(state.report) \in VersionSpace
    BY <2>1 DEF VersionSpace
  <2>3. state' \in StateSpace
    BY <1>a, <1>13, <2>2 DEF BuildCandidateVersion, StateSpace
  <2>4. proposed = 0
    BY <1>13 DEF BuildCandidateVersion, RuntimeInv, OutputInv, Measuring
  <2> QED
    BY <1>a, <1>13, <2>3, <2>4 DEF BuildCandidateVersion, Pcs
<1>14. CASE BuildCardAndLineage
  BY <1>a, <1>14 DEF BuildCardAndLineage, Pcs
<1>15. CASE WriteTabularExport
  <2>1. \A b \in BOOLEAN : [state EXCEPT !.tabular = b] \in StateSpace
    BY <1>a DEF StateSpace
  <2>2. (state.version.status # "blocked") \in BOOLEAN
    OBVIOUS
  <2>3. state' \in StateSpace
    BY <1>15, <2>1, <2>2, Zenon DEF WriteTabularExport
  <2> QED
    BY <1>a, <1>15, <2>3 DEF WriteTabularExport, Pcs
<1>16. CASE BuildExportPackage
  <2> DEFINE package == RuntimePackage(state.version, state.report, state.impact,
                                       job.required)
  <2>1. /\ state.version \in VersionSpace
        /\ state.report \in ReportSpace \cup {None}
        /\ state.impact \in Verdicts \cup {None}
        /\ job.required \in BOOLEAN
    <3>1. state.version # None
      BY <1>16 DEF BuildExportPackage, RuntimeInv, OutputInv, Building
    <3> QED
      BY <1>a, <3>1 DEF StateSpace
  <2>2. package \in PackageSpace
    BY <2>1, PackageTyped, Zenon
  <2>3. /\ state' = [state EXCEPT !.package = package]
        /\ published' = [candidate |-> FinalCandidate(state.version),
                         export |-> FinalExport(package)]
        /\ pc' = "completed" /\ UNCHANGED <<external, job, step, finding, proposed>>
    BY <1>16 DEF BuildExportPackage
  <2>4. state' \in StateSpace
    BY <1>a, <2>2, <2>3 DEF StateSpace
  <2>5. published' \in [candidate : BOOLEAN, export : BOOLEAN]
    BY <2>3 DEF FinalCandidate, FinalExport
  <2> QED
    BY <1>a, <2>3, <2>4, <2>5 DEF Pcs
<1>17. CASE Raises
  BY <1>a, <1>17 DEF Raises, Raise, Pcs
<1> QED
  BY <1>1, <1>2, <1>3, <1>4, <1>5, <1>6, <1>7, <1>8, <1>10, <1>11, <1>12, <1>13,
     <1>14, <1>15, <1>16, <1>17 DEF RuntimeNext, RunNext

\* The steps a state may take that matter to each part of the invariant; the
\* rest of RuntimeNext is named here once.
Quietly ==
    \/ StepsDone \/ ReadColumns \/ EnsureSplit \/ ImpactNotApplicable
    \/ RunModelImpact \/ ImpactRaises \/ BuildCandidateVersion
    \/ BuildCardAndLineage \/ WriteTabularExport \/ BuildExportPackage \/ Raises

\* None of those actions reads the source into the candidate or the report,
\* and they move forward only.
LEMMA QuietEffect ==
    ASSUME TypeInv, Quietly
    PROVE  /\ UNCHANGED <<external, job, step, finding>>
           /\ state'.expected = state.expected /\ state'.base = state.base
           /\ state'.report = state.report
           /\ \/ pc = "steps" /\ step > Len(job.plan) /\ pc' = "columns"
              \/ pc = "columns" /\ pc' = "gates"
              \/ /\ pc \in Measuring \cup Building
                 /\ pc' \in Measuring \cup Building \cup {"completed"}
              \/ pc # "completed" /\ pc' = "failed"
<1> USE DEF TypeInv, StateSpace, At, Goto, Attempted, NextCall, Measuring, Building
<1>1. CASE StepsDone \/ ReadColumns
  BY <1>1 DEF StepsDone, ReadColumns
<1>2. CASE EnsureSplit \/ ImpactNotApplicable
  BY <1>2 DEF EnsureSplit, ImpactNotApplicable
<1>3. CASE RunModelImpact
  BY <1>3 DEF RunModelImpact
<1>4. CASE ImpactRaises
  BY <1>4 DEF ImpactRaises
<1>5. CASE BuildCandidateVersion \/ BuildCardAndLineage
  BY <1>5 DEF BuildCandidateVersion, BuildCardAndLineage
<1>6. CASE WriteTabularExport
  BY <1>6 DEF WriteTabularExport
<1>7. CASE BuildExportPackage
  BY <1>7 DEF BuildExportPackage
<1>8. CASE Raises
  BY <1>8 DEF Raises, Raise
<1> QED
  BY <1>1, <1>2, <1>3, <1>4, <1>5, <1>6, <1>7, <1>8 DEF Quietly

\* Only six actions are not quiet.
LEMMA RuntimeCases ==
    RuntimeNext => \/ ChangeContent \/ ToggleReadable \/ ResolveSource
                   \/ ExecuteStep \/ RunGates \/ ReadReference \/ Quietly
  BY DEF RuntimeNext, RunNext, Quietly

\* Resolving the source and executing a step set one part of the state.
LEMMA ExecutingEffect ==
    ASSUME TypeInv, ResolveSource \/ ExecuteStep
    PROVE  /\ UNCHANGED <<external, job, finding, proposed, published>>
           /\ pc \in Executing /\ pc' = "steps"
           /\ state'.report = state.report /\ state'.version = state.version
           /\ state'.tabular = state.tabular /\ state'.package = state.package
           /\ \/ /\ pc = "resolve" /\ step' = step /\ state'.base = state.base
                 /\ state'.expected \in {"placeholder", "approved", content}
              \/ /\ pc = "steps" /\ step <= Len(job.plan) /\ step' = step + 1
                 /\ job.plan[step] # "unsupported"
                 /\ state'.expected = state.expected
                 /\ state'.base = IF step = 1 THEN content ELSE state.base
<1> USE DEF TypeInv, StateSpace, At, Goto, Executing
<1>1. CASE ResolveSource
  BY <1>1 DEF ResolveSource, ExpectedContent
<1>2. CASE ExecuteStep
  BY <1>2 DEF ExecuteStep, StepInput, FirstStep
<1> QED
  BY <1>1, <1>2

\* The plan is a sequence with at least one step.
LEMMA PlanNotEmpty ==
    ASSUME TypeInv
    PROVE  job.plan \in Seq(Steps) /\ Len(job.plan) \in Nat \ {0}
<1>1. job.plan \in Seq(Steps) \ {<<>>}
  BY RuntimeAssumption DEF TypeInv
<1> QED
  BY <1>1

\* The step index counts supported steps that have run.
LEMMA RuntimeStepInvStep ==
    ASSUME RuntimeInv, RuntimeNext
    PROVE  StepInv'
<1> USE DEF StepInv
<1>a. TypeInv /\ GateInv /\ StepInv /\ Len(job.plan) \in Nat \ {0}
  BY PlanNotEmpty DEF RuntimeInv
<1>1. CASE ChangeContent \/ ToggleReadable
  BY <1>a, <1>1 DEF ChangeContent, ToggleReadable
<1>2. CASE ResolveSource \/ ExecuteStep
  <2>1. state.report = None
    BY <1>a, <1>2, ExecutingEffect DEF GateInv
  <2> QED
    BY <1>a, <1>2, <2>1, ExecutingEffect DEF Executing, TypeInv
<1>3. CASE RunGates \/ ReadReference
  <2>1. step = Len(job.plan) + 1
    BY <1>a, <1>3, GatesEffect DEF Executing, Validating
  <2> QED
    BY <1>a, <1>3, <2>1, GatesEffect DEF Executing, Validating, external
<1>4. CASE Quietly
  BY <1>a, <1>4, QuietEffect DEF Executing, Measuring, Building, external, TypeInv
<1> QED
  BY <1>1, <1>2, <1>3, <1>4, RuntimeCases

\* Only the external writer moves bytes, and it does not restore them unseen.
LEMMA RuntimeBytesStep ==
    ASSUME RuntimeInv, RuntimeNext
    PROVE  BytesInv'
<1> USE DEF BytesInv
<1>a. TypeInv /\ GateInv /\ StepInv /\ BytesInv
  BY DEF RuntimeInv
<1>1. CASE ChangeContent
  BY <1>a, <1>1 DEF ChangeContent, TypeInv, Contents
<1>2. CASE ToggleReadable
  BY <1>a, <1>2 DEF ToggleReadable
<1>3. CASE ResolveSource \/ ExecuteStep
  BY <1>a, <1>3, ExecutingEffect DEF StepInv, external, TypeInv, Contents
<1>4. CASE RunGates \/ ReadReference
  BY <1>a, <1>4, GatesEffect DEF external
<1>5. CASE Quietly
  BY <1>a, <1>5, QuietEffect DEF external
<1> QED
  BY <1>1, <1>2, <1>3, <1>4, <1>5, RuntimeCases

\* Bytes the gate approves are the ones the candidate was computed from.
LEMMA ApprovedMatches ==
    ASSUME TypeInv, StepInv, BytesInv, pc \in Validating, SourceRead = "approved"
    PROVE  Matches
<1>1. Len(job.plan) \in Nat \ {0}
  BY PlanNotEmpty
<1>2. state.base \in Contents
  BY <1>1 DEF StepInv, Validating, Executing
<1>3. content = state.expected
  BY DEF SourceRead
<1> QED
  BY <1>2, <1>3, RuntimeAssumption DEF Matches, BytesInv, TypeInv, Contents

\* The report is built in validation and kept to the end of the run.
LEMMA RuntimeGateStep ==
    ASSUME RuntimeInv, RuntimeNext
    PROVE  GateInv'
<1> USE DEF GateInv
<1>a. TypeInv /\ GateInv /\ StepInv /\ BytesInv
  BY DEF RuntimeInv
<1>1. CASE ChangeContent
  BY <1>a, <1>1 DEF ChangeContent, Matches
<1>2. CASE ToggleReadable
  BY <1>a, <1>2 DEF ToggleReadable, Matches
<1>3. CASE ResolveSource \/ ExecuteStep
  BY <1>a, <1>3, ExecutingEffect DEF Executing, Validating, Measuring, Building
<1>4. CASE RunGates \/ ReadReference
  <2>1. Matches => Matches'
    BY <1>a, <1>4, GatesEffect DEF Matches, external
  <2>2. SourceRead = "approved" => Matches
    BY <1>a, <1>4, GatesEffect, ApprovedMatches
  <2>3. CASE /\ pc = "gates" /\ pc' = "reference" /\ UNCHANGED state
             /\ finding' \in FindingSpace /\ finding'.source = SourceRead
    BY <1>a, <2>1, <2>2, <2>3 DEF Executing, Validating, Measuring, Building
  <2>4. CASE /\ pc' = "split"
             /\ state'.report # None
             /\ state'.report.rawUnchanged =>
                  \/ pc = "gates" /\ SourceRead = "approved"
                  \/ pc = "reference" /\ finding.source = "approved"
    BY <1>a, <2>1, <2>2, <2>4 DEF Executing, Validating, Measuring, Building
  <2> QED
    BY <1>a, <1>4, <2>3, <2>4, GatesEffect
<1>5. CASE Quietly
  <2>1. Matches => Matches'
    BY <1>a, <1>5, QuietEffect DEF Matches, external
  <2> QED
    BY <1>a, <1>5, <2>1, QuietEffect DEF Executing, Validating, Measuring, Building
<1> QED
  BY <1>1, <1>2, <1>3, <1>4, <1>5, RuntimeCases

\* Every step keeps version, files and package in the order they are built.
LEMMA RuntimeOutputStep ==
    ASSUME RuntimeInv, RuntimeNext
    PROVE  OutputInv'
<1> USE DEF OutputInv, Executing, Validating, Measuring, Building
<1>a. TypeInv /\ GateInv /\ OutputInv
  BY DEF RuntimeInv
<1> USE DEF TypeInv, At, Goto
<1>1. CASE ChangeContent
  BY <1>a, <1>1 DEF ChangeContent
<1>2. CASE ToggleReadable
  BY <1>a, <1>2 DEF ToggleReadable
<1>3. CASE ResolveSource \/ ExecuteStep
  BY <1>a, <1>3, ExecutingEffect DEF external
<1>4. CASE RunGates \/ ReadReference
  BY <1>a, <1>4, GatesEffect DEF external
<1>5. CASE StepsDone \/ ReadColumns
  BY <1>a, <1>5 DEF StepsDone, ReadColumns
<1>6. CASE EnsureSplit \/ ImpactNotApplicable \/ RunModelImpact \/ ImpactRaises
  <2>1. /\ UNCHANGED <<published, proposed>>
        /\ pc' \in Measuring \cup {"failed"} /\ pc \in Measuring
        /\ state'.report = state.report /\ state'.version = state.version
        /\ state'.tabular = state.tabular /\ state'.package = state.package
    BY <1>a, <1>6, ZenonT(40) DEF EnsureSplit, ImpactNotApplicable, RunModelImpact,
       ImpactRaises, Attempted, NextCall, StateSpace
  <2> QED
    BY <1>a, <2>1
<1>7. CASE BuildCandidateVersion
  <2>1. state.report \in ReportSpace /\ state.report # None
    BY <1>a, <1>7 DEF BuildCandidateVersion, GateInv, StateSpace
  <2>2. CandidateVersion(state.report) # None
    BY <2>1, VersionFacts
  <2>3. /\ state'.report = state.report /\ state'.tabular = state.tabular
        /\ state'.version = CandidateVersion(state.report)
        /\ state'.package = state.package /\ UNCHANGED published /\ pc' = "card"
        /\ pc = "outputs"
    BY <1>a, <1>7 DEF BuildCandidateVersion, StateSpace
  <2>4. ~state.tabular
    BY <1>a, <2>3
  <2> QED
    BY <1>a, <2>1, <2>2, <2>3, <2>4
<1>8. CASE BuildCardAndLineage
  BY <1>a, <1>8 DEF BuildCardAndLineage
<1>9. CASE WriteTabularExport
  <2>1. /\ state'.report = state.report /\ state'.version = state.version
        /\ state'.package = state.package /\ UNCHANGED published
        /\ pc = "tabular" /\ pc' = "package"
    BY <1>a, <1>9 DEF WriteTabularExport, StateSpace
  <2>2. state'.tabular = (state.version.status # "blocked")
    BY <1>a, <1>9 DEF WriteTabularExport, StateSpace
  <2> QED
    BY <1>a, <2>1, <2>2
<1>10. CASE BuildExportPackage
  <2> DEFINE package == RuntimePackage(state.version, state.report, state.impact,
                                       job.required)
  <2>1. /\ state' = [state EXCEPT !.package = package] /\ UNCHANGED job
        /\ published' = [candidate |-> FinalCandidate(state.version),
                         export |-> FinalExport(package)]
        /\ pc = "package" /\ pc' = "completed"
    BY <1>10 DEF BuildExportPackage
  <2>2. /\ state'.report = state.report /\ state'.version = state.version
        /\ state'.tabular = state.tabular /\ state'.impact = state.impact
        /\ state'.package = package
    BY <1>a, <2>1 DEF StateSpace
  <2>3. published' = [candidate |-> FinalCandidate(state'.version),
                      export |-> FinalExport(state'.package)]
    BY <2>1, <2>2
  <2>4. state'.package = RuntimePackage(state'.version, state'.report,
                                        state'.impact, job'.required)
    BY <2>1, <2>2
  <2>5. /\ state'.version # None /\ state'.report # None
        /\ state'.version = CandidateVersion(state'.report)
        /\ state'.tabular = (state'.version.status # "blocked")
    BY <1>a, <2>1, <2>2
  <2> QED
    BY <2>1, <2>3, <2>4, <2>5
<1>11. CASE Raises
  <2>1. /\ UNCHANGED <<state, published, job>> /\ pc' = "failed"
        /\ pc # "completed"
    BY <1>11 DEF Raises, Raise
  <2> QED
    BY <1>a, <2>1
<1> QED
  BY <1>1, <1>2, <1>3, <1>4, <1>5, <1>6, <1>7, <1>8, <1>9, <1>10, <1>11
     DEF RuntimeNext, RunNext

-----------------------------------------------------------------------------
(* Theorems.                                                               *)

\* The invariant holds in every reachable state.
THEOREM RuntimeInvariant == RuntimeSpec => []RuntimeInv
<1>1. RuntimeInv /\ [RuntimeNext]_runtimeVars => RuntimeInv'
  <2> SUFFICES ASSUME RuntimeInv, [RuntimeNext]_runtimeVars PROVE RuntimeInv'
    OBVIOUS
  <2>1. CASE RuntimeNext
    BY <2>1, RuntimeTypeStep, RuntimeStepInvStep, RuntimeBytesStep,
       RuntimeGateStep, RuntimeOutputStep DEF RuntimeInv
  <2>2. CASE UNCHANGED runtimeVars
    BY <2>2 DEF runtimeVars, RuntimeInv, TypeInv, StepInv, BytesInv, GateInv,
       Matches, OutputInv
  <2> QED
    BY <2>1, <2>2
<1> QED
  BY RuntimeInitInv, <1>1, PTL DEF RuntimeSpec

\* Type correctness; in particular no run proposes its candidate twice.
THEOREM RuntimeTypeCorrect == RuntimeSpec => []RuntimeTypeOK
<1>1. RuntimeInv => RuntimeTypeOK
  <2> SUFFICES ASSUME RuntimeInv PROVE RuntimeTypeOK
    OBVIOUS
  <2>1. step \in Nat \ {0}
    <3>1. Len(job.plan) \in Nat
      BY PlanNotEmpty DEF RuntimeInv
    <3> QED
      BY <3>1 DEF RuntimeInv, StepInv
  <2>2. /\ state.expected \in Contents \cup {"placeholder", None}
        /\ state.base \in Contents \cup {None}
        /\ state.split \in Contents \cup {"candidate", None}
        /\ state.impact \in Verdicts \cup {None}
        /\ state.baseline \in Contents \cup {None}
        /\ state.synthetic \in BOOLEAN /\ state.tried \in BOOLEAN
        /\ state.tabular \in BOOLEAN
    BY DEF RuntimeInv, TypeInv, StateSpace
  <2>3. state.expected \in {"approved", "changed", "placeholder", None}
    BY <2>2 DEF Contents
  <2> QED
    BY <2>1, <2>2, <2>3 DEF RuntimeInv, TypeInv, RuntimeTypeOK
<1> QED
  BY <1>1, RuntimeInvariant, PTL

\* In a ready state the run is complete and its parts are the proved ones.
LEMMA ReadyParts ==
    ASSUME RuntimeInv, Ready
    PROVE  /\ state.report \in ReportSpace /\ state.report # None
           /\ state.version = CandidateVersion(state.report)
           /\ state.version # None
           /\ RuntimePackage(state.version, state.report, state.impact,
                             job.required).status = "ready"
           /\ state.impact \in Verdicts \cup {None} /\ job.required \in BOOLEAN
           /\ published.candidate = FinalCandidate(state.version)
           /\ state.tabular = (state.version.status # "blocked")
<1>1. TypeInv /\ OutputInv
  BY DEF RuntimeInv
<1>2. pc = "completed"
  BY <1>1 DEF OutputInv, Ready
<1>3. /\ state.version # None /\ state.report # None
      /\ state.version = CandidateVersion(state.report)
      /\ state.package = RuntimePackage(state.version, state.report,
                                        state.impact, job.required)
      /\ published = [candidate |-> FinalCandidate(state.version),
                      export |-> FinalExport(state.package)]
      /\ state.tabular = (state.version.status # "blocked")
  BY <1>1, <1>2 DEF OutputInv, Building
<1>4. published.candidate = FinalCandidate(state.version)
  BY <1>3
<1> QED
  BY <1>1, <1>3, <1>4 DEF TypeInv, StateSpace, Ready

\* A READY export had a report without blockers on a source whose hash was
\* known and matched, and every verdict its plan required.
THEOREM ReadyExportsAreValidated == RuntimeSpec => []ReadyExportIsValidated
<1>1. RuntimeInv => ReadyExportIsValidated
  <2> SUFFICES ASSUME RuntimeInv, Ready
               PROVE  /\ state.report # None /\ state.report.blockerNames = {}
                      /\ state.report.rawUnchanged /\ state.expected \in Contents
                      /\ state.impact \notin {"rejected", "degraded"}
                      /\ job.required => state.impact # None
                      /\ published.candidate /\ state.tabular
    BY DEF ReadyExportIsValidated
  <2>1. /\ state.report.blockerNames = {} /\ state.report.rawUnchanged
        /\ ~state.report.blockExport
        /\ state.impact \notin {"rejected", "degraded"}
        /\ job.required => state.impact # None
    BY ReadyParts, PackageFacts
  <2>2. state.expected \in Contents
    BY <2>1, ReadyParts DEF RuntimeInv, GateInv, Matches
  <2>3. state.version.status \notin {"blocked", "failed"}
    BY <2>1, ReadyParts, VersionFacts
  <2>4. FinalCandidate(state.version) /\ state.version.status # "blocked"
    BY <2>3, ReadyParts DEF FinalCandidate
  <2> QED
    BY <2>1, <2>2, <2>4, ReadyParts
<1> QED
  BY <1>1, RuntimeInvariant, PTL

\* Without a restoration of the approved bytes, a READY export was computed
\* from the bytes its source reference stands for.
THEOREM ReadyExportsUseExpectedBytes == RuntimeSpec => []ReadyFromExpectedBytes
<1>1. RuntimeInv => ReadyFromExpectedBytes
  <2> SUFFICES ASSUME RuntimeInv, Ready, ~restored
               PROVE  state.base = state.expected
    BY DEF ReadyFromExpectedBytes
  <2>1. state.report # None /\ state.report.rawUnchanged
    BY ReadyParts, PackageFacts
  <2> QED
    BY <2>1 DEF RuntimeInv, GateInv, Matches
<1> QED
  BY <1>1, RuntimeInvariant, PTL

\* Validation follows the whole plan and never an unsupported step.
THEOREM WholePlansAreValidated == RuntimeSpec => []WholePlanIsValidated
<1>1. RuntimeInv => WholePlanIsValidated
  <2> SUFFICES ASSUME RuntimeInv, state.report # None
               PROVE  /\ step = Len(job.plan) + 1
                      /\ \A i \in DOMAIN job.plan : job.plan[i] # "unsupported"
    BY DEF WholePlanIsValidated
  <2>1. TypeInv /\ StepInv
    BY DEF RuntimeInv
  <2>2. job.plan \in Seq(Steps) /\ Len(job.plan) \in Nat \ {0}
    BY <2>1, PlanNotEmpty
  <2> QED
    BY <2>1, <2>2 DEF StepInv
<1> QED
  BY <1>1, RuntimeInvariant, PTL

\* A candidate whose export is blocked leaves neither files nor references.
THEOREM BlockedCandidatesStayInside == RuntimeSpec => []BlockedCandidateStaysInside
<1>1. RuntimeInv => BlockedCandidateStaysInside
  <2> SUFFICES ASSUME RuntimeInv, state.version # None, state.version.blockExport
               PROVE  ~state.tabular /\ ~published.candidate /\ ~published.export
    BY DEF BlockedCandidateStaysInside
  <2>1. TypeInv /\ OutputInv
    BY DEF RuntimeInv
  <2>2. state.report \in ReportSpace /\ state.version = CandidateVersion(state.report)
    BY <2>1 DEF OutputInv, TypeInv, StateSpace
  <2>3. state.version.status = "blocked"
    BY <2>2, VersionFacts
  <2>4. ~state.tabular
    BY <2>1, <2>3 DEF OutputInv
  <2>5. CASE pc # "completed"
    BY <2>1, <2>4, <2>5 DEF OutputInv
  <2>6. CASE pc = "completed"
    <3>1. /\ state.package = RuntimePackage(state.version, state.report,
                                            state.impact, job.required)
          /\ published = [candidate |-> FinalCandidate(state.version),
                          export |-> FinalExport(state.package)]
      BY <2>1, <2>6 DEF OutputInv
    <3>2. ~FinalCandidate(state.version)
      BY <2>3 DEF FinalCandidate
    <3>3. ~published.candidate
      BY <3>1, <3>2
    <3>4. state.package.status # "ready"
      BY <3>1, <2>1, <2>2, VersionFacts, PackageFacts DEF TypeInv, StateSpace
    <3>5. ~FinalExport(state.package)
      BY <3>4 DEF FinalExport
    <3>6. ~published.export
      BY <3>1, <3>5
    <3> QED
      BY <2>4, <3>3, <3>6
  <2> QED
    BY <2>5, <2>6
<1> QED
  BY <1>1, RuntimeInvariant, PTL

\* The decision of a completed run on its export is the release policy's, of
\* what its gates observed and the verdict it measured: nothing that happened
\* on the way lets an unsafe candidate out, or holds a safe one back.
RunFollowsReleasePolicy ==
    state.package # None =>
        \E o \in Observations :
            /\ state.report = ValidationReport(o)
            /\ Ready <=> SafeToExport([obs |-> o, verdict |-> state.impact,
                                      required |-> job.required])

THEOREM RunsFollowReleasePolicy == RuntimeSpec => []RunFollowsReleasePolicy
<1>1. RuntimeInv => RunFollowsReleasePolicy
  <2> SUFFICES ASSUME RuntimeInv, state.package # None
               PROVE  \E o \in Observations :
                         /\ state.report = ValidationReport(o)
                         /\ Ready <=> SafeToExport([obs |-> o, verdict |-> state.impact,
                                                   required |-> job.required])
    BY DEF RunFollowsReleasePolicy
  <2>1. TypeInv /\ OutputInv
    BY DEF RuntimeInv
  <2>2. /\ state.version # None /\ state.report # None
        /\ state.version = CandidateVersion(state.report)
        /\ state.package = RuntimePackage(state.version, state.report,
                                          state.impact, job.required)
    BY <2>1 DEF OutputInv, Building
  <2>3. /\ state.report \in ReportSpace
        /\ state.impact \in Verdicts \cup {None} /\ job.required \in BOOLEAN
    BY <2>1, <2>2 DEF TypeInv, StateSpace
  <2>4. PICK o \in Observations : state.report = ValidationReport(o)
    BY <2>3 DEF ReportSpace
  <2>5. Ready <=> CleanObservation(o) /\ ModelImpactCodes(state.impact, job.required) = {}
    BY <2>2, <2>3, <2>4, ReasonsOfPackage DEF Ready
  <2>6. ModelImpactCodes(state.impact, job.required) = {} <=>
           state.impact \notin {"rejected", "degraded"} /\ (job.required => state.impact # None)
    BY <2>3, ImpactBlocks
  <2> QED
    BY <2>4, <2>5, <2>6 DEF CleanObservation, SafeToExport
<1> QED
  BY <1>1, RuntimeInvariant, PTL

=============================================================================
