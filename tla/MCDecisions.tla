---------------------------- MODULE MCDecisions ----------------------------
(***************************************************************************)
(* The decision core over small datasets: two objects of every kind the    *)
(* thresholds tell apart, under each input that can raise a gate; profiles *)
(* around the limits of the score.                                         *)
(***************************************************************************)
EXTENDS Decisions, CaseSubject

Bundle(id, modality) ==
    [id |-> id, modality |-> modality, duplicate |-> 0, rare |-> Unavailable, privacy |-> 0,
     quality |-> 100, ambiguous |-> Unavailable, label |-> Unavailable,
     labelError |-> Unavailable, uncertainty |-> Unavailable, entropy |-> Unavailable,
     confidence |-> Unavailable, business |-> 50, refs |-> <<id, "passport", "row", "cell">>]

\* Objects on both sides of each threshold, and some with several problems.
ObjectsOf(id) ==
    LET row == Bundle(id, "tabular")
        text == Bundle(id, "text")
    IN  {row, [row EXCEPT !.duplicate = 50], [row EXCEPT !.duplicate = 49, !.confidence = 30],
         [row EXCEPT !.rare = 70, !.entropy = 60], [row EXCEPT !.quality = 25],
         [row EXCEPT !.privacy = 7999], [row EXCEPT !.privacy = 8000],
         [text EXCEPT !.privacy = 99], [text EXCEPT !.privacy = 100],
         [text EXCEPT !.privacy = 10000, !.labelError = 90, !.business = 100],
         [text EXCEPT !.ambiguous = 50, !.duplicate = 100],
         [row EXCEPT !.labelError = 100, !.rare = 100, !.uncertainty = 100, !.business = 100],
         [row EXCEPT !.label = 80]}

NoInput ==
    [risk |-> {}, profile |-> {}, split |-> {}, plugins |-> {"ready"}, methods |-> {}]

Inputs ==
    {NoInput, [NoInput EXCEPT !.risk = {"pii_unmasked"}],
     [NoInput EXCEPT !.risk = {"external_api_raw_pii"}],
     [NoInput EXCEPT !.split = {"split_leakage"}],
     [NoInput EXCEPT !.profile = {"target_column_missing"}],
     [NoInput EXCEPT !.profile = {"target_leakage_candidate", "business_rule_failure"}],
     [NoInput EXCEPT !.plugins = {"ready", "disabled"}],
     [NoInput EXCEPT !.methods = {[policy |-> "enabled", status |-> "disabled_by_readiness"]}],
     [NoInput EXCEPT !.methods = {[policy |-> "disabled_by_policy", status |-> "available"]}]}

DefaultPolicy == [gates |-> ToSet(HardGates), rules |-> RuleReasons]

Policies ==
    {DefaultPolicy, [DefaultPolicy EXCEPT !.gates = @ \ {"pii_unmasked"}]}

HealthyProfile ==
    [rows |-> 100, cells |-> 500, missing |-> 0, passRate |-> Unavailable,
     targetMissing |-> FALSE, duplicates |-> 0, leakageCandidates |-> FALSE,
     classes |-> TRUE, imbalance |-> 1, minority |-> 50, balance |-> 100, lineage |-> 100]

Profiles ==
    {Unavailable, [HealthyProfile EXCEPT !.duplicates = 5, !.leakageCandidates = TRUE],
     [HealthyProfile EXCEPT !.duplicates = 4, !.imbalance = 10, !.minority = 9, !.missing = 250],
     [HealthyProfile EXCEPT !.targetMissing = TRUE, !.passRate = 50, !.minority = 5]}

Texts ==
    {Unavailable,
     [records |-> 20, valid |-> 18, duplicates |-> 1, pii |-> 4, redacted |-> 3],
     [records |-> 20, valid |-> 20, duplicates |-> 0, pii |-> 4, redacted |-> 4]}

\* Every mixture of problems on one object with an object of each kind; the
\* score's own inputs vary for the policy in force.
DecisionCases ==
    [kind : {"decision"}, bundles : ObjectsOf("o1") \X ObjectsOf("o2"), input : Inputs,
     policy : Policies, profile : {Unavailable}, text : {Unavailable}, leak : {FALSE}]
    \cup
    [kind : {"decision"}, bundles : {<<o>> : o \in ObjectsOf("o1")}, input : Inputs,
     policy : {DefaultPolicy}, profile : Profiles, text : Texts, leak : BOOLEAN]

-----------------------------------------------------------------------------
(* Properties. s is a case.                                                *)

\* report and score are those of the case.

\* Hard policy gates have priority over every score: an object with unmasked
\* PII, or a dataset with any flag raised, is blocked in the report and in the
\* DataForge score, named as a blocker, and never exported next, however high
\* the object's value. An object that carries PII stays in a privacy review.
GatesOutrankScores(s, report, score) ==
    LET raw == {i \in DOMAIN s.bundles : AtLeast(s.bundles[i].privacy, 8000)}
        gated == DatasetGates(s.policy, s.input) # {}
    IN  /\ (raw # {} \/ gated) <=> report.readiness = "BLOCKED"
        /\ report.readiness = "BLOCKED" <=> score.readiness = "BLOCKED"
        /\ report.readiness = "BLOCKED" => report.next # "EXPORT" /\ report.score = 0
        /\ raw # {} =>
              /\ \A i \in raw : report.objects[i].action = "BLOCK_EXPORT"
              /\ \E b \in report.blockers : b.code = "pii_unmasked" /\
                    \A i \in raw : ToSet(LimitedRefs(s.bundles[i].refs)) \subseteq b.refs
              /\ \A i \in raw : \E a \in report.actions :
                    i \in a.objects /\ a.group[1] = "SEND_TO_PRIVACY_REVIEW"
              /\ "unmasked_pii" \in score.penalties
        /\ score.readiness = "READY_FOR_EXPORT" => score.penalties = {}

\* No object is lost between its decision and the next job: each is kept,
\* blocked, or counted in exactly one recommended action, and the dataset is
\* exported next only if every object is kept.
ObjectsAreAccountedFor(s, report) ==
    LET Counted(i) == {a \in report.actions : i \in a.objects}
    IN  /\ \A i \in DOMAIN s.bundles :
              /\ Cardinality(Counted(i)) <= 1
              /\ report.objects[i].action \notin {"KEEP", "BLOCK_EXPORT"} => Counted(i) # {}
              /\ report.objects[i].action = "KEEP" => Counted(i) = {}
        /\ report.next = "EXPORT" <=> \A i \in DOMAIN s.bundles : report.objects[i].action = "KEEP"

ScoresRespectBlockers(s) ==
    s.kind = "decision" =>
        \A report \in {DecisionReport(s.policy, s.bundles, s.input)} :
            /\ GatesOutrankScores(s, report, DataForgeScore(s.profile, s.text, report, s.leak))
            /\ ObjectsAreAccountedFor(s, report)

\* decision_policy.py, dataforge_score.py: hard gates outrank every score, and
\* no object is lost between its decision and the recommended actions.
BlockersOutrankScores == ScoresRespectBlockers(subject)

=============================================================================
