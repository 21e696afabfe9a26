-------------------------- MODULE DecisionsProofs --------------------------
(***************************************************************************)
(* Decisions and model impact for every input: any policy, any number of   *)
(* objects with any signals, any profile, manifest and metrics. No bound   *)
(* of MCDecisions and MCModelImpact is used, only their properties.        *)
(***************************************************************************)
EXTENDS MCDecisions, MCModelImpact, MCRecommendedSteps, FiniteSetTheorems, WellFoundedInduction,
        TLAPS

-----------------------------------------------------------------------------
(* Induction by sets: the least natural, the smallest subset, and with     *)
(* them what sums and orders of precedence compute.                        *)

\* A set of naturals that is not empty has a least element.
LEMMA LeastExists ==
    ASSUME NEW S \in SUBSET Nat, S # {}
    PROVE  /\ Min(S) \in S
           /\ \A n \in S : Min(S) <= n
<1> DEFINE Earlier == {ss \in Nat \X Nat : ss[1] < ss[2]}
<1>1. IsWellFoundedOn(Earlier, Nat)
  BY NatLessThanWellFounded, Zenon DEF OpToRel
<1> HIDE DEF Earlier
<1>2. PICK m \in S : \A n \in S : <<n, m>> \notin Earlier
  BY <1>1, WFMin
<1>3. ASSUME NEW n \in S PROVE m <= n
  <2>1. n \in Nat /\ m \in Nat
    OBVIOUS
  <2>2. ~(n < m)
    BY <1>2, <2>1 DEF Earlier
  <2> QED
    BY <2>1, <2>2
<1> QED
  BY <1>3 DEF Min

\* FirstOf answers with a member of the set it is asked about.
LEMMA FirstIsListed ==
    ASSUME NEW order, DOMAIN order \subseteq Nat,
           NEW S, \E i \in DOMAIN order : order[i] \in S
    PROVE  FirstOf(order, S) \in S
<1> DEFINE positions == {i \in DOMAIN order : order[i] \in S}
<1>1. positions \in SUBSET Nat /\ positions # {}
  OBVIOUS
<1>2. Min(positions) \in positions
  BY <1>1, LeastExists
<1> QED
  BY <1>2 DEF FirstOf

\* A set of subsets of a finite set has a member none of whose strict subsets
\* is in it: what induction over finite sets rests on.
LEMMA SmallestSubset ==
    ASSUME NEW K, IsFiniteSet(K), NEW T \in SUBSET SUBSET K, T # {}
    PROVE  \E s \in T : \A t \in T : t \subseteq s => t = s
<1>1. IsWellFoundedOn(StrictSubsetOrdering(K), SUBSET K)
  BY FS_StrictSubsetOrderingWellFounded, FS_FiniteSubsetsOfFinite
<1>2. PICK s \in T : \A t \in T : <<t, s>> \notin StrictSubsetOrdering(K)
  BY <1>1, WFMin
<1>3. ASSUME NEW t \in T, t \subseteq s PROVE t = s
  <2>1. t \in SUBSET K /\ s \in SUBSET K
    OBVIOUS
  <2>2. t # s => <<t, s>> \in StrictSubsetOrdering(K)
    BY <1>3, <2>1 DEF StrictSubsetOrdering
  <2> QED
    BY <1>2, <2>2
<1> QED
  BY <1>2, <1>3

\* The fold of the community modules takes its elements in this order.
Picked(s) == CHOOSE x \in s : TRUE

\* f is the running sum of c over the subsets of K.
IsSum(f, c, K) ==
    f = [s \in SUBSET K |-> IF s = {} THEN 0 ELSE c[Picked(s)] + f[s \ {Picked(s)}]]

\* Two running sums agree where both are defined.
LEMMA SumsAgree ==
    ASSUME NEW c, NEW K, NEW M, NEW U, IsFiniteSet(U), U \subseteq K, U \subseteq M,
           NEW f, IsSum(f, c, K), NEW g, IsSum(g, c, M)
    PROVE  f[U] = g[U]
<1> DEFINE T == {s \in SUBSET U : f[s] # g[s]}
<1> SUFFICES ASSUME T # {} PROVE FALSE
  OBVIOUS
<1>a. T \in SUBSET SUBSET U
  OBVIOUS
<1>1. PICK s \in T : \A t \in T : t \subseteq s => t = s
  <2> HIDE DEF T
  <2> QED
    BY <1>a, SmallestSubset
<1>2. s \in SUBSET U /\ s \in SUBSET K /\ s \in SUBSET M
  OBVIOUS
<1>3. s # {}
  BY <1>1, <1>2 DEF IsSum
<1>4. Picked(s) \in s
  BY <1>3 DEF Picked
<1>5. f[s \ {Picked(s)}] = g[s \ {Picked(s)}]
  BY <1>1, <1>2, <1>4
<1>6. /\ f[s] = c[Picked(s)] + f[s \ {Picked(s)}]
      /\ g[s] = c[Picked(s)] + g[s \ {Picked(s)}]
  BY <1>2, <1>3 DEF IsSum
<1> QED
  BY <1>1, <1>5, <1>6

\* There is a running sum over every finite set.
LEMMA SumExists ==
    ASSUME NEW c, NEW D, IsFiniteSet(D)
    PROVE  \E f : IsSum(f, c, D)
<1> DEFINE Has(K) == \E f : IsSum(f, c, K)
           T == {K \in SUBSET D : ~Has(K)}
<1> SUFFICES ASSUME T # {} PROVE FALSE
  BY DEF Has
<1>a. T \in SUBSET SUBSET D
  OBVIOUS
<1>1. PICK K \in T : \A t \in T : t \subseteq K => t = K
  <2> HIDE DEF T
  <2> QED
    BY <1>a, SmallestSubset
<1> DEFINE Fun(s) == CHOOSE f : IsSum(f, c, s)
           Rest(s) == s \ {Picked(s)}
           f == [s \in SUBSET K |->
                   IF s = {} THEN 0 ELSE c[Picked(s)] + Fun(Rest(s))[Rest(s)]]
<1>2. \A s \in SUBSET K : s # K => IsSum(Fun(s), c, s)
  <2> TAKE s \in SUBSET K
  <2>1. s # K => Has(s)
    BY <1>1
  <2> QED
    BY <2>1
<1> HIDE DEF Fun
<1>3. \A s \in SUBSET K : s # {} => Rest(s) \in SUBSET K /\ Rest(s) # K /\ Picked(s) \in s
  BY DEF Picked
<1>4. ASSUME NEW s \in SUBSET K, s # {}
      PROVE  f[Rest(s)] = Fun(Rest(s))[Rest(s)]
  <2> DEFINE r == Rest(s)
  <2>1. r \in SUBSET K /\ r # K
    BY <1>3, <1>4
  <2>2. IsSum(Fun(r), c, r)
    BY <1>2, <2>1
  <2> HIDE DEF r
  <2>3. CASE r = {}
    <3>1. f[r] = 0
      BY <2>1, <2>3
    <3>2. Fun(r)[r] = 0
      BY <2>2, <2>3 DEF IsSum
    <3> QED
      BY <3>1, <3>2 DEF r
  <2>4. CASE r # {}
    <3> DEFINE q == Rest(r)
    <3>1. q \in SUBSET K /\ q # K /\ Picked(r) \in r
      BY <1>3, <2>1, <2>4
    <3>2. IsSum(Fun(q), c, q)
      BY <1>2, <3>1
    <3>3. IsFiniteSet(q) /\ q \subseteq r
      BY <3>1, <1>1, FS_Subset
    <3>4. Fun(r)[q] = Fun(q)[q]
      BY <2>2, <3>2, <3>3, SumsAgree
    <3>5. Fun(r)[r] = c[Picked(r)] + Fun(r)[q]
      BY <2>2, <2>4 DEF IsSum
    <3>6. f[r] = c[Picked(r)] + Fun(q)[q]
      BY <2>1, <2>4
    <3> QED
      BY <3>4, <3>5, <3>6 DEF r
  <2> QED
    BY <2>3, <2>4 DEF r
<1>5. IsSum(f, c, K)
  BY <1>3, <1>4 DEF IsSum
<1> QED
  BY <1>1, <1>5

\* The sum of a function over a finite domain of integers is an integer.
LEMMA SumIsInteger ==
    ASSUME NEW D, IsFiniteSet(D), NEW c \in [D -> Int]
    PROVE  SumFunction(c) \in Int
<1> DEFINE total == CHOOSE f : IsSum(f, c, D)
<1>1. SumFunction(c) = total[D]
  BY DEF SumFunction, SumFunctionOnSet, FoldFunctionOnSet, MapThenFoldSet, IsSum, Picked
<1>2. IsSum(total, c, D)
  BY SumExists
<1> HIDE DEF total
<1> DEFINE T == {s \in SUBSET D : total[s] \notin Int}
<1> SUFFICES ASSUME T # {} PROVE FALSE
  BY <1>1
<1>a. T \in SUBSET SUBSET D
  OBVIOUS
<1>3. PICK s \in T : \A t \in T : t \subseteq s => t = s
  <2> HIDE DEF T
  <2> QED
    BY <1>a, SmallestSubset
<1>4. s # {} /\ s \in SUBSET D
  BY <1>2, <1>3 DEF IsSum
<1>5. Picked(s) \in s
  BY <1>4 DEF Picked
<1>6. total[s \ {Picked(s)}] \in Int /\ c[Picked(s)] \in Int
  BY <1>3, <1>4, <1>5
<1>7. total[s] = c[Picked(s)] + total[s \ {Picked(s)}]
  BY <1>2, <1>4 DEF IsSum
<1> QED
  BY <1>3, <1>6, <1>7

-----------------------------------------------------------------------------
(* One object.                                                             *)

\* What a rule recommends is never to keep or to block the object.
RuleActions ==
    {"SEND_TO_LABEL_REVIEW", "SEND_TO_PRIVACY_REVIEW", "REMOVE_DUPLICATE",
     "IMPUTE_MISSING_VALUES", "AUGMENT_RARE_CLASS"}

\* Without a gate an object is kept or has a rule's action.
LEMMA ActionOfRulesTyped ==
    ASSUME NEW rules
    PROVE  ActionOfRules(rules) \in RuleActions \cup {"KEEP"}
  BY DEF ActionOfRules, RuleAction, RuleActions

\* An object is blocked exactly when a gate stands against it, and a blocked
\* object carries its gates among its reasons.
LEMMA ObjectDecisionFacts ==
    ASSUME NEW policy, NEW ev, NEW in
    PROVE  LET d == ObjectDecision(policy, ev, in) IN
           /\ d.gates = ObjectGates(policy, ev, in)
           /\ d.refs = ev.refs
           /\ d.gates # {} <=> d.action = "BLOCK_EXPORT"
           /\ d.gates = {} => d.action \in RuleActions \cup {"KEEP"}
           /\ d.gates \subseteq d.reasons
<1> DEFINE gates == ObjectGates(policy, ev, in)
           codes == RecommendedReasons(policy, ev) \cup gates \cup ComponentReasons(ev)
           rules == ActionOfRules(MatchedRules(policy, ev))
           d == ObjectDecision(policy, ev, in)
<1>1. /\ d.gates = gates /\ d.refs = ev.refs
      /\ d.action = IF gates # {} THEN "BLOCK_EXPORT" ELSE rules
      /\ d.reasons = IF codes = {} THEN {"export_ready"} ELSE codes
  BY DEF ObjectDecision
<1>2. rules \in RuleActions \cup {"KEEP"} /\ rules # "BLOCK_EXPORT"
  BY ActionOfRulesTyped DEF RuleActions
<1> HIDE DEF d, rules
<1>3. gates \subseteq codes
  OBVIOUS
<1> HIDE DEF gates, codes
<1> QED
  BY <1>1, <1>2, <1>3 DEF d, gates

\* Only a kept object and one that is blocked for something other than its
\* PII are not put up for review.
LEMMA ReviewFacts ==
    ASSUME NEW policy, NEW ev, NEW in
    PROVE  LET d == ObjectDecision(policy, ev, in) IN
           /\ d.action = "KEEP" => ReviewOf(d) = "NONE"
           /\ d.action \notin {"KEEP", "BLOCK_EXPORT"} => ReviewOf(d) # "NONE"
           /\ "pii_unmasked" \in d.gates => ReviewOf(d) = "SEND_TO_PRIVACY_REVIEW"
<1> DEFINE d == ObjectDecision(policy, ev, in)
<1>1. /\ d.gates # {} <=> d.action = "BLOCK_EXPORT"
      /\ d.gates = {} => d.action \in RuleActions \cup {"KEEP"}
      /\ d.gates \subseteq d.reasons
  BY ObjectDecisionFacts
<1> HIDE DEF d
<1> QED
  BY <1>1 DEF ReviewOf, RuleActions, d

-----------------------------------------------------------------------------
(* One report.                                                             *)

\* The decisions of a report, one per bundle.
DecisionsOf(policy, bundles, in) ==
    [i \in DOMAIN bundles |-> ObjectDecision(policy, bundles[i], in)]

\* The recommended actions that name object i.
CountedIn(decisions, i) == {a \in RecommendedActions(decisions) : i \in a.objects}

\* The objects with unmasked personal data.
RawObjects(bundles) == {i \in DOMAIN bundles : AtLeast(bundles[i].privacy, 8000)}

\* A report is blocked exactly by a flag of the dataset or by an object's own
\* privacy risk, whatever the objects are worth.
LEMMA BlockersOfReport ==
    ASSUME NEW policy, NEW bundles, NEW in
    PROVE  LET decisions == DecisionsOf(policy, bundles, in)
               raw == RawObjects(bundles)
           IN  /\ CriticalBlockers(policy, in, decisions) # {} <=>
                     raw # {} \/ DatasetGates(policy, in) # {}
               /\ \A i \in DOMAIN bundles : decisions[i].gates # {} =>
                     CriticalBlockers(policy, in, decisions) # {}
               /\ raw # {} =>
                     \E b \in CriticalBlockers(policy, in, decisions) :
                        /\ b.code = "pii_unmasked"
                        /\ \A i \in raw : ToSet(LimitedRefs(bundles[i].refs)) \subseteq b.refs
<1> DEFINE decisions == DecisionsOf(policy, bundles, in)
           raw == RawObjects(bundles)
           dataset == DatasetGates(policy, in)
           objects == {decisions[i] : i \in DOMAIN bundles}
           Refs(code) == UNION {ToSet(LimitedRefs(d.refs)) : d \in {o \in objects : code \in o.gates}}
           codes == dataset \cup UNION {d.gates : d \in objects}
           blockers == CriticalBlockers(policy, in, decisions)
<1> USE DEF RawObjects
<1>1. ToSet(decisions) = objects /\ DOMAIN decisions = DOMAIN bundles
  BY DEF ToSet, DecisionsOf
<1>2. blockers = {[code |-> code, refs |-> Refs(code)] : code \in codes}
  BY <1>1 DEF CriticalBlockers
<1>3. \A i \in DOMAIN bundles :
         /\ decisions[i].gates = dataset \cup (IF i \in raw THEN {"pii_unmasked"} ELSE {})
         /\ decisions[i].refs = bundles[i].refs
         /\ decisions[i] \in objects
  <2> SUFFICES ASSUME NEW i \in DOMAIN bundles
               PROVE  /\ decisions[i].gates = dataset \cup (IF i \in raw THEN {"pii_unmasked"} ELSE {})
                      /\ decisions[i].refs = bundles[i].refs
    OBVIOUS
  <2>1. decisions[i] = ObjectDecision(policy, bundles[i], in)
    BY DEF DecisionsOf
  <2>2. /\ decisions[i].gates = ObjectGates(policy, bundles[i], in)
        /\ decisions[i].refs = bundles[i].refs
    BY <2>1, ObjectDecisionFacts
  <2> QED
    BY <2>2 DEF ObjectGates
<1> HIDE DEF decisions, dataset
<1>4. codes # {} <=> raw # {} \/ dataset # {}
  <2>1. ASSUME NEW i \in raw PROVE codes # {}
    <3>1. "pii_unmasked" \in decisions[i].gates /\ decisions[i] \in objects
      BY <1>3
    <3> QED
      BY <3>1
  <2>2. ASSUME raw = {}, dataset = {} PROVE codes = {}
    <3>1. \A i \in DOMAIN bundles : decisions[i].gates = {}
      BY <1>3, <2>2
    <3>2. \A d \in objects : d.gates = {}
      BY <3>1
    <3> QED
      BY <2>2, <3>2
  <2> QED
    BY <2>1, <2>2
<1>5. \A i \in DOMAIN bundles : decisions[i].gates # {} => codes # {}
  BY <1>3, SMTT(30)
<1>6. blockers # {} <=> codes # {}
  BY <1>2, ZenonT(40)
<1>7. ASSUME raw # {}
      PROVE  \E b \in blockers :
                /\ b.code = "pii_unmasked"
                /\ \A i \in raw : ToSet(LimitedRefs(bundles[i].refs)) \subseteq b.refs
  <2>1. "pii_unmasked" \in codes
    BY <1>3, <1>7
  <2>2. [code |-> "pii_unmasked", refs |-> Refs("pii_unmasked")] \in blockers
    BY <1>2, <2>1
  <2>3. \A i \in raw : ToSet(LimitedRefs(bundles[i].refs)) \subseteq Refs("pii_unmasked")
    <3> TAKE i \in raw
    <3>1. decisions[i] \in {o \in objects : "pii_unmasked" \in o.gates}
      BY <1>3
    <3>2. ToSet(LimitedRefs(decisions[i].refs)) \subseteq Refs("pii_unmasked")
      BY <3>1
    <3> QED
      BY <1>3, <3>2
  <2> HIDE DEF Refs, blockers
  <2> QED
    BY <2>2, <2>3
<1> QED
  BY <1>4, <1>5, <1>6, <1>7 DEF decisions, dataset

\* The recommended actions part the reviewed objects.
LEMMA ActionsOfReport ==
    ASSUME NEW policy, NEW bundles, NEW in
    PROVE  LET decisions == DecisionsOf(policy, bundles, in)
           IN  /\ \A i \in DOMAIN bundles :
                     /\ Cardinality(CountedIn(decisions, i)) <= 1
                     /\ CountedIn(decisions, i) # {} <=> ReviewOf(decisions[i]) # "NONE"
                     /\ \A a \in CountedIn(decisions, i) : a.group[1] = ReviewOf(decisions[i])
               /\ RecommendedActions(decisions) = {} <=>
                     \A i \in DOMAIN bundles : ReviewOf(decisions[i]) = "NONE"
<1> DEFINE decisions == DecisionsOf(policy, bundles, in)
           reviewed == {i \in DOMAIN bundles : ReviewOf(decisions[i]) # "NONE"}
           Entry(g) == [group |-> g,
                        objects |-> {i \in reviewed : GroupOf(decisions[i]) = g},
                        reasons |-> UNION {decisions[i].reasons \ {"export_ready"} :
                                      i \in {j \in reviewed : GroupOf(decisions[j]) = g}}]
           actions == RecommendedActions(decisions)
           Counted(i) == CountedIn(decisions, i)
<1>1. DOMAIN decisions = DOMAIN bundles
  BY DEF DecisionsOf
<1>2. actions = {Entry(g) : g \in {GroupOf(decisions[i]) : i \in reviewed}}
  BY <1>1 DEF RecommendedActions
<1>a. \A i : Counted(i) = {a \in actions : i \in a.objects}
  BY DEF CountedIn
<1> HIDE DEF decisions, actions, Counted
<1>3. ASSUME NEW i \in DOMAIN bundles
      PROVE  Counted(i) = IF i \in reviewed THEN {Entry(GroupOf(decisions[i]))} ELSE {}
  <2>1. \A g : Entry(g).objects = {j \in reviewed : GroupOf(decisions[j]) = g}
    OBVIOUS
  <2> HIDE DEF Entry
  <2>2. \A a \in Counted(i) : i \in reviewed /\ a = Entry(GroupOf(decisions[i]))
    BY <1>a, <1>2, <2>1
  <2>3. i \in reviewed => Entry(GroupOf(decisions[i])) \in Counted(i)
    BY <1>a, <1>2, <2>1
  <2> QED
    BY <2>2, <2>3
<1>4. \A g : Entry(g).group = g
  OBVIOUS
<1> HIDE DEF Entry
<1>5. ASSUME NEW i \in DOMAIN bundles
      PROVE  /\ Cardinality(Counted(i)) <= 1
             /\ Counted(i) # {} <=> ReviewOf(decisions[i]) # "NONE"
             /\ \A a \in Counted(i) : a.group[1] = ReviewOf(decisions[i])
  <2>1. CASE i \in reviewed
    <3>1. Counted(i) = {Entry(GroupOf(decisions[i]))}
      BY <1>3, <2>1
    <3>2. Cardinality(Counted(i)) = 1
      BY <3>1, FS_Singleton
    <3>3. \A a \in Counted(i) : a.group = GroupOf(decisions[i])
      BY <1>4, <3>1
    <3>4. GroupOf(decisions[i])[1] = ReviewOf(decisions[i])
      BY DEF GroupOf
    <3> QED
      BY <2>1, <3>1, <3>2, <3>3, <3>4
  <2>2. CASE i \notin reviewed
    <3>1. Counted(i) = {}
      BY <1>3, <2>2
    <3>2. Cardinality(Counted(i)) = 0
      BY <3>1, FS_EmptySet
    <3> QED
      BY <2>2, <3>1, <3>2
  <2> QED
    BY <2>1, <2>2
<1>6. actions = {} <=> \A i \in DOMAIN bundles : ReviewOf(decisions[i]) = "NONE"
  BY <1>2
<1> QED
  BY <1>5, <1>6 DEF decisions, actions, Counted

-----------------------------------------------------------------------------
(* Theorems about decisions.                                               *)

\* decision_report.py, dataforge_score.py: a flag on the dataset or an object
\* with unmasked PII blocks the report and the DataForge score, is named with
\* its evidence, and keeps every object with PII in a privacy review.
LEMMA GatesOutrankEveryScore ==
    ASSUME NEW s
    PROVE  LET report == DecisionReport(s.policy, s.bundles, s.input)
           IN  GatesOutrankScores(s, report, DataForgeScore(s.profile, s.text, report, s.leak))
<1> DEFINE decisions == DecisionsOf(s.policy, s.bundles, s.input)
           raw == RawObjects(s.bundles)
           gated == DatasetGates(s.policy, s.input) # {}
           blockers == CriticalBlockers(s.policy, s.input, decisions)
           actions == RecommendedActions(decisions)
           report == DecisionReport(s.policy, s.bundles, s.input)
           score == DataForgeScore(s.profile, s.text, report, s.leak)
<1>1. /\ report.objects = decisions /\ report.blockers = blockers /\ report.actions = actions
      /\ report.readiness = ReadinessOf(blockers, actions)
      /\ report.score = ReadinessScore(report.readiness)
      /\ report.next = NextJob(blockers, actions)
  BY DEF DecisionReport, DecisionsOf
<1>2. /\ blockers # {} <=> raw # {} \/ gated
      /\ raw # {} => \E b \in blockers :
            /\ b.code = "pii_unmasked"
            /\ \A i \in raw : ToSet(LimitedRefs(s.bundles[i].refs)) \subseteq b.refs
  BY BlockersOfReport
<1> USE DEF RawObjects
<1>3. \A i \in raw :
         /\ decisions[i].action = "BLOCK_EXPORT"
         /\ ReviewOf(decisions[i]) = "SEND_TO_PRIVACY_REVIEW"
  <2> TAKE i \in raw
  <2>1. decisions[i] = ObjectDecision(s.policy, s.bundles[i], s.input)
    BY DEF DecisionsOf
  <2>2. "pii_unmasked" \in ObjectGates(s.policy, s.bundles[i], s.input)
    BY DEF ObjectGates
  <2> HIDE DEF decisions, raw
  <2> QED
    BY <2>1, <2>2, ObjectDecisionFacts, ReviewFacts
<1>4. \A i \in raw : \E a \in actions :
         i \in a.objects /\ a.group[1] = "SEND_TO_PRIVACY_REVIEW"
  <2> TAKE i \in raw
  <2>1. /\ ReviewOf(decisions[i]) # "NONE"
        /\ i \in DOMAIN s.bundles
    BY <1>3
  <2>2. /\ CountedIn(decisions, i) # {}
        /\ \A a \in CountedIn(decisions, i) : a.group[1] = ReviewOf(decisions[i])
    BY <2>1, ActionsOfReport
  <2> HIDE DEF actions, decisions
  <2>3. CountedIn(decisions, i) = {a \in actions : i \in a.objects}
    BY DEF CountedIn, actions
  <2> QED
    BY <1>3, <2>2, <2>3
<1>5. /\ score.penalties = Penalties(s.profile, s.text, report, s.leak)
      /\ score.readiness = IF HardBlocked(report) THEN "BLOCKED"
            ELSE IF score.penalties # {} THEN "READY_WITH_WARNINGS" ELSE "READY_FOR_EXPORT"
  BY DEF DataForgeScore
<1> HIDE DEF decisions, blockers, actions, report, score, raw, gated
<1>6. report.readiness = "BLOCKED" <=> blockers # {}
  BY <1>1 DEF ReadinessOf
<1>7. score.readiness = "BLOCKED" <=> blockers # {}
  BY <1>1, <1>5, <1>6 DEF HardBlocked
<1>8. report.readiness = "BLOCKED" => report.next # "EXPORT" /\ report.score = 0
  BY <1>1, <1>6 DEF NextJob, ReadinessScore
<1>9. raw # {} => "unmasked_pii" \in score.penalties
  <2>1. raw # {} => UnmaskedPii(report, s.text)
    BY <1>1, <1>2 DEF UnmaskedPii, Codes
  <2> QED
    BY <1>5, <2>1 DEF Penalties
<1>10. score.readiness = "READY_FOR_EXPORT" => score.penalties = {}
  BY <1>5
<1> QED
  BY <1>1, <1>2, <1>3, <1>4, <1>6, <1>7, <1>8, <1>9, <1>10
     DEF GatesOutrankScores, report, score, raw, gated

\* decision_report.py: each object is kept, blocked or in exactly one
\* recommended action, and a dataset that has objects is exported next only
\* if every one of them is kept.
LEMMA EveryObjectIsAccountedFor ==
    ASSUME NEW s, DOMAIN s.bundles # {}
    PROVE  ObjectsAreAccountedFor(s, DecisionReport(s.policy, s.bundles, s.input))
<1> DEFINE decisions == DecisionsOf(s.policy, s.bundles, s.input)
           blockers == CriticalBlockers(s.policy, s.input, decisions)
           actions == RecommendedActions(decisions)
           report == DecisionReport(s.policy, s.bundles, s.input)
           Counted(i) == {a \in report.actions : i \in a.objects}
<1>1. /\ report.objects = decisions /\ report.actions = actions
      /\ report.next = NextJob(blockers, actions)
  BY DEF DecisionReport, DecisionsOf
<1>2. \A i \in DOMAIN s.bundles : decisions[i] = ObjectDecision(s.policy, s.bundles[i], s.input)
  BY DEF DecisionsOf
<1>3. \A i \in DOMAIN s.bundles :
         /\ decisions[i].action = "KEEP" => ReviewOf(decisions[i]) = "NONE"
         /\ decisions[i].action \notin {"KEEP", "BLOCK_EXPORT"} => ReviewOf(decisions[i]) # "NONE"
         /\ decisions[i].gates # {} <=> decisions[i].action = "BLOCK_EXPORT"
         /\ decisions[i].gates = ObjectGates(s.policy, s.bundles[i], s.input)
  <2> HIDE DEF decisions
  <2> QED
    BY <1>2, ReviewFacts, ObjectDecisionFacts
<1>4. \A i \in DOMAIN s.bundles :
         /\ Cardinality(CountedIn(decisions, i)) <= 1
         /\ CountedIn(decisions, i) # {} <=> ReviewOf(decisions[i]) # "NONE"
  BY ActionsOfReport
<1>5. actions = {} <=> \A i \in DOMAIN s.bundles : ReviewOf(decisions[i]) = "NONE"
  BY ActionsOfReport
<1>6. /\ blockers # {} <=> \/ \E i \in DOMAIN s.bundles : AtLeast(s.bundles[i].privacy, 8000)
                          \/ DatasetGates(s.policy, s.input) # {}
      /\ \A i \in DOMAIN s.bundles : decisions[i].gates # {} => blockers # {}
  <2>1. /\ blockers # {} <=> RawObjects(s.bundles) # {} \/ DatasetGates(s.policy, s.input) # {}
        /\ \A i \in DOMAIN s.bundles : decisions[i].gates # {} => blockers # {}
    BY BlockersOfReport
  <2> HIDE DEF decisions, blockers
  <2> QED
    BY <2>1 DEF RawObjects
<1> HIDE DEF decisions, blockers, actions, report
<1>7. report.next = "EXPORT" <=> actions = {} /\ blockers = {}
  BY <1>1 DEF NextJob
<1>8. ASSUME blockers # {} PROVE \E i \in DOMAIN s.bundles : decisions[i].action # "KEEP"
  <2>1. PICK i \in DOMAIN s.bundles :
           AtLeast(s.bundles[i].privacy, 8000) \/ DatasetGates(s.policy, s.input) # {}
    BY <1>6, <1>8
  <2>2. decisions[i].gates # {}
    BY <1>3, <2>1 DEF ObjectGates
  <2> QED
    BY <1>3, <2>2
<1>9. report.next = "EXPORT" <=> \A i \in DOMAIN s.bundles : decisions[i].action = "KEEP"
  <2>1. ASSUME actions = {}, blockers = {}, NEW i \in DOMAIN s.bundles
        PROVE  decisions[i].action = "KEEP"
    BY <1>3, <1>5, <1>6, <2>1
  <2>2. ASSUME \A i \in DOMAIN s.bundles : decisions[i].action = "KEEP"
        PROVE  actions = {} /\ blockers = {}
    BY <1>3, <1>5, <1>8, <2>2
  <2> QED
    BY <1>7, <2>1, <2>2
<1>10. \A i \in DOMAIN s.bundles :
          /\ Cardinality(Counted(i)) <= 1
          /\ report.objects[i].action \notin {"KEEP", "BLOCK_EXPORT"} => Counted(i) # {}
          /\ report.objects[i].action = "KEEP" => Counted(i) = {}
  <2> TAKE i \in DOMAIN s.bundles
  <2>1. Counted(i) = CountedIn(decisions, i)
    BY <1>1 DEF CountedIn, actions
  <2> HIDE DEF Counted
  <2> QED
    BY <1>1, <1>3, <1>4, <2>1
<1> QED
  BY <1>1, <1>9, <1>10 DEF ObjectsAreAccountedFor, report

\* decision_policy.py, decision_report.py, dataforge_score.py: hard gates
\* outrank every score and no object is lost, under any policy and for any
\* objects, inputs, profile and text report.
THEOREM HardGatesPrevail ==
    ASSUME DOMAIN subject.bundles # {}
    PROVE  BlockersOutrankScores
<1>1. ASSUME NEW s, DOMAIN s.bundles # {} PROVE ScoresRespectBlockers(s)
  BY <1>1, GatesOutrankEveryScore, EveryObjectIsAccountedFor DEF ScoresRespectBlockers
<1> QED
  BY <1>1 DEF BlockersOutrankScores

-----------------------------------------------------------------------------
(* Recommendations and the executor.                                       *)

\* The refusals of an imputation are no None.
NoneIsNoRefusal == Missing \notin {"non_numeric_imputation_value", "KeyError"}

\* The recommendation for a column is for one with gaps, numbers and, if it is
\* the median of groups, segments.
LEMMA RecommendedColumn ==
    ASSUME NEW source, NEW flags,
           NEW r \in MethodRecommendations(MethodEvidence(source, flags)), r.action = "impute"
    PROVE  /\ r.target \in source.columns /\ r.target # TargetColumn(source)
           /\ r.method \in {"group_median", "median"}
           /\ Cells(source, r.target) # {}
           /\ \E i \in DOMAIN source.rows : source.rows[i][r.target] = Missing
           /\ r.method = "group_median" => "customer_segment" \in source.columns
<1> DEFINE e == MethodEvidence(source, flags)
           request == [segment |-> "customer_segment", outliers |-> Missing, rules |-> {}]
           groups(c) == MissingByGroup(source, c, SegmentColumn(source, "customer_segment"))
<1>1. PICK column \in e.columns : Imputable(e, column) /\ r = ImputationRecommendation(column)
  <2>1. RareClassRecommendation(e).action # "impute"
    BY DEF RareClassRecommendation
  <2> QED
    BY <2>1 DEF MethodRecommendations
<1>2. /\ r.target = column.name /\ r.method = ImputationMethod(column)
      /\ r.method \in {"group_median", "median"}
  BY <1>1 DEF ImputationRecommendation, ImputationMethod
<1>3. e.target = TargetColumn(source)
  BY DEF MethodEvidence, Profile
<1>4. PICK c \in source.columns :
         /\ column.name = c /\ column.missing = NullCount(source, c)
         /\ column.numeric = NumericColumn(source, c, flags)
         /\ column.segments # {} => groups(c) # Missing
  <2>1. Profile(source, request).missingness =
           [c \in source.columns |->
              [missing |-> NullCount(source, c), byTarget |-> MissingByGroup(source, c, TargetColumn(source)),
               bySegment |-> groups(c)]]
    BY DEF Profile
  <2> DEFINE profile == Profile(source, request)
             block(c) == profile.missingness[c].bySegment
             Read(c) == [name |-> c, missing |-> profile.missingness[c].missing, known |-> TRUE,
                         numeric |-> NumericColumn(source, c, flags),
                         segments |-> IF block(c) = Missing THEN {}
                                      ELSE {Share(block(c)[v].missing, block(c)[v].total) : v \in DOMAIN block(c)}]
  <2>2. e.columns = {Read(c) : c \in source.columns}
    BY DEF MethodEvidence
  <2>3. PICK c \in source.columns : column = Read(c)
    BY <1>1, <2>2
  <2>4. profile.missingness[c].missing = NullCount(source, c) /\ block(c) = groups(c)
    BY <2>1
  <2> HIDE DEF profile, block
  <2>5. /\ column.name = c /\ column.missing = profile.missingness[c].missing
        /\ column.numeric = NumericColumn(source, c, flags)
        /\ column.segments # {} => block(c) # Missing
    BY <2>3
  <2> QED
    BY <2>4, <2>5
<1>5. c # TargetColumn(source) /\ NullCount(source, c) > 0 /\ NumericColumn(source, c, flags)
  BY <1>1, <1>3, <1>4 DEF Imputable
<1>6. Cells(source, c) # {}
  BY <1>5 DEF NumericColumn
<1>7. \E i \in DOMAIN source.rows : source.rows[i][c] = Missing
  <2> DEFINE gaps == {i \in DOMAIN source.rows : source.rows[i][c] = Missing}
  <2>1. NullCount(source, c) = Cardinality(gaps)
    BY DEF NullCount
  <2> HIDE DEF gaps
  <2>2. gaps # {}
    <3> SUFFICES ASSUME gaps = {} PROVE FALSE
      OBVIOUS
    <3>1. NullCount(source, c) = 0
      BY <2>1, FS_EmptySet
    <3> QED
      BY <1>5, <3>1
  <2> QED
    BY <2>2 DEF gaps
<1>8. r.method = "group_median" => "customer_segment" \in source.columns
  <2> SUFFICES ASSUME r.method = "group_median" PROVE "customer_segment" \in source.columns
    OBVIOUS
  <2>1. column.segments # {}
    BY <1>2 DEF ImputationMethod, SegmentDependent
  <2>2. groups(c) # Missing
    BY <1>4, <2>1
  <2>3. SegmentColumn(source, "customer_segment") # Missing
    BY <2>2 DEF MissingByGroup
  <2> QED
    BY <2>3 DEF SegmentColumn
<1> QED
  BY <1>2, <1>4, <1>5, <1>6, <1>7, <1>8

\* method_selection.py, imputation.py: on any table with a column is_fraud, the
\* recommendation for the gaps of a column is run as it stands exactly if it is
\* the median of groups and every cell is a number; a recommended median fails
\* on the first gap. Whatever it is, it is never for the target.
THEOREM RecommendedImputationsEnd ==
    ASSUME NoneIsNoRefusal, NEW source, NEW flags, "is_fraud" \in source.columns,
           NEW r \in MethodRecommendations(MethodEvidence(source, flags)), r.action = "impute"
    PROVE  /\ r.target # TargetColumn(source)
           /\ ImputationFailure(source, "is_fraud", StepOf(r, r.method)) =
                 IF Word \in Cells(source, r.target) THEN "non_numeric_imputation_value"
                 ELSE IF r.method = "median" THEN "KeyError" ELSE Missing
<1> DEFINE step == StepOf(r, r.method)
           fit == FitFailure(source, step)
           lookup == LookupFailure(source, step)
           cells == {source.rows[i][step.column] : i \in Present(source, step.column, DOMAIN source.rows)}
<1>1. /\ r.target \in source.columns /\ r.target # TargetColumn(source)
      /\ r.method \in {"group_median", "median"} /\ Cells(source, r.target) # {}
      /\ \E i \in DOMAIN source.rows : source.rows[i][r.target] = Missing
      /\ r.method = "group_median" => "customer_segment" \in source.columns
  BY RecommendedColumn
<1>2. /\ step.type = "IMPUTE_MISSING_VALUES" /\ step.method = r.method
      /\ step.column = r.target /\ step.group = "customer_segment"
  BY DEF StepOf
<1> HIDE DEF step
<1>3. cells = Cells(source, r.target)
  BY <1>2 DEF Present, Cells
<1>4. fit = IF Word \in Cells(source, r.target) THEN "non_numeric_imputation_value" ELSE Missing
  BY <1>1, <1>2, <1>3 DEF FitFailure
<1>5. lookup = IF r.method = "median" THEN "KeyError" ELSE Missing
  BY <1>1, <1>2 DEF LookupFailure
<1>6. r.target # "is_fraud"
  <2>1. TargetNames[1] = "is_fraud" /\ 1 \in DOMAIN TargetNames
    BY DEF TargetNames
  <2> DEFINE present == {k \in DOMAIN TargetNames : TargetNames[k] \in source.columns}
  <2>2. present \in SUBSET Nat /\ 1 \in present
    BY DEF TargetNames
  <2> HIDE DEF present
  <2>3. Min(present) = 1
    <3>1. Min(present) \in present /\ Min(present) <= 1
      BY <2>2, LeastExists
    <3>2. \A k \in present : k >= 1
      BY DEF present, TargetNames
    <3>3. Min(present) \in Nat /\ Min(present) >= 1
      BY <2>2, <3>1, <3>2
    <3> QED
      BY <3>1, <3>3
  <2>4. TargetColumn(source) = "is_fraud"
    BY <2>1, <2>2, <2>3 DEF TargetColumn, present
  <2> QED
    BY <1>1, <2>4
<1>7. source.rows # <<>> /\ source.columns # {}
  BY <1>1
<1>8. ImputationFailure(source, "is_fraud", step) = IF fit # Missing THEN fit ELSE lookup
  <2>1. {step.column, "is_fraud"} \subseteq source.columns
    BY <1>1, <1>2
  <2> HIDE DEF fit, lookup
  <2> QED
    BY <1>1, <1>2, <1>6, <1>7, <2>1 DEF ImputationFailure, ImputationMethods, fit, lookup
<1> QED
  BY <1>1, <1>4, <1>5, <1>8 DEF NoneIsNoRefusal, step

-----------------------------------------------------------------------------
(* Model impact.                                                           *)

Failures == {"empty_train_split", "empty_test_split", "single_class_in_train_split"}

IntMetrics == [recall : Int, macro : Int, weighted : Int, prAuc : Int]

\* Two datasets of any rows, their splits and what the fits measured.
ImpactQuestions(Rows, Splits, Classes) ==
    [kind : {"impact"}, source : SUBSET Rows, candidate : SUBSET Rows, sourceSplit : Splits,
     candidateSplit : Splits, rare : Classes, baseline : IntMetrics, measured : IntMetrics,
     tstrMacro : Int, trtsMacro : Int, synthetic : BOOLEAN, blocker : BOOLEAN]

\* A finite set of rows has finitely many labels.
LEMMA LabelsFinite ==
    ASSUME NEW rows, IsFiniteSet(rows)
    PROVE  IsFiniteSet(Labels(rows)) /\ Cardinality(Labels(rows)) \in Nat
<1> DEFINE f == [row \in rows |-> row.label]
<1>1. f \in Surjection(rows, Labels(rows))
  BY DEF Labels, Surjection
<1>2. IsFiniteSet(Labels(rows))
  BY <1>1, FS_Surjection
<1> QED
  BY <1>2, FS_CardinalityType

\* A metric of a fit is the measured one, or none where the rare class is not
\* there to be measured.
LEMMA FittedMetrics ==
    ASSUME NEW rows, NEW manifest, NEW rare, NEW measured \in IntMetrics
    PROVE  LET m == Fitted(rows, manifest, rare, measured) IN
           /\ m.recall \in Int /\ m.macro \in Int /\ m.weighted \in Int
           /\ m.macro = measured.macro /\ m.weighted = measured.weighted
  BY DEF Fitted, MetricsOf, IntMetrics

\* model_impact.py: nothing that fell is called improved, and not both datasets
\* are an improvement on each other.
LEMMA VerdictsFollowMetrics ==
    ASSUME NEW Rows, NEW Splits, NEW Classes, NEW s \in ImpactQuestions(Rows, Splits, Classes)
    PROVE  VerdictFollowsMetrics(s)
<1> DEFINE swap == [s EXCEPT !.source = s.candidate, !.candidate = s.source,
                       !.sourceSplit = s.candidateSplit, !.candidateSplit = s.sourceSplit,
                       !.baseline = s.measured, !.measured = s.baseline]
           before == Fitted(s.source, s.sourceSplit, s.rare, s.baseline)
           after == Fitted(s.candidate, s.candidateSplit, s.rare, s.measured)
           d == Delta(after, before)
           e == Delta(before, after)
           r == ModelImpactReport(s)
           swapped == ModelImpactReport(swap)
<1>1. /\ swap.source = s.candidate /\ swap.candidate = s.source
      /\ swap.sourceSplit = s.candidateSplit /\ swap.candidateSplit = s.sourceSplit
      /\ swap.baseline = s.measured /\ swap.measured = s.baseline
      /\ swap.rare = s.rare /\ swap.blocker = s.blocker
  BY DEF ImpactQuestions
<1>2. /\ r.verdict = Verdict(d, s.blocker) /\ r.delta = d /\ r.degraded = Degradations(d)
  BY DEF ModelImpactReport
<1> HIDE DEF swap
<1>3. swapped.verdict = Verdict(e, s.blocker)
  BY <1>1 DEF ModelImpactReport
<1>4. s.baseline \in IntMetrics /\ s.measured \in IntMetrics /\ s.blocker \in BOOLEAN
  BY DEF ImpactQuestions
<1>5. /\ before.recall \in Int /\ before.macro \in Int /\ before.weighted \in Int
      /\ after.recall \in Int /\ after.macro \in Int /\ after.weighted \in Int
  BY <1>4, FittedMetrics
<1> HIDE DEF before, after, r, swapped
<1>6. /\ d.recall \in Int /\ d.macro \in Int /\ d.weighted \in Int /\ e.recall \in Int
      /\ e.recall = -d.recall
  BY <1>5 DEF Delta
<1> HIDE DEF d, e
<1>7. s.blocker <=> r.verdict = "rejected"
  BY <1>2, <1>4 DEF Verdict
<1>8. ASSUME r.verdict = "improved"
      PROVE  /\ d.recall > 0 /\ d.macro >= 0 /\ d.weighted >= 0 /\ Degradations(d) = {}
             /\ swapped.verdict # "improved"
  <2>1. d.recall > 0 /\ NothingFalls(d) /\ Degradations(d) = {}
    BY <1>2, <1>8 DEF Verdict
  <2>2. ~(e.recall > 0)
    BY <1>6, <2>1
  <2>3. swapped.verdict # "improved"
    BY <1>3, <2>2 DEF Verdict
  <2> QED
    BY <2>1, <2>3 DEF NothingFalls
<1>9. d.macro <= -MacroDrop => r.verdict \in {"degraded", "rejected"}
  BY <1>2 DEF Verdict, Degradations
<1> QED
  BY <1>2, <1>7, <1>8, <1>9 DEF VerdictFollowsMetrics, r, swapped, swap

\* model_impact.py: synthetic data is recommended only after a model trained on
\* synthetic rows of two classes was tested on real ones.
LEMMA RecommendedWereTested ==
    ASSUME NEW Rows, NEW Splits, NEW Classes, NEW s \in ImpactQuestions(Rows, Splits, Classes),
           IsFiniteSet(s.candidate), NoValue \notin Failures
    PROVE  RecommendedWasTested(s)
<1> DEFINE r == ModelImpactReport(s)
           synthetic == {row \in s.candidate : row.synthetic /\ row.id \in DOMAIN s.candidateSplit
                                                /\ s.candidateSplit[row.id] = "train"}
           tstr == TstrTrts(s)
<1>1. /\ s.baseline.macro \in Int /\ s.tstrMacro \in Int /\ s.synthetic \in BOOLEAN
      /\ s.blocker \in BOOLEAN
  BY DEF ImpactQuestions, IntMetrics
<1>2. r.utility = Utility(s, r.delta, r.verdict, tstr)
  BY DEF ModelImpactReport
<1>3. synthetic = SyntheticTrain(s.candidate, s.candidateSplit)
  BY DEF SyntheticTrain, RowsToTrainOn, RowsOf
<1>4. IsFiniteSet(synthetic)
  BY FS_Subset
<1>5. tstr.drop = s.baseline.macro - s.tstrMacro
  BY DEF TstrTrts
<1>6. tstr.available => ClassifierFailure(synthetic, TestRows(s.source, s.sourceSplit)) = NoValue
  BY <1>3 DEF TstrTrts
<1>7. s.blocker <=> r.verdict = "rejected"
  BY <1>1 DEF ModelImpactReport, Verdict
<1> HIDE DEF r, synthetic, tstr
<1>8. tstr.available => Cardinality(Labels(synthetic)) > 1
  <2>1. Cardinality(Labels(synthetic)) \in Nat
    BY <1>4, LabelsFinite
  <2>2. tstr.available => ~(Cardinality(Labels(synthetic)) < 2)
    BY <1>6 DEF ClassifierFailure, Failures
  <2> QED
    BY <2>1, <2>2
<1>9. ASSUME r.utility = "recommended"
      PROVE  /\ r.verdict = "improved" /\ s.synthetic /\ tstr.available
             /\ s.tstrMacro >= s.baseline.macro - TstrLimit
  <2>1. /\ r.verdict = "improved" /\ s.synthetic /\ tstr.available /\ ~(tstr.drop > TstrLimit)
    BY <1>2, <1>9 DEF Utility
  <2> QED
    BY <1>1, <1>5, <2>1 DEF TstrLimit
<1>10. r.verdict \in {"degraded", "rejected"} => r.utility \in {"rejected", "not_applicable"}
  BY <1>2, <1>7 DEF Utility
<1> QED
  BY <1>8, <1>9, <1>10 DEF RecommendedWasTested, r, synthetic

\* An eligibility request: reports that may be missing, with any classes.
EligibilityQuestions(Targets, Classes, Ids, Splits) ==
    [kind : {"eligibility"}, task : STRING,
     profile : {NoValue} \cup
        [target : Targets \cup {NoValue}, targetMissing : BOOLEAN,
         classes : {NoValue} \cup
            [rare : Classes, counts : UNION {[K -> Int] : K \in SUBSET Classes}]],
     manifest : {NoValue} \cup
        [target : Targets \cup {NoValue}, splits : UNION {[I -> Splits] : I \in SUBSET Ids}],
     leakage : {NoValue} \cup SUBSET {"training", "evaluation", "detected"}]

\* The labelled rows are those of all classes together.
LEMMA LabeledIsSum ==
    ASSUME NEW request
    PROVE  Labeled(request) = SumFunction(Cohorts(request))
  BY DEF Labeled, SumFunction, SumFunctionOnSet, FoldFunctionOnSet, MapThenSumSet,
     MapThenFoldSet

\* model_impact_eligibility.py: an eligible dataset has all the question needs,
\* and a refusal names its first reason.
LEMMA EligibilityGrounded ==
    ASSUME NEW Targets, NEW Classes, NEW Ids, NEW Splits,
           NEW s \in EligibilityQuestions(Targets, Classes, Ids, Splits),
           IsFiniteSet(Classes), IsFiniteSet(Splits)
    PROVE  EligibilityIsGrounded(s)
<1> DEFINE reasons == NotEligibleReasons(s)
           e == Eligibility(s)
<1>1. /\ e.eligible <=> reasons = {}
      /\ e.fallback <=> reasons # {}
      /\ e.reasons = reasons
      /\ reasons # {} => e.primary = FirstOf(EligibilityReasons, reasons)
  BY DEF Eligibility
<1> HIDE DEF e
<1>2. ASSUME reasons # {} PROVE e.primary \in e.reasons
  <2>1. reasons \subseteq ToSet(EligibilityReasons)
    BY DEF NotEligibleReasons
  <2>2. DOMAIN EligibilityReasons \subseteq Nat
    BY DEF EligibilityReasons
  <2> HIDE DEF reasons
  <2>3. \E i \in DOMAIN EligibilityReasons : EligibilityReasons[i] \in reasons
    BY <1>2, <2>1 DEF ToSet
  <2> QED
    BY <1>1, <1>2, <2>2, <2>3, FirstIsListed
<1>3. ASSUME reasons = {}
      PROVE  /\ RequestedTarget(s) # NoValue /\ ~TargetHasMissing(s)
             /\ ~(Labeled(s) < MinLabeled) /\ ~(RareCount(s) < MinRare)
             /\ s.manifest # NoValue
             /\ ~(Cardinality(SplitsUsed(s)) < MinSplits) /\ ~LeakageBlocks(s)
  <2> DEFINE listed == {"unsupported_task_type", "target_label_missing",
                "target_column_has_missing_values", "not_enough_labeled_samples",
                "not_enough_rare_class_samples", "split_manifest_missing",
                "split_manifest_insufficient_splits", "leakage_blocker_present"}
  <2>1. listed \subseteq ToSet(EligibilityReasons)
    BY DEF ToSet, EligibilityReasons
  <2>2. \A reason \in listed : reason \notin reasons
    BY <1>3
  <2> QED
    BY <2>1, <2>2 DEF NotEligibleReasons
<1> HIDE DEF reasons
<1>4. ASSUME reasons = {}
      PROVE  /\ s.profile # NoValue /\ s.profile.classes # NoValue
             /\ s.profile.classes.counts[s.profile.classes.rare] >= MinRare
             /\ Cohorts(s) = s.profile.classes.counts
  <2>1. ~(RareCount(s) < 5)
    BY <1>3, <1>4 DEF MinRare
  <2>2. /\ s.profile # NoValue /\ s.profile.classes # NoValue
        /\ s.profile.classes.rare \in DOMAIN Cohorts(s)
    BY <2>1 DEF RareCount, Cohorts
  <2>3. Cohorts(s) = s.profile.classes.counts
    BY <2>2 DEF Cohorts
  <2>4. s.profile.classes.counts[s.profile.classes.rare] \in Int
    BY <2>2, <2>3 DEF EligibilityQuestions
  <2> QED
    BY <2>1, <2>2, <2>3, <2>4 DEF RareCount, MinRare
<1>5. ASSUME reasons = {}
      PROVE  SumFunction(s.profile.classes.counts) >= MinLabeled
  <2>1. Labeled(s) = SumFunction(s.profile.classes.counts)
    BY <1>4, <1>5, LabeledIsSum
  <2>2. s.profile.classes.counts \in UNION {[K -> Int] : K \in SUBSET Classes}
    BY <1>4, <1>5 DEF EligibilityQuestions
  <2>3. PICK K \in SUBSET Classes : s.profile.classes.counts \in [K -> Int]
    BY <2>2
  <2>4. IsFiniteSet(K)
    BY FS_Subset
  <2>5. SumFunction(s.profile.classes.counts) \in Int
    BY <2>3, <2>4, SumIsInteger
  <2> QED
    BY <1>3, <1>5, <2>1, <2>5 DEF MinLabeled
<1>6. ASSUME reasons = {}
      PROVE  /\ ~s.profile.targetMissing
             /\ s.profile.target # NoValue \/ s.manifest.target # NoValue
             /\ Cardinality(SplitsUsed(s)) >= MinSplits
             /\ s.leakage \in {NoValue, {}}
  <2>1. s.manifest # NoValue /\ s.profile # NoValue
    BY <1>3, <1>4, <1>6
  <2>2. SplitsUsed(s) \subseteq Splits
    BY <2>1 DEF SplitsUsed, EligibilityQuestions
  <2>a. Cardinality(SplitsUsed(s)) \in Nat
    BY <2>2, FS_Subset, FS_CardinalityType
  <2>3. Cardinality(SplitsUsed(s)) >= MinSplits
    BY <1>3, <1>6, <2>a DEF MinSplits
  <2>4. s.leakage \in {NoValue, {}}
    BY <1>3, <1>6 DEF LeakageBlocks, EligibilityQuestions
  <2>5. s.profile.target # NoValue \/ s.manifest.target # NoValue
    BY <1>3, <1>6, <2>1 DEF RequestedTarget
  <2>6. ~s.profile.targetMissing
    BY <1>3, <1>6, <2>1 DEF TargetHasMissing
  <2> QED
    BY <2>3, <2>4, <2>5, <2>6
<1> QED
  BY <1>1, <1>2, <1>3, <1>4, <1>5, <1>6 DEF EligibilityIsGrounded, e, reasons

\* model_impact.py, model_impact_eligibility.py: a verdict follows from what was
\* measured, and the question is asked only of data that can answer it, for any
\* rows, splits, classes, counts and metrics.
THEOREM VerdictsFollowEvidence ==
    ASSUME NEW Rows, NEW Ids, NEW Targets, NEW Classes, NEW Splits, NEW Manifests,
           IsFiniteSet(Rows), IsFiniteSet(Classes), IsFiniteSet(Splits),
           NoValue \notin Failures,
           subject \in ImpactQuestions(Rows, Manifests, Classes)
                         \cup EligibilityQuestions(Targets, Classes, Ids, Splits)
    PROVE  VerdictsNeedEvidence
<1> DEFINE s == subject
<1>1. CASE s \in ImpactQuestions(Rows, Manifests, Classes)
  <2>1. s.kind = "impact" /\ s.candidate \subseteq Rows
    BY <1>1 DEF ImpactQuestions
  <2>2. IsFiniteSet(s.candidate)
    BY <2>1, FS_Subset
  <2>3. VerdictFollowsMetrics(s) /\ RecommendedWasTested(s)
    BY <1>1, <2>2, VerdictsFollowMetrics, RecommendedWereTested
  <2> QED
    BY <2>1, <2>3 DEF VerdictsNeedEvidence, EvidenceBacksVerdict
<1>2. CASE s \in EligibilityQuestions(Targets, Classes, Ids, Splits)
  <2>1. s.kind = "eligibility"
    BY <1>2 DEF EligibilityQuestions
  <2>2. EligibilityIsGrounded(s)
    BY <1>2, EligibilityGrounded
  <2> QED
    BY <2>1, <2>2 DEF VerdictsNeedEvidence, EvidenceBacksVerdict
<1> QED
  BY <1>1, <1>2

=============================================================================
