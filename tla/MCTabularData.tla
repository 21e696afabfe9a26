--------------------------- MODULE MCTabularData ---------------------------
(***************************************************************************)
(* The tabular steps over small sources: splits with and without groups in *)
(* every order the seed allows, duplicates with repeated ids, gaps in one  *)
(* and in all groups, and synthetic rows over every split of five rows.    *)
(***************************************************************************)
EXTENDS SyntheticData, VersionCompare, CaseSubject

Columns == {"object_id", "customer_id_hash", "x", "label"}

\* ids, groups, cells and labels are sequences of one length.
SourceOf(columns, ids, groups, cells, labels) ==
    [columns |-> columns,
     rows |-> [i \in DOMAIN ids |-> [c \in columns |->
        CASE c = "object_id" -> ids[i] [] c = "customer_id_hash" -> groups[i]
          [] c = "x" -> cells[i] [] c = "label" -> labels[i]]]]

SplitStep == [type |-> "CREATE_SPLIT", strategy |-> "group_stratified", group |-> Missing]

SplitSources ==
    {SourceOf(Columns, <<1, 2, 3, 4, 5>>, g, <<10, 10, 20, 20, 30>>, labels) :
        g \in {<<1, 2, 3, 4, 5>>, <<1, 1, 2, 3, 3>>, <<1, 2, Missing, Missing, 1>>},
        labels \in [1..5 -> {"0", "1"}]}
    \cup
    {SourceOf(Columns \ {"customer_id_hash"}, <<1, 2, Missing, Missing, 2>>, <<>>,
              <<10, 10, 20, 20, 30>>, labels) : labels \in [1..5 -> {"0", "1"}]}

CandidateReasons ==
    {Missing, {}, {"name_pattern"}, {"name_pattern", "high_target_match_rate"}}

SplitCases ==
    UNION {[kind : {"split"}, source : {source}, candidates : CandidateReasons,
            order : GroupOrders(source, "label", GroupKey(source, SplitStep))] :
           source \in SplitSources}

\* Rows that agree or differ in x and y, with ids that repeat, in any order.
DuplicateCases ==
    [kind : {"duplicates"}, columns : {Missing, {"x"}},
     source : {SourceOf(Columns, ids, <<1, 1, 1, 1>>, cells, <<"0", "0", "1", "0">>) :
        ids \in {<<1, 2, 3, 4>>, <<4, 3, 2, 1>>, <<1, 1, 2, Missing>>}, cells \in [1..4 -> {10, 20}]}]

ImputationStep(method) ==
    [type |-> "IMPUTE_MISSING_VALUES", method |-> method, column |-> "x",
     group |-> "customer_id_hash", indicator |-> method = "mode"]

ImputationCases ==
    [kind : {"impute"}, step : {ImputationStep(m) : m \in ImputationMethods},
     source : {SourceOf(Columns, <<1, 2, 3, 4>>, <<1, 1, 2, Missing>>, cells, <<"0", "1", "0", "1">>) :
        cells \in [1..4 -> {10, 20, 26, Missing}]}]

SyntheticSource(groups) ==
    SourceOf(Columns, <<1, 2, 3, 4, 5>>, groups, <<10, 20, Missing, 26, 40>>, <<"1", "1", "1", "0", "0">>)

\* A manifest over the source with the given splits.
ManifestOf(source, splits) ==
    LET assignments == [i \in DOMAIN splits |->
            [id |-> ObjectId(source, i), split |-> splits[i], label |-> source.rows[i]["label"],
             group |-> source.rows[i]["customer_id_hash"]]]
    IN  [target |-> "label", key |-> "customer_id_hash", assignments |-> assignments,
         distribution |-> ClassDistribution(assignments)]

AugmentStep(method) ==
    [type |-> "AUGMENT_RARE_CLASS", method |-> method, sourceSplit |-> "train", features |-> Missing,
     rare |-> "1", k |-> 1, ratio |-> 20, enabled |-> TRUE]

Draws ==
    {<<[seed |-> s, place |-> 0, lambda |-> l, at |-> a], [seed |-> s + 1, place |-> 0, lambda |-> 1, at |-> 1],
       [seed |-> 0, place |-> 0, lambda |-> 1, at |-> 1], [seed |-> 1, place |-> 0, lambda |-> 1, at |-> 1],
       [seed |-> 2, place |-> 0, lambda |-> 1, at |-> 1]>> : s \in 0..1, l \in 0..1, a \in 0..2}

\* The last row has a split of its own, and twice the rare rows are outnumbered.
SyntheticCases ==
    [kind : {"synthetic"}, method : {"smote", "gaussian_copula"}, draws : Draws,
     source : {SyntheticSource(g) : g \in {<<1, 2, 3, 4, 5>>, <<1, 1, 2, 2, 3>>}},
     splits : [1..4 -> {"train", "test"}] ]

TabularCases == SplitCases \cup DuplicateCases \cup ImputationCases \cup SyntheticCases

-----------------------------------------------------------------------------
(* Properties. s is a case.                                                *)

Rows(source, indices) == [source EXCEPT !.rows = [k \in DOMAIN indices |-> source.rows[indices[k]]]]

DistinctIds(source) == IsInjective(ObjectIds(source))

SplitOfCase(s) == CreateSplit(s.source, "label", SplitStep, s.order)

\* A new split assigns every row to one of the splits and keeps groups whole, so
\* that its own leakage check can only find equal rows or a leaking column.
SplitKeepsGroupsWhole(s, m, report) ==
    LET assigned == [i \in DOMAIN m.assignments |-> m.assignments[i].split]
    IN  /\ m.failure = Missing /\ report.failure = Missing
        /\ \A a, b \in ToSet(m.assignments) :
              a.group = b.group /\ a.group # Missing => a.split = b.split
        /\ report.group # "failed"
        /\ report.detected <=> \/ report.exact = "failed"
                               \/ s.candidates # Missing /\ "high_target_match_rate" \in s.candidates
        /\ SumFunction([t \in SplitNames |-> m.distribution[t].total]) = Len(s.source.rows)
        /\ \A t \in SplitNames : SumFunction(m.distribution[t].labels) = m.distribution[t].total
        /\ SumFunction(TargetCounts(Len(s.source.rows))) = Len(s.source.rows)
        /\ assigned \in [DOMAIN s.source.rows -> SplitNames]

SplitStepKeepsGroups(s) ==
    s.kind = "split" =>
        \A m \in {SplitOfCase(s)} :
            SplitKeepsGroupsWhole(s, m, LeakageReport(s.source, m, s.candidates))

\* Three single positive rows that are groups of their own reach all three splits.
RarePositivesReachEverySplit(s) ==
    LET singles == {i \in DOMAIN s.source.rows : s.source.rows[i]["label"] = "1"}
        key == "customer_id_hash"
        own == /\ key \in s.source.columns
               /\ Cardinality(Groups(s.source, key)) = Len(s.source.rows)
    IN  own /\ Cardinality(singles) >= 3 =>
            {SplitOfCase(s).assignments[i].split : i \in singles} = SplitNames

\* Removing duplicates keeps one row of each kind, so that no split of what is
\* left can separate equal rows; marking and removing agree on the rows to
\* review as long as ids tell them apart.
DuplicatesAgree(s) ==
    LET removal == Duplicates(s.source, "REMOVE_DUPLICATES", s.columns)
        marking == Duplicates(s.source, "MARK_DUPLICATE_CANDIDATES", s.columns)
        left == Rows(s.source, removal.candidate)
        Kept(i) == {k \in Range(removal.candidate) :
                      Signature(s.source, s.columns, k) = Signature(s.source, s.columns, i)}
    IN  /\ \A i \in DOMAIN s.source.rows : Cardinality(Kept(i)) = 1
        /\ removal.after = DuplicatePairs(left, s.columns)
        /\ removal.before = Len(s.source.rows) - Len(left.rows) /\ marking.before = removal.before
        /\ DistinctIds(s.source) => marking.marked = {ObjectId(s.source, i) : i \in removal.removed}
        /\ \A splits \in [DOMAIN left.rows -> {"train", "test"}] :
              LeakageReport(left, ManifestOf(left, splits), Missing).exact # "failed"
                \/ ~DistinctIds(left)

\* Imputation fills the gaps of its column and nothing else, with a value
\* between those its group has, and reports the gaps that are really left; a
\* group without a value of its own does not stop it.
GapsAreFilled(s) ==
    LET r == Impute(s.source, "label", s.step)
        Cell(i) == s.source.rows[i]["x"]
        group(i) == {Cell(j) : j \in {k \in DOMAIN s.source.rows :
                       /\ Cell(k) # Missing
                       /\ s.source.rows[k]["customer_id_hash"] = s.source.rows[i]["customer_id_hash"]}}
        Filled(i) == r.rows[i]["x"]
    IN  /\ r.failure = Missing =>
              /\ \A i \in DOMAIN r.rows :
                    /\ [r.rows[i] EXCEPT !["x"] = Missing] = [s.source.rows[i] EXCEPT !["x"] = Missing]
                    /\ Cell(i) # Missing => Filled(i) = Cell(i)
                    /\ s.step.method = "group_median" /\ group(i) # {} =>
                          Filled(i) \in Min(group(i))..Max(group(i))
              /\ r.after = Cardinality({i \in DOMAIN r.rows : Filled(i) = Missing})
              /\ r.before = r.imputed + r.after
        /\ s.step.method = "group_median" /\ (\E i \in DOMAIN s.source.rows : Cell(i) # Missing) =>
              r.failure = Missing

Generated(s, manifest) ==
    IF s.method = "smote" THEN Smote(s.source, manifest, "label", AugmentStep("smote"), s.draws)
    ELSE GaussianCopula(s.source, manifest, "label", AugmentStep("gaussian_copula"), s.draws)

\* Synthetic rows are made of the train split alone: their features lie
\* between those of train rows and their group is one of train, so that the
\* augmented manifest, whose counts agree with its assignments, leaks no more
\* over the candidate than the manifest did over the source.
SyntheticRowsStayInTrain(s) ==
    LET manifest == ManifestOf(s.source, s.splits \o <<"train">>)
        r == Generated(s, manifest)
        train == {i \in DOMAIN s.source.rows : manifest.assignments[i].split = "train"}
        numbers == {s.source.rows[i]["x"] : i \in train} \ {Missing}
        before == LeakageReport(s.source, manifest, Missing)
        after == LeakageReport(r.candidate, r.manifest, Missing)
    IN  r.failure = Missing =>
            /\ \A k \in DOMAIN r.synthetic :
                  /\ r.synthetic[k]["x"] \in {Missing, 0} \cup Min(numbers)..Max(numbers)
                  /\ r.synthetic[k]["customer_id_hash"] \in
                        {s.source.rows[i]["customer_id_hash"] : i \in train}
            /\ r.manifest.distribution = ClassDistribution(r.manifest.assignments)
            /\ after.failure = Missing /\ after.group = before.group /\ after.exact = before.exact

NoStep == [imputation |-> Missing, duplicates |-> Missing, synthetic |-> Missing]

NoTexts == [base |-> Missing, candidate |-> Missing]

ProfileOf(source) == Profile(source, [segment |-> Missing, outliers |-> Missing, rules |-> {}])

Imputed(s) == Impute(s.source, "label", s.step)

\* What a step of the case made of its source, and its report.
Applied(s) ==
    CASE s.kind = "duplicates" ->
            LET r == Duplicates(s.source, "REMOVE_DUPLICATES", s.columns)
            IN  [failure |-> r.failure, candidate |-> Rows(s.source, r.candidate),
                 reports |-> [NoStep EXCEPT !.duplicates = r]]
      [] s.kind = "impute" ->
            LET r == Imputed(s)
            IN  IF r.failure # Missing THEN r
                ELSE [failure |-> Missing, candidate |-> [s.source EXCEPT !.rows = r.rows],
                      reports |-> [NoStep EXCEPT !.imputation = r]]
      [] s.kind = "synthetic" ->
            LET r == Generated(s, ManifestOf(s.source, s.splits \o <<"train">>))
            IN  IF r.failure # Missing THEN r
                ELSE [failure |-> Missing, candidate |-> r.candidate,
                      reports |-> [NoStep EXCEPT !.synthetic = r]]

\* A comparison accounts for every row: the change of the count is what was
\* added less what was removed, the classes and, when whole rows were compared,
\* the duplicates change by as many, and the changed objects are the rows in
\* which the versions differ.
ComparisonAddsUp(s, step, report) ==
    LET classes == report.classes.classes
        common == DOMAIN s.source.rows \cap DOMAIN step.candidate.rows
        refilled == {i \in common : \E c \in s.source.columns \ {"object_id"} :
                       step.candidate.rows[i][c] # s.source.rows[i][c]}
    IN  /\ report.counts.delta = report.changed.added - report.changed.removed
        /\ report.changed.blocked = 0
        /\ MapThenSumSet(LAMBDA l : classes[l].after - classes[l].before, DOMAIN classes) = report.counts.delta
        /\ s.kind = "duplicates" /\ s.columns = Missing => report.duplicates.delta = -report.changed.removed
        /\ s.kind = "impute" => report.changed.total = Cardinality(refilled)
        /\ s.kind = "synthetic" => refilled = {} /\ report.changed.total = report.changed.added

ComparisonsAddUp(s) ==
    \A step \in {Applied(s)} : step.failure = Missing =>
        ComparisonAddsUp(s, step,
            VersionCompareReport(ProfileOf(s.source), ProfileOf(step.candidate), step.reports, NoTexts))

StepKeepsItsWord(s) ==
    CASE s.kind = "split" -> RarePositivesReachEverySplit(s)
      [] s.kind = "duplicates" -> DuplicatesAgree(s) /\ ComparisonsAddUp(s)
      [] s.kind = "impute" -> GapsAreFilled(s) /\ ComparisonsAddUp(s)
      [] s.kind = "synthetic" -> SyntheticRowsStayInTrain(s) /\ ComparisonsAddUp(s)
      [] OTHER -> TRUE

\* splits.py: the manifest is group-stratified, a row has the split its group
\* was placed in.
RowsHaveTheSplitOfTheirGroup(s) ==
    s.kind = "split" =>
        \A g \in Groups(s.source, GroupKey(s.source, SplitStep)) : \A i \in g :
            SplitOfCase(s).assignments[i].split = PlacedGroups(s.source, "label", s.order)[g]

\* splits.py, leakage_checks.py: a new split assigns every row, keeps groups
\* whole and passes its own leakage check but for equal rows and columns.
SplitsKeepGroupsWhole == SplitStepKeepsGroups(subject)

\* plugins/tabular: splits spread rare positives, duplicates and imputation do
\* what they report, synthetic rows come from the train split alone.
TabularStepsKeepTheirWord == StepKeepsItsWord(subject)

\* splits.py:135 "Create and persist a group-stratified split manifest.": a row
\* has the split its group was placed in.
RowsFollowTheirGroup == RowsHaveTheSplitOfTheirGroup(subject)

=============================================================================
