---------------------------- MODULE TabularData ----------------------------
(***************************************************************************)
(* The approved steps on a CSV source (app/plugins/tabular): splits.py,    *)
(* leakage_checks.py, duplicates.py, imputation.py and rules.py. Each step *)
(* is a function of the rows it reads; a refusal is a record with the      *)
(* reason code.                                                            *)
(*                                                                         *)
(* A source is [columns, rows]; a row is a function from columns to cells, *)
(* Missing is the empty cell. Object ids are numbers and sort as such; the *)
(* name generated for a row without one is a number above them. Ratios are *)
(* in twentieths and scores of splits exact fractions: a tie that floating *)
(* point would break falls to the order of the splits. Group values that   *)
(* begin with the reserved prefix __row_ are left out.                     *)
(***************************************************************************)
EXTENDS Integers, Sequences, FiniteSets, FiniteSetsExt, SequencesExt, Absence, Precedence

CONSTANT Word       \* a cell that does not parse as a number

Refused(reason) == [failure |-> reason]

Succeeded(result) == result.failure = Missing

\* The four readers agree: a header, at least one row, the column they need.
ReadFailure(source, column) ==
    CASE source.columns = {} -> "empty_tabular_source"
      [] source.columns # {} /\ column \notin source.columns -> "column_not_found"
      [] OTHER -> IF source.rows = <<>> THEN "empty_tabular_source" ELSE Missing

GeneratedId(i) == 100 + i

ObjectId(source, i) ==
    IF "object_id" \in source.columns /\ source.rows[i]["object_id"] # Missing
    THEN source.rows[i]["object_id"] ELSE GeneratedId(i)

ObjectIds(source) == [i \in DOMAIN source.rows |-> ObjectId(source, i)]

-----------------------------------------------------------------------------
(* splits.py                                                               *)

SplitOrder == <<"train", "validation", "test">>

SplitNames == ToSet(SplitOrder)

Twentieths == [train |-> 14, validation |-> 3, test |-> 3]

\* round() of a number of twentieths: halves go to the even neighbour.
RoundTwentieths(x) ==
    LET floor == x \div 20
        rest == x % 20
    IN  IF rest > 10 \/ (rest = 10 /\ floor % 2 = 1) THEN floor + 1 ELSE floor

Before(s, t) == \E i, j \in 1..3 : i < j /\ SplitOrder[i] = s /\ SplitOrder[j] = t

FirstLargest(f) == CHOOSE s \in SplitNames :
    \A t \in SplitNames \ {s} : f[t] < f[s] \/ (f[t] = f[s] /\ Before(s, t))

FirstSmallest(f) == FirstLargest([s \in SplitNames |-> -f[s]])

\* One row less for the largest target or one more for the smallest.
Rebalanced(target, total) ==
    LET sum == SumFunction(target)
    IN  CASE sum > total -> [target EXCEPT ![FirstLargest(target)] = @ - 1]
          [] sum < total -> [target EXCEPT ![FirstSmallest(target)] = @ + 1]
          [] OTHER -> target

Distance(a, b) == IF a < b THEN b - a ELSE a - b

\* The targets are rebalanced until they add up: once for each row they are off.
TargetCounts(total) ==
    LET rounded == [s \in SplitNames |-> Max({1, RoundTwentieths(total * Twentieths[s])})]
    IN  FoldSet(LAMBDA n, target : Rebalanced(target, total), rounded,
                1..Distance(SumFunction(rounded), total))

GroupKey(source, step) ==
    IF step.group # Missing THEN step.group
    ELSE CASE "customer_id_hash" \in source.columns -> "customer_id_hash"
           [] "case_id" \in source.columns \ {"customer_id_hash"} -> "case_id"
           [] OTHER -> Missing

GroupValue(source, key, i) == IF key = Missing THEN Missing ELSE source.rows[i][key]

\* A group is the set of its rows; a row without a group value is a group.
Groups(source, key) ==
    {{j \in DOMAIN source.rows :
        j = i \/ (GroupValue(source, key, i) # Missing
                  /\ GroupValue(source, key, i) = GroupValue(source, key, j))} :
     i \in DOMAIN source.rows}

LabelCount(source, target, rows, label) == Cardinality({i \in rows : source.rows[i][target] = label})

\* Groups with a positive label first, larger ones first; the seed shuffles the rest.
GroupOrders(source, target, key) ==
    LET Positive(g) == LabelCount(source, target, g, "1") > 0
        First(g, h) == \/ Positive(g) /\ ~Positive(h)
                       \/ Positive(g) = Positive(h) /\ Cardinality(g) > Cardinality(h)
    IN  {order \in SetToSeqs(Groups(source, key)) :
           \A i, j \in DOMAIN order : i < j => ~First(order[j], order[i])}

\* Fractions <<numerator, denominator>> of positive denominators.
Plus(p, q) == <<p[1] * q[2] + q[1] * p[2], p[2] * q[2]>>

Less(p, q) == p[1] * q[2] < q[1] * p[2]

\* How far a split would be from its row and label targets with the group.
\* done: the groups assigned so far, a function to their splits.
SplitScore(source, target, done, group, split) ==
    LET placed == group \cup UNION {g \in DOMAIN done : done[g] = split}
        goal == TargetCounts(Len(source.rows))[split]
        Penalty(label) ==
            LET expected == Twentieths[split] * LabelCount(source, target, DOMAIN source.rows, label)
            IN  <<Distance(expected, 20 * LabelCount(source, target, placed, label)),
                  Max({20, expected})>>
    IN  FoldSet(LAMBDA label, sum : Plus(sum, Penalty(label)),
                <<Distance(goal, Cardinality(placed)), Max({1, goal})>>,
                {source.rows[i][target] : i \in group})

FirstLeast(score) == CHOOSE s \in SplitNames : \A t \in SplitNames \ {s} :
    Less(score[s], score[t]) \/ (~Less(score[t], score[s]) /\ Before(s, t))

BestSplit(source, target, done, group) ==
    FirstLeast([s \in SplitNames |-> SplitScore(source, target, done, group, s)])

Place(done, group, split) ==
    [g \in DOMAIN done \cup {group} |-> IF g = group THEN split ELSE done[g]]

\* The split of each group, in the order they are placed.
PlacedGroups(source, target, order) ==
    FoldLeft(LAMBDA done, g : Place(done, g, BestSplit(source, target, done, g)), <<>>, order)

\* Variant: stratified, row by row.
AssignRows(source, target, key, order) ==
    LET placed == PlacedGroups(source, target, [i \in DOMAIN source.rows |-> {i}])
    IN  [i \in DOMAIN source.rows |-> placed[{i}]]

\* The split of each row, looked up by its group value: rows without one all
\* share the entry of None, which the last of them wrote.
AssignSplits(source, target, key, order) ==
    LET placed == PlacedGroups(source, target, order)
        LastWith(value) == order[Max({k \in DOMAIN order :
                              \E i \in order[k] : GroupValue(source, key, i) = value})]
    IN  [i \in DOMAIN source.rows |-> placed[LastWith(GroupValue(source, key, i))]]

ClassDistribution(assignments) ==
    LET labels == {a.label : a \in ToSet(assignments)}
        In(s) == {i \in DOMAIN assignments : assignments[i].split = s}
    IN  [s \in SplitNames |->
            [total |-> Cardinality(In(s)),
             labels |-> [l \in labels |-> Cardinality({i \in In(s) : assignments[i].label = l})]]]

SplitFailure(source, target, step) ==
    CASE step.type \notin {"CREATE_SPLIT", "CREATE_SUPERVISED_SPLIT"} -> "unsupported_action_step_type"
      [] step.strategy # "group_stratified" -> "unsupported_split_strategy"
      [] OTHER ->
            CASE ReadFailure(source, target) # Missing -> ReadFailure(source, target)
              [] step.group # Missing /\ step.group \notin source.columns -> "group_key_not_found"
              [] OTHER -> IF \E i \in DOMAIN source.rows : source.rows[i][target] = Missing
                          THEN "missing_target_label" ELSE Missing

\* order: the groups as the seed puts them.
CreateSplit(source, target, step, order) ==
    LET key == GroupKey(source, step)
        split == AssignSplits(source, target, key, order)
        assignments == [i \in DOMAIN source.rows |->
            [id |-> ObjectId(source, i), split |-> split[i], label |-> source.rows[i][target],
             group |-> GroupValue(source, key, i)]]
    IN  IF SplitFailure(source, target, step) # Missing
        THEN Refused(SplitFailure(source, target, step))
        ELSE [failure |-> Missing, target |-> target, key |-> key, assignments |-> assignments,
              distribution |-> ClassDistribution(assignments)]

-----------------------------------------------------------------------------
(* leakage_checks.py                                                       *)

\* Assignments are looked up by object id: the last one of an id counts.
AssignedSplit(manifest, id) ==
    manifest.assignments[Max({k \in DOMAIN manifest.assignments :
                                manifest.assignments[k].id = id})].split

AssignedIds(manifest) == {a.id : a \in ToSet(manifest.assignments)}

\* The classes of assigned rows that agree on their key and lie in two splits or
\* more; keys has one for each row.
CrossSplitFindings(source, manifest, keys) ==
    LET assigned == {i \in DOMAIN source.rows : ObjectId(source, i) \in AssignedIds(manifest)}
        classes == {{j \in assigned : keys[j] = keys[i]} : i \in {k \in assigned : keys[k] # Missing}}
    IN  {c \in classes :
           Cardinality({AssignedSplit(manifest, ObjectId(source, i)) : i \in c}) > 1}

Check(status, severity, blocks) == [status |-> status, severity |-> severity, blocks |-> blocks]

CrossSplitCheck(findings) ==
    IF findings = {} THEN Check("passed", "info", Missing)
    ELSE Check("failed", "blocker", "BLOCK_MODEL_EVALUATION")

RowContent(source, i) == [c \in source.columns \ {"object_id"} |-> source.rows[i][c]]

ExactHashCheck(source, manifest) ==
    CrossSplitCheck(CrossSplitFindings(source, manifest,
        [i \in DOMAIN source.rows |-> RowContent(source, i)]))

\* The group is read from the row, not from the assignment.
GroupKeyCheck(source, manifest) ==
    IF manifest.key = Missing THEN Check("not_applicable", "info", Missing)
    ELSE CrossSplitCheck(CrossSplitFindings(source, manifest, [i \in DOMAIN source.rows |->
            IF manifest.key \in source.columns THEN source.rows[i][manifest.key] ELSE Missing]))

\* candidates: the reasons the profile gives, Missing without a profile.
TargetLeakageCheck(candidates) ==
    CASE candidates = Missing -> Check("not_applicable", "info", Missing)
      [] candidates = {} -> Check("passed", "info", Missing)
      [] OTHER -> IF "high_target_match_rate" \in candidates
                  THEN Check("failed", "blocker", "BLOCK_TRAINING")
                  ELSE Check("failed", "warning", Missing)

RiskScore(checks) ==
    LET severities == {c.severity : c \in {d \in checks : d.status = "failed"}}
    IN  CASE "blocker" \in severities -> 100
          [] severities = {"warning"} -> 50
          [] OTHER -> 0

LeakageFailure(source, manifest) ==
    CASE manifest.assignments = <<>> -> "empty_split_manifest"
      [] OTHER -> IF ReadFailure(source, manifest.target) # Missing
                  THEN ReadFailure(source, manifest.target)
                  ELSE IF AssignedIds(manifest) \subseteq Range(ObjectIds(source)) THEN Missing
                       ELSE "split_manifest_object_id_missing_in_source"

LeakageReport(source, manifest, candidates) ==
    LET exact == ExactHashCheck(source, manifest)
        group == GroupKeyCheck(source, manifest)
        checks == {exact, group, TargetLeakageCheck(candidates)}
        blocks == {c.blocks : c \in {d \in checks : d.status = "failed" /\ d.severity = "blocker"}}
    IN  IF LeakageFailure(source, manifest) # Missing THEN Refused(LeakageFailure(source, manifest))
        ELSE [failure |-> Missing, exact |-> exact.status, group |-> group.status,
              detected |-> blocks # {}, risk |-> RiskScore(checks),
              blockEvaluation |-> "BLOCK_MODEL_EVALUATION" \in blocks,
              blockTraining |-> "BLOCK_TRAINING" \in blocks]

-----------------------------------------------------------------------------
(* duplicates.py                                                           *)

\* columns: the configured signature columns, Missing for all but the id.
SignatureColumns(source, columns) ==
    (IF columns = Missing THEN source.columns ELSE columns \cap source.columns) \ {"object_id"}

Signature(source, columns, i) == [c \in SignatureColumns(source, columns) |-> source.rows[i][c]]

DuplicateGroups(source, columns) ==
    {g \in {{j \in DOMAIN source.rows : Signature(source, columns, j) = Signature(source, columns, i)} :
            i \in DOMAIN source.rows} : Cardinality(g) > 1}

\* The smallest object id, then the first row.
CanonicalMember(source, group) == CHOOSE i \in group :
    \A j \in group \ {i} : \/ ObjectId(source, i) < ObjectId(source, j)
                           \/ ObjectId(source, i) = ObjectId(source, j) /\ i < j

DuplicatePairs(source, columns) ==
    MapThenSumSet(LAMBDA g : Cardinality(g) - 1, DuplicateGroups(source, columns))

\* Removal goes by the row, marking by the object id.
RemovedRows(source, columns) ==
    UNION {g \ {CanonicalMember(source, g)} : g \in DuplicateGroups(source, columns)}

MarkedRows(source, columns) ==
    UNION {{i \in g : ObjectId(source, i) # ObjectId(source, CanonicalMember(source, g))} :
           g \in DuplicateGroups(source, columns)}

\* candidate: the rows of the source the candidate keeps, in order.
Duplicates(source, mode, columns) ==
    LET pairs == DuplicatePairs(source, columns)
        removed == RemovedRows(source, columns)
        marked == MarkedRows(source, columns)
        marks == mode = "MARK_DUPLICATE_CANDIDATES"
    IN  CASE mode \notin {"MARK_DUPLICATE_CANDIDATES", "REMOVE_DUPLICATES"} ->
                Refused("unsupported_action_step_type")
          [] source.columns = {} \/ source.rows = <<>> -> Refused("empty_tabular_source")
          [] "object_id" \notin source.columns -> Refused("id_column_not_found")
          [] SignatureColumns(source, columns) = {} -> Refused("no_signature_columns")
          [] OTHER ->
                [failure |-> Missing, mode |-> mode, before |-> pairs, after |-> IF marks THEN pairs ELSE 0,
                 changed |-> IF marks THEN Cardinality(marked) ELSE Cardinality(removed),
                 candidate |-> InOrder(IF marks THEN DOMAIN source.rows ELSE DOMAIN source.rows \ removed),
                 marked |-> IF marks THEN {ObjectId(source, i) : i \in marked} ELSE {},
                 removed |-> IF marks THEN {} ELSE removed]

-----------------------------------------------------------------------------
(* imputation.py                                                           *)

ImputationMethods == {"median", "mode", "group_median", "missingness_indicator"}

Present(source, column, rows) == {i \in rows : source.rows[i][column] # Missing}

\* Cells are even numbers, so that the mean of two is a number. At(k) is the
\* k-th of the sorted cells.
Median(source, column, rows) ==
    LET Cell(i) == source.rows[i][column]
        At(k) == Min({v \in {Cell(i) : i \in rows} : Cardinality({i \in rows : Cell(i) <= v}) >= k})
        middle == Cardinality(rows) \div 2
    IN  IF Cardinality(rows) % 2 = 1 THEN At(middle + 1) ELSE (At(middle) + At(middle + 1)) \div 2

\* The most frequent cell, the smallest of several.
Mode(source, column, rows) ==
    LET Count(v) == Cardinality({i \in rows : source.rows[i][column] = v})
        values == {source.rows[i][column] : i \in rows}
    IN  CHOOSE v \in values : \A w \in values \ {v} : Count(w) < Count(v) \/ (Count(w) = Count(v) /\ v < w)

GroupRows(source, key, i) == {j \in DOMAIN source.rows : source.rows[j][key] = source.rows[i][key]}

\* The value a missing cell of row i gets: its group's, or the column's.
FillValue(source, step, i) ==
    LET present == Present(source, step.column, DOMAIN source.rows)
        group == present \cap GroupRows(source, step.group, i)
    IN  CASE step.method = "mode" -> Mode(source, step.column, present)
          [] step.method = "group_median" /\ group # {} -> Median(source, step.column, group)
          [] OTHER -> Median(source, step.column, present)

FitFailure(source, step) ==
    LET cells == {source.rows[i][step.column] : i \in Present(source, step.column, DOMAIN source.rows)}
    IN  CASE step.method = "missingness_indicator" -> Missing
          [] step.method # "missingness_indicator" /\ cells = {} -> "no_non_missing_values"
          [] OTHER -> IF step.method # "mode" /\ Word \in cells
                      THEN "non_numeric_imputation_value" ELSE Missing

\* The group of a row is read, as row[group_key or ""], for every method.
LookupFailure(source, step) ==
    IF step.method \in {"median", "mode"} /\ \E i \in DOMAIN source.rows : source.rows[i][step.column] = Missing
    THEN "KeyError" ELSE Missing

\* step.group: the configured key, or the default customer_segment.
ImputationFailure(source, target, step) ==
    CASE step.type # "IMPUTE_MISSING_VALUES" -> "unsupported_action_step_type"
      [] step.method \notin ImputationMethods -> "unsupported_imputation_method"
      [] step.column = target -> "target_column_auto_imputation_forbidden"
      [] source.columns = {} \/ source.rows = <<>> -> "empty_tabular_source"
      [] ~{step.column, target} \subseteq source.columns -> "column_not_found"
      [] step.method = "group_median" /\ step.group \notin source.columns -> "group_key_not_found"
      [] OTHER -> IF FitFailure(source, step) # Missing THEN FitFailure(source, step)
                  ELSE LookupFailure(source, step)

Impute(source, target, step) ==
    LET Gap(i) == source.rows[i][step.column] = Missing
        gaps == {i \in DOMAIN source.rows : Gap(i)}
        fills == step.method # "missingness_indicator"
        indicator == IF step.indicator \/ ~fills THEN [i \in DOMAIN source.rows |-> Gap(i)] ELSE <<>>
    IN  IF ImputationFailure(source, target, step) # Missing
        THEN Refused(ImputationFailure(source, target, step))
        ELSE [failure |-> Missing, before |-> Cardinality(gaps), imputed |-> IF fills THEN Cardinality(gaps) ELSE 0,
              after |-> IF fills THEN 0 ELSE Cardinality(gaps), indicator |-> indicator,
              rows |-> [i \in DOMAIN source.rows |->
                 IF fills /\ Gap(i) THEN [source.rows[i] EXCEPT ![step.column] = FillValue(source, step, i)]
                 ELSE source.rows[i]]]

-----------------------------------------------------------------------------
(* rules.py                                                                *)

\* A check is [field, op, value]; a cell that is no number fails an order.
CheckHolds(cell, check) ==
    CASE check.op = "gte" -> cell # Word /\ cell >= check.value
      [] check.op = "gt" -> cell # Word /\ cell > check.value
      [] check.op = "lte" -> cell # Word /\ cell <= check.value
      [] check.op = "lt" -> cell # Word /\ cell < check.value
      [] check.op = "eq" -> cell = check.value
      [] check.op = "ne" -> cell # check.value
      [] check.op = "in" -> cell \in check.value
      [] OTHER -> cell \notin check.value

CellOf(row, field) == IF field \in DOMAIN row THEN row[field] ELSE Missing

RuleHolds(rule, row) ==
    \A check \in rule.checks :
        IF CellOf(row, check.field) = Missing THEN rule.allowMissing
        ELSE CheckHolds(CellOf(row, check.field), check)

\* Rules are told apart by their id. The report names the first fifty
\* violations, by row and rule: more than there are here.
RulesReport(rules, rows) ==
    LET Violations(rule) == Cardinality({i \in DOMAIN rows : ~RuleHolds(rule, rows[i])})
    IN  [violations |-> MapThenSumSet(Violations, rules),
         samples |-> {<<i, r.id>> : i \in DOMAIN rows, r \in rules}
                        \ UNION {{<<i, r.id>> : i \in {j \in DOMAIN rows : RuleHolds(r, rows[j])}} : r \in rules},
         blockers |-> {r.id : r \in {q \in rules : q.severity = "critical" /\ Violations(q) > 0}}]

=============================================================================
