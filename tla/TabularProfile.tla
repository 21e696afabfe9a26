--------------------------- MODULE TabularProfile ---------------------------
(***************************************************************************)
(* The profile of transactions.csv: app/plugins/tabular/profile.py, which  *)
(* folds the rows into counters in one pass and builds its diagnostics     *)
(* from them. Sources are those of TabularData; a ratio is in percent,     *)
(* rounded down, quartiles are exact.                                      *)
(***************************************************************************)
EXTENDS TabularData

CONSTANTS
    DuplicateIdLimit,   \* at most so many affected ids are listed
    OutlierIdLimit

Share(part, whole) == IF whole = 0 THEN 0 ELSE (100 * part) \div whole

-----------------------------------------------------------------------------
(* Columns.                                                                *)

TargetNames == <<"is_fraud", "label", "target">>

GroupKeyNames ==
    {"customer_id_hash", "customer_id", "case_id", "case_id_hash", "household_id", "group_id"}

IdNames == {"object_id", "row_id", "transaction_id", "document_id", "support_ticket_id"}

\* Names that the two lists of patterns are made for.
PiiNames == {"email", "phone", "passport", "ssn", "full_name", "address"}

LeakageNames == {"manual_review_flag", "is_fraud_prediction", "target_leak"}

\* The first of the names that is a column.
TargetColumn(source) ==
    LET present == {k \in DOMAIN TargetNames : TargetNames[k] \in source.columns}
    IN  IF present = {} THEN Missing ELSE TargetNames[Min(present)]

SegmentColumn(source, requested) == IF requested \in source.columns THEN requested ELSE Missing

\* The first of the classes that a name belongs to.
Role(source, column) ==
    CASE column \in PiiNames -> "pii_like"
      [] column \in LeakageNames -> "leakage_candidate"
      [] column \in IdNames -> "id"
      [] column \in GroupKeyNames -> "group_key"
      [] column = TargetColumn(source) -> "target"
      [] OTHER -> "unknown"

Cells(source, column) == {source.rows[i][column] : i \in DOMAIN source.rows} \ {Missing}

NullCount(source, column) == Cardinality({i \in DOMAIN source.rows : source.rows[i][column] = Missing})

ColumnProfile(source, column) ==
    [name |-> column, role |-> Role(source, column), nulls |-> NullCount(source, column),
     distinct |-> Cardinality(Cells(source, column)),
     constant |-> source.rows # <<>> /\ Cardinality(Cells(source, column)) <= 1,
     sample |-> IF column \in PiiNames \/ Cells(source, column) = {} THEN Missing
                ELSE SelectSeq(source.rows, LAMBDA r : r[column] # Missing)[1][column]]

\* Missing cells of a column in the rows that have a value in another one.
MissingByGroup(source, column, by) ==
    LET InGroup(v) == {i \in DOMAIN source.rows : source.rows[i][by] = v}
    IN  IF by = Missing \/ Cells(source, by) = {} THEN Missing
        ELSE [v \in Cells(source, by) |->
                [missing |-> Cardinality({i \in InGroup(v) : source.rows[i][column] = Missing}),
                 total |-> Cardinality(InGroup(v))]]

-----------------------------------------------------------------------------
(* Diagnostics.                                                            *)

\* The sorted list is cut at the limit.
Listed(ids, limit) == {id \in ids : Cardinality({other \in ids : other < id}) < limit}

\* A row without an id, or a table without the column, lists none.
KnownIds(source, rows) ==
    IF "object_id" \in source.columns THEN {source.rows[i]["object_id"] : i \in rows} \ {Missing}
    ELSE {}

DuplicateDiagnostics(source) ==
    LET groups == IF source.columns \ {"object_id"} = {} THEN {} ELSE DuplicateGroups(source, Missing)
    IN  [groups |-> Cardinality(groups),
         pairs |-> MapThenSumSet(LAMBDA g : Cardinality(g) - 1, groups),
         affected |-> Listed(KnownIds(source, UNION groups), DuplicateIdLimit)]

DefaultOutlierColumns == {"amount", "transaction_amount", "monthly_income"}

\* Four times the k-th quartile of a sorted sequence.
Quartile(values, k) ==
    LET place == (Len(values) - 1) * k
        lower == values[place \div 4 + 1]
        upper == values[Min({place \div 4 + 2, Len(values)})]
    IN  4 * lower + (upper - lower) * (place % 4)

\* Rows further from the quartiles than one and a half times their distance.
OutlierRows(source, column) ==
    LET sampled == {i \in DOMAIN source.rows : source.rows[i][column] \notin {Missing, Word}}
        Cell(i) == source.rows[i][column]
        order == SetToSortSeq(sampled, LAMBDA i, j : Cell(i) < Cell(j) \/ (Cell(i) = Cell(j) /\ i < j))
        values == [k \in DOMAIN order |-> Cell(order[k])]
        q1 == Quartile(values, 1)
        q3 == Quartile(values, 3)
    IN  {i \in sampled : \/ 8 * Cell(i) < 2 * q1 - 3 * (q3 - q1)
                         \/ 8 * Cell(i) > 2 * q3 + 3 * (q3 - q1)}

\* Missing when no column qualifies: no diagnostics at all.
OutlierDiagnostics(source, requested) ==
    LET columns == source.columns \cap (IF requested = Missing THEN DefaultOutlierColumns ELSE requested)
    IN  IF columns = {} THEN Missing
        ELSE [c \in columns |->
                [count |-> Cardinality(OutlierRows(source, c)),
                 affected |-> Listed(KnownIds(source, OutlierRows(source, c)), OutlierIdLimit)]]

\* The labels in use, in the order of strings.
LabelOrder == <<"0", "1", "fraud", "not_fraud">>

LabelRank(label) == SelectInSeq(LabelOrder, LAMBDA l : l = label)

\* The rarest label, the first in their order of several; ratio is how many
\* times the largest class is larger, in percent.
ClassImbalance(source) ==
    LET target == TargetColumn(source)
        labels == Cells(source, target)
        Count(l) == LabelCount(source, target, DOMAIN source.rows, l)
        total == MapThenSumSet(Count, labels)
        rare == CHOOSE l \in labels : \A m \in labels \ {l} :
                    Count(l) < Count(m) \/ (Count(l) = Count(m) /\ LabelRank(l) < LabelRank(m))
    IN  IF target = Missing \/ source.rows = <<>> THEN Missing
        ELSE IF labels = {} THEN Missing
        ELSE [total |-> total, counts |-> [l \in labels |-> Count(l)], rare |-> rare, count |-> Count(rare), share |-> Share(Count(rare), total),
              ratio |-> Share(Max({Count(l) : l \in labels}), Count(rare))]

\* The match rate counts rows that have both a target and a candidate value.
LeakageCandidates(source) ==
    LET target == TargetColumn(source)
        Both(c) == IF target = Missing THEN {}
                   ELSE {i \in DOMAIN source.rows : Missing \notin {source.rows[i][c], source.rows[i][target]}}
        Matching(c) == {i \in Both(c) : source.rows[i][c] = source.rows[i][target]}
    IN  {[column |-> c,
          reason |-> IF Both(c) # {} /\ 2 * Cardinality(Matching(c)) >= Cardinality(Both(c))
                     THEN "high_target_match_rate" ELSE "name_pattern_leakage_candidate"] :
            c \in source.columns \cap LeakageNames}

\* request: the segment column, the outlier columns and the business rules.
Profile(source, request) ==
    LET target == TargetColumn(source)
        segment == SegmentColumn(source, request.segment)
    IN  [rows |-> Len(source.rows),
         columns |-> {ColumnProfile(source, c) : c \in source.columns},
         target |-> target,
         targetMissing |-> target # Missing /\ source.rows # <<>> /\ NullCount(source, target) > 0,
         missingness |-> [c \in source.columns |->
            [missing |-> NullCount(source, c), byTarget |-> MissingByGroup(source, c, target),
             bySegment |-> MissingByGroup(source, c, segment)]],
         duplicates |-> DuplicateDiagnostics(source),
         outliers |-> OutlierDiagnostics(source, request.outliers),
         imbalance |-> ClassImbalance(source), leakage |-> LeakageCandidates(source),
         rules |-> IF request.rules = {} THEN Missing ELSE RulesReport(request.rules, source.rows)]

\* The reader takes the first of several tables, the profile none of them.
ProfileFailure(tables) ==
    CASE Len(tables) # 1 -> "ValueError"
      [] OTHER -> IF tables[1].columns = {} THEN "ValueError" ELSE Missing

=============================================================================
