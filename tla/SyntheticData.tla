--------------------------- MODULE SyntheticData ---------------------------
(***************************************************************************)
(* The synthetic generators (app/plugins/tabular): synthetic_smote.py,     *)
(* synthetic_gaussian_copula.py and what they share, _synthetic_common.py. *)
(*                                                                         *)
(* What the seeded generator draws is an input: for SMOTE the seed row,    *)
(* the place of its neighbour among the nearest and lambda in halves; for  *)
(* the copula the row whose label is drawn and, in halves, where between   *)
(* its smallest and its largest value a feature lies: the correlated       *)
(* normal draw and the interpolated quantiles reach no further than that.  *)
(* Sampling ratios are in twentieths.                                      *)
(***************************************************************************)
EXTENDS TabularData

NeverFeatures ==
    {"object_id", "customer_id_hash", "case_id", "transaction_id", "document_id",
     "support_ticket_id", "manual_review_flag", "is_synthetic", "synthetic_source_split"}

FeatureColumns(source, target, explicit) ==
    ((IF explicit = Missing THEN source.columns ELSE explicit \cap source.columns)
        \ NeverFeatures) \ {target}

Numeric(cell) == cell \notin {Missing, Word}

RowsOfAnySplit(source, manifest) ==
    {i \in DOMAIN source.rows : ObjectId(source, i) \in AssignedIds(manifest)}

TrainRows(source, manifest) ==
    {i \in DOMAIN source.rows :
        /\ ObjectId(source, i) \in AssignedIds(manifest)
        /\ AssignedSplit(manifest, ObjectId(source, i)) = "train"}

\* What both executors require of the source and the manifest ...
SourceFailure(source, manifest, target) ==
    IF ReadFailure(source, target) # Missing THEN ReadFailure(source, target)
    ELSE IF AssignedIds(manifest) \subseteq Range(ObjectIds(source)) THEN Missing
         ELSE "split_manifest_object_id_missing_in_source"

\* ... and, before they read them, of the step.
StepFailure(source, manifest, target, step, method) ==
    CASE step.type # "AUGMENT_RARE_CLASS" -> "unsupported_action_step_type"
      [] step.method # method -> "unsupported_synthetic_method"
      [] step.sourceSplit # "train" -> "non_train_source_split"
      [] manifest.target # target -> "target_column_mismatch_with_split_manifest"
      [] OTHER -> SourceFailure(source, manifest, target)

Marked(row, id) == ("object_id" :> id) @@ ("is_synthetic" :> "1")
                        @@ ("synthetic_source_split" :> "train") @@ row

CandidateColumns(source) == source.columns \cup {"is_synthetic", "synthetic_source_split"}

\* The rows read, which all have an object id, then the synthetic ones, cut
\* to the columns of the file.
CandidateRows(source, synthetic) ==
    LET Real(i) == [c \in CandidateColumns(source) |->
                      IF c \in source.columns /\ source.rows[i][c] # Missing THEN source.rows[i][c]
                      ELSE CASE c = "object_id" -> ObjectId(source, i)
                             [] c = "is_synthetic" -> "0"
                             [] OTHER -> Missing]
    IN  [i \in DOMAIN source.rows |-> Real(i)]
            \o [k \in DOMAIN synthetic |-> [c \in CandidateColumns(source) |-> synthetic[k][c]]]

LabelOr0(row, target) == IF row[target] = Missing THEN "0" ELSE row[target]

\* Synthetic rows join the train split; its counts are carried on from the
\* distribution of the manifest, not counted again.
AugmentedManifest(manifest, synthetic, target) ==
    LET Label(k) == LabelOr0(synthetic[k], target)
        added == [k \in DOMAIN synthetic |->
                    [id |-> synthetic[k]["object_id"], split |-> "train", label |-> Label(k),
                     group |-> Missing]]
        train == manifest.distribution["train"]
        Known(l) == IF l \in DOMAIN train.labels THEN train.labels[l] ELSE 0
        counts == [l \in DOMAIN train.labels \cup {Label(k) : k \in DOMAIN synthetic} |->
                     Known(l) + Cardinality({k \in DOMAIN synthetic : Label(k) = l})]
    IN  [manifest EXCEPT !.assignments = @ \o added,
            !.distribution["train"] = [total |-> train.total + Len(synthetic), labels |-> counts]]

Features(row, features) == [c \in features |-> row[c]]

TypeFindings(synthetic, features) ==
    Cardinality({at \in (DOMAIN synthetic) \X features : ~Numeric(synthetic[at[1]][at[2]])})

RealCopies(source, synthetic, features) ==
    {k \in DOMAIN synthetic : \E i \in DOMAIN source.rows :
        Features(source.rows[i], features) = Features(synthetic[k], features)}

\* The executors pass no business rules; every synthetic row has every column.
SyntheticValidation(source, synthetic, features) ==
    LET copies == RealCopies(source, synthetic, features)
    IN  [blocker |-> copies # {},
         passed |-> copies = {} /\ TypeFindings(synthetic, features) = 0]

SyntheticResult(source, manifest, target, synthetic, features) ==
    [failure |-> Missing, synthetic |-> synthetic, generated |-> Len(synthetic),
     candidate |-> [columns |-> CandidateColumns(source), rows |-> CandidateRows(source, synthetic)],
     manifest |-> AugmentedManifest(manifest, synthetic, target),
     validation |-> SyntheticValidation(source, synthetic, features)]

-----------------------------------------------------------------------------
(* SMOTE.                                                                  *)

RareRows(source, manifest, target, rare) ==
    {i \in TrainRows(source, manifest) : source.rows[i][target] = rare}

\* A missing cell is at 0.
SquaredDistance(source, features, i, j) ==
    LET At(k, c) == IF Numeric(source.rows[k][c]) THEN source.rows[k][c] ELSE 0
    IN  MapThenSumSet(LAMBDA c : (At(i, c) - At(j, c)) * (At(i, c) - At(j, c)), features)

\* The rare rows around i, the nearest first, the earlier row first of two.
Neighbours(source, features, rare, i) ==
    LET D(j) == SquaredDistance(source, features, i, j)
    IN  SetToSortSeq(rare \ {i}, LAMBDA j, k : D(j) < D(k) \/ (D(j) = D(k) /\ j < k))

RareTarget(rare, majority, ratio) == Max({rare, RoundTwentieths(majority * ratio)})

SmoteRow(seed, neighbour, features, lambda, target, rare, id) ==
    LET Moved(c) == seed[c] + (lambda * (neighbour[c] - seed[c])) \div 2
    IN  Marked([c \in DOMAIN seed |->
            CASE c = target -> rare
              [] c \in features /\ Numeric(seed[c]) /\ Numeric(neighbour[c]) -> Moved(c)
              [] OTHER -> seed[c]], id)

SmoteId(k) == 200 + k

SmoteFailure(source, manifest, target, step) ==
    LET failure == StepFailure(source, manifest, target, step, "smote")
        rare == Cardinality(RareRows(source, manifest, target, step.rare))
    IN  CASE failure # Missing -> failure
          [] failure = Missing /\ rare = 0 -> "rare_class_absent_in_train_split"
          [] failure = Missing /\ rare = 1 -> "rare_class_too_small_for_neighbors"
          [] OTHER -> IF FeatureColumns(source, target, step.features) = {}
                      THEN "no_numeric_feature_columns" ELSE Missing

\* draws[k]: the seed row, the place of the neighbour, lambda.
Smote(source, manifest, target, step, draws) ==
    LET features == FeatureColumns(source, target, step.features)
        rare == RareRows(source, manifest, target, step.rare)
        majority == Cardinality(TrainRows(source, manifest) \ rare)
        count == RareTarget(Cardinality(rare), majority, step.ratio) - Cardinality(rare)
        Seed(k) == SetToSortSeq(rare, <)[1 + (draws[k].seed % Cardinality(rare))]
        nearest == Min({step.k, Cardinality(rare) - 1})
        Neighbour(k) == Neighbours(source, features, rare, Seed(k))[1 + (draws[k].place % nearest)]
    IN  IF SmoteFailure(source, manifest, target, step) # Missing
        THEN Refused(SmoteFailure(source, manifest, target, step))
        ELSE SyntheticResult(source, manifest, target,
                [k \in 1..count |-> SmoteRow(source.rows[Seed(k)], source.rows[Neighbour(k)],
                    features, draws[k].lambda, target, step.rare, SmoteId(k))], features)

-----------------------------------------------------------------------------
(* The Gaussian copula.                                                    *)

\* Gaps take the median of the column, 0 when nothing in it is a number.
ColumnVector(source, train, column) ==
    LET numbers == {i \in train : Numeric(source.rows[i][column])}
    IN  [i \in train |->
            CASE i \in numbers -> source.rows[i][column]
              [] i \notin numbers /\ numbers # {} -> Median(source, column, numbers)
              [] OTHER -> 0]

CopulaFailure(source, manifest, target, step) ==
    LET failure == IF step.enabled THEN StepFailure(source, manifest, target, step, "gaussian_copula")
                   ELSE "disabled_by_policy"
        train == Cardinality(TrainRows(source, manifest))
    IN  CASE failure # Missing -> failure
          [] failure = Missing /\ train = 0 -> "train_split_is_empty"
          [] OTHER -> CASE FeatureColumns(source, target, step.features) = {} ->
                              "no_numeric_feature_columns"
                        [] train = 1 -> "train_split_too_small"
                        [] OTHER -> Missing

\* Somewhere between the outer quantiles of the column.
DrawnFeature(source, train, column, at) ==
    LET vector == Range(ColumnVector(source, train, column))
    IN  Min(vector) + (at * (Max(vector) - Min(vector))) \div 2

\* Every row is a copy of the first train row with new features and a label.
CopulaRow(source, train, features, draw, target, id) ==
    LET first == source.rows[Min(train)]
        label == source.rows[SetToSortSeq(train, <)[1 + (draw.seed % Cardinality(train))]][target]
    IN  Marked([c \in DOMAIN first |->
            CASE c = target -> label [] c \in features -> DrawnFeature(source, train, c, draw.at) [] OTHER -> first[c]], id)

CopulaId(k) == 300 + k

\* The whole train split grows by the ratio, whatever the class; rows
\* without a label are not counted.
CopulaCount(source, train, target, ratio) ==
    LET labelled == Cardinality({i \in train : source.rows[i][target] # Missing})
    IN  Max({labelled, RoundTwentieths(labelled * (20 + ratio))}) - labelled

GaussianCopula(source, manifest, target, step, draws) ==
    LET features == FeatureColumns(source, target, step.features)
        train == TrainRows(source, manifest)
    IN  IF CopulaFailure(source, manifest, target, step) # Missing
        THEN Refused(CopulaFailure(source, manifest, target, step))
        ELSE SyntheticResult(source, manifest, target,
                [k \in 1..CopulaCount(source, train, target, step.ratio) |->
                    CopulaRow(source, train, features, draws[k], target, CopulaId(k))], features)

=============================================================================
