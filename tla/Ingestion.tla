----------------------------- MODULE Ingestion -----------------------------
(***************************************************************************)
(* From an archive to manifest rows and model errors:                      *)
(* app/ingestion/archive_safety.py, archive_reader.py, manifest_builder.py,*)
(* manifest_validation.py and predictions.py, and the model-error analyzer *)
(* of app/plugins/predictions/analyzer.py. Pure functions of the bytes; a  *)
(* step that raises leaves nothing behind.                                 *)
(*                                                                         *)
(* A record is a function from its fields; Missing stands for None, the    *)
(* empty string and an absent field. Strings that are ids are numbers, and *)
(* a digest of a record is the record. Probabilities are in tenths, scores *)
(* in percent, rounded down. Neighbour and cluster label distributions,    *)
(* which nothing supplies, are left out.                                   *)
(***************************************************************************)
EXTENDS Integers, Sequences, FiniteSets, FiniteSetsExt, SequencesExt, Functions, Absence, Precedence

CONSTANT NumberId   \* an object_id that is a JSON number and not a string

-----------------------------------------------------------------------------
(* Checks that raise at the first failure.                                 *)

When(condition, reason) == IF condition THEN reason ELSE Missing

FirstReason(reasons) ==
    LET raised == Range(reasons) \ {Missing}
    IN  IF raised = {} THEN Missing ELSE FirstOf(reasons, raised)

-----------------------------------------------------------------------------
(* archive_safety.py and archive_reader.py.                                *)

\* entry.path: what is wrong with the path of an entry, in the order checked.
PathDefects ==
    <<"empty_entry_name", "nul_byte_in_entry", "absolute_path", "windows_drive_path", "path_traversal">>

\* The entries that are no directories, by their places.
Contents(archive) == {i \in DOMAIN archive.entries : ~archive.entries[i].dir}

\* Bytes of the entries up to and with the i-th; a directory has none.
UncompressedSize(archive, i) ==
    SumFunction([j \in {k \in Contents(archive) : k <= i} |-> archive.entries[j].size])

EntryFailure(archive, policy, i) ==
    LET entry == archive.entries[i]
    IN  FirstReason(
            [d \in DOMAIN PathDefects |-> When(PathDefects[d] \in entry.path, PathDefects[d])]
            \o <<When(entry.link, "symlink_entry"),
                 When(~entry.dir /\ entry.extension = Missing, "missing_extension"),
                 When(~entry.dir /\ entry.extension \notin policy.extensions, "forbidden_extension"),
                 When(~entry.dir /\ UncompressedSize(archive, i) > policy.uncompressed,
                      "uncompressed_size_exceeded")>>)

SafetyFailure(archive, policy) ==
    FirstReason(
        <<When(~archive.exists, "archive_missing"),
          When(archive.size > policy.compressed, "compressed_size_exceeded"),
          When(~archive.zip, "bad_zip_file"),
          When(Len(archive.entries) > policy.files, "file_count_exceeded")>>
        \o [i \in DOMAIN archive.entries |-> EntryFailure(archive, policy, i)])

OfKind(archive, kind) == {i \in Contents(archive) : archive.entries[i].kind = kind}

OpenFailure(archive, policy) ==
    FirstReason(<<SafetyFailure(archive, policy),
                  When(OfKind(archive, "transactions") = {}, "missing_required_entry")>>)

-----------------------------------------------------------------------------
(* manifest_builder.py.                                                    *)

Field(record, name) == IF name \in DOMAIN record THEN record[name] ELSE Missing

\* Version, key and digest of the record determine the id.
DerivedId(key, record) == <<key, record>>

\* Variant: the object_id of the record is left out of its key.
RowKeyByPlace(system, record, place) == <<system, place>>

\* place: the row itself in a table, the number of its line in JSONL.
RowKey(system, record, place) ==
    IF Field(record, "object_id") # Missing THEN <<"id", record["object_id"]>> ELSE <<system, place>>

TargetKeys == <<"is_fraud", "label", "target">>

CanonicalLabel(key, value) ==
    CASE key = "is_fraud" /\ value = "1" -> "fraud"
      [] key = "is_fraud" /\ value = "0" -> "not_fraud"
      [] OTHER -> value

RowLabel(record) ==
    FirstReason([k \in DOMAIN TargetKeys |->
        CanonicalLabel(TargetKeys[k], Field(record, TargetKeys[k]))])

ManifestRow(system, modality, record, place, label) ==
    [object |-> DerivedId(RowKey(system, record, place), record), modality |-> modality,
     hash |-> record, label |-> label, source |-> Field(record, "object_id"),
     segment |-> Field(record, "customer_segment"), system |-> system]

TabularRows(entry) ==
    [i \in DOMAIN entry.table |->
        ManifestRow("transactions", "tabular", entry.table[i], entry.table[i], RowLabel(entry.table[i]))]

Modality(kind) ==
    CASE kind = "support_messages" -> "text" [] kind = "ocr_records" -> "document_ocr"
      [] kind = "image_manifest" -> "image"

\* The numbers of the lines that hold a record, in their order.
ObjectLines(lines) == InOrder({n \in DOMAIN lines : lines[n].status = "object"})

JsonlRows(entry) ==
    LET objects == ObjectLines(entry.lines)
    IN  [k \in DOMAIN objects |->
            ManifestRow(entry.kind, Modality(entry.kind), entry.lines[objects[k]].record, objects[k], Missing)]

\* The whole file is one object.
SkeletonRow(entry) ==
    [ManifestRow("annotations_sample", "multimodal", [file |-> entry.name], entry.name, Missing)
        EXCEPT !.source = Missing]

LineFormats == {"support_messages", "ocr_records", "image_manifest"}

EntryRows(entry) ==
    CASE entry.kind = "transactions" -> TabularRows(entry)
      [] entry.kind \in LineFormats -> JsonlRows(entry)
      [] entry.kind = "annotations" -> <<SkeletonRow(entry)>>
      [] OTHER -> <<>>

\* What the report of the build says could not be used.
EntryUnsupported(entry) ==
    CASE entry.kind = "other" -> {[name |-> entry.name, line |-> Missing, reason |-> "unsupported_entry"]}
      [] entry.kind \in LineFormats ->
            {[name |-> entry.name, line |-> n,
              reason |-> IF entry.lines[n].status = "invalid" THEN "invalid_jsonl"
                         ELSE "jsonl_row_not_object"] :
                n \in {m \in DOMAIN entry.lines : entry.lines[m].status \in {"invalid", "scalar"}}}
      [] OTHER -> {}

\* Nothing catches these: text that is no UTF-8, an object_id that is no string.
ReadingFailure(entry) ==
    IF entry.dir \/ entry.kind \notin LineFormats \cup {"transactions"} THEN Missing
    ELSE FirstReason(<<When(~entry.utf8, "UnicodeDecodeError"),
                       When(\E r \in Range(EntryRows(entry)) : r.source = NumberId, "TypeError")>>)

BuildFailure(archive) == FirstReason([i \in DOMAIN archive.entries |-> ReadingFailure(archive.entries[i])])

\* What is unsupported goes with the place of its entry: two may have one name.
AssetManifest(archive) ==
    [rows |-> FlattenSeq([i \in DOMAIN archive.entries |->
                IF archive.entries[i].dir THEN <<>> ELSE EntryRows(archive.entries[i])]),
     unsupported |-> UNION {{i} \X EntryUnsupported(archive.entries[i]) : i \in Contents(archive)}]

-----------------------------------------------------------------------------
(* manifest_validation.py and the row checks of predictions.py.            *)

\* The same bytes become the validated artifact, or nothing is written.
Validated(raw, failure) ==
    LET reason == FirstReason(<<When(raw.stored # raw.registered, "raw_hash_mismatch"), failure>>)
    IN  [failure |-> reason, artifacts |-> IF reason = Missing THEN {raw.stored} ELSE {}]

ManifestBytes(manifest) ==
    [utf8 |-> TRUE,
     lines |-> [i \in DOMAIN manifest.rows |-> [status |-> "object", record |-> manifest.rows[i]]]]

Probabilities(row) == [k \in DOMAIN row.proba |-> row.proba[k][2]]

Confidence(row) == Max(Range(Probabilities(row)))

\* The first class of the largest probability.
PredictedClass(row) ==
    row.proba[Min({k \in DOMAIN row.proba : row.proba[k][2] = Confidence(row)})][1]

\* The sum is checked before anything is said of the largest.
PredictionRowFailure(row) ==
    FirstReason(<<row.defect, When(row.proba = <<>>, "empty_probability_map")>>
        \o (IF row.proba = <<>> THEN <<>>
            ELSE <<When(FoldLeft(+, 0, Probabilities(row)) # 10, "probability_sum_invalid"),
                   When(row.predicted # PredictedClass(row), "argmax_mismatch"),
                   When(row.confidence # Confidence(row), "confidence_mismatch")>>))

\* A row the builder wrote has every field of the contract.
ManifestRowFailure(row) ==
    When(~{"object", "modality", "hash", "label", "source", "segment", "system"} \subseteq DOMAIN row,
         "missing_required_field")

RowFailure(kind, row) == IF kind = "manifest" THEN ManifestRowFailure(row) ELSE PredictionRowFailure(row)

\* data: the bytes of an artifact as [utf8, lines]; kind: what its rows must be.
JsonlFailure(data, kind) ==
    FirstReason(
        <<When(~data.utf8, "not_utf8_jsonl"),
          When(\A l \in Range(data.lines) : l.status = "blank",
               IF kind = "manifest" THEN "empty_manifest" ELSE "empty_predictions")>>
        \o [n \in DOMAIN data.lines |->
                CASE data.lines[n].status = "invalid" -> "invalid_json"
                  [] data.lines[n].status = "scalar" -> "row_not_object"
                  [] data.lines[n].status = "blank" -> Missing
                  [] data.lines[n].status = "object" -> RowFailure(kind, data.lines[n].record)])

ValidatedManifest(raw) == Validated(raw, JsonlFailure(raw.stored, "manifest"))

ValidatedPredictions(raw) == Validated(raw, JsonlFailure(raw.stored, "predictions"))

PredictionRows(data) ==
    LET objects == ObjectLines(data.lines) IN [k \in DOMAIN objects |-> data.lines[objects[k]].record]

\* Objects and predictions are counted by their distinct ids.
Coverage(objects, predictions) ==
    LET predicted == {p.object : p \in Range(predictions)}
    IN  [matched |-> objects \cap predicted, unmatched |-> predicted \ objects,
         missing |-> objects \ predicted,
         ratio |-> IF objects = {} THEN 0
                   ELSE (100 * Cardinality(objects \cap predicted)) \div Cardinality(objects)]

-----------------------------------------------------------------------------
(* analyzer.py.                                                            *)

\* Normalised entropy of two classes, by the probability of the likelier.
TwoClassEntropy == [p \in 5..10 |-> <<100, 97, 88, 72, 47, 0>>[p - 4]]

Margin(row) ==
    IF Len(row.proba) < 2 THEN 10
    ELSE LET descending == SortSeq(Probabilities(row), >) IN descending[1] - descending[2]

Entropy(row) == IF Len(row.proba) < 2 THEN 0 ELSE TwoClassEntropy[Confidence(row)]

Ambiguous(row) == Confidence(row) <= 6 \/ Margin(row) <= 2 \/ Entropy(row) >= 70

SignalReasons(row, conflict) ==
    {code \in {"ambiguous_object", "high_model_uncertainty", "low_prediction_margin",
               "label_conflict", "neighbor_label_support_not_available", "probable_label_error",
               "high_confidence_label_conflict", "large_margin_label_conflict",
               "low_entropy_label_conflict"} :
        CASE code = "ambiguous_object" -> Ambiguous(row)
          [] code = "high_model_uncertainty" -> Entropy(row) >= 70
          [] code = "low_prediction_margin" -> Margin(row) <= 2
          [] code \in {"label_conflict", "neighbor_label_support_not_available"} -> conflict
          [] code \in {"probable_label_error", "high_confidence_label_conflict"} ->
                conflict /\ 100 * Confidence(row) >= 850
          [] code = "large_margin_label_conflict" -> conflict /\ Margin(row) >= 6
          [] OTHER -> conflict /\ Entropy(row) <= 40}

\* The label of the manifest decides a conflict, not the one of the prediction.
ObjectSignals(row, label) ==
    LET conflict == row.predicted # label
        doubt == (100 - 10 * Confidence(row)) + (100 - 10 * Margin(row)) + Entropy(row)
        certainty == 10 * Confidence(row) + 10 * Margin(row) + (100 - Entropy(row))
    IN  [object |-> row.object, label |-> label, predicted |-> row.predicted,
         confidence |-> 10 * Confidence(row), margin |-> 10 * Margin(row), entropy |-> Entropy(row),
         conflict |-> conflict, ambiguous |-> doubt \div 3,
         labelError |-> IF conflict THEN certainty \div 3 ELSE 0,
         reasons |-> SignalReasons(row, conflict)]

\* _manifest_index: the last labelled row of an object id.
LabelledRows(rows, object) == {i \in DOMAIN rows : rows[i].object = object /\ rows[i].label # Missing}

LabelOf(rows, object) ==
    LET labelled == LabelledRows(rows, object)
    IN  IF labelled = {} THEN Missing ELSE rows[Max(labelled)].label

SegmentOf(rows, object) == rows[Max(LabelledRows(rows, object))].segment

\* Predictions for an unknown or unlabelled object are skipped.
ModelErrorReport(rows, predictions) ==
    LET joined == InOrder({i \in DOMAIN predictions : LabelOf(rows, predictions[i].object) # Missing})
        signals == [k \in DOMAIN joined |->
            ObjectSignals(predictions[joined[k]], LabelOf(rows, predictions[joined[k]].object))]
        Count(Which(_)) == Cardinality({k \in DOMAIN signals : Which(signals[k])})
        Objects(Which(_)) == {s.object : s \in {q \in Range(signals) : Which(q)}}
        HighConfidence(s) == s.conflict /\ s.confidence >= 85
        Doubtful(s) == "ambiguous_object" \in s.reasons
        Bucket(Which(_)) == [total |-> Count(Which), errors |-> Count(LAMBDA s : Which(s) /\ s.conflict)]
    IN  [signals |-> signals,
         correct |-> Count(LAMBDA s : ~s.conflict),
         conflicts |-> Count(LAMBDA s : s.conflict),
         ambiguous |-> Count(Doubtful),
         probable |-> Count(LAMBDA s : s.conflict /\ (s.confidence >= 85 \/ s.margin >= 60)),
         confusion |-> [pair \in {<<s.label, s.predicted>> : s \in Range(signals)} |->
                            Count(LAMBDA s : <<s.label, s.predicted>> = pair)],
         segments |-> [segment \in {SegmentOf(rows, s.object) : s \in Range(signals)} \ {Missing} |->
                            Bucket(LAMBDA s : SegmentOf(rows, s.object) = segment)],
         classes |-> [label \in {s.label : s \in Range(signals)} |-> Bucket(LAMBDA s : s.label = label)],
         highConfidence |-> Objects(HighConfidence), uncertain |-> Objects(Doubtful)]

\* The places of the candidates that the analysis stores.
Candidates(report, reason) == {k \in DOMAIN report.signals : reason \in report.signals[k].reasons}

=============================================================================
