-------------------------- MODULE ObjectPassports --------------------------
(***************************************************************************)
(* What the reports of a run say about each object: the passports of       *)
(* app/plugins/object_analytics/passports.py and the evidence bundles of   *)
(* evidence.py, from the manifest rows, the text report, the error report  *)
(* and the profile.                                                        *)
(*                                                                         *)
(* Plugins know an object by the id in its record, the platform by the id  *)
(* derived from it; the source map leads from one to the other. Scores are *)
(* in percent, a privacy risk in hundredths of one; Missing is a signal    *)
(* that is not available.                                                  *)
(***************************************************************************)
EXTENDS TextPrivacy

Skeleton == {"image", "video", "audio", "multimodal"}

TextModalities == {"text", "document_ocr"}

-----------------------------------------------------------------------------
(* From ids in records to objects.                                         *)

\* The last manifest row with an id stands for all of them.
SourceMap(rows) ==
    [id \in {r.source : r \in Range(rows)} \ {Missing} |->
        rows[Max({i \in DOMAIN rows : rows[i].source = id})].object]

\* The ids that the map leads to this object.
SourceIds(rows, object) == {id \in DOMAIN SourceMap(rows) : SourceMap(rows)[id] = object}

\* Variant: an issue of the same id starts the signals of the object anew.
ForgetOnIssue(rows, report, object) ==
    LET ids == SourceIds(rows, object)
        sources == Range(report.sources)
        groups == UNION {{g \in r.groups : g.ids \cap ids # {}} : r \in sources}
        issue == \E r \in sources : \E i \in r.issues : i.id \in ids
        findings == IF issue THEN {}
                    ELSE UNION {{f \in Range(r.findings) : f.id \in ids} : r \in sources}
    IN  [duplicate |-> IF groups = {} THEN 0 ELSE 100,
         risk |-> Max({f.risk : f \in findings} \cup {0}),
         pii |-> findings # {}, types |-> UNION {f.categories : f \in findings}, issue |-> issue]

\* _merge_text_source_signals, over the sources of a text report.
TextSignals(rows, report, object) ==
    LET ids == SourceIds(rows, object)
        sources == Range(report.sources)
        groups == UNION {{g \in r.groups : g.ids \cap ids # {}} : r \in sources}
        findings == UNION {{f \in Range(r.findings) : f.id \in ids} : r \in sources}
    IN  [duplicate |-> IF groups = {} THEN 0 ELSE 100,
         risk |-> Max({f.risk : f \in findings} \cup {0}),
         pii |-> findings # {}, types |-> UNION {f.categories : f \in findings},
         issue |-> \E r \in sources : \E i \in r.issues : i.id \in ids]

\* The last signal of an object counts.
ModelSignal(report, object) ==
    LET signals == {k \in DOMAIN report.signals : report.signals[k].object = object}
    IN  IF signals = {} THEN Missing ELSE report.signals[Max(signals)]

OutlierColumns(profile, ids) ==
    IF profile.outliers = Missing THEN {}
    ELSE {c \in DOMAIN profile.outliers : profile.outliers[c].affected \cap ids # {}}

\* source: the table, which knows the id of a violating row.
ViolatedRules(profile, source, ids) ==
    IF profile.rules = Missing THEN {}
    ELSE {v[2] : v \in {w \in profile.rules.samples : source.rows[w[1]]["object_id"] \in ids}}

\* The profile names a label as it stands in the table, the manifest renames
\* those of is_fraud; here every target is renamed.
ProfileLabel(label) ==
    CASE label = "1" -> "fraud" [] label = "0" -> "not_fraud" [] OTHER -> label

RareScore(profile, label) ==
    IF label = Missing THEN 0
    ELSE IF profile.imbalance = Missing THEN 0
    ELSE IF label = ProfileLabel(profile.imbalance.rare) THEN 100 - profile.imbalance.share ELSE 0

-----------------------------------------------------------------------------
(* Passports.                                                              *)

Quality(row, text, outliers, rules) ==
    IF row.modality \in Skeleton THEN Missing
    ELSE 100 - (IF row.modality = "tabular" /\ outliers # {} THEN 20 ELSE 0)
             - (IF row.modality = "tabular" /\ rules # {} THEN 30 ELSE 0)
             - (IF row.modality \in TextModalities /\ text.issue THEN 40 ELSE 0)

Privacy(row, text) ==
    CASE row.modality \in Skeleton ->
            [risk |-> Missing, detected |-> FALSE, types |-> {}, export |-> "policy_review_required"]
      [] row.modality \in TextModalities ->
            [risk |-> text.risk, detected |-> text.pii, types |-> text.types,
             export |-> IF text.pii THEN "redacted_only" ELSE "allowed"]
      [] OTHER -> [risk |-> 0, detected |-> FALSE, types |-> {}, export |-> "allowed"]

DuplicateScore(row, text, duplicates) ==
    CASE row.modality \in Skeleton -> Missing
      [] row.modality = "tabular" -> IF row.object \in duplicates THEN 100 ELSE 0
      [] OTHER -> text.duplicate

\* A row that is no skeleton has a rare score, and the rest with a prediction.
LearningValue(row, model, rare) ==
    LET skeleton == row.modality \in Skeleton
    IN  [rare |-> IF skeleton THEN Missing ELSE rare,
         uncertainty |-> IF skeleton \/ model = Missing THEN Missing ELSE 100 - model.confidence,
         labelError |-> IF skeleton \/ model = Missing THEN Missing ELSE model.labelError,
         ambiguous |-> IF skeleton \/ model = Missing THEN Missing ELSE model.ambiguous,
         value |-> IF skeleton THEN Missing
                   ELSE Max({rare} \cup (IF model = Missing THEN {} ELSE {model.ambiguous, model.labelError}))]

PassportReasons(quality, privacy, duplicate, learning) ==
    LET Positive(score) == score # Missing /\ score > 0
        reasons == {code \in {"pii_detected", "duplicate_candidate", "probable_label_error",
                              "ambiguous_object", "technical_quality_issue"} :
                       CASE code = "pii_detected" -> privacy.detected
                         [] code = "duplicate_candidate" -> Positive(duplicate)
                         [] code = "probable_label_error" -> Positive(learning.labelError)
                         [] code = "ambiguous_object" -> Positive(learning.ambiguous)
                         [] OTHER -> quality < 100}
    IN  IF reasons = {} THEN {"profiled_no_blocker_candidate"} ELSE reasons

\* in: the manifest rows, the reports and the table they were made from.
Passport(in, row) ==
    LET ids == SourceIds(in.rows, row.object)
        text == TextSignals(in.rows, in.text, row.object)
        model == ModelSignal(in.errors, row.object)
        duplicates == {SourceMap(in.rows)[id] :
                          id \in in.profile.duplicates.affected \cap DOMAIN SourceMap(in.rows)}
        quality == Quality(row, text, OutlierColumns(in.profile, ids),
                           ViolatedRules(in.profile, in.table, ids))
        privacy == Privacy(row, text)
        duplicate == DuplicateScore(row, text, duplicates)
        learning == LearningValue(row, model, RareScore(in.profile, row.label))
    IN  [object |-> row.object, modality |-> row.modality, quality |-> quality, privacy |-> privacy,
         duplicate |-> duplicate, learning |-> learning, prediction |-> model,
         reasons |-> IF row.modality \in Skeleton THEN {"validated_skeleton_only"}
                     ELSE PassportReasons(quality, privacy, duplicate, learning)]

PassportsOf(in) == [i \in DOMAIN in.rows |-> Passport(in, in.rows[i])]

-----------------------------------------------------------------------------
(* Evidence, the input of the decision core.                               *)

PredictionSignal(passport, name) ==
    IF passport.prediction = Missing THEN Missing ELSE passport.prediction[name]

\* Business importance is never available.
EvidenceBundle(passport) ==
    [id |-> passport.object, modality |-> passport.modality, quality |-> passport.quality,
     duplicate |-> passport.duplicate, privacy |-> passport.privacy.risk, business |-> Missing,
     rare |-> passport.learning.rare, label |-> passport.learning.labelError,
     labelError |-> passport.learning.labelError, ambiguous |-> passport.learning.ambiguous,
     uncertainty |-> passport.learning.uncertainty,
     confidence |-> PredictionSignal(passport, "confidence"),
     margin |-> PredictionSignal(passport, "margin"),
     entropy |-> PredictionSignal(passport, "entropy"), refs |-> <<"object_analytics">>]

Bundles(passports) == [i \in DOMAIN passports |-> EvidenceBundle(passports[i])]

=============================================================================
