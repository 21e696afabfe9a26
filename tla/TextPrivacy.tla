---------------------------- MODULE TextPrivacy ----------------------------
(***************************************************************************)
(* Support messages and OCR records: app/plugins/text_ocr/validator.py     *)
(* checks each line, pii.py finds personal data and replaces it, and       *)
(* redaction_action.py runs an approved REDACT_PII step.                   *)
(*                                                                         *)
(* A text is [string, words, length, tokens]: whether it is a string at    *)
(* all, what is left of it after normalize_text, the length without        *)
(* surrounding blanks, and its parts that a detector may match. A token is *)
(* [matches, luhn]: the detectors whose pattern it fits and whether its    *)
(* digits pass the card check. A risk is in hundredths of a percent.       *)
(***************************************************************************)
EXTENDS Ingestion

Detectors == <<"secret", "email", "passport", "payment_card", "bank_account", "phone">>

Weight(category) ==
    CASE category \in {"passport", "payment_card", "secret"} -> 100
      [] category = "bank_account" -> 90
      [] category \in {"email", "phone"} -> 50

\* The first detector that accepts a token replaces it, and no later one sees it.
TokenCategory(token) ==
    LET accepting == {d \in token.matches : d = "payment_card" => token.luhn}
    IN  IF accepting = {} THEN Missing ELSE FirstOf(Detectors, accepting)

\* The places of the tokens that are replaced.
Found(text) == {i \in DOMAIN text.tokens : TokenCategory(text.tokens[i]) # Missing}

PiiRisk(text) ==
    LET weights == MapThenSumSet(LAMBDA i : Weight(TokenCategory(text.tokens[i])), Found(text))
    IN  Min({10000, (10000 * weights) \div Max({100, text.length})})

\* redact_record: left are the tokens that still stand in the redacted text.
RedactedRecord(id, text) ==
    [id |-> id, categories |-> {TokenCategory(text.tokens[i]) : i \in Found(text)},
     count |-> Cardinality(Found(text)), risk |-> PiiRisk(text),
     left |-> {text.tokens[i] : i \in DOMAIN text.tokens \ Found(text)}]

Findings(redacted) ==
    LET found == InOrder({i \in DOMAIN redacted : redacted[i].count > 0})
    IN  [k \in DOMAIN found |-> redacted[found[k]]]

-----------------------------------------------------------------------------
(* validator.py. data is the content of a source: [utf8, lines].           *)

\* The text of a record without one is no string.
TextOf(record) ==
    IF Field(record, "text") = Missing
    THEN [string |-> FALSE, words |-> Missing, length |-> 0, tokens |-> <<>>]
    ELSE record["text"]

StringId(record) == Field(record, "object_id") \notin {Missing, NumberId}

ParseFailure(record, minLength) ==
    LET text == TextOf(record)
    IN  FirstReason(
            <<When(Missing \in {Field(record, "object_id"), Field(record, "text")}, "missing_required_field"),
              When(~text.string, "invalid_text_type"),
              When(text.length = 0, "empty_text"),
              When(text.length < minLength, "text_too_short"),
              When(~StringId(record), "invalid_object_id_type"),
              When(Field(record, "ocr_confidence") = "out_of_range", "invalid_ocr_confidence")>>)

LineFailure(line, minLength) ==
    CASE line.status = "invalid" -> "invalid_json"
      [] line.status = "scalar" -> "row_not_object"
      [] line.status = "object" -> ParseFailure(line.record, minLength)
      [] line.status = "blank" -> Missing

Readable(data) == IF data.utf8 THEN data.lines ELSE <<>>

WellFormed(data, minLength) ==
    {n \in DOMAIN Readable(data) : data.lines[n].status = "object"
                                   /\ LineFailure(data.lines[n], minLength) = Missing}

\* An id seen on an earlier good line makes the later line an issue.
RepeatsId(data, minLength, n) ==
    \E m \in WellFormed(data, minLength) :
        m < n /\ data.lines[m].record["object_id"] = data.lines[n].record["object_id"]

ValidLines(data, minLength) ==
    {n \in WellFormed(data, minLength) : ~RepeatsId(data, minLength, n)}

IdOfIssue(line, reason) ==
    IF line.status # "object" \/ reason = "invalid_object_id_type" \/ ~StringId(line.record)
    THEN Missing ELSE line.record["object_id"]

Issues(data, minLength) ==
    (IF data.utf8 THEN {} ELSE {[line |-> 1, id |-> Missing, reason |-> "not_utf8_jsonl"]})
    \cup {[line |-> n, id |-> IdOfIssue(data.lines[n], LineFailure(data.lines[n], minLength)),
           reason |-> LineFailure(data.lines[n], minLength)] :
            n \in {m \in DOMAIN Readable(data) : LineFailure(data.lines[m], minLength) # Missing}}
    \cup {[line |-> n, id |-> data.lines[n].record["object_id"], reason |-> "duplicate_object_id"] :
            n \in {m \in WellFormed(data, minLength) : RepeatsId(data, minLength, m)}}

TextDuplicates(data, minLength) ==
    LET valid == ValidLines(data, minLength)
        Words(n) == data.lines[n].record["text"].words
        Same(n) == {m \in valid : Words(m) = Words(n)}
    IN  {[text |-> Words(n), ids |-> {data.lines[m].record["object_id"] : m \in Same(n)},
          count |-> Cardinality(Same(n))] : n \in {m \in valid : Cardinality(Same(m)) >= 2}}

\* produce_redacted_jsonl reads the lines again: a record that was rejected for
\* its length, its confidence or its repeated id is redacted with the others.
StringLines(lines) ==
    {n \in DOMAIN lines : /\ lines[n].status = "object"
                          /\ StringId(lines[n].record) /\ TextOf(lines[n].record).string}

RedactedRecords(data) ==
    LET strings == InOrder(StringLines(data.lines))
        Record(k) == data.lines[strings[k]].record
    IN  [k \in DOMAIN strings |-> RedactedRecord(Record(k)["object_id"], TextOf(Record(k)))]

\* Only records with a finding are stored, and nothing when there is none.
PersistedRedaction(data) == Findings(RedactedRecords(data))

SourceReport(kind, data, minLength) ==
    LET valid == InOrder(ValidLines(data, minLength))
        redacted == [i \in DOMAIN valid |-> RedactedRecord(data.lines[valid[i]].record["object_id"],
                                                           data.lines[valid[i]].record["text"])]
        groups == TextDuplicates(data, minLength)
    IN  [kind |-> kind, issues |-> Issues(data, minLength), valid |-> Len(valid),
         records |-> Len(valid) + Cardinality(Issues(data, minLength)),
         groups |-> groups, duplicates |-> MapThenSumSet(LAMBDA g : g.count, groups),
         findings |-> Findings(redacted), redacted |-> Len(Findings(redacted)),
         review |-> {f.id : f \in Range(Findings(redacted))},
         stored |-> PersistedRedaction(data)]

\* The walk turns bytes that are no UTF-8 into an issue, the redaction of the
\* same bytes decodes them again and raises.
ReportFailure(data) == When(~data.utf8, "UnicodeDecodeError")

TextReport(sources) ==
    LET Total(Count(_)) == FoldLeft(LAMBDA sum, r : sum + Count(r), 0, sources)
    IN  [sources |-> sources,
         records |-> Total(LAMBDA r : r.records), valid |-> Total(LAMBDA r : r.valid),
         issues |-> Total(LAMBDA r : Cardinality(r.issues)),
         duplicates |-> Total(LAMBDA r : r.duplicates),
         pii |-> Total(LAMBDA r : Len(r.findings)), redacted |-> Total(LAMBDA r : r.redacted),
         review |-> UNION {r.review : r \in Range(sources)}]

\* _read_text_payloads: the last entry of a kind; both kinds must be there.
TextData(archive, kind) ==
    LET entry == archive.entries[Max(OfKind(archive, kind))] IN [utf8 |-> entry.utf8, lines |-> entry.lines]

TextReportOf(archive) ==
    TextReport(<<SourceReport("support_messages", TextData(archive, "support_messages"), 1),
                 SourceReport("ocr_records", TextData(archive, "ocr_records"), 1)>>)

-----------------------------------------------------------------------------
(* redaction_action.py.                                                    *)

RedactionStepFailure(step, source) ==
    FirstReason(
        <<When(step.type # "REDACT_PII", "unsupported_action_step_type"),
          When(source.kind \notin {"support_messages", "ocr_records"}, "unsupported_text_ocr_source_kind"),
          When(step.kind \notin {Missing, source.kind}, "source_kind_mismatch"),
          When(step.name \notin {Missing, source.name}, "source_name_mismatch"),
          When(~step.clean, "redacted_export_requires_complete_records"),
          When(source.media # "application/jsonl", "unsupported_text_ocr_artifact_media_type")>>)

\* What may leave the platform: the raw artifact, the redacted one or nothing.
ExportPolicy(pii, source, redacted) ==
    CASE pii = 0 -> [ready |-> TRUE, raw |-> TRUE, export |-> source, reasons |-> {}]
      [] pii > 0 /\ redacted = Missing ->
            [ready |-> FALSE, raw |-> FALSE, export |-> Missing,
             reasons |-> {"raw_restricted_text_ocr_requires_redaction", "PII_UNMASKED"}]
      [] pii > 0 /\ redacted # Missing ->
            IF redacted.kind # "text_ocr_redacted_jsonl"
            THEN [ready |-> FALSE, raw |-> FALSE, export |-> Missing,
                  reasons |-> {"redacted_text_ocr_artifact_required"}]
            ELSE [ready |-> TRUE, raw |-> FALSE, export |-> redacted,
                  reasons |-> {"raw_text_ocr_export_replaced_by_redacted_artifact"}]

\* The step stores every record of the source, clean ones too, and exports it.
ExecuteRedaction(step, source) ==
    LET records == RedactedRecords(source.data)
        failure == FirstReason(<<RedactionStepFailure(step, source), ReportFailure(source.data),
                                 When(records = <<>>, "empty_redacted_text_ocr_output")>>)
        artifact == [kind |-> "text_ocr_redacted_jsonl", records |-> records]
    IN  IF failure # Missing THEN [failure |-> failure, artifacts |-> {}, policy |-> Missing]
        ELSE [failure |-> Missing, artifacts |-> {artifact},
              policy |-> ExportPolicy(Len(Findings(records)), source, artifact)]

=============================================================================
