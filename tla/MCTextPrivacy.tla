--------------------------- MODULE MCTextPrivacy ---------------------------
(***************************************************************************)
(* Redaction steps over two lines: texts with and without personal data,   *)
(* with ids that are repeated or missing, and lines that are no texts; and *)
(* what must hold of the passports of texts, whatever else they say.       *)
(***************************************************************************)
EXTENDS ObjectPassports, MCIngestion

Token(matches, luhn) == [matches |-> matches, luhn |-> luhn]

TextWith(words, tokens, length) ==
    [string |-> TRUE, words |-> words, length |-> length, tokens |-> tokens]

TextsUsed ==
    {TextWith("clean", <<>>, 60), TextWith("mail", <<Token({"email"}, FALSE)>>, 60),
     TextWith("long", <<Token({"email"}, FALSE)>>, 6000),
     TextWith("card", <<Token({"payment_card", "phone"}, TRUE), Token({}, FALSE)>>, 100),
     TextWith("digits", <<Token({"payment_card", "phone"}, FALSE)>>, 100),
     TextWith("blank", <<>>, 0)}

TextLine(id, text) == Object([object_id |-> id, text |-> text])

NoTextLines ==
    {NoObject("scalar"), NoObject("invalid"), Object([object_id |-> 5]),
     TextLine(5, [TextWith("mail", <<>>, 0) EXCEPT !.string = FALSE]),
     TextLine(NumberId, TextWith("mail", <<Token({"email"}, FALSE)>>, 60))}

RedactionCases ==
    [kind : {"redaction"},
     step : [type : {"REDACT_PII", "IMPUTE_MISSING_VALUES"}, kind : {Missing, "ocr_records"},
             name : {Missing}, clean : BOOLEAN],
     source : [kind : {"support_messages", "ocr_records"}, name : {"source"}, media : {"application/jsonl"},
               data : {[utf8 |-> u, lines |-> <<TextLine(4, a), line>>] :
                          u \in BOOLEAN, a \in TextsUsed,
                          line \in {TextLine(i, b) : i \in {4, 5, Missing}, b \in TextsUsed} \cup NoTextLines}]]

-----------------------------------------------------------------------------
(* Properties.                                                             *)

\* A token that some detector takes for personal data, whichever is first.
Personal(token) == \E d \in token.matches : d = "payment_card" => token.luhn

\* An approved redaction exports every readable record of its source, each
\* without its personal data and with the rest, and nothing raw once a record
\* has some; a step that is refused stores nothing.
RedactionIsComplete(s) ==
    LET r == ExecuteRedaction(s.step, s.source)
        lines == s.source.data.lines
        texts == {n \in DOMAIN lines : /\ lines[n].status = "object" /\ StringId(lines[n].record)
                                       /\ TextOf(lines[n].record).string}
        Tokens(n) == Range(TextOf(lines[n].record).tokens)
        pii == {n \in texts : \E t \in Tokens(n) : Personal(t)}
        records == r.policy.export.records
    IN  IF r.failure # Missing THEN r.artifacts = {}
        ELSE /\ r.policy.ready /\ s.source.data.utf8 /\ s.step.clean /\ texts # {}
             /\ r.policy.raw <=> pii = {}
             /\ r.policy.raw => r.policy.export = s.source
             /\ pii # {} =>
                   /\ Len(records) = Cardinality(texts)
                   /\ \A n \in texts : \E k \in DOMAIN records :
                         /\ records[k].id = lines[n].record["object_id"]
                         /\ records[k].left = {t \in Tokens(n) : ~Personal(t)}
                         /\ records[k].count > 0 <=> n \in pii

\* The rows whose own record is one that the text report covers, the first with
\* its id in its source, and has personal data.
PersonalRows(archive, rows) ==
    {i \in DOMAIN rows :
        /\ rows[i].system \in {"support_messages", "ocr_records"}
        /\ \E t \in Range(TextOf(rows[i].hash).tokens) : Personal(t)
        /\ \E n \in ValidLines(TextData(archive, rows[i].system), 1) :
              TextData(archive, rows[i].system).lines[n].record = rows[i].hash}

\* The object that an id in a record stands for is that of the last row with it.
LastObject(rows, id) == rows[Max({k \in DOMAIN rows : rows[k].source = id})].object

\* An object whose id is no other record's is restricted exactly if its own
\* record has personal data. Where records share an id, what is found in any of
\* them is on the object of the last row with that id, if it is a text, and on
\* no other: the object of the record itself may be left without it. What is
\* stored redacted covers every finding and leaves none.
FindingsReachPassports(archive, rows, passports) ==
    LET sources == Range(TextReportOf(archive).sources)
        flagged == UNION {{f.id : f \in Range(r.findings)} : r \in sources}
        stored == UNION {Range(r.stored) : r \in sources}
        detected == {i \in DOMAIN rows : passports[i].privacy.detected}
        personal == PersonalRows(archive, rows)
        SoleId(i) == \A j \in DOMAIN rows : rows[j].source = rows[i].source => j = i
    IN  /\ flagged \subseteq {f.id : f \in stored}
        /\ \A f \in stored : \A t \in f.left : t.matches \ {"payment_card"} = {}
        /\ \A i \in DOMAIN rows : SoleId(i) => (i \in detected <=> i \in personal)
        /\ \A i \in DOMAIN rows :
              i \in detected <=>
                 /\ rows[i].modality \in TextModalities
                 /\ rows[i].source \in {rows[j].source : j \in personal}
                 /\ rows[i].object = LastObject(rows, rows[i].source)
        /\ \A i \in DOMAIN rows :
              IF i \in detected
              THEN passports[i].privacy.export = "redacted_only" /\ "pii_detected" \in passports[i].reasons
              ELSE passports[i].privacy.export # "redacted_only"

=============================================================================
