---------------------------- MODULE MCIngestion ----------------------------
(***************************************************************************)
(* Small archives: every way to refuse one, alone and together with        *)
(* others, and lines of every kind in every order.                         *)
(***************************************************************************)
EXTENDS Ingestion, CaseSubject

Policy == [compressed |-> 10, uncompressed |-> 8, files |-> 5, extensions |-> {"csv", "jsonl", "json", "md"}]

Entry(kind, extension) ==
    [name |-> kind, dir |-> FALSE, path |-> {}, link |-> FALSE, extension |-> extension, size |-> 2,
     kind |-> kind, utf8 |-> TRUE, columns |-> {}, table |-> <<>>, lines |-> <<>>]

Archive(entries) == [exists |-> TRUE, size |-> 10, zip |-> TRUE, entries |-> entries]

Object(record) == [status |-> "object", record |-> record]

NoObject(status) == [status |-> status, record |-> <<>>]

TableEntry(columns, rows) ==
    [Entry("transactions", "csv") EXCEPT !.columns = columns, !.table = rows]

LinesEntry(kind, lines) == [Entry(kind, "jsonl") EXCEPT !.lines = lines]

TableRow(id, amount, label) ==
    [c \in {"object_id", "amount", "is_fraud"} |->
        CASE c = "object_id" -> id [] c = "amount" -> amount [] c = "is_fraud" -> label]

TableColumns == {"object_id", "amount", "is_fraud"}

SomeTable == TableEntry(TableColumns, <<TableRow(1, 10, "1"), TableRow(Missing, 10, "0")>>)

\* One thing wrong, several, or none, with the last entry of an archive.
LastEntries ==
    {[Entry("readme", x) EXCEPT !.dir = d, !.path = p, !.link = l, !.size = z] :
        x \in {"md", "exe", Missing}, d \in BOOLEAN,
        p \in {{}, {"path_traversal"}, {"absolute_path", "path_traversal"}, {"nul_byte_in_entry"}},
        l \in BOOLEAN, z \in {2, 7}}

Archives ==
    {Archive(<<SomeTable, e>>) : e \in LastEntries}
    \cup {Archive(<<e, SomeTable, SomeTable>>) : e \in LastEntries}
    \cup {[Archive(<<SomeTable>>) EXCEPT !.exists = x, !.zip = z, !.size = n] :
             x \in BOOLEAN, z \in BOOLEAN, n \in {10, 11}}
    \cup {Archive(<<Entry("other", "json")>>), Archive(<<Entry("other", "json"), SomeTable>>),
          Archive([i \in 1..6 |-> [Entry("readme", "md") EXCEPT !.dir = TRUE]]),
          Archive(<<Entry("annotations", "json"), SomeTable, Entry("predictions", "jsonl")>>)}

LinesUsed ==
    {NoObject("blank"), NoObject("invalid"), NoObject("scalar"),
     Object([object_id |-> 4, text |-> "a"]), Object([object_id |-> 5, text |-> "a"]),
     Object([object_id |-> Missing, text |-> "a"]), Object([object_id |-> NumberId, text |-> "a"])}

LineArchives ==
    {Archive(<<SomeTable, LinesEntry(kind, <<a, b, c>>)>>) :
        kind \in {"support_messages", "image_manifest"}, a \in LinesUsed, b \in LinesUsed, c \in LinesUsed}

IngestionCases ==
    [kind : {"ingestion"}, archive : Archives \cup LineArchives]

-----------------------------------------------------------------------------
(* Properties. s is a case.                                                *)

\* Lines of an entry that hold a record or cannot be read as one.
Records(entry) ==
    CASE entry.kind = "transactions" -> Len(entry.table)
      [] entry.kind \in {"annotations", "other"} -> 1
      [] entry.kind \in LineFormats ->
            Cardinality({n \in DOMAIN entry.lines : entry.lines[n].status # "blank"})
      [] OTHER -> 0

RecordCount(archive) == SumFunction([i \in Contents(archive) |-> Records(archive.entries[i])])

LinesBackwards(entry) == [entry EXCEPT !.lines = Reverse(@)]

Backwards(archive) == [archive EXCEPT !.entries = [i \in DOMAIN @ |-> LinesBackwards(@[i])]]

Identified(archive) == {r.object : r \in {q \in Range(AssetManifest(archive).rows) : q.source # Missing}}

\* An archive that is opened is safe as a whole, whatever entry comes first; of
\* its records each one becomes a manifest row or is reported as unsupported;
\* a record with an id keeps its object when the lines move, and only equal
\* records share an object; and the manifest is validated unless it is empty
\* or its bytes are no longer those registered.
ArchiveBecomesManifest(s) ==
    LET opened == OpenFailure(s.archive, Policy) = Missing
        entries == s.archive.entries
        files == Contents(s.archive)
        manifest == AssetManifest(s.archive)
        raw == [stored |-> ManifestBytes(manifest), registered |-> ManifestBytes(manifest)]
    IN  /\ opened <=>
              /\ s.archive.exists /\ s.archive.zip
              /\ s.archive.size <= Policy.compressed /\ Len(entries) <= Policy.files
              /\ \A i \in DOMAIN entries : entries[i].path = {} /\ ~entries[i].link
              /\ \A i \in files : entries[i].extension \in Policy.extensions
              /\ SumFunction([i \in files |-> entries[i].size]) <= Policy.uncompressed
              /\ \E i \in files : entries[i].kind = "transactions"
        /\ opened /\ BuildFailure(s.archive) = Missing =>
              /\ Len(manifest.rows) + Cardinality(manifest.unsupported) = RecordCount(s.archive)
              /\ Identified(Backwards(s.archive)) = Identified(s.archive)
              /\ \A r, q \in Range(manifest.rows) : r.object = q.object => r.hash = q.hash /\ r.source = q.source
              /\ ValidatedManifest(raw).artifacts = IF manifest.rows = <<>> THEN {} ELSE {raw.stored}
              /\ ValidatedManifest([raw EXCEPT !.stored.utf8 = FALSE]).artifacts = {}

\* Predictions that pass agree with themselves, and the report that is made of
\* them counts each prediction for a labelled object once: right or in
\* conflict, in its cell of the confusion matrix and in its class. A candidate
\* for a label error is always a conflict of high confidence.
PredictionsAreCounted(s) ==
    LET rows == AssetManifest(s.archive).rows
        predictions == PredictionRows(s.predictions)
        report == ModelErrorReport(rows, predictions)
        objects == {r.object : r \in Range(rows)}
        coverage == Coverage(objects, predictions)
        probable == Candidates(report, "probable_label_error")
        Labelled(o) == \E r \in Range(rows) : r.object = o /\ r.label # Missing
    IN  /\ \A p \in Range(predictions) : p.predicted = PredictedClass(p)
        /\ coverage.matched \cup coverage.missing = objects
        /\ {q.object : q \in Range(report.signals)} = {o \in coverage.matched : Labelled(o)}
        /\ report.correct + report.conflicts = Len(report.signals)
        /\ SumFunction(report.confusion) = Len(report.signals)
        /\ SumFunction([l \in DOMAIN report.classes |-> report.classes[l].errors]) = report.conflicts
        /\ {report.signals[k].object : k \in probable} = report.highConfidence
        /\ Cardinality(probable) <= report.probable

\* ingestion and predictions: every record and every prediction is accounted
\* for once, or its rejection is.
IngestionAccountsForRecords ==
    /\ subject.kind = "ingestion" => ArchiveBecomesManifest(subject)
    /\ /\ subject.kind = "analysis" /\ subject.predictions # Missing
       /\ OpenFailure(subject.archive, subject.policy) = Missing /\ BuildFailure(subject.archive) = Missing
       /\ JsonlFailure(subject.predictions, "predictions") = Missing
       => PredictionsAreCounted(subject)

=============================================================================
