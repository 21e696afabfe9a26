----------------------------- MODULE MCEvidence -----------------------------
(***************************************************************************)
(* Whole analyses of two or three rows and three texts, with ids that are  *)
(* repeated within a source or between sources.                            *)
(***************************************************************************)
EXTENDS ReviewQueues, MCTextPrivacy

\* The records and the texts of an analysis, by the ids they carry.
RunArchive(ids, amounts, labels, textIds, texts) ==
    Archive(<<TableEntry(TableColumns, [i \in DOMAIN ids |-> TableRow(ids[i], amounts[i], labels[i])]),
              LinesEntry("support_messages", <<TextLine(textIds[1], texts[1]), TextLine(textIds[2], texts[2])>>),
              LinesEntry("ocr_records", <<TextLine(textIds[3], texts[3])>>)>>)

Prediction(object, proba) ==
    [object |-> object, defect |-> Missing, proba |-> proba, predicted |-> "fraud",
     confidence |-> Max({proba[k][2] : k \in DOMAIN proba})]

Probas ==
    {<< <<"fraud", p>>, <<"not_fraud", 10 - p>> >> : p \in {5, 6, 8, 9, 10}}
        \cup {<< <<"fraud", 10>> >>, << <<"not_fraud", 6>>, <<"fraud", 4>> >>, << <<"fraud", 9>> >>}

\* Predictions for the first row, once or twice, and for an unknown object.
PredictionBytes(archive) ==
    LET object == AssetManifest(archive).rows[1].object
        Line(o, p) == Object(Prediction(o, p))
    IN  {Missing} \cup {[utf8 |-> TRUE, lines |-> <<Line(object, p)>>] : p \in Probas}
        \cup {[utf8 |-> TRUE, lines |-> <<Line(object, p), Line(object, q)>>] :
                 p, q \in {<< <<"fraud", 9>>, <<"not_fraud", 1>> >>, << <<"fraud", 6>>, <<"not_fraud", 4>> >>}}
        \cup {[utf8 |-> TRUE, lines |-> <<Line(DerivedId(<<"unknown", 0>>, <<>>), p), NoObject("blank")>>] :
                 p \in {<< <<"fraud", 10>> >>}}
        \cup {[utf8 |-> FALSE, lines |-> <<>>], [utf8 |-> TRUE, lines |-> <<NoObject("blank")>>]}

Amount == [id |-> "amount_limit", severity |-> "critical", allowMissing |-> TRUE,
           checks |-> {[field |-> "amount", op |-> "lte", value |-> 50]}]

Requests == {[segment |-> Missing, outliers |-> Missing, rules |-> r] : r \in {{}, {Amount}}}

RunsOver(archives) ==
    UNION {[kind : {"analysis"}, archive : {a}, policy : {Policy}, predictions : PredictionBytes(a),
            request : Requests] : a \in archives}

\* Texts against ids, with and without repetition; amounts and labels against
\* predictions.
AnalysisCases ==
    RunsOver({RunArchive(<<1, 2, 3>>, amounts, labels, <<4, 5, 6>>, [t \in 1..3 |-> TextWith("clean", <<>>, 60)]) :
                amounts \in {<<10, 10, 10>>, <<10, 10, 90>>, <<10, 20, Missing>>},
                labels \in {<<"1", "0", "0">>, <<"0", "0", "1">>, <<"1", "0", Missing>>, <<"1", "1", "1">>}})
    \cup
    [kind : {"analysis"}, policy : {Policy}, predictions : {Missing},
     request : {[segment |-> Missing, outliers |-> Missing, rules |-> {}]},
     archive : {RunArchive(<<1, 2>>, <<10, 20>>, <<"1", "0">>, textIds, texts) :
                    textIds \in {<<4, 5, 6>>, <<4, 4, 6>>, <<4, 5, 4>>, <<1, 5, 6>>, <<4, Missing, 6>>},
                    texts \in [1..3 -> TextsUsed]}]

-----------------------------------------------------------------------------
(* Properties. s is a case.                                                *)

SourcesAreDistinct(rows) ==
    \A i, j \in DOMAIN rows : i # j => rows[i].source # rows[j].source

\* An object with personal data is kept as it is only if the risk is below one
\* percent, in a long text, and blocks the dataset if it is high; nothing else
\* blocks it.
FindingsReachDecisions(rows, passports, decisions) ==
    LET detected == {i \in DOMAIN rows : passports[i].privacy.detected}
    IN  /\ \A i \in detected :
              decisions.objects[i].action = "KEEP" => passports[i].privacy.risk \in 1..99
        /\ decisions.readiness = "BLOCKED" <=> \E i \in detected : passports[i].privacy.risk >= 8000

\* A missing prediction is evidence missing, not an error of zero: an object
\* has prediction signals exactly if it was predicted and is labelled. Rows
\* that differ in their ids alone carry the mark of a duplicate, and only they.
SignalsReachPassports(s, rows, passports) ==
    LET predicted == IF s.predictions = Missing THEN {}
                     ELSE {p.object : p \in ToSet(PredictionRows(s.predictions))}
        bundles == Bundles(passports)
        Table == Source(s)
        Twin(i) == \E j \in DOMAIN Table.rows \ {i} : \A c \in Table.columns \ {"object_id"} :
                      Table.rows[j][c] = Table.rows[i][c]
    IN  /\ \A i \in DOMAIN rows :
              IF rows[i].object \in predicted /\ LabelOf(rows, rows[i].object) # Missing
              THEN Missing \notin {bundles[i].confidence, bundles[i].uncertainty, bundles[i].labelError}
              ELSE {bundles[i].confidence, bundles[i].uncertainty, bundles[i].labelError,
                    bundles[i].ambiguous, bundles[i].entropy, bundles[i].label} = {Missing}
        /\ SourcesAreDistinct(rows) =>
              \A i \in DOMAIN Table.rows : (passports[i].duplicate = 100) <=> Twin(i)
        /\ \A i \in DOMAIN Table.rows : rows[i].label = "fraud" =>
              (bundles[i].rare > 0) <=>
                 (Tabular!ClassImbalance(Table).rare = "1" /\ Tabular!ClassImbalance(Table).share < 100)

\* A decision that is held back is in the queue of its review, a blocked object
\* in the privacy queue with the risk of its own passport, so that a riskier one
\* comes first; an object is queued for what its passport says and for nothing
\* else; and what an external tool may see has a prediction.
ReviewsReachTheirQueues(passports, bundles, decisions, queues) ==
    LET Queued(queue, i) == queue \in DOMAIN queues /\ \E item \in queues[queue].items : item.place = i
        Review(d) == IF d.action = "BLOCK_EXPORT" THEN "SEND_TO_PRIVACY_REVIEW" ELSE d.action
    IN  /\ \A i \in DOMAIN decisions :
              CASE Review(decisions[i]) = "SEND_TO_LABEL_REVIEW" -> Queued("LABEL_REVIEW", i)
                [] Review(decisions[i]) = "SEND_TO_PRIVACY_REVIEW" -> Queued("PRIVACY_REVIEW", i)
                [] Review(decisions[i]) = "REMOVE_DUPLICATE" -> Queued("DUPLICATE_REVIEW", i)
                [] OTHER -> TRUE
        /\ \A i \in DOMAIN decisions :
              /\ Queued("PRIVACY_REVIEW", i) <=> passports[i].privacy.detected
              /\ Queued("DUPLICATE_REVIEW", i) <=> Core!AtLeast(passports[i].duplicate, 50)
        /\ \A queue \in DOMAIN queues : \A item \in queues[queue].items :
              /\ item.priority = Priority(queue, item.codes, bundles[item.place])
              /\ queue = "PRIVACY_REVIEW" => item.priority = passports[item.place].privacy.risk
              /\ queues[queue].external => bundles[item.place].confidence # Missing

FindingsReachTheirObject(s) ==
    s.kind = "analysis" /\ AnalyzeFailure(s) = Missing =>
        \A rows \in {AssetManifest(s.archive).rows}, passports \in {Passports(s)} :
           \A bundles \in {Bundles(passports)}, decisions \in {DecisionsOf(passports)} :
              /\ FindingsReachPassports(s.archive, rows, passports)
              /\ FindingsReachDecisions(rows, passports, decisions)
              /\ SignalsReachPassports(s, rows, passports)
              /\ ReviewsReachTheirQueues(passports, bundles, decisions.objects,
                                         QueuesOf(decisions.objects, bundles))

=============================================================================
