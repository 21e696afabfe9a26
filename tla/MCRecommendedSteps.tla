------------------------- MODULE MCRecommendedSteps -------------------------
(***************************************************************************)
(* Tables of four rows with gaps, words and segments in every place that   *)
(* makes a difference, and what a plan of their recommendations does.      *)
(***************************************************************************)
EXTENDS RecommendedSteps, CaseSubject

\* A table of the columns given, each the list of its cells.
TableOf(cells) ==
    [columns |-> DOMAIN cells, rows |-> [i \in 1..4 |-> [c \in DOMAIN cells |-> cells[c][i]]]]

AddColumn(cells, column, list) == IF list = Missing THEN cells ELSE cells @@ (column :> list)

Ages ==
    [1..4 -> {10, 26, Missing}] \cup {<<Word, a, b, c>> : a, b, c \in {10, Missing}}

\* Three of a class to one, two to one with a gap, and labels under another name.
TargetCells ==
    {AddColumn(<<>>, "is_fraud", <<0, 0, 0, 2>>), AddColumn(<<>>, "is_fraud", <<0, Missing, 2, 2>>),
     AddColumn(<<>>, "label", <<0, 2, 2, Missing>>), <<>>}

RecommendationTables ==
    {TableOf(AddColumn(target @@ ("age" :> age) @@ ("tenure" :> tenure), "customer_segment", segments)) :
        target \in TargetCells, age \in Ages, tenure \in {<<2, 4, 6, 8>>, <<Missing, Missing, 4, 6>>},
        segments \in {<<1, 1, 2, 2>>, <<1, 1, 2, Missing>>, Missing}}

\* method: what the client selects for gaps, or the recommended method; rare:
\* whether it selects the recommendation for a rare class too.
RecommendationCases ==
    [kind : {"recommendation"}, source : RecommendationTables, flags : BOOLEAN, rare : BOOLEAN,
     method : {Missing, "group_median", "missingness_indicator"}]

\* Of what is recommended, the gaps of the columns, in the order of the header,
\* and a rare class, if it is selected.
Selected(recommendations, withRare) ==
    LET Imputing(c) == SetToSeq({r \in recommendations : r.action = "impute" /\ r.target = c})
        rare == {r \in recommendations : r.action = "augment" /\ withRare}
    IN  Imputing("customer_segment") \o Imputing("age") \o Imputing("tenure") \o Imputing("is_fraud")
        \o Imputing("label") \o SetToSeq(rare)

\* The steps of a plan, with the method that is asked for where it may be selected.
StepsOf(selected, method) ==
    [k \in DOMAIN selected |->
        StepOf(selected[k], IF method \in Selectable(selected[k]) THEN method ELSE selected[k].method)]

PlanOf(s) ==
    StepsOf(Selected(MethodRecommendations(MethodEvidence(s.source, s.flags)), s.rare), s.method)

-----------------------------------------------------------------------------
(* Properties. s is a case.                                                *)

\* A step that was run filled the gaps of its column, each with a value between
\* those of the segment of its row or, if there are none, of the column, or left
\* them for an indicator; it changed no other cell, and no label.
StepKeptItsWord(before, after, step) ==
    LET c == step.column
        Values(rows) == {before.rows[i][c] : i \in rows} \ {Missing}
        Segment(i) == {j \in DOMAIN before.rows :
                          before.rows[j]["customer_segment"] = before.rows[i]["customer_segment"]}
        Near(i) == IF Values(Segment(i)) = {} THEN Values(DOMAIN before.rows) ELSE Values(Segment(i))
    IN  /\ c # TargetColumn(before) /\ DOMAIN after.rows = DOMAIN before.rows
        /\ \A i \in DOMAIN before.rows :
              /\ \A d \in before.columns \ {c} : after.rows[i][d] = before.rows[i][d]
              /\ before.rows[i][c] # Missing \/ step.method = "missingness_indicator" =>
                    after.rows[i][c] = before.rows[i][c]
              /\ before.rows[i][c] = Missing /\ step.method = "group_median" =>
                    after.rows[i][c] \in Min(Near(i))..Max(Near(i))

\* A plan of recommendations runs to its end exactly if it has no step for a
\* rare class and no median, its table has the default target, as no step for a
\* gap names one, and each group median has segments and no word to be fitted
\* on: so not every recommendation can be run as it stands.
CanRun(source, steps) ==
    \A k \in DOMAIN steps :
        /\ steps[k].type = "IMPUTE_MISSING_VALUES" /\ steps[k].method # "median"
        /\ "is_fraud" \in source.columns
        /\ steps[k].method = "group_median" =>
              /\ "customer_segment" \in source.columns
              /\ \A i \in DOMAIN source.rows : source.rows[i][steps[k].column] # Word

RunMeetsPlan(source, steps, run) ==
    /\ run.failure = Missing <=> CanRun(source, steps)
    /\ Len(run.tables) = 1 + Len(steps) \/ run.failure # Missing
    /\ \A k \in 1..Len(run.tables) - 1 : StepKeptItsWord(run.tables[k], run.tables[k + 1], steps[k])

PlanRuns(source, steps) == RunMeetsPlan(source, steps, RunSteps(source, steps))


=============================================================================
