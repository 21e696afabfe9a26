-------------------------- MODULE RecommendedSteps --------------------------
(***************************************************************************)
(* What becomes of a recommendation: method_selection.py reads the profile *)
(* of a table, action_plan.py turns the selected recommendations into the  *)
(* steps of a plan, and apply_runtime.py gives each to its executor, on    *)
(* the table that the step before left.                                    *)
(*                                                                         *)
(* Indicator columns are left out: no later step reads one. flags says     *)
(* that the words of the table are yes and no and its numbers have         *)
(* fractions: a column of both is numeric to the profile.                  *)
(***************************************************************************)
EXTENDS TabularProfile, Decisions

\* Zeros and ones alone are flags.
NumericColumn(source, column, flags) ==
    LET numbers == Cells(source, column) \ {Word}
    IN  /\ numbers # {}
        /\ IF Word \in Cells(source, column) THEN flags ELSE ~(numbers \subseteq {0, 1})

\* What method selection reads of a profile.
MethodEvidence(source, flags) ==
    LET profile == Profile(source, [segment |-> "customer_segment", outliers |-> Missing, rules |-> {}])
        groups(c) == profile.missingness[c].bySegment
        imbalance == profile.imbalance
    IN  [columns |->
            {[name |-> c, missing |-> profile.missingness[c].missing, known |-> TRUE,
              numeric |-> NumericColumn(source, c, flags),
              segments |-> IF groups(c) = Missing THEN {}
                           ELSE {Share(groups(c)[v].missing, groups(c)[v].total) : v \in DOMAIN groups(c)}] :
             c \in source.columns},
         target |-> profile.target, classes |-> imbalance # Missing,
         minority |-> IF imbalance = Missing THEN 100 ELSE imbalance.share,
         imbalance |-> IF imbalance = Missing THEN 1 ELSE imbalance.ratio \div 100]

\* The methods that a recommendation may be selected with.
Selectable(recommendation) ==
    {c.id : c \in {candidate \in recommendation.candidates :
                     candidate.status \in {"recommended", "available"} /\ candidate.policy = "enabled"}}
        \ recommendation.blocked

\* target: the column that the configuration of the step names as the target.
StepOf(recommendation, method) ==
    IF recommendation.action = "impute"
    THEN [type |-> "IMPUTE_MISSING_VALUES", method |-> method, column |-> recommendation.target,
          group |-> "customer_segment", indicator |-> TRUE, target |-> Missing]
    ELSE [type |-> IF method = "class_weights" THEN "CONFIGURE_CLASS_WEIGHTS" ELSE "AUGMENT_RARE_CLASS",
          method |-> method, target |-> recommendation.target]

\* The first target that a step names.
PlanTarget(steps) ==
    LET named == {k \in DOMAIN steps : steps[k].target # Missing}
    IN  IF named = {} THEN "is_fraud" ELSE steps[Min(named)].target

\* Of the rare-class methods only smote has an executor, and it is not selectable.
ExecutionFailure(source, target, step) ==
    IF step.type = "IMPUTE_MISSING_VALUES" THEN ImputationFailure(source, target, step)
    ELSE "unsupported_action_plan_step"

NextTable(source, target, step) == [source EXCEPT !.rows = Impute(source, target, step).rows]

\* tables: the source and what each step left, up to the first failure.
RunSteps(source, steps) ==
    LET target == PlanTarget(steps)
        Step(run, step) ==
            LET table == run.tables[Len(run.tables)]
                failure == ExecutionFailure(table, target, step)
            IN  CASE run.failure # Missing -> run
                  [] run.failure = Missing /\ failure # Missing -> [run EXCEPT !.failure = failure]
                  [] OTHER -> [run EXCEPT !.tables = Append(@, NextTable(table, target, step))]
    IN  FoldLeft(Step, [failure |-> Missing, tables |-> <<source>>], steps)

=============================================================================
