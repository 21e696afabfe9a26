--------------------------- MODULE MCApplyRuntime ---------------------------
(***************************************************************************)
(* ApplyRuntime on small instances: plans that start with each kind of     *)
(* step, one with synthetic rows, one the runtime cannot finish, and one   *)
(* finding of each severity.                                               *)
(***************************************************************************)
EXTENDS ApplyRuntime

PlansOfTheModel ==
    {<<"impute">>, <<"duplicates", "impute">>, <<"impute", "smote">>,
     <<"smote">>, <<"impute", "unsupported">>}

NoFinding == [missingColumns |-> FALSE, nonNumeric |-> FALSE, rules |-> "none",
              pii |-> FALSE, restricted |-> FALSE]

FindingsOfTheModel ==
    {NoFinding,
     [NoFinding EXCEPT !.rules = "warning"],
     [NoFinding EXCEPT !.pii = TRUE, !.restricted = TRUE]}

=============================================================================
