---------------------------- MODULE MCActionPlan ----------------------------
(***************************************************************************)
(* ActionPlan for TLC: one decision report with an imputation and a rare   *)
(* class recommendation, of which the platform selects both, the second    *)
(* with another method, one that is not enabled, or one twice.             *)
(***************************************************************************)
EXTENDS ActionPlan, TLC

Impute ==
    [id |-> "r1", action |-> "impute", issue |-> "i1", target |-> "age",
     method |-> "median", plugin |-> "tabular", approval |-> FALSE, impact |-> FALSE,
     status |-> ("median" :> "recommended" @@ "knn" :> "disabled" @@ "mean" :> "available"),
     enabled |-> {"median", "knn"}, blocked |-> {}, policy |-> "p1"]

Augment(approval) ==
    [id |-> "r2", action |-> "augment", issue |-> "i2", target |-> "rare",
     method |-> "class_weights", plugin |-> "tabular", approval |-> approval, impact |-> TRUE,
     status |-> ("class_weights" :> "recommended" @@ "smote" :> "available"),
     enabled |-> {"class_weights", "smote"}, blocked |-> {"ctgan"}, policy |-> "p2"]

Request(payload, selected, overrides) ==
    [payload |-> payload, selected |-> selected, overrides |-> overrides,
     report |-> "d1", version |-> "v1", target |-> "default", inputs |-> <<"transactions">>]

NoOverrides == [x \in {} |-> None]

MCPreviewRequests ==
    {Request(<<Impute, Augment(FALSE)>>, <<"r1", "r2">>, NoOverrides),
     Request(<<Impute, Augment(TRUE)>>, <<"r2">>, "r2" :> "smote"),
     Request(<<Impute>>, <<"r1">>, "r1" :> "mean"),
     Request(<<Impute>>, <<"r1", "r1">>, NoOverrides)}

Transactions == [uri |-> "transactions", hash |-> "h1", kind |-> "raw_transactions"]
Archive == [uri |-> "archive", hash |-> "h2", kind |-> "raw_dataset_archive"]

MCArtifacts == {<<>>, <<Archive, Transactions>>, <<Transactions, Archive, Transactions>>}

Prediction(name) == [uri |-> name, hash |-> name, kind |-> "raw_predictions"]

MCPredictions == {<<>>, <<Prediction("m1")>>}

\* The predictions of two models, in either order.
TwoModels == {<<Prediction("m1"), Prediction("m2")>>, <<Prediction("m2"), Prediction("m1")>>}

JobsAlike == Permutations(Jobs)

=============================================================================
