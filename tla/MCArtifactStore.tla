-------------------------- MODULE MCArtifactStore ---------------------------
(***************************************************************************)
(* ArtifactStore for TLC: callers write one label in two ways and one that *)
(* is no path component; other services also use a label of their own.     *)
(***************************************************************************)
EXTENDS ArtifactStore, TLC

WrittenLabels == {"manifest", " manifest ", "../report"}
LabelComponents == {"manifest", "report"}
CleanLabel ==
    [l \in WrittenLabels |->
        IF l = "../report" THEN None ELSE "manifest"]

Interchangeable == Permutations(Writers) \cup Permutations(Stamps) \cup Permutations(Bytes)

=============================================================================
