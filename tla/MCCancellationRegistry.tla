----------------------- MODULE MCCancellationRegistry -----------------------
(***************************************************************************)
(* CancellationRegistry on small instances: which jobs, launch requests    *)
(* and cancel requests exist is given in the configurations.               *)
(***************************************************************************)
EXTENDS CancellationRegistry, TLC

\* Runs, cancels and jobs are interchangeable model values.
Symmetry == Permutations(Runs) \cup Permutations(Cancels) \cup Permutations(Jobs)

=============================================================================
