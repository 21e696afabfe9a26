---------------------------- MODULE CaseSubject ----------------------------
(***************************************************************************)
(* The pure parts of the service are checked case by case: a state is one  *)
(* case, given to the functions as the runtime gives it, and nothing moves.*)
(* The modules that extend this one say what the cases are and what must   *)
(* hold of the one at hand.                                                *)
(***************************************************************************)
VARIABLE subject

=============================================================================
