------------------------------ MODULE Absence ------------------------------
(***************************************************************************)
(* None, the empty string, the empty cell and an absent field, which the   *)
(* readers of records treat alike; also "no failure".                      *)
(***************************************************************************)
CONSTANT Missing

=============================================================================
