---------------------------- MODULE MCRecovery ------------------------------
(***************************************************************************)
(* Two operators, and restores from any backup.                            *)
(***************************************************************************)
EXTENDS Recovery, TLC

MCSymmetry == Permutations(Operator)
=============================================================================
