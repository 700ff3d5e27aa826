------------------------------ MODULE MCDriver ------------------------------
(***************************************************************************)
(* The simulator's kernel on a few events.                                 *)
(***************************************************************************)
EXTENDS Driver, TLC

ActivitySymmetry == Permutations(Activities)
=============================================================================
