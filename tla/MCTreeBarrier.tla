---------------------------- MODULE MCTreeBarrier ----------------------------
(***************************************************************************)
(* Four processors, the smallest tree with an inner node, through four     *)
(* barriers: both flags are used and both are used again.                  *)
(***************************************************************************)
EXTENDS TreeBarrier
=============================================================================
