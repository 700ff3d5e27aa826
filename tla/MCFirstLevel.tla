---------------------------- MODULE MCFirstLevel ----------------------------
(***************************************************************************)
(* Two lines and a first level at its smallest: one MSHR, one entry in the *)
(* write buffer and one more write in it, ports of one entry.              *)
(***************************************************************************)
EXTENDS FirstLevel

CONSTANTS a, b
MCLines == {a, b}
=============================================================================
