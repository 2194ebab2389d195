------------------------------- MODULE MCMem -------------------------------
(* Four bytes of two values: every pair of spans of length 0 to 4, equal, *)
(* disjoint, adjacent and overlapping either way.                           *)
EXTENDS Mem

MCFillArgs == {0, 1, ByteMod + 1, -1}
=============================================================================
