------------------------------- MODULE MCItoa -------------------------------
(* All ints of six bits, and bases at and beyond both limits. *)
EXTENDS Itoa

MCValues == Ints
MCBases == {-1, 0, 1, 2, 3, 10, 16, 35, 36, 37}
=============================================================================
