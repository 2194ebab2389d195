------------------------------- MODULE MCVga -------------------------------
(***************************************************************************)
(* A text screen of two columns and three rows, two characters and space.  *)
(***************************************************************************)
EXTENDS VgaHistory

CONSTANTS a, b

MCChar == {a, b, space}
=============================================================================
