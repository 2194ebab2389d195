------------------------------- MODULE MCPic -------------------------------
(* A keyboard on line 1 of the master, two devices on the slave.           *)
EXTENDS Pic

MCOffsets == {<<{5}, {3, 5}>>, <<{5, 6}, {3, 5, 6}>>}
MCMasks == {0 .. 15, {}}
=============================================================================
