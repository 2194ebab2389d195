----------------------------- MODULE VgaHistory -----------------------------
(***************************************************************************)
(* Vga with a history variable, to state what a backspace takes back.      *)
(***************************************************************************)
EXTENDS Vga

(* After a character is printed: the screen as it would be had a space     *)
(* been printed in its place.  Empty after any other call.                 *)
VARIABLE unprinted

AsIfSpace ==
  LET m == Stored(cursor_x, cursor_y, space)
  IN  IF cursor_x + 1 >= VGA_MAX_COLS /\ Below(cursor_y + 1)
        THEN Scrolled(m) ELSE m

HistoryInit == Init /\ unprinted = {}

Printing == (\E ch \in Char : PrintChar(ch)) /\ unprinted' = {AsIfSpace}

NotPrinting ==
  /\ NewLine \/ CarriageReturn \/ OtherChar \/ Backspace \/ vga_clear \/ vga_scroll
  /\ unprinted' = {}

HistoryNext == Printing \/ NotPrinting

HistorySpec == HistoryInit /\ [][HistoryNext]_<<vars, unprinted>>

(* A backspace right after a character takes exactly that character off    *)
(* the screen, at the end of a row and when printing it scrolled as well:  *)
(* there the cursor goes back to the last column of the row above, where   *)
(* the scroll has put the character (vga.c:49-55 after vga.c:37-38).       *)
BackspaceUnprints ==
  [][Backspace => \A m \in unprinted : vga_memory' = m]_<<vars, unprinted>>
=============================================================================
