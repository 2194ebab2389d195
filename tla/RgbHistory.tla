----------------------------- MODULE RgbHistory -----------------------------
(***************************************************************************)
(* Rgb with two history variables, to state what is lost below the screen  *)
(* and what a backspace takes back.                                        *)
(***************************************************************************)
EXTENDS Rgb

VARIABLES
  below,      (* how often the screen has scrolled since the cursor last was
                 on it, never more than max_rows                           *)
  unprinted   (* after a printed character what a backspace should leave,
                 empty after any other call                                *)

(* Rows from here on are displayed again, uint32_t having wrapped. *)
Period == UintMod \div CharH

Offscreen(r) == r % Period >= max_rows

Scrolls == cursor_y' >= max_rows

Count(up) ==
  below' = IF ~(Offscreen(cursor_y) /\ Offscreen(cursor_y')) THEN 0
           ELSE IF up /\ below < max_rows THEN below + 1
           ELSE below

HistoryInit == Init /\ below = 0 /\ unprinted = {}

Printing ==
  /\ \E ch \in Char : PrintChar(ch)
  /\ Count(Scrolls)
  /\ unprinted' =
       {IF Scrolls THEN vram'
        ELSE Painted(vram, CellDots(cursor_x, cursor_y, Offsets), 0)}

Control ==
  /\ NewLine \/ CarriageReturn \/ OtherChar
  /\ Count(Scrolls)
  /\ unprinted' = {}

HistoryNext ==
  \/ Printing
  \/ Control
  \/ Backspace /\ Count(FALSE) /\ unprinted' = {}
  \/ Clear /\ Count(FALSE) /\ unprinted' = {}
  \/ Scroll /\ Count(TRUE) /\ unprinted' = {}

HistorySpec == HistoryInit /\ [][HistoryNext]_<<vars, below, unprinted>>

(* Once the cursor has gone below a screen of whole rows nothing reaches   *)
(* the display any more: rgb_scroll (rgb.c:69-77) does not bring the       *)
(* cursor back, what is printed is clipped (rgb.c:35), and every call      *)
(* scrolls (rgb.c:213), so that each one blanks one more row from below.   *)
TextIsLostBelow ==
  Offscreen(cursor_y) =>
    \A r \in (max_rows - below) .. (max_rows - 1), x \in 0 .. (max_cols - 1) :
      Ink(r, x) = {}

(* On a screen of whole rows a backspace right after a character empties   *)
(* its cell, except when printing it scrolled: then the backspace changes  *)
(* nothing, the character having moved up without the cursor (rgb.c:194).  *)
BackspaceUnprints ==
  [][Backspace => \A v \in unprinted : vram' = v]_<<vars, below, unprinted>>
=============================================================================
