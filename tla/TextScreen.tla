----------------------------- MODULE TextScreen -----------------------------
(***************************************************************************)
(* A character terminal, cell by cell: what the two screen drivers under   *)
(* src/src/drivers/console promise the console above them.  Vga.tla and    *)
(* Rgb.tla implement it with different values of the three constants that  *)
(* tell the drivers apart:                                                 *)
(*                                                                         *)
(*   SnapBack     a scroll puts the cursor at the start of the last row    *)
(*                (vga.c does, rgb.c leaves the cursor where it was);      *)
(*   Overstrike   printing adds ink to the cell instead of replacing what  *)
(*                it holds (rgb.c stores only the lit pixels of a glyph);  *)
(*   ClearHomes   clearing the screen puts the cursor at the origin (the   *)
(*                16 and 24 bit variants of rgb.c do not).                 *)
(***************************************************************************)
EXTENDS Integers

CONSTANTS
  Cols, Rows,   (* size of the screen in characters                        *)
  Char,         (* the printable characters                                *)
  Glyph,        (* what a character leaves in a cell: a set of dots        *)
  RowMod,       (* the cursor's row is counted modulo RowMod               *)
  RowPeriod,    (* rows that far apart are displayed in the same place     *)
  SnapBack, Overstrike, ClearHomes

VARIABLES
  cells,   (* the dots in each cell, by row and column                     *)
  col,     (* the cursor: its column ...                                   *)
  row      (* ... and its row, which may lie below the screen              *)

vars == <<cells, col, row>>

BlankRow == [x \in 0 .. (Cols - 1) |-> {}]
BlankScreen == [y \in 0 .. (Rows - 1) |-> BlankRow]

(* Where the row r is displayed; from Rows on it is not. *)
Place(r) == r % RowPeriod
Shown(r) == Place(r) < Rows

Written(x, r, dots) ==
  IF Shown(r) THEN [cells EXCEPT ![Place(r)][x] = dots] ELSE cells

Printed(ch) ==
  Written(col, row,
          IF Overstrike /\ Shown(row)
            THEN cells[Place(row)][col] \cup Glyph[ch]
            ELSE Glyph[ch])

(* One row up; the last row becomes blank. *)
ScrolledUp(cs) ==
  [y \in 0 .. (Rows - 1) |-> IF y < Rows - 1 THEN cs[y + 1] ELSE BlankRow]

Init == cells = BlankScreen /\ col = 0 /\ row = 0

(* The cells become cs and the cursor goes to (x, r); a cursor below the   *)
(* last row makes the screen scroll.                                       *)
MoveTo(cs, x, r) ==
  \/ /\ r < Rows
     /\ cells' = cs /\ col' = x /\ row' = r
  \/ /\ r >= Rows
     /\ cells' = ScrolledUp(cs)
     /\ col' = IF SnapBack THEN 0 ELSE x
     /\ row' = IF SnapBack THEN Rows - 1 ELSE r

PrintChar(ch) ==
  IF col + 1 >= Cols
    THEN MoveTo(Printed(ch), 0, (row + 1) % RowMod)
    ELSE MoveTo(Printed(ch), col + 1, row)

NewLine == MoveTo(cells, 0, (row + 1) % RowMod)

Return == MoveTo(cells, 0, row)

(* A control character without a meaning. *)
Ignore == MoveTo(cells, col, row)

(* One cell back, which is erased; nothing at the origin, and no scroll.   *)
Backspace ==
  \/ /\ col > 0
     /\ col' = col - 1 /\ row' = row
     /\ cells' = Written(col - 1, row, {})
  \/ /\ col = 0 /\ row > 0
     /\ col' = Cols - 1 /\ row' = row - 1
     /\ cells' = Written(Cols - 1, row - 1, {})

Clear ==
  /\ cells' = BlankScreen
  /\ IF ClearHomes THEN col' = 0 /\ row' = 0 ELSE UNCHANGED <<col, row>>

Scroll ==
  /\ cells' = ScrolledUp(cells)
  /\ IF SnapBack THEN col' = 0 /\ row' = Rows - 1 ELSE UNCHANGED <<col, row>>

Next ==
  \/ \E ch \in Char : PrintChar(ch)
  \/ NewLine \/ Return \/ Ignore \/ Backspace
  \/ Clear \/ Scroll

Spec == Init /\ [][Next]_vars
=============================================================================
