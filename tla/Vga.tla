-------------------------------- MODULE Vga --------------------------------
(***************************************************************************)
(* src/src/drivers/console/vga.c: the text mode terminal.  One action per  *)
(* call of vga_putc (by class of character), vga_clear and vga_scroll.     *)
(* The colour is always VGA_DEFAULT_ATTR and is left out of vga_entry.     *)
(***************************************************************************)
EXTENDS MemOps

CONSTANTS
  VGA_MAX_COLS, VGA_MAX_ROWS,
  Char,    (* the printable characters, 32 to 126           *)
  space    (* the character an erased entry holds           *)

ASSUME VgaAssumption ==
  /\ VGA_MAX_COLS \in Nat \ {0} /\ VGA_MAX_ROWS \in Nat \ {0}
  /\ space \in Char

VARIABLES
  vga_memory,   (* the characters in the text buffer                        *)
  cursor_x, cursor_y,
  hw_cursor     (* where the CRT controller shows the cursor                *)

vars == <<vga_memory, cursor_x, cursor_y, hw_cursor>>

size == VGA_MAX_COLS * VGA_MAX_ROWS
last_row == VGA_MAX_COLS * (VGA_MAX_ROWS - 1)

Position(x, y) == y * VGA_MAX_COLS + x

(* vga_memory[y * VGA_MAX_COLS + x] = vga_entry(ch, color_attr); *)
Stored(x, y, ch) == Filled(vga_memory, Position(x, y), ch, 1)

(* A plausible bug: vga_scroll leaves the last row as it is. *)
MutScrolled(m) == Moved(m, 0, VGA_MAX_COLS, last_row)

(* The two loops of vga_scroll. *)
Scrolled(m) ==
  Filled(Moved(m, 0, VGA_MAX_COLS, last_row), last_row, space, VGA_MAX_COLS)

(* update_cursor(): both halves of the position are sent. *)
update_cursor == hw_cursor' = Position(cursor_x', cursor_y')

(* What vga_clear leaves; nothing is printed before it. *)
Init ==
  /\ vga_memory = [a \in 0 .. (size - 1) |-> space]
  /\ cursor_x = 0 /\ cursor_y = 0 /\ hw_cursor = 0

-----------------------------------------------------------------------------

vga_clear ==
  /\ vga_memory' = Filled(vga_memory, 0, space, size)
  /\ cursor_x' = 0 /\ cursor_y' = 0
  /\ update_cursor

(* vga_scroll, on the memory m. *)
ScrollOf(m) ==
  /\ vga_memory' = Scrolled(m)
  /\ cursor_x' = 0 /\ cursor_y' = VGA_MAX_ROWS - 1
  /\ update_cursor

vga_scroll == ScrollOf(vga_memory)

(* A plausible bug: the scroll starts one row too late. *)
MutBelow(y) == y > VGA_MAX_ROWS

Below(y) == y >= VGA_MAX_ROWS

(* The end of vga_putc: the memory is m, the cursor has moved to (x, y). *)
Settle(m, x, y) ==
  \/ Below(y) /\ ScrollOf(m)
  \/ /\ ~Below(y)
     /\ vga_memory' = m /\ cursor_x' = x /\ cursor_y' = y
     /\ update_cursor

PrintChar(ch) ==
  LET m == Stored(cursor_x, cursor_y, ch)
  IN  IF cursor_x + 1 >= VGA_MAX_COLS
        THEN Settle(m, 0, cursor_y + 1)
        ELSE Settle(m, cursor_x + 1, cursor_y)

(* A plausible bug: the newline leaves update_cursor out. *)
MutNewLine ==
  /\ cursor_y + 1 < VGA_MAX_ROWS
  /\ cursor_x' = 0 /\ cursor_y' = cursor_y + 1
  /\ UNCHANGED <<vga_memory, hw_cursor>>

NewLine == Settle(vga_memory, 0, cursor_y + 1)

CarriageReturn == Settle(vga_memory, 0, cursor_y)

OtherChar == Settle(vga_memory, cursor_x, cursor_y)

(* A plausible bug: no way back from the first column. *)
MutBackspace ==
  \/ /\ cursor_x > 0
     /\ cursor_x' = cursor_x - 1 /\ UNCHANGED <<cursor_y, hw_cursor>>
     /\ vga_memory' = Stored(cursor_x', cursor_y', space)
  \/ cursor_x = 0 /\ UNCHANGED vars

(* '\b' returns before update_cursor(). *)
Backspace ==
  \/ /\ cursor_x > 0
     /\ cursor_x' = cursor_x - 1 /\ UNCHANGED <<cursor_y, hw_cursor>>
     /\ vga_memory' = Stored(cursor_x', cursor_y', space)
  \/ /\ cursor_x = 0 /\ cursor_y > 0
     /\ cursor_x' = VGA_MAX_COLS - 1 /\ cursor_y' = cursor_y - 1
     /\ vga_memory' = Stored(cursor_x', cursor_y', space)
     /\ UNCHANGED hw_cursor
  \/ cursor_x = 0 /\ cursor_y = 0 /\ UNCHANGED vars

vga_putc ==
  \/ \E ch \in Char : PrintChar(ch)
  \/ NewLine \/ CarriageReturn \/ Backspace \/ OtherChar

Next == vga_putc \/ vga_clear \/ vga_scroll

Spec == Init /\ [][Next]_vars

-----------------------------------------------------------------------------
(* Properties. *)

(* Every store is inside the text buffer, and between two calls the cursor *)
(* is on the screen.                                                       *)
TypeOK ==
  /\ vga_memory \in [0 .. (size - 1) -> Char]
  /\ cursor_x \in 0 .. (VGA_MAX_COLS - 1)
  /\ cursor_y \in 0 .. (VGA_MAX_ROWS - 1)
  /\ hw_cursor \in 0 .. (size - 1)

(* The cursor on the screen is never behind the cursor of the driver: it   *)
(* can only be left too far right, by backspaces (vga.c:56).               *)
HwCursorNotBehind == Position(cursor_x, cursor_y) <= hw_cursor

IInv == TypeOK /\ HwCursorNotBehind

(* vga.c is a terminal that replaces what a cell holds and brings the      *)
(* cursor back to the last row when the screen scrolls.                    *)
Screen ==
  INSTANCE TextScreen WITH
    Cols <- VGA_MAX_COLS, Rows <- VGA_MAX_ROWS,
    Glyph <- [ch \in Char |-> {ch} \ {space}],
    RowMod <- VGA_MAX_ROWS + 1, RowPeriod <- VGA_MAX_ROWS + 1,
    SnapBack <- TRUE, Overstrike <- FALSE, ClearHomes <- TRUE,
    cells <- [r \in 0 .. (VGA_MAX_ROWS - 1) |->
                [x \in 0 .. (VGA_MAX_COLS - 1) |->
                   {vga_memory[Position(x, r)]} \ {space}]],
    col <- cursor_x, row <- cursor_y

ImplementsScreen == Screen!Spec
=============================================================================
