-------------------------------- MODULE Rgb --------------------------------
(***************************************************************************)
(* src/src/drivers/console/rgb.c: a terminal painted into the frame buffer *)
(* of the firmware (struct framebuffer fb).  One action per call of        *)
(* rgb_putc32 (by class of character), rgb_clear32 and rgb_scroll; the 16  *)
(* and 24 bit variants differ in the bytes of a pixel and in Clear.        *)
(*                                                                         *)
(* A pixel is 0 (black) or 1 (lit) and an address counts pixels, so that a *)
(* scan line is Pitch addresses of which the first Width are displayed.    *)
(* The uint32_t of the cursor, in cells and in pixels, is modulo UintMod;  *)
(* the byte counts and offsets of rgb_scroll and rgb_putpixel are not: no  *)
(* frame buffer takes 4 GiB.                                               *)
(***************************************************************************)
EXTENDS MemOps

CONSTANTS
  Width, Height,   (* fb.width, fb.height                                  *)
  Pitch,           (* pixels per scan line: fb.pitch by bytes per pixel    *)
  CharW, CharH,    (* RGB_CHAR_WIDTH, RGB_CHAR_HEIGHT: 8 and 16            *)
  Char, Glyph,     (* the printable characters, and font8x16: the lit dots *)
  Bpp,             (* which variant: 16, 24 or 32                          *)
  UintMod          (* 2^32                                                 *)

Offsets == (0 .. (CharW - 1)) \X (0 .. (CharH - 1))

ASSUME RgbAssumption ==
  /\ CharW \in Nat \ {0} /\ CharH \in Nat \ {0}
  /\ Width \in Nat /\ CharW <= Width /\ Height \in Nat /\ CharH <= Height
  /\ Pitch \in Nat /\ Width <= Pitch
  /\ Glyph \in [Char -> SUBSET Offsets]
  /\ Bpp \in {16, 24, 32}
  /\ UintMod \in Nat /\ UintMod % CharH = 0
  /\ Width + CharW <= UintMod /\ Height + CharH <= UintMod

VARIABLES
  vram,      (* the frame buffer                                           *)
  cursor_x,  (* the cursor, in cells; cursor_y may be below the screen     *)
  cursor_y

vars == <<vram, cursor_x, cursor_y>>

total == Pitch * Height
scroll == CharH * Pitch

max_cols == Width \div CharW
max_rows == Height \div CharH

Address(x, y) == y * Pitch + x

(* A plausible bug: the clipping test off by one. *)
MutOnScreen(x, y) == x <= Width /\ y <= Height

(* if (x >= fb.width || y >= fb.height) return; *)
OnScreen(x, y) == x < Width /\ y < Height

(* rgb_putpixel for each of the dots. *)
Painted(v, dots, ink) ==
  LET hit == {Address(d[1], d[2]) : d \in {e \in dots : OnScreen(e[1], e[2])}}
  IN  [a \in DOMAIN v \cup hit |-> IF a \in hit THEN ink ELSE v[a]]

(* The dots at the given offsets in the cell (x, y). *)
CellDots(x, y, offs) ==
  {<<(x * CharW + o[1]) % UintMod, (y * CharH + o[2]) % UintMod>> : o \in offs}

(* A plausible bug: the last row is left on the screen twice. *)
MutScrolled(v) == Moved(v, 0, scroll, total - scroll)

(* rgb_scroll: memmove one row of characters up, memset the last one. *)
Scrolled(v) ==
  Filled(Moved(v, 0, scroll, total - scroll), total - scroll, 0, scroll)

(* What kernel_main's console_clear leaves. *)
Init ==
  /\ vram = [a \in 0 .. (total - 1) |-> 0]
  /\ cursor_x = 0 /\ cursor_y = 0

-----------------------------------------------------------------------------
(* The operations. *)

(* A plausible bug: the row below the last is taken for a row. *)
MutSettle(v) == vram' = IF cursor_y' > max_rows THEN Scrolled(v) ELSE v

(* if (cursor_y >= max_rows) rgb_scroll();   the end of rgb_putc *)
Settle(v) == vram' = IF cursor_y' >= max_rows THEN Scrolled(v) ELSE v

(* A plausible bug: one column too many. *)
MutAtLineEnd == cursor_x + 1 > max_cols

(* cursor_x++; if (cursor_x >= max_cols) *)
AtLineEnd == cursor_x + 1 >= max_cols

NextRow == cursor_x' = 0 /\ cursor_y' = (cursor_y + 1) % UintMod

PrintChar(ch) ==
  /\ IF AtLineEnd
       THEN NextRow
       ELSE cursor_x' = cursor_x + 1 /\ UNCHANGED cursor_y
  /\ Settle(Painted(vram, CellDots(cursor_x, cursor_y, Glyph[ch]), 1))

NewLine == NextRow /\ Settle(vram)

CarriageReturn == cursor_x' = 0 /\ UNCHANGED cursor_y /\ Settle(vram)

(* Any other control character, or one above 126: only the trailing scroll. *)
OtherChar == UNCHANGED <<cursor_x, cursor_y>> /\ Settle(vram)

(* A plausible bug: the cell the cursor leaves is erased. *)
MutErase == vram' = Painted(vram, CellDots(cursor_x, cursor_y, Offsets), 0)

Erase == vram' = Painted(vram, CellDots(cursor_x', cursor_y', Offsets), 0)

(* A plausible bug: no way back from the first column. *)
MutBackspace ==
  \/ cursor_x > 0 /\ cursor_x' = cursor_x - 1 /\ UNCHANGED cursor_y /\ Erase
  \/ cursor_x = 0 /\ UNCHANGED vars

(* '\b' returns early: at the origin at once, otherwise before the scroll. *)
Backspace ==
  \/ cursor_x > 0 /\ cursor_x' = cursor_x - 1 /\ UNCHANGED cursor_y /\ Erase
  \/ /\ cursor_x = 0 /\ cursor_y > 0
     /\ cursor_x' = max_cols - 1 /\ cursor_y' = cursor_y - 1 /\ Erase
  \/ cursor_x = 0 /\ cursor_y = 0 /\ UNCHANGED vars

(* Only rgb_clear32 moves the cursor. *)
Clear ==
  /\ vram' = Filled(vram, 0, 0, total)
  /\ IF Bpp = 32 THEN cursor_x' = 0 /\ cursor_y' = 0
                 ELSE UNCHANGED <<cursor_x, cursor_y>>

Scroll == vram' = Scrolled(vram) /\ UNCHANGED <<cursor_x, cursor_y>>

putc ==
  \/ \E ch \in Char : PrintChar(ch)
  \/ NewLine \/ CarriageReturn \/ Backspace \/ OtherChar

Next == putc \/ Clear \/ Scroll

Spec == Init /\ [][Next]_vars

-----------------------------------------------------------------------------
(* Properties. *)

(* No store outside the frame buffer: the domain of vram stays what it is. *)
TypeOK ==
  /\ vram \in [0 .. (total - 1) -> {0, 1}]
  /\ cursor_x \in 0 .. (max_cols - 1)
  /\ cursor_y \in 0 .. (UintMod - 1)

(* Nothing is ever painted right of the last whole column of characters:   *)
(* neither in the cut cell of a width that is no multiple of CharW nor in  *)
(* the undisplayed end of a scan line, which the scroll moves along.       *)
MarginBlank ==
  \A y \in 0 .. (Height - 1), x \in (max_cols * CharW) .. (Pitch - 1) :
    vram[Address(x, y)] = 0

(* Between two calls the scan lines below the last whole row of characters *)
(* are black: a character printed there, cut, is scrolled away at once.    *)
StripBlank ==
  \A y \in (max_rows * CharH) .. (Height - 1), x \in 0 .. (Pitch - 1) :
    vram[Address(x, y)] = 0

(* The inductive invariant of Rgb_proofs. *)
IInv == TypeOK /\ MarginBlank /\ StripBlank

(* The cells as the terminal specification sees them. *)
Ink(r, x) ==
  {o \in Offsets : vram[Address(x * CharW + o[1], r * CharH + o[2])] = 1}

Screen ==
  INSTANCE TextScreen WITH
    Cols <- max_cols, Rows <- max_rows,
    RowMod <- UintMod, RowPeriod <- UintMod \div CharH,
    SnapBack <- FALSE, Overstrike <- TRUE, ClearHomes <- (Bpp = 32),
    cells <- [r \in 0 .. (max_rows - 1) |->
                [x \in 0 .. (max_cols - 1) |-> Ink(r, x)]],
    col <- cursor_x, row <- cursor_y

(* On a screen of whole rows, and with uint32_t a whole number of rows too, *)
(* the pixels are those of a terminal that overstrikes and does not bring   *)
(* its cursor back when it scrolls.                                         *)
ImplementsScreen == Screen!Spec
=============================================================================
