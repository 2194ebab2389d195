----------------------------- MODULE Vga_proofs -----------------------------
(***************************************************************************)
(* Proofs about Vga: for every size of the text screen no store leaves the *)
(* text buffer, the cursor shown is not behind the driver's, and vga.c     *)
(* implements the terminal of TextScreen.                                  *)
(***************************************************************************)
EXTENDS VgaHistory, TLAPS

Columns == 0 .. (VGA_MAX_COLS - 1)
Lines == 0 .. (VGA_MAX_ROWS - 1)
Memory == [0 .. (size - 1) -> Char]

(* The cells a text buffer shows; Screen is about those of vga_memory. *)
Cells(m) ==
  [r \in Lines |-> [x \in Columns |-> {m[Position(x, r)]} \ {space}]]

-----------------------------------------------------------------------------
(* Arithmetic: positions in the text buffer. *)

LEMMA RowsApart ==
  ASSUME NEW a \in Nat, NEW b \in Nat, NEW c \in Nat, a < b
  PROVE  a * c \in Nat /\ b * c \in Nat /\ a * c + c <= b * c
<1>1. PICK d \in Nat : b = a + 1 + d
  <2>1. b - a - 1 \in Nat /\ b = a + 1 + (b - a - 1)
    OBVIOUS
  <2>. QED
    BY <2>1
<1>2. b * c = a * c + c + d * c /\ d * c \in Nat /\ a * c \in Nat
  BY <1>1
<1>. QED
  BY <1>2

LEMMA Sizes ==
  /\ size \in Nat /\ last_row \in Nat /\ last_row + VGA_MAX_COLS = size
  /\ VGA_MAX_COLS \in Nat \ {0} /\ VGA_MAX_ROWS \in Nat \ {0}
<1>1. VGA_MAX_COLS \in Nat \ {0} /\ VGA_MAX_ROWS \in Nat \ {0}
  BY VgaAssumption
<1>2. VGA_MAX_ROWS - 1 \in Nat
  BY <1>1
<1>3. size = VGA_MAX_COLS * (VGA_MAX_ROWS - 1) + VGA_MAX_COLS
  BY <1>1 DEF size
<1>4. VGA_MAX_COLS * (VGA_MAX_ROWS - 1) \in Nat
  BY <1>1, <1>2
<1>. QED
  BY <1>1, <1>3, <1>4 DEF last_row

(* A cell has its place in the buffer; below it, one row further, is the   *)
(* cell under it; the last VGA_MAX_COLS places are the last row.           *)
LEMMA PositionInside ==
  ASSUME NEW x \in Columns, NEW y \in Lines
  PROVE  /\ Position(x, y) \in 0 .. (size - 1)
         /\ Position(x, y + 1) = Position(x, y) + VGA_MAX_COLS
         /\ Position(x, y) < last_row <=> y < VGA_MAX_ROWS - 1
<1>1. /\ y * VGA_MAX_COLS \in Nat
      /\ y * VGA_MAX_COLS + VGA_MAX_COLS <= VGA_MAX_ROWS * VGA_MAX_COLS
  BY Sizes, RowsApart DEF Lines
<1>2. VGA_MAX_ROWS * VGA_MAX_COLS = size
  BY Sizes DEF size
<1>3. Position(x, y) \in 0 .. (size - 1)
  BY <1>1, <1>2, Sizes DEF Position, Columns
<1>4. (y + 1) * VGA_MAX_COLS = y * VGA_MAX_COLS + VGA_MAX_COLS
  BY Sizes DEF Lines
<1>5. Position(x, y + 1) = Position(x, y) + VGA_MAX_COLS
  BY <1>1, <1>4, Sizes DEF Position, Columns
<1>6. (VGA_MAX_ROWS - 1) * VGA_MAX_COLS = last_row
  BY Sizes DEF last_row
<1>7. CASE y < VGA_MAX_ROWS - 1
  <2>1. y * VGA_MAX_COLS + VGA_MAX_COLS <= (VGA_MAX_ROWS - 1) * VGA_MAX_COLS
    BY <1>7, Sizes, RowsApart DEF Lines
  <2>. QED
    BY <1>1, <1>3, <1>5, <1>6, <1>7, <2>1, Sizes DEF Position, Columns
<1>8. CASE y = VGA_MAX_ROWS - 1
  BY <1>1, <1>3, <1>5, <1>6, <1>8, Sizes DEF Position, Columns
<1>. QED
  BY <1>3, <1>5, <1>7, <1>8, Sizes DEF Lines

LEMMA PositionUnique ==
  ASSUME NEW x1 \in Columns, NEW y1 \in Lines,
         NEW x2 \in Columns, NEW y2 \in Lines,
         Position(x1, y1) = Position(x2, y2)
  PROVE  x1 = x2 /\ y1 = y2
<1>1. ASSUME y1 < y2 PROVE FALSE
  <2>1. y1 * VGA_MAX_COLS \in Nat /\ y2 * VGA_MAX_COLS \in Nat
        /\ y1 * VGA_MAX_COLS + VGA_MAX_COLS <= y2 * VGA_MAX_COLS
    BY <1>1, Sizes, RowsApart DEF Lines
  <2>. QED
    BY <2>1, Sizes DEF Position, Columns
<1>2. ASSUME y2 < y1 PROVE FALSE
  <2>1. y1 * VGA_MAX_COLS \in Nat /\ y2 * VGA_MAX_COLS \in Nat
        /\ y2 * VGA_MAX_COLS + VGA_MAX_COLS <= y1 * VGA_MAX_COLS
    BY <1>2, Sizes, RowsApart DEF Lines
  <2>. QED
    BY <2>1, Sizes DEF Position, Columns
<1>3. y1 = y2
  BY <1>1, <1>2 DEF Lines
<1>4. y1 * VGA_MAX_COLS \in Int
  BY Sizes DEF Lines
<1>. QED
  BY <1>3, <1>4, Sizes DEF Position, Columns

-----------------------------------------------------------------------------
(* What a store, a scroll and a clear do to the buffer and to its cells. *)

LEMMA StoredIs ==
  ASSUME NEW m \in Memory, NEW q \in 0 .. (size - 1), NEW ch
  PROVE  Filled(m, q, ch, 1) = [m EXCEPT ![q] = ch]
<1>1. Span(q, 1) = {q}
  BY Sizes DEF Span
<1>2. DOMAIN m = 0 .. (size - 1) /\ DOMAIN m \cup {q} = 0 .. (size - 1)
  BY DEF Memory
<1>3. Filled(m, q, ch, 1) = [a \in 0 .. (size - 1) |-> IF a = q THEN ch ELSE m[a]]
  BY <1>1, <1>2 DEF Filled
<1>. QED
  BY <1>2, <1>3

LEMMA StoreKeepsBuffer ==
  ASSUME NEW m \in Memory, NEW x \in Columns, NEW y \in Lines, NEW ch \in Char
  PROVE  /\ Filled(m, Position(x, y), ch, 1) \in Memory
         /\ Cells(Filled(m, Position(x, y), ch, 1)) =
              [Cells(m) EXCEPT ![y][x] = {ch} \ {space}]
<1> DEFINE f == Filled(m, Position(x, y), ch, 1)
<1>1. Position(x, y) \in 0 .. (size - 1)
  BY PositionInside
<1>2. f = [a \in 0 .. (size - 1) |-> IF a = Position(x, y) THEN ch ELSE m[a]]
  <2>1. f = [m EXCEPT ![Position(x, y)] = ch]
    BY <1>1, StoredIs, Zenon
  <2>. QED
    BY <1>1, <2>1 DEF Memory
<1> HIDE DEF f
<1>3. f \in Memory
  BY <1>2 DEF Memory
<1>4. \A r \in Lines : Cells(f)[r] = [Cells(m) EXCEPT ![y][x] = {ch} \ {space}][r]
  <2> SUFFICES ASSUME NEW r \in Lines
               PROVE  Cells(f)[r] = [Cells(m) EXCEPT ![y][x] = {ch} \ {space}][r]
    OBVIOUS
  <2> DEFINE g == [Cells(m) EXCEPT ![y][x] = {ch} \ {space}]
  <2>1. g[r] = [z \in Columns |-> IF r = y /\ z = x THEN {ch} \ {space}
                                  ELSE {m[Position(z, r)]} \ {space}]
    BY DEF Cells
  <2>2. \A z \in Columns :
          f[Position(z, r)] = IF r = y /\ z = x THEN ch ELSE m[Position(z, r)]
    BY <1>2, PositionInside, PositionUnique
  <2> HIDE DEF g
  <2>3. Cells(f)[r] = [z \in Columns |-> {f[Position(z, r)]} \ {space}]
    BY DEF Cells
  <2>4. Cells(f)[r] = g[r]
    BY <2>1, <2>2, <2>3
  <2>. QED
    BY <2>4 DEF g
<1>5. Cells(f) = [Cells(m) EXCEPT ![y][x] = {ch} \ {space}]
  BY <1>4 DEF Cells
<1>. QED
  BY <1>3, <1>5 DEF f

LEMMA ScrolledIs ==
  ASSUME NEW m \in Memory
  PROVE  Scrolled(m) =
           [a \in 0 .. (size - 1) |-> IF a < last_row THEN m[a + VGA_MAX_COLS]
                                      ELSE space]
<1> DEFINE v == Moved(m, 0, VGA_MAX_COLS, last_row)
<1>1. v = [a \in 0 .. (size - 1) |-> IF a < last_row THEN m[a + VGA_MAX_COLS]
                                     ELSE m[a]]
  <2>1. Span(0, last_row) = {a \in 0 .. (size - 1) : a < last_row}
    BY Sizes DEF Span
  <2>2. DOMAIN m \cup Span(0, last_row) = 0 .. (size - 1)
    BY <2>1 DEF Memory
  <2>3. \A a \in 0 .. (size - 1) : VGA_MAX_COLS + (a - 0) = a + VGA_MAX_COLS
    BY Sizes
  <2>. QED
    BY <2>1, <2>2, <2>3 DEF Moved
<1>2. Span(last_row, VGA_MAX_COLS) = {a \in 0 .. (size - 1) : ~(a < last_row)}
  BY Sizes DEF Span
<1>3. DOMAIN v \cup Span(last_row, VGA_MAX_COLS) = 0 .. (size - 1)
  BY <1>1, <1>2
<1> HIDE DEF v
<1>4. Filled(v, last_row, space, VGA_MAX_COLS) =
        [a \in 0 .. (size - 1) |-> IF a < last_row THEN m[a + VGA_MAX_COLS]
                                   ELSE space]
  BY <1>1, <1>2, <1>3 DEF Filled
<1>. QED
  BY <1>4 DEF Scrolled, v

LEMMA ScrollKeepsBuffer ==
  ASSUME NEW m \in Memory
  PROVE  /\ Scrolled(m) \in Memory
         /\ Cells(Scrolled(m)) = Screen!ScrolledUp(Cells(m))
<1>1. Scrolled(m) =
        [a \in 0 .. (size - 1) |-> IF a < last_row THEN m[a + VGA_MAX_COLS]
                                   ELSE space]
  BY ScrolledIs
<1>2. \A a \in 0 .. (size - 1) : a < last_row => a + VGA_MAX_COLS \in 0 .. (size - 1)
  BY Sizes
<1>3. Scrolled(m) \in Memory
  BY <1>1, <1>2, VgaAssumption DEF Memory
<1>4. ASSUME NEW r \in Lines
      PROVE  Cells(Scrolled(m))[r] =
               IF r < VGA_MAX_ROWS - 1 THEN Cells(m)[r + 1] ELSE Screen!BlankRow
  <2>1. \A x \in Columns :
          Scrolled(m)[Position(x, r)] =
            IF r < VGA_MAX_ROWS - 1 THEN m[Position(x, r + 1)] ELSE space
    BY <1>1, PositionInside
  <2>2. Cells(Scrolled(m))[r] =
          [x \in Columns |-> {Scrolled(m)[Position(x, r)]} \ {space}]
    BY DEF Cells
  <2>3. CASE r < VGA_MAX_ROWS - 1
    <3>1. r + 1 \in Lines
      BY <2>3, Sizes DEF Lines
    <3>2. Cells(m)[r + 1] = [x \in Columns |-> {m[Position(x, r + 1)]} \ {space}]
      BY <3>1 DEF Cells
    <3>. QED
      BY <2>1, <2>2, <2>3, <3>2
  <2>4. CASE ~(r < VGA_MAX_ROWS - 1)
    <3>1. Screen!BlankRow = [x \in Columns |-> {}]
      BY DEF Screen!BlankRow, Columns
    <3>. QED
      BY <2>1, <2>2, <2>4, <3>1
  <2>. QED
    BY <2>3, <2>4
<1>5. Cells(Scrolled(m)) = Screen!ScrolledUp(Cells(m))
  BY <1>4 DEF Screen!ScrolledUp, Cells, Lines
<1>. QED
  BY <1>3, <1>5

LEMMA BlankBuffer ==
  ASSUME NEW m, m = [a \in 0 .. (size - 1) |-> space]
  PROVE  m \in Memory /\ Cells(m) = Screen!BlankScreen
<1>1. m \in Memory
  BY VgaAssumption DEF Memory
<1>2. \A r \in Lines, x \in Columns : m[Position(x, r)] = space
  BY PositionInside
<1>3. Cells(m) = [r \in Lines |-> [x \in Columns |-> {}]]
  BY <1>2 DEF Cells
<1>. QED
  BY <1>1, <1>3 DEF Screen!BlankScreen, Screen!BlankRow, Lines, Columns

LEMMA ClearBlanks ==
  ASSUME NEW m \in Memory
  PROVE  Filled(m, 0, space, size) = [a \in 0 .. (size - 1) |-> space]
<1>1. Span(0, size) = 0 .. (size - 1)
  BY Sizes DEF Span
<1>. QED
  BY <1>1 DEF Filled, Memory

-----------------------------------------------------------------------------
(* The invariant. *)

(* Wherever the end of vga_putc is reached with the cursor on the screen,  *)
(* or just below it.                                                       *)
LEMMA SettleKeepsIInv ==
  ASSUME NEW m \in Memory, NEW x \in Columns, NEW y \in Lines \cup {VGA_MAX_ROWS},
         Settle(m, x, y)
  PROVE  IInv'
<1>1. CASE Below(y) /\ ScrollOf(m)
  <2>1. /\ vga_memory' \in Memory /\ cursor_x' = 0 /\ cursor_y' = VGA_MAX_ROWS - 1
        /\ hw_cursor' = Position(cursor_x', cursor_y')
    BY <1>1, ScrollKeepsBuffer DEF ScrollOf, update_cursor
  <2>2. 0 \in Columns /\ VGA_MAX_ROWS - 1 \in Lines
    BY Sizes DEF Columns, Lines
  <2>3. hw_cursor' \in 0 .. (size - 1)
    BY <2>1, <2>2, PositionInside
  <2>4. Position(cursor_x, cursor_y)' = Position(cursor_x', cursor_y')
    BY DEF Position
  <2>. QED
    BY <2>1, <2>2, <2>3, <2>4
    DEF IInv, TypeOK, HwCursorNotBehind, Memory, Columns, Lines
<1>2. CASE ~Below(y) /\ vga_memory' = m /\ cursor_x' = x /\ cursor_y' = y
           /\ update_cursor
  <2>1. y \in Lines
    BY <1>2, Sizes DEF Below, Lines
  <2>2. hw_cursor' = Position(cursor_x', cursor_y') /\ hw_cursor' \in 0 .. (size - 1)
    BY <1>2, <2>1, PositionInside DEF update_cursor
  <2>3. Position(cursor_x, cursor_y)' = Position(cursor_x', cursor_y')
    BY DEF Position
  <2>. QED
    BY <1>2, <2>1, <2>2, <2>3
    DEF IInv, TypeOK, HwCursorNotBehind, Memory, Columns, Lines
<1>. QED
  BY <1>1, <1>2 DEF Settle

(* The cursor moves one cell back, and the one shown stays.                *)
LEMMA ErasingKeepsIInv ==
  ASSUME IInv, NEW x \in Columns, NEW y \in Lines,
         Position(x, y) <= Position(cursor_x, cursor_y),
         cursor_x' = x, cursor_y' = y,
         vga_memory' = Stored(cursor_x', cursor_y', space), UNCHANGED hw_cursor
  PROVE  IInv'
<1>1. vga_memory \in Memory /\ hw_cursor \in 0 .. (size - 1)
      /\ cursor_x \in Columns /\ cursor_y \in Lines
  BY DEF IInv, TypeOK, Memory, Columns, Lines
<1>2. vga_memory' \in Memory
  BY <1>1, StoreKeepsBuffer, VgaAssumption DEF Stored
<1>3. Position(x, y) <= hw_cursor
  <2>1. /\ Position(x, y) \in 0 .. (size - 1)
        /\ Position(cursor_x, cursor_y) \in 0 .. (size - 1)
    BY <1>1, PositionInside
  <2>2. Position(cursor_x, cursor_y) <= hw_cursor
    BY DEF IInv, HwCursorNotBehind
  <2>. QED
    BY <1>1, <2>1, <2>2, Sizes
<1>4. Position(cursor_x, cursor_y)' = Position(x, y)
  BY DEF Position
<1>. QED
  BY <1>1, <1>2, <1>3, <1>4 DEF IInv, TypeOK, HwCursorNotBehind, Memory, Columns, Lines

(* Going back from the start of a row leads to a lower position.           *)
LEMMA PositionBack ==
  ASSUME NEW x \in Columns, NEW y \in Lines
  PROVE  /\ x > 0 => x - 1 \in Columns /\ Position(x - 1, y) <= Position(x, y)
         /\ y > 0 => /\ VGA_MAX_COLS - 1 \in Columns /\ y - 1 \in Lines
                     /\ Position(VGA_MAX_COLS - 1, y - 1) <= Position(0, y)
<1>1. ASSUME x > 0 PROVE x - 1 \in Columns /\ Position(x - 1, y) <= Position(x, y)
  <2>1. y * VGA_MAX_COLS \in Int
    BY Sizes DEF Lines
  <2>. QED
    BY <1>1, <2>1, Sizes DEF Position, Columns
<1>2. ASSUME y > 0
      PROVE  /\ VGA_MAX_COLS - 1 \in Columns /\ y - 1 \in Lines
             /\ Position(VGA_MAX_COLS - 1, y - 1) <= Position(0, y)
  <2>1. /\ (y - 1) * VGA_MAX_COLS \in Nat /\ y * VGA_MAX_COLS \in Nat
        /\ (y - 1) * VGA_MAX_COLS + VGA_MAX_COLS <= y * VGA_MAX_COLS
    BY <1>2, RowsApart, Sizes DEF Lines
  <2>. QED
    BY <1>2, <2>1, Sizes DEF Position, Columns, Lines
<1>. QED
  BY <1>1, <1>2

LEMMA InitIInv == Init => IInv
<1> SUFFICES ASSUME Init PROVE IInv
  OBVIOUS
<1>1. vga_memory \in Memory
  BY BlankBuffer DEF Init
<1>2. 0 \in Columns /\ 0 \in Lines /\ Position(0, 0) \in 0 .. (size - 1)
  BY PositionInside, Sizes DEF Columns, Lines
<1>3. Position(0, 0) = 0
  BY Sizes DEF Position
<1>. QED
  BY <1>1, <1>2, <1>3 DEF IInv, TypeOK, HwCursorNotBehind, Init, Memory, Columns, Lines

LEMMA StepIInv == IInv /\ [Next]_vars => IInv'
<1> SUFFICES ASSUME IInv, [Next]_vars PROVE IInv'
  OBVIOUS
<1>0. /\ vga_memory \in Memory /\ cursor_x \in Columns /\ cursor_y \in Lines
      /\ 0 \in Columns
  BY Sizes DEF IInv, TypeOK, Memory, Columns, Lines
<1>1. ASSUME NEW ch \in Char, PrintChar(ch) PROVE IInv'
  <2>1. Stored(cursor_x, cursor_y, ch) \in Memory
    BY <1>0, StoreKeepsBuffer DEF Stored
  <2>2. CASE cursor_x + 1 >= VGA_MAX_COLS
    <3>1. cursor_y + 1 \in Lines \cup {VGA_MAX_ROWS}
      BY <1>0, Sizes DEF Lines
    <3>2. Settle(Stored(cursor_x, cursor_y, ch), 0, cursor_y + 1)
      BY <1>1, <2>2 DEF PrintChar
    <3>. QED
      BY <1>0, <2>1, <3>1, <3>2, SettleKeepsIInv
  <2>3. CASE ~(cursor_x + 1 >= VGA_MAX_COLS)
    <3>1. cursor_x + 1 \in Columns
      BY <1>0, <2>3, Sizes DEF Columns
    <3>2. Settle(Stored(cursor_x, cursor_y, ch), cursor_x + 1, cursor_y)
      BY <1>1, <2>3 DEF PrintChar
    <3>. QED
      BY <1>0, <2>1, <3>1, <3>2, SettleKeepsIInv
  <2>. QED
    BY <2>2, <2>3
<1>2. CASE NewLine
  <2>1. cursor_y + 1 \in Lines \cup {VGA_MAX_ROWS}
    BY <1>0, Sizes DEF Lines
  <2>. QED
    BY <1>0, <1>2, <2>1, SettleKeepsIInv DEF NewLine
<1>3. CASE CarriageReturn
  BY <1>0, <1>3, SettleKeepsIInv DEF CarriageReturn
<1>4. CASE OtherChar
  BY <1>0, <1>4, SettleKeepsIInv DEF OtherChar
<1>5. CASE Backspace
  <2>1. CASE /\ cursor_x > 0
             /\ cursor_x' = cursor_x - 1 /\ UNCHANGED <<cursor_y, hw_cursor>>
             /\ vga_memory' = Stored(cursor_x', cursor_y', space)
    <3>1. cursor_x - 1 \in Columns
          /\ Position(cursor_x - 1, cursor_y) <= Position(cursor_x, cursor_y)
      BY <1>0, <2>1, PositionBack
    <3>. QED
      BY <1>0, <2>1, <3>1, ErasingKeepsIInv
  <2>2. CASE /\ cursor_x = 0 /\ cursor_y > 0
             /\ cursor_x' = VGA_MAX_COLS - 1 /\ cursor_y' = cursor_y - 1
             /\ vga_memory' = Stored(cursor_x', cursor_y', space)
             /\ UNCHANGED hw_cursor
    <3>1. /\ VGA_MAX_COLS - 1 \in Columns /\ cursor_y - 1 \in Lines
          /\ Position(VGA_MAX_COLS - 1, cursor_y - 1) <= Position(cursor_x, cursor_y)
      BY <1>0, <2>2, PositionBack
    <3>. QED
      BY <2>2, <3>1, ErasingKeepsIInv
  <2>3. CASE UNCHANGED vars
    BY <2>3 DEF IInv, TypeOK, HwCursorNotBehind, Position, vars
  <2>. QED
    BY <1>5, <2>1, <2>2, <2>3 DEF Backspace
<1>6. CASE vga_clear
  <2>1. vga_memory' \in Memory
    BY <1>0, <1>6, BlankBuffer, ClearBlanks DEF vga_clear
  <2>2. cursor_x' = 0 /\ cursor_y' = 0 /\ hw_cursor' = Position(cursor_x', cursor_y')
    BY <1>6 DEF vga_clear, update_cursor
  <2>3. 0 \in Lines
    BY Sizes DEF Lines
  <2>4. hw_cursor' \in 0 .. (size - 1)
    BY <1>0, <2>2, <2>3, PositionInside
  <2>5. Position(cursor_x, cursor_y)' = Position(cursor_x', cursor_y')
    BY DEF Position
  <2>. QED
    BY <1>0, <2>1, <2>2, <2>3, <2>4, <2>5
    DEF IInv, TypeOK, HwCursorNotBehind, Memory, Columns, Lines
<1>7. CASE vga_scroll
  <2>1. Settle(vga_memory, 0, VGA_MAX_ROWS)
    BY <1>7, Sizes DEF vga_scroll, Settle, Below
  <2>. QED
    BY <1>0, <2>1, SettleKeepsIInv
<1>8. CASE UNCHANGED vars
  BY <1>8 DEF IInv, TypeOK, HwCursorNotBehind, Position, vars
<1>. QED
  BY <1>1, <1>2, <1>3, <1>4, <1>5, <1>6, <1>7, <1>8 DEF Next, vga_putc

LEMMA Invariance == Spec => []IInv
<1>. QED
  BY InitIInv, StepIInv, PTL DEF Spec

(* Whatever is printed, no store leaves the text buffer, and between two   *)
(* calls of vga.c the cursor is on the screen (vga.c:42-72).               *)
THEOREM TypeCorrect == Spec => []TypeOK
<1>1. IInv => TypeOK
  BY DEF IInv
<1>. QED
  BY Invariance, <1>1, PTL

(* The cursor the CRT controller shows is never behind the cursor of the   *)
(* driver (vga.c:56), on every size of screen.                             *)
THEOREM CursorNotBehind == Spec => []HwCursorNotBehind
<1>1. IInv => HwCursorNotBehind
  BY DEF IInv
<1>. QED
  BY Invariance, <1>1, PTL

-----------------------------------------------------------------------------
(* Refinement: each call of vga.c is the call of the same name of the      *)
(* terminal, or nothing where a backspace finds nothing to erase.          *)

LEMMA SettleMoves ==
  ASSUME NEW m \in Memory, NEW x \in Columns, NEW y \in Lines \cup {VGA_MAX_ROWS},
         NEW cs, cs = Cells(m), Settle(m, x, y)
  PROVE  Screen!MoveTo(cs, x, y)
<1>1. CASE Below(y) /\ ScrollOf(m)
  <2>1. /\ vga_memory' = Scrolled(m) /\ cursor_x' = 0 /\ cursor_y' = VGA_MAX_ROWS - 1
    BY <1>1 DEF ScrollOf
  <2>2. Cells(vga_memory') = Screen!ScrolledUp(cs)
    BY <2>1, ScrollKeepsBuffer
  <2>3. y >= VGA_MAX_ROWS
    BY <1>1 DEF Below
  <2>. QED
    BY <2>1, <2>2, <2>3 DEF Screen!MoveTo, Cells, Lines, Columns
<1>2. CASE ~Below(y) /\ vga_memory' = m /\ cursor_x' = x /\ cursor_y' = y
           /\ update_cursor
  <2>1. y < VGA_MAX_ROWS
    BY <1>2, Sizes DEF Below, Lines
  <2>2. Cells(vga_memory') = cs
    BY <1>2
  <2>. QED
    BY <1>2, <2>1, <2>2 DEF Screen!MoveTo, Cells, Lines, Columns
<1>. QED
  BY <1>1, <1>2 DEF Settle

(* A row of the screen is displayed in its own place.                      *)
LEMMA RowsInPlace ==
  ASSUME NEW y \in Lines
  PROVE  /\ Screen!Place(y) = y /\ Screen!Shown(y)
         /\ (y + 1) % (VGA_MAX_ROWS + 1) = y + 1
<1>1. y \in Nat /\ VGA_MAX_ROWS \in Nat /\ y < VGA_MAX_ROWS
  BY Sizes DEF Lines
<1>2. y % (VGA_MAX_ROWS + 1) = y /\ (y + 1) % (VGA_MAX_ROWS + 1) = y + 1
  BY <1>1
<1>. QED
  BY <1>1, <1>2 DEF Screen!Place, Screen!Shown

(* A store in the cell (x, y) is the terminal's write of it.               *)
LEMMA StoreWrites ==
  ASSUME vga_memory \in Memory, NEW x \in Columns, NEW y \in Lines, NEW ch \in Char
  PROVE  /\ Stored(x, y, ch) \in Memory
         /\ Cells(Stored(x, y, ch)) = Screen!Written(x, y, {ch} \ {space})
<1>1. Screen!Written(x, y, {ch} \ {space}) =
        [Cells(vga_memory) EXCEPT ![y][x] = {ch} \ {space}]
  BY RowsInPlace DEF Screen!Written, Cells, Lines, Columns
<1>2. /\ Filled(vga_memory, Position(x, y), ch, 1) \in Memory
      /\ Cells(Filled(vga_memory, Position(x, y), ch, 1)) =
           [Cells(vga_memory) EXCEPT ![y][x] = {ch} \ {space}]
  BY StoreKeepsBuffer
<1>3. Stored(x, y, ch) = Filled(vga_memory, Position(x, y), ch, 1)
  BY DEF Stored
<1>. QED
  BY <1>1, <1>2, <1>3

LEMMA PrintWrites ==
  ASSUME vga_memory \in Memory, cursor_x \in Columns, cursor_y \in Lines,
         NEW ch \in Char
  PROVE  /\ Stored(cursor_x, cursor_y, ch) \in Memory
         /\ Cells(Stored(cursor_x, cursor_y, ch)) = Screen!Printed(ch)
<1>1. Screen!Printed(ch) = Screen!Written(cursor_x, cursor_y, {ch} \ {space})
  BY DEF Screen!Printed
<1>. QED
  BY <1>1, StoreWrites

LEMMA InitOfScreen == Init => Screen!Init
<1> SUFFICES ASSUME Init PROVE Screen!Init
  OBVIOUS
<1>1. Cells(vga_memory) = Screen!BlankScreen
  BY BlankBuffer DEF Init
<1>. QED
  BY <1>1 DEF Init, Screen!Init, Cells, Lines, Columns

LEMMA StepOfScreen == IInv /\ [Next]_vars => [Screen!Next]_(Screen!vars)
<1> SUFFICES ASSUME IInv, [Next]_vars PROVE [Screen!Next]_(Screen!vars)
  OBVIOUS
<1>0. /\ vga_memory \in Memory /\ cursor_x \in Columns /\ cursor_y \in Lines
      /\ 0 \in Columns /\ cursor_y + 1 \in Lines \cup {VGA_MAX_ROWS}
      /\ cursor_y \in Lines \cup {VGA_MAX_ROWS}
  BY Sizes DEF IInv, TypeOK, Memory, Columns, Lines
<1>1. ASSUME NEW ch \in Char, PrintChar(ch) PROVE Screen!PrintChar(ch)
  <2>1. /\ Stored(cursor_x, cursor_y, ch) \in Memory
        /\ Cells(Stored(cursor_x, cursor_y, ch)) = Screen!Printed(ch)
    BY <1>0, PrintWrites
  <2>2. CASE cursor_x + 1 >= VGA_MAX_COLS
    <3>1. Settle(Stored(cursor_x, cursor_y, ch), 0, cursor_y + 1)
      BY <1>1, <2>2 DEF PrintChar
    <3>2. Screen!MoveTo(Screen!Printed(ch), 0, cursor_y + 1)
      BY <1>0, <2>1, <3>1, SettleMoves
    <3>. QED
      BY <1>0, <2>2, <3>2, RowsInPlace DEF Screen!PrintChar
  <2>3. CASE ~(cursor_x + 1 >= VGA_MAX_COLS)
    <3>1. cursor_x + 1 \in Columns
      BY <1>0, <2>3, Sizes DEF Columns
    <3>2. Settle(Stored(cursor_x, cursor_y, ch), cursor_x + 1, cursor_y)
      BY <1>1, <2>3 DEF PrintChar
    <3>3. Screen!MoveTo(Screen!Printed(ch), cursor_x + 1, cursor_y)
      BY <1>0, <2>1, <3>1, <3>2, SettleMoves
    <3>. QED
      BY <2>3, <3>3 DEF Screen!PrintChar
  <2>. QED
    BY <2>2, <2>3
<1>2. ASSUME NewLine PROVE Screen!NewLine
  <2>1. Screen!MoveTo(Cells(vga_memory), 0, cursor_y + 1)
    BY <1>0, <1>2, SettleMoves DEF NewLine
  <2>. QED
    BY <1>0, <2>1, RowsInPlace DEF Screen!NewLine, Cells, Lines, Columns
<1>3. ASSUME CarriageReturn PROVE Screen!Return
  <2>1. Screen!MoveTo(Cells(vga_memory), 0, cursor_y)
    BY <1>0, <1>3, SettleMoves DEF CarriageReturn
  <2>. QED
    BY <2>1 DEF Screen!Return, Cells, Lines, Columns
<1>4. ASSUME OtherChar PROVE Screen!Ignore
  <2>1. Screen!MoveTo(Cells(vga_memory), cursor_x, cursor_y)
    BY <1>0, <1>4, SettleMoves DEF OtherChar
  <2>. QED
    BY <2>1 DEF Screen!Ignore, Cells, Lines, Columns
<1>5. ASSUME Backspace PROVE [Screen!Next]_(Screen!vars)
  <2>0. {space} \ {space} = {} /\ space \in Char
    BY VgaAssumption
  <2>1. CASE /\ cursor_x > 0
             /\ cursor_x' = cursor_x - 1 /\ UNCHANGED <<cursor_y, hw_cursor>>
             /\ vga_memory' = Stored(cursor_x', cursor_y', space)
    <3>1. cursor_x - 1 \in Columns
      BY <1>0, <2>1, PositionBack
    <3>2. Cells(vga_memory') = Screen!Written(cursor_x - 1, cursor_y, {})
      BY <1>0, <2>0, <2>1, <3>1, StoreWrites
    <3>3. Screen!Backspace
      BY <2>1, <3>2 DEF Screen!Backspace, Cells, Lines, Columns
    <3>. QED
      BY <3>3 DEF Screen!Next
  <2>2. CASE /\ cursor_x = 0 /\ cursor_y > 0
             /\ cursor_x' = VGA_MAX_COLS - 1 /\ cursor_y' = cursor_y - 1
             /\ vga_memory' = Stored(cursor_x', cursor_y', space)
             /\ UNCHANGED hw_cursor
    <3>1. VGA_MAX_COLS - 1 \in Columns /\ cursor_y - 1 \in Lines
      BY <1>0, <2>2, PositionBack
    <3>2. Cells(vga_memory') = Screen!Written(VGA_MAX_COLS - 1, cursor_y - 1, {})
      BY <1>0, <2>0, <2>2, <3>1, StoreWrites
    <3>3. Screen!Backspace
      BY <2>2, <3>2 DEF Screen!Backspace, Cells, Lines, Columns
    <3>. QED
      BY <3>3 DEF Screen!Next
  <2>3. CASE UNCHANGED vars
    BY <2>3 DEF vars, Screen!vars, Position
  <2>. QED
    BY <1>5, <2>1, <2>2, <2>3 DEF Backspace
<1>6. ASSUME vga_clear PROVE Screen!Clear
  <2>1. Cells(vga_memory') = Screen!BlankScreen
    BY <1>0, <1>6, BlankBuffer, ClearBlanks DEF vga_clear
  <2>. QED
    BY <1>6, <2>1 DEF vga_clear, Screen!Clear, Cells, Lines, Columns
<1>7. ASSUME vga_scroll PROVE Screen!Scroll
  <2>1. Cells(vga_memory') = Screen!ScrolledUp(Cells(vga_memory))
    BY <1>0, <1>7, ScrollKeepsBuffer DEF vga_scroll, ScrollOf
  <2>. QED
    BY <1>7, <2>1 DEF vga_scroll, ScrollOf, Screen!Scroll, Cells, Lines, Columns
<1>8. CASE UNCHANGED vars
  BY <1>8 DEF vars, Screen!vars, Position
<1>. QED
  BY <1>1, <1>2, <1>3, <1>4, <1>5, <1>6, <1>7, <1>8
  DEF Next, vga_putc, Screen!Next

(* vga.c is a terminal: every call has on the cells of the screen, for     *)
(* every size, the effect of the terminal's call.                          *)
THEOREM VgaImplementsScreen == Spec => ImplementsScreen
<1>1. Spec => Screen!Init /\ [][Screen!Next]_(Screen!vars)
  BY Invariance, InitOfScreen, StepOfScreen, PTL DEF Spec
<1>. QED
  BY <1>1, PTL DEF ImplementsScreen, Screen!Spec

-----------------------------------------------------------------------------
(* What a backspace takes back. *)

(* The screen a backspace leaves of m, from the cursor (x, y). *)
Unprint(m, x, y) ==
  IF x > 0 THEN Filled(m, Position(x - 1, y), space, 1)
  ELSE IF y > 0 THEN Filled(m, Position(VGA_MAX_COLS - 1, y - 1), space, 1)
  ELSE m

(* In every state a backspace would leave what the history says. *)
UnprintOK == \A m \in unprinted : Unprint(vga_memory, cursor_x, cursor_y) = m

LEMMA BackspaceIsUnprint ==
  ASSUME IInv, Backspace
  PROVE  vga_memory' = Unprint(vga_memory, cursor_x, cursor_y)
<1>1. cursor_x \in Nat /\ cursor_y \in Nat
  BY Sizes DEF IInv, TypeOK
<1>2. CASE /\ cursor_x > 0 /\ cursor_x' = cursor_x - 1 /\ cursor_y' = cursor_y
           /\ vga_memory' = Stored(cursor_x', cursor_y', space)
  BY <1>1, <1>2 DEF Unprint, Stored
<1>3. CASE /\ cursor_x = 0 /\ cursor_y > 0
           /\ cursor_x' = VGA_MAX_COLS - 1 /\ cursor_y' = cursor_y - 1
           /\ vga_memory' = Stored(cursor_x', cursor_y', space)
  BY <1>1, <1>3 DEF Unprint, Stored
<1>4. CASE cursor_x = 0 /\ cursor_y = 0 /\ UNCHANGED vars
  BY <1>1, <1>4 DEF Unprint, vars
<1>. QED
  BY <1>2, <1>3, <1>4 DEF Backspace

(* What is stored in a place last is what counts, ... *)
LEMMA StoredTwice ==
  ASSUME NEW m \in Memory, NEW q \in 0 .. (size - 1), NEW ch,
         Filled(m, q, ch, 1) \in Memory
  PROVE  Filled(Filled(m, q, ch, 1), q, space, 1) = Filled(m, q, space, 1)
<1> DEFINE f == Filled(m, q, ch, 1)
<1>1. f = [m EXCEPT ![q] = ch]
  BY StoredIs, Zenon
<1>2. f \in Memory
  OBVIOUS
<1> HIDE DEF f
<1>3. Filled(f, q, space, 1) = [f EXCEPT ![q] = space]
  BY <1>2, StoredIs, Zenon
<1>4. Filled(m, q, space, 1) = [m EXCEPT ![q] = space]
  BY StoredIs, Zenon
<1>5. Filled(f, q, space, 1) = Filled(m, q, space, 1)
  BY <1>1, <1>3, <1>4 DEF Memory
<1>. QED
  BY <1>5 DEF f

(* ... also when the place has moved one row up in between.                *)
LEMMA StoredAbove ==
  ASSUME NEW m \in Memory, NEW x \in Columns, NEW y \in Lines,
         NEW z \in Lines, z = y + 1, NEW ch \in Char
  PROVE  Filled(Scrolled(Filled(m, Position(x, z), ch, 1)), Position(x, y), space, 1) =
           Scrolled(Filled(m, Position(x, z), space, 1))
<1> DEFINE q == Position(x, y)
           p == Position(x, z)
           f == Filled(m, p, ch, 1)
           e == Filled(m, p, space, 1)
<1>1. /\ q \in 0 .. (size - 1) /\ p = q + VGA_MAX_COLS /\ q < last_row
      /\ p \in 0 .. (size - 1)
  BY PositionInside, Sizes DEF Lines
<1>2. /\ f \in Memory /\ e \in Memory
      /\ f = [m EXCEPT ![p] = ch]
      /\ e = [m EXCEPT ![p] = space]
  <2>1. space \in Char
    BY VgaAssumption
  <2>2. f \in Memory /\ e \in Memory
    BY <2>1, StoreKeepsBuffer
  <2> HIDE DEF p
  <2>3. f = [m EXCEPT ![p] = ch]
    BY <1>1, StoredIs, Zenon
  <2>4. e = [m EXCEPT ![p] = space]
    BY <1>1, StoredIs, Zenon
  <2>. QED
    BY <2>2, <2>3, <2>4
<1> HIDE DEF f, e
<1>3. /\ Scrolled(f) \in Memory
      /\ Scrolled(f) = [a \in 0 .. (size - 1) |->
                          IF a < last_row THEN f[a + VGA_MAX_COLS] ELSE space]
      /\ Scrolled(e) = [a \in 0 .. (size - 1) |->
                          IF a < last_row THEN e[a + VGA_MAX_COLS] ELSE space]
  BY <1>2, ScrolledIs, ScrollKeepsBuffer
<1> DEFINE g == Scrolled(f)
           h == Scrolled(e)
<1>. HIDE DEF g
<1>4. Filled(g, q, space, 1) = [g EXCEPT ![q] = space]
  <2>1. g \in Memory
    BY <1>3 DEF g
  <2> HIDE DEF q
  <2>. QED
    BY <1>1, <2>1, StoredIs, Zenon
<1> HIDE DEF h, p, q
<1>5. ASSUME NEW a \in 0 .. (size - 1)
      PROVE  (IF a = q THEN space ELSE g[a]) = h[a]
  <2>1. /\ g[a] = IF a < last_row THEN f[a + VGA_MAX_COLS] ELSE space
        /\ h[a] = IF a < last_row THEN e[a + VGA_MAX_COLS] ELSE space
    BY <1>3 DEF g, h
  <2>2. a < last_row => a + VGA_MAX_COLS \in 0 .. (size - 1)
    BY Sizes
  <2>3. a + VGA_MAX_COLS = p <=> a = q
    BY <1>1, Sizes
  <2>. QED
    BY <1>1, <1>2, <2>1, <2>2, <2>3 DEF Memory
<1>6. Filled(g, q, space, 1) = h
  <2>1. /\ DOMAIN g = 0 .. (size - 1)
        /\ h = [a \in 0 .. (size - 1) |-> h[a]]
    BY <1>3 DEF g, h
  <2>. QED
    BY <1>4, <1>5, <2>1
<1>. QED
  BY <1>6 DEF g, h, f, e, p, q

LEMMA PrintIsUnprinted ==
  ASSUME IInv, NEW ch \in Char, PrintChar(ch)
  PROVE  Unprint(vga_memory', cursor_x', cursor_y') = AsIfSpace
<1> DEFINE x == cursor_x
           y == cursor_y
           f == Stored(x, y, ch)
           e == Stored(x, y, space)
<1>1. /\ vga_memory \in Memory /\ x \in Columns /\ y \in Lines /\ x \in Nat /\ y \in Nat
      /\ VGA_MAX_COLS \in Nat \ {0} /\ VGA_MAX_ROWS \in Nat \ {0}
  BY Sizes DEF IInv, TypeOK, Memory, Columns, Lines
<1>2. Filled(f, Position(x, y), space, 1) = e /\ f \in Memory /\ e \in Memory
  <2>1. f \in Memory /\ e \in Memory
    BY <1>1, StoreKeepsBuffer, VgaAssumption DEF Stored
  <2>2. Position(x, y) \in 0 .. (size - 1)
    BY <1>1, PositionInside
  <2>. QED
    BY <1>1, <2>1, <2>2, StoredTwice DEF Stored
<1>3. AsIfSpace = IF x + 1 >= VGA_MAX_COLS /\ Below(y + 1) THEN Scrolled(e) ELSE e
  BY DEF AsIfSpace
<1>4. IF x + 1 >= VGA_MAX_COLS THEN Settle(f, 0, y + 1) ELSE Settle(f, x + 1, y)
  BY DEF PrintChar
<1> HIDE DEF f, e
<1>5. CASE ~(x + 1 >= VGA_MAX_COLS)
  <2>1. vga_memory' = f /\ cursor_x' = x + 1 /\ cursor_y' = y
    BY <1>1, <1>4, <1>5 DEF Settle, Below, Lines
  <2>2. x + 1 > 0 /\ (x + 1) - 1 = x
    BY <1>1
  <2>. QED
    BY <1>2, <1>3, <1>5, <2>1, <2>2 DEF Unprint
<1>6. CASE x + 1 >= VGA_MAX_COLS /\ ~Below(y + 1)
  <2>1. vga_memory' = f /\ cursor_x' = 0 /\ cursor_y' = y + 1
    BY <1>4, <1>6 DEF Settle
  <2>2. ~(0 > 0) /\ y + 1 > 0 /\ (y + 1) - 1 = y /\ VGA_MAX_COLS - 1 = x
    BY <1>1, <1>6 DEF Columns
  <2>. QED
    BY <1>2, <1>3, <1>6, <2>1, <2>2 DEF Unprint
<1>7. CASE x + 1 >= VGA_MAX_COLS /\ Below(y + 1)
  <2>1. vga_memory' = Scrolled(f) /\ cursor_x' = 0 /\ cursor_y' = VGA_MAX_ROWS - 1
    BY <1>4, <1>7 DEF Settle, ScrollOf
  <2>2. ~(0 > 0) /\ y = VGA_MAX_ROWS - 1 /\ x = VGA_MAX_COLS - 1
    BY <1>1, <1>7 DEF Below, Lines, Columns
  <2>3. CASE VGA_MAX_ROWS = 1
    <3>1. last_row = 0
      BY <1>1, <2>3 DEF last_row
    <3>2. ASSUME NEW m \in Memory
          PROVE  Scrolled(m) = [a \in 0 .. (size - 1) |-> space]
      <4>1. \A a \in 0 .. (size - 1) : ~(a < last_row)
        BY <3>1
      <4>2. Scrolled(m) = [a \in 0 .. (size - 1) |->
                             IF a < last_row THEN m[a + VGA_MAX_COLS] ELSE space]
        BY ScrolledIs
      <4>. QED
        BY <4>1, <4>2
    <3>3. Scrolled(f) = Scrolled(e)
      BY <1>2, <3>2
    <3>. QED
      BY <1>3, <1>7, <2>1, <2>3, <3>3 DEF Unprint
  <2>4. CASE VGA_MAX_ROWS # 1
    <3>1. y > 0 /\ y - 1 \in Lines /\ (y - 1) + 1 = y
      BY <1>1, <2>2, <2>4 DEF Lines
    <3>2. Filled(Scrolled(f), Position(x, y - 1), space, 1) = Scrolled(e)
      BY <1>1, <3>1, StoredAbove DEF f, e, Stored
    <3>. QED
      BY <1>3, <1>7, <2>1, <2>2, <3>1, <3>2 DEF Unprint
  <2>. QED
    BY <2>3, <2>4
<1>. QED
  BY <1>5, <1>6, <1>7

(* Directly after a character a backspace leaves the screen as if a space  *)
(* had been printed instead, whatever the size of the screen and whether   *)
(* or not printing it has scrolled (vga.c:49-55).                          *)
THEOREM BackspaceTakesBack == HistorySpec => BackspaceUnprints
<1> DEFINE Inv == IInv /\ UnprintOK
<1>1. HistoryInit => Inv
  BY InitIInv DEF HistoryInit, UnprintOK
<1>2. Inv /\ [HistoryNext]_<<vars, unprinted>> => Inv'
  <2> SUFFICES ASSUME Inv, [HistoryNext]_<<vars, unprinted>> PROVE Inv'
    OBVIOUS
  <2>1. [Next]_vars
    BY DEF HistoryNext, Printing, NotPrinting, Next, vga_putc, vars
  <2>2. IInv'
    BY <2>1, StepIInv
  <2>3. CASE Printing
    <3>1. PICK ch \in Char : PrintChar(ch)
      BY <2>3 DEF Printing
    <3>2. Unprint(vga_memory', cursor_x', cursor_y') = AsIfSpace /\ unprinted' = {AsIfSpace}
      BY <2>3, <3>1, PrintIsUnprinted DEF Printing
    <3>. QED
      BY <2>2, <3>2 DEF UnprintOK, Unprint, Position
  <2>4. CASE NotPrinting
    BY <2>2, <2>4 DEF NotPrinting, UnprintOK
  <2>5. CASE UNCHANGED <<vars, unprinted>>
    BY <2>2, <2>5 DEF vars, UnprintOK, Unprint, Position
  <2>. QED
    BY <2>3, <2>4, <2>5 DEF HistoryNext
<1>3. Inv => (Backspace => \A m \in unprinted : vga_memory' = m)
  BY BackspaceIsUnprint DEF UnprintOK
<1> HIDE DEF Inv
<1>4. HistorySpec => []Inv
  BY <1>1, <1>2, PTL DEF HistorySpec
<1>5. Inv => [Backspace => \A m \in unprinted : vga_memory' = m]_<<vars, unprinted>>
  BY <1>3
<1>. QED
  BY <1>4, <1>5, PTL DEF BackspaceUnprints
=============================================================================
