----------------------------- MODULE Rgb_proofs -----------------------------
(***************************************************************************)
(* Proofs about Rgb: for every size of the frame buffer, font and text     *)
(* that is printed, no store leaves the frame buffer, and the margin and   *)
(* the strip below the text stay black.  On every screen that is a whole   *)
(* number of rows of characters high rgb.c implements the terminal of      *)
(* TextScreen, through the wrap of uint32_t as well.                       *)
(***************************************************************************)
EXTENDS RgbHistory, TLAPS

-----------------------------------------------------------------------------
(* Arithmetic: products and remainders. *)

LEMMA TimesLess ==
  ASSUME NEW a \in Nat, NEW b \in Nat, NEW c \in Nat, a < b
  PROVE  a * c \in Nat /\ b * c \in Nat /\ a * c + c <= b * c
<1>1. PICK d \in Nat : b = a + 1 + d
  <2>1. b - a - 1 \in Nat /\ b = a + 1 + (b - a - 1)
    OBVIOUS
  <2>. QED
    BY <2>1
<1>2. b * c = a * c + c + d * c
  BY <1>1
<1>3. d * c \in Nat /\ a * c \in Nat
  OBVIOUS
<1>. QED
  BY <1>2, <1>3

LEMMA TimesPlus ==
  ASSUME NEW a \in Nat, NEW b \in Nat, NEW c \in Nat
  PROVE  (a + b) * c = a * c + b * c
  OBVIOUS

LEMMA QuotientBounds ==
  ASSUME NEW a \in Nat, NEW d \in Nat \ {0}
  PROVE  /\ a \div d \in Nat
         /\ (a \div d) * d <= a
         /\ a < (a \div d) * d + d
  OBVIOUS

LEMMA SmallRemainder ==
  ASSUME NEW a \in Nat, NEW m \in Nat, a < m
  PROVE  a % m = a
  OBVIOUS

LEMMA RemainderOf ==
  ASSUME NEW q \in Nat, NEW r \in Nat, NEW m \in Nat, r < m
  PROVE  (q * m + r) % m = r
  OBVIOUS

-----------------------------------------------------------------------------
(* Geometry: the screen, its addresses and its cells. *)

LEMMA Sizes ==
  /\ total \in Nat /\ scroll \in Nat /\ scroll <= total
  /\ max_cols \in Nat \ {0} /\ max_rows \in Nat \ {0}
  /\ max_cols * CharW <= Width /\ max_rows * CharH <= Height
  /\ Height - CharH < max_rows * CharH
<1>1. /\ max_cols \in Nat /\ max_cols * CharW <= Width
      /\ Width < max_cols * CharW + CharW
  BY QuotientBounds, RgbAssumption DEF max_cols
<1>2. /\ max_rows \in Nat /\ max_rows * CharH <= Height
      /\ Height < max_rows * CharH + CharH
  BY QuotientBounds, RgbAssumption DEF max_rows
<1>3. max_cols # 0 /\ max_rows # 0
  BY <1>1, <1>2, RgbAssumption
<1>4. total \in Nat /\ scroll \in Nat /\ scroll <= total
  <2>1. CASE CharH = Height
    BY <2>1, RgbAssumption DEF total, scroll
  <2>2. CASE CharH < Height
    BY <2>2, TimesLess, RgbAssumption DEF total, scroll
  <2>. QED
    BY <2>1, <2>2, RgbAssumption
<1>. QED
  BY <1>1, <1>2, <1>3, <1>4, RgbAssumption

(* A position on a scan line has an address in the frame buffer. *)
LEMMA AddressInside ==
  ASSUME NEW y \in 0 .. (Height - 1), NEW x \in 0 .. (Pitch - 1)
  PROVE  Address(x, y) \in 0 .. (total - 1)
<1>1. y * Pitch \in Nat /\ y * Pitch + Pitch <= Height * Pitch
  BY TimesLess, RgbAssumption
<1>. QED
  BY <1>1, RgbAssumption DEF Address, total

(* Different positions have different addresses. *)
LEMMA AddressUnique ==
  ASSUME NEW y1 \in Nat, NEW x1 \in 0 .. (Pitch - 1),
         NEW y2 \in Nat, NEW x2 \in 0 .. (Pitch - 1),
         Address(x1, y1) = Address(x2, y2)
  PROVE  x1 = x2 /\ y1 = y2
<1>1. ASSUME y1 < y2 PROVE FALSE
  <2>1. y1 * Pitch \in Nat /\ y2 * Pitch \in Nat
        /\ y1 * Pitch + Pitch <= y2 * Pitch
    BY <1>1, TimesLess, RgbAssumption
  <2>. QED
    BY <2>1, RgbAssumption DEF Address
<1>2. ASSUME y2 < y1 PROVE FALSE
  <2>1. y1 * Pitch \in Nat /\ y2 * Pitch \in Nat
        /\ y2 * Pitch + Pitch <= y1 * Pitch
    BY <1>2, TimesLess, RgbAssumption
  <2>. QED
    BY <2>1, RgbAssumption DEF Address
<1>3. y1 = y2
  BY <1>1, <1>2
<1>. QED
  BY <1>3, RgbAssumption DEF Address

(* The scroll moves scan lines: line y gets what line y + CharH shows, and *)
(* the last CharH lines are those that are filled.                         *)
LEMMA AddressScrolled ==
  ASSUME NEW y \in 0 .. (Height - 1), NEW x \in 0 .. (Pitch - 1)
  PROVE  /\ Address(x, y) + scroll = Address(x, y + CharH)
         /\ Address(x, y) < total - scroll <=> y < Height - CharH
<1>1. (y + CharH) * Pitch = y * Pitch + CharH * Pitch
  BY TimesPlus, RgbAssumption
<1>2. y * Pitch \in Nat /\ (y + CharH) * Pitch \in Nat /\ scroll \in Nat
      /\ Height * Pitch \in Nat
  BY RgbAssumption DEF scroll
<1>3. Address(x, y) + scroll = Address(x, y + CharH)
  BY <1>1, <1>2 DEF Address, scroll
<1>4. CASE y + CharH < Height
  <2>1. (y + CharH) * Pitch + Pitch <= Height * Pitch
    BY <1>4, TimesLess, RgbAssumption
  <2>. QED
    BY <1>1, <1>2, <1>3, <1>4, <2>1, RgbAssumption DEF Address, total, scroll
<1>5. CASE y + CharH >= Height
  <2>1. Height * Pitch <= (y + CharH) * Pitch
    <3>1. CASE Height = y + CharH
      BY <3>1, <1>2
    <3>2. CASE Height < y + CharH
      BY <3>2, <1>2, TimesLess, RgbAssumption
    <3>. QED
      BY <3>1, <3>2, <1>5, RgbAssumption
  <2>. QED
    BY <1>1, <1>2, <1>3, <1>5, <2>1, RgbAssumption DEF Address, total, scroll
<1>. QED
  BY <1>3, <1>4, <1>5, RgbAssumption

(* The dots of a cell on the screen are where they ought to be. *)
LEMMA DotsOfCell ==
  ASSUME NEW x \in 0 .. (max_cols - 1), NEW y \in 0 .. (UintMod - 1),
         NEW offs \in SUBSET Offsets, NEW d \in CellDots(x, y, offs)
  PROVE  /\ d[1] \in 0 .. (max_cols * CharW - 1)
         /\ d[2] \in Nat
         /\ y < max_rows => d[2] < max_rows * CharH
         /\ y = UintMod - 1 => d[2] >= Height
<1>1. PICK o \in offs : d = <<(x * CharW + o[1]) % UintMod,
                              (y * CharH + o[2]) % UintMod>>
  BY DEF CellDots
<1>2. o[1] \in 0 .. (CharW - 1) /\ o[2] \in 0 .. (CharH - 1)
  BY DEF Offsets
<1>3. UintMod \in Nat \ {0} /\ CharW \in Nat /\ CharH \in Nat /\ CharH <= UintMod
  BY RgbAssumption
<1>4. d[1] \in 0 .. (max_cols * CharW - 1)
  <2>1. x * CharW \in Nat /\ x * CharW + CharW <= max_cols * CharW
    BY <1>3, Sizes, TimesLess
  <2>2. /\ x * CharW + o[1] \in Nat /\ x * CharW + o[1] < max_cols * CharW
        /\ x * CharW + o[1] < UintMod
    BY <1>2, <1>3, <2>1, Sizes, RgbAssumption
  <2>3. (x * CharW + o[1]) % UintMod = x * CharW + o[1]
    BY <1>3, <2>2, SmallRemainder
  <2>4. d[1] = x * CharW + o[1]
    BY <1>1, <2>3
  <2>5. max_cols * CharW \in Nat
    BY <1>3, Sizes
  <2>. QED
    BY <2>2, <2>4, <2>5
<1>5. y * CharH + o[2] \in Nat
  BY <1>2, <1>3
<1>6. d[2] \in Nat
  BY <1>1, <1>3, <1>5
<1>7. ASSUME y < max_rows PROVE d[2] < max_rows * CharH
  <2>1. y * CharH + CharH <= max_rows * CharH
    BY <1>3, <1>7, Sizes, TimesLess
  <2>2. /\ y * CharH + o[2] < max_rows * CharH
        /\ y * CharH + o[2] < UintMod
    BY <1>2, <1>3, <1>5, <2>1, Sizes, RgbAssumption
  <2>3. (y * CharH + o[2]) % UintMod = y * CharH + o[2]
    BY <1>3, <1>5, <2>2, SmallRemainder
  <2>. QED
    BY <1>1, <2>2, <2>3
<1>8. ASSUME y = UintMod - 1 PROVE d[2] >= Height
  <2>1. (UintMod - CharH) + o[2] \in Nat /\ (UintMod - CharH) + o[2] < UintMod
    BY <1>2, <1>3
  <2>2. y * CharH + o[2] = (CharH - 1) * UintMod + ((UintMod - CharH) + o[2])
    BY <1>2, <1>3, <1>8
  <2>3. CharH - 1 \in Nat
    BY RgbAssumption
  <2>4. (y * CharH + o[2]) % UintMod = (UintMod - CharH) + o[2]
    BY <1>3, <2>1, <2>2, <2>3, RemainderOf
  <2>. QED
    BY <1>1, <1>2, <1>3, <2>4, RgbAssumption
<1>. QED
  BY <1>4, <1>6, <1>7, <1>8

-----------------------------------------------------------------------------
(* What painting and scrolling do to the frame buffer. *)

Frame == [0 .. (total - 1) -> {0, 1}]
Dots == Nat \X Nat

(* Painting stays inside the frame buffer. *)
LEMMA PaintedFrame ==
  ASSUME NEW v \in Frame, NEW dots \in SUBSET Dots, NEW ink \in {0, 1}
  PROVE  Painted(v, dots, ink) \in Frame
<1>. DEFINE hit ==
       {Address(d[1], d[2]) : d \in {e \in dots : OnScreen(e[1], e[2])}}
<1>1. hit \subseteq 0 .. (total - 1)
  <2>. SUFFICES ASSUME NEW d \in dots, OnScreen(d[1], d[2])
                PROVE  Address(d[1], d[2]) \in 0 .. (total - 1)
    OBVIOUS
  <2>1. d[1] \in Nat /\ d[2] \in Nat
    BY DEF Dots
  <2>2. d[1] \in 0 .. (Pitch - 1) /\ d[2] \in 0 .. (Height - 1)
    BY <2>1, RgbAssumption DEF OnScreen
  <2>. QED
    BY <2>2, AddressInside
<1>2. DOMAIN v \cup hit = 0 .. (total - 1)
  BY <1>1 DEF Frame
<1>3. Painted(v, dots, ink) =
        [a \in 0 .. (total - 1) |-> IF a \in hit THEN ink ELSE v[a]]
  BY <1>2 DEF Painted
<1>. QED
  BY <1>3 DEF Frame

(* A position that is none of the dots keeps its pixel, and so do all when *)
(* no dot is on the screen; painted black, a black pixel stays black.      *)
LEMMA PaintedElsewhere ==
  ASSUME NEW v \in Frame, NEW dots \in SUBSET Dots, NEW ink \in {0, 1},
         NEW y \in 0 .. (Height - 1), NEW x \in 0 .. (Pitch - 1),
         \/ \A d \in dots : ~(OnScreen(d[1], d[2]) /\ d[1] = x /\ d[2] = y)
         \/ ink = v[Address(x, y)]
  PROVE  Painted(v, dots, ink)[Address(x, y)] = v[Address(x, y)]
<1>. DEFINE hit ==
       {Address(d[1], d[2]) : d \in {e \in dots : OnScreen(e[1], e[2])}}
<1>1. Address(x, y) \in DOMAIN v
  BY AddressInside DEF Frame
<1>2. Painted(v, dots, ink)[Address(x, y)] =
        IF Address(x, y) \in hit THEN ink ELSE v[Address(x, y)]
  BY <1>1 DEF Painted
<1>3. CASE \A d \in dots : ~(OnScreen(d[1], d[2]) /\ d[1] = x /\ d[2] = y)
  <2>1. ASSUME NEW d \in dots, OnScreen(d[1], d[2]),
               Address(x, y) = Address(d[1], d[2])
        PROVE  FALSE
    <3>1. d[1] \in Nat /\ d[2] \in Nat
      BY DEF Dots
    <3>2. d[1] \in 0 .. (Pitch - 1)
      BY <2>1, <3>1, RgbAssumption DEF OnScreen
    <3>3. x = d[1] /\ y = d[2]
      BY <2>1, <3>1, <3>2, AddressUnique, RgbAssumption
    <3>. QED
      BY <1>3, <2>1, <3>3
  <2>2. Address(x, y) \notin hit
    BY <2>1
  <2>. QED
    BY <1>2, <2>2
<1>4. CASE ink = v[Address(x, y)]
  BY <1>2, <1>4
<1>. QED
  BY <1>3, <1>4

(* The scroll stays inside the frame buffer, and every pixel is what it    *)
(* was one row of characters further down, or black.                       *)
LEMMA ScrolledFrame ==
  ASSUME NEW v \in Frame
  PROVE  /\ Scrolled(v) \in Frame
         /\ \A a \in 0 .. (total - 1) :
              Scrolled(v)[a] = IF a < total - scroll THEN v[a + scroll] ELSE 0
<1>. DEFINE moved == Moved(v, 0, scroll, total - scroll)
<1>1. DOMAIN v = 0 .. (total - 1)
  BY DEF Frame
<1>2. /\ DOMAIN v \cup Span(0, total - scroll) = 0 .. (total - 1)
      /\ DOMAIN v \cup Span(total - scroll, scroll) = 0 .. (total - 1)
  BY <1>1, Sizes DEF Span
<1>3. moved = [a \in 0 .. (total - 1) |->
                 IF a < total - scroll THEN v[a + scroll] ELSE v[a]]
  <2>1. \A a \in 0 .. (total - 1) :
          /\ (a \in Span(0, total - scroll) <=> a < total - scroll)
          /\ scroll + (a - 0) = a + scroll
    BY Sizes DEF Span
  <2>. QED
    BY <1>2, <2>1 DEF Moved
<1>4. Scrolled(v) = [a \in 0 .. (total - 1) |->
                       IF a < total - scroll THEN v[a + scroll] ELSE 0]
  <2>1. DOMAIN moved = DOMAIN v
    BY <1>1, <1>3
  <2>2. \A a \in 0 .. (total - 1) :
          a \in Span(total - scroll, scroll) <=> ~(a < total - scroll)
    BY Sizes DEF Span
  <2>3. Scrolled(v) = [a \in 0 .. (total - 1) |->
          IF a \in Span(total - scroll, scroll) THEN 0 ELSE moved[a]]
    BY <1>2, <2>1 DEF Scrolled, Filled
  <2>. HIDE DEF moved
  <2>. QED
    BY <1>3, <2>2, <2>3
<1>5. \A a \in 0 .. (total - 1) :
        a < total - scroll => v[a + scroll] \in {0, 1}
  BY Sizes DEF Frame
<1>. QED
  BY <1>4, <1>5 DEF Frame

(* Per position: a scan line becomes the one CharH below it, or black. *)
LEMMA ScrolledLine ==
  ASSUME NEW v \in Frame,
         NEW y \in 0 .. (Height - 1), NEW x \in 0 .. (Pitch - 1)
  PROVE  Scrolled(v)[Address(x, y)] =
           IF y < Height - CharH THEN v[Address(x, y + CharH)] ELSE 0
<1>1. Address(x, y) \in 0 .. (total - 1)
  BY AddressInside
<1>2. /\ Address(x, y) + scroll = Address(x, y + CharH)
      /\ Address(x, y) < total - scroll <=> y < Height - CharH
  BY AddressScrolled
<1>3. Scrolled(v)[Address(x, y)] =
        IF Address(x, y) < total - scroll THEN v[Address(x, y) + scroll] ELSE 0
  BY <1>1, ScrolledFrame
<1>. QED
  BY <1>2, <1>3

-----------------------------------------------------------------------------
(* The invariant. *)

(* MarginBlank and StripBlank of any picture v. *)
MarginOf(v) ==
  \A y \in 0 .. (Height - 1), x \in (max_cols * CharW) .. (Pitch - 1) :
    v[Address(x, y)] = 0
StripOf(v) ==
  \A y \in (max_rows * CharH) .. (Height - 1), x \in 0 .. (Pitch - 1) :
    v[Address(x, y)] = 0

Good(v) == v \in Frame /\ MarginOf(v) /\ StripOf(v)

CursorOK ==
  cursor_x \in 0 .. (max_cols - 1) /\ cursor_y \in 0 .. (UintMod - 1)

LEMMA IInvIsGood == IInv <=> Good(vram) /\ CursorOK
  BY DEF IInv, TypeOK, MarginBlank, StripBlank, Good, MarginOf, StripOf,
         CursorOK, Frame

LEMMA NextIsGood == Good(vram') /\ CursorOK' => IInv'
  BY DEF IInv, TypeOK, MarginBlank, StripBlank, Good, MarginOf, StripOf,
         CursorOK, Frame

(* Lines and columns of the margin and the strip are on the scan lines. *)
LEMMA Places ==
  /\ max_cols * CharW \in Nat /\ max_cols * CharW <= Pitch
  /\ max_rows * CharH \in Nat /\ Height - CharH < max_rows * CharH
  /\ Height \in Nat /\ Pitch \in Nat /\ CharH \in Nat \ {0}
  BY Sizes, RgbAssumption

(* The scroll moves a black margin along with the rest of the lines, and   *)
(* leaves the strip black whatever was in it.                              *)
LEMMA ScrolledGood ==
  ASSUME NEW v \in Frame, MarginOf(v)
  PROVE  Good(Scrolled(v))
<1>1. Scrolled(v) \in Frame
  BY ScrolledFrame
<1>2. MarginOf(Scrolled(v))
  <2>. SUFFICES ASSUME NEW y \in 0 .. (Height - 1),
                       NEW x \in (max_cols * CharW) .. (Pitch - 1)
                PROVE  Scrolled(v)[Address(x, y)] = 0
    BY DEF MarginOf
  <2>1. x \in 0 .. (Pitch - 1)
    BY Places
  <2>2. CASE y < Height - CharH
    <3>1. y + CharH \in 0 .. (Height - 1)
      BY <2>2, Places
    <3>2. v[Address(x, y + CharH)] = 0
      BY <3>1 DEF MarginOf
    <3>. QED
      BY <2>1, <2>2, <3>2, ScrolledLine
  <2>3. CASE ~(y < Height - CharH)
    BY <2>1, <2>3, ScrolledLine
  <2>. QED
    BY <2>2, <2>3
<1>3. StripOf(Scrolled(v))
  <2>. SUFFICES ASSUME NEW y \in (max_rows * CharH) .. (Height - 1),
                       NEW x \in 0 .. (Pitch - 1)
                PROVE  Scrolled(v)[Address(x, y)] = 0
    BY DEF StripOf
  <2>1. y \in 0 .. (Height - 1) /\ ~(y < Height - CharH)
    BY Places
  <2>. QED
    BY <2>1, ScrolledLine
<1>. QED
  BY <1>1, <1>2, <1>3 DEF Good

(* The end of rgb_putc: the strip need only be black if it does not scroll. *)
LEMMA SettleGood ==
  ASSUME NEW v \in Frame, MarginOf(v), Settle(v),
         ~(cursor_y' >= max_rows) => StripOf(v)
  PROVE  Good(vram')
<1>1. CASE cursor_y' >= max_rows
  BY <1>1, ScrolledGood DEF Settle
<1>2. CASE ~(cursor_y' >= max_rows)
  BY <1>2 DEF Settle, Good
<1>. QED
  BY <1>1, <1>2

LEMMA CellDotsAreDots ==
  ASSUME NEW x \in 0 .. (max_cols - 1), NEW y \in 0 .. (UintMod - 1),
         NEW offs \in SUBSET Offsets
  PROVE  CellDots(x, y, offs) \in SUBSET Dots
<1>. SUFFICES ASSUME NEW d \in CellDots(x, y, offs) PROVE d \in Dots
  OBVIOUS
<1>1. d[1] \in Nat /\ d[2] \in Nat
  BY DotsOfCell, Places
<1>2. d = <<d[1], d[2]>>
  BY DEF CellDots
<1>. QED
  BY <1>1, <1>2 DEF Dots

(* Printing a character into a cell, of the screen or below it. *)
LEMMA PrintedMargin ==
  ASSUME NEW v \in Frame, MarginOf(v), NEW offs \in SUBSET Offsets,
         NEW x \in 0 .. (max_cols - 1), NEW y \in 0 .. (UintMod - 1)
  PROVE  /\ Painted(v, CellDots(x, y, offs), 1) \in Frame
         /\ MarginOf(Painted(v, CellDots(x, y, offs), 1))
<1>. DEFINE dots == CellDots(x, y, offs)
<1>1. dots \in SUBSET Dots
  BY CellDotsAreDots
<1>2. Painted(v, dots, 1) \in Frame
  BY <1>1, PaintedFrame
<1>3. MarginOf(Painted(v, dots, 1))
  <2>. SUFFICES ASSUME NEW y1 \in 0 .. (Height - 1),
                       NEW x1 \in (max_cols * CharW) .. (Pitch - 1)
                PROVE  Painted(v, dots, 1)[Address(x1, y1)] = 0
    BY DEF MarginOf
  <2>1. x1 \in 0 .. (Pitch - 1) /\ v[Address(x1, y1)] = 0
    BY Places DEF MarginOf
  <2>2. \A d \in dots : d[1] # x1
    BY DotsOfCell, Places
  <2>3. \A d \in dots : ~(OnScreen(d[1], d[2]) /\ d[1] = x1 /\ d[2] = y1)
    BY <2>2
  <2>. HIDE DEF dots
  <2>. QED
    BY <1>1, <2>1, <2>3, PaintedElsewhere
<1>. QED
  BY <1>2, <1>3

(* A character printed on a row of the screen, or on the row from which    *)
(* uint32_t wraps to the first, leaves the strip black.                    *)
LEMMA PrintedStrip ==
  ASSUME NEW v \in Frame, StripOf(v), NEW offs \in SUBSET Offsets,
         NEW x \in 0 .. (max_cols - 1), NEW y \in 0 .. (UintMod - 1),
         y < max_rows \/ y = UintMod - 1
  PROVE  StripOf(Painted(v, CellDots(x, y, offs), 1))
<1>. DEFINE dots == CellDots(x, y, offs)
<1>1. dots \in SUBSET Dots
  BY CellDotsAreDots
<1>. SUFFICES ASSUME NEW y1 \in (max_rows * CharH) .. (Height - 1),
                     NEW x1 \in 0 .. (Pitch - 1)
              PROVE  Painted(v, dots, 1)[Address(x1, y1)] = 0
  BY DEF StripOf
<1>2. y1 \in 0 .. (Height - 1) /\ v[Address(x1, y1)] = 0
  BY Places DEF StripOf
<1>3. \A d \in dots : d[2] # y1
  BY DotsOfCell, Places
<1>4. \A d \in dots : ~(OnScreen(d[1], d[2]) /\ d[1] = x1 /\ d[2] = y1)
  BY <1>3
<1>. HIDE DEF dots
<1>. QED
  BY <1>1, <1>2, <1>4, PaintedElsewhere

(* Erasing a cell makes nothing lit. *)
LEMMA ErasedGood ==
  ASSUME NEW v \in Frame, Good(v),
         NEW x \in 0 .. (max_cols - 1), NEW y \in 0 .. (UintMod - 1)
  PROVE  Good(Painted(v, CellDots(x, y, Offsets), 0))
<1>. DEFINE dots == CellDots(x, y, Offsets)
<1>1. dots \in SUBSET Dots
  BY CellDotsAreDots
<1>2. Painted(v, dots, 0) \in Frame
  BY <1>1, PaintedFrame
<1>3. ASSUME NEW y1 \in 0 .. (Height - 1), NEW x1 \in 0 .. (Pitch - 1),
             v[Address(x1, y1)] = 0
      PROVE  Painted(v, dots, 0)[Address(x1, y1)] = 0
  <2>. HIDE DEF dots
  <2>. QED
    BY <1>1, <1>3, PaintedElsewhere
<1>. HIDE DEF dots
<1>4. MarginOf(Painted(v, dots, 0))
  BY <1>3, Places DEF Good, MarginOf
<1>5. StripOf(Painted(v, dots, 0))
  BY <1>3, Places DEF Good, StripOf
<1>. QED
  BY <1>2, <1>4, <1>5 DEF Good, dots

(* The blank picture. *)
LEMMA BlankGood ==
  ASSUME NEW v, v = [a \in 0 .. (total - 1) |-> 0]
  PROVE  Good(v)
<1>1. \A y \in 0 .. (Height - 1), x \in 0 .. (Pitch - 1) : v[Address(x, y)] = 0
  BY AddressInside
<1>2. v \in Frame
  BY DEF Frame
<1>3. MarginOf(v)
  <2>. SUFFICES ASSUME NEW y \in 0 .. (Height - 1),
                       NEW x \in (max_cols * CharW) .. (Pitch - 1)
                PROVE  v[Address(x, y)] = 0
    BY DEF MarginOf
  <2>1. x \in 0 .. (Pitch - 1)
    BY Places
  <2>. QED
    BY <1>1, <2>1
<1>4. StripOf(v)
  <2>. SUFFICES ASSUME NEW y \in (max_rows * CharH) .. (Height - 1),
                       NEW x \in 0 .. (Pitch - 1)
                PROVE  v[Address(x, y)] = 0
    BY DEF StripOf
  <2>1. y \in 0 .. (Height - 1)
    BY Places
  <2>. QED
    BY <1>1, <2>1
<1>. QED
  BY <1>2, <1>3, <1>4 DEF Good

LEMMA InitIInv == Init => IInv
<1>. SUFFICES ASSUME Init PROVE Good(vram) /\ CursorOK
  BY IInvIsGood
<1>1. Good(vram)
  BY BlankGood DEF Init
<1>2. CursorOK
  BY Sizes, RgbAssumption DEF Init, CursorOK
<1>. QED
  BY <1>1, <1>2

(* The next row, and what it says of the present one. *)
LEMMA NextRowOK ==
  ASSUME CursorOK, NextRow
  PROVE  /\ CursorOK'
         /\ ~(cursor_y' >= max_rows) => cursor_y < max_rows \/ cursor_y = UintMod - 1
<1>1. UintMod \in Nat \ {0} /\ max_rows \in Nat /\ max_cols \in Nat \ {0}
  BY Sizes, RgbAssumption
<1>2. cursor_y' = IF cursor_y = UintMod - 1 THEN 0 ELSE cursor_y + 1
  BY <1>1 DEF CursorOK, NextRow
<1>3. max_cols' = max_cols
  BY DEF max_cols
<1>. QED
  BY <1>1, <1>2, <1>3 DEF CursorOK, NextRow

LEMMA PrintInv ==
  ASSUME IInv, NEW ch \in Char, PrintChar(ch)
  PROVE  IInv'
<1>. DEFINE v == Painted(vram, CellDots(cursor_x, cursor_y, Glyph[ch]), 1)
<1>1. /\ vram \in Frame /\ MarginOf(vram) /\ StripOf(vram) /\ CursorOK
      /\ Glyph[ch] \in SUBSET Offsets
  BY IInvIsGood, RgbAssumption DEF Good
<1>2. v \in Frame /\ MarginOf(v)
  BY <1>1, PrintedMargin DEF CursorOK
<1>3. /\ CursorOK'
      /\ ~(cursor_y' >= max_rows) => cursor_y < max_rows \/ cursor_y = UintMod - 1
  <2>1. CASE AtLineEnd
    BY <1>1, <2>1, NextRowOK DEF PrintChar
  <2>2. CASE ~AtLineEnd
    BY <1>1, <2>2, Sizes, RgbAssumption DEF PrintChar, AtLineEnd, CursorOK
  <2>. QED
    BY <2>1, <2>2
<1>4. ~(cursor_y' >= max_rows) => StripOf(v)
  BY <1>1, <1>3, PrintedStrip DEF CursorOK
<1>5. Settle(v)
  BY DEF PrintChar
<1>6. Good(vram')
  <2>. HIDE DEF v
  <2>. QED
    BY <1>2, <1>4, <1>5, SettleGood
<1>. QED
  BY <1>3, <1>6, NextIsGood

(* Newline, carriage return and the other control characters. *)
LEMMA ControlInv ==
  ASSUME IInv, NewLine \/ CarriageReturn \/ OtherChar
  PROVE  IInv'
<1>1. Good(vram) /\ CursorOK
  BY IInvIsGood
<1>2. Good(vram')
  BY <1>1, SettleGood DEF Good, NewLine, CarriageReturn, OtherChar
<1>3. CursorOK'
  <2>1. CASE NewLine
    BY <1>1, <2>1, NextRowOK DEF NewLine
  <2>2. CASE CarriageReturn \/ OtherChar
    BY <1>1, <2>2, Sizes DEF CarriageReturn, OtherChar, CursorOK
  <2>. QED
    BY <2>1, <2>2
<1>. QED
  BY <1>2, <1>3, NextIsGood

LEMMA BackspaceInv ==
  ASSUME IInv, Backspace
  PROVE  IInv'
<1>1. Good(vram) /\ CursorOK
  BY IInvIsGood
<1>2. CASE UNCHANGED vars
  BY <1>1, <1>2, NextIsGood DEF vars, CursorOK
<1>3. CASE ~UNCHANGED vars
  <2>1. CursorOK' /\ Erase
    BY <1>1, <1>3, Sizes, RgbAssumption DEF Backspace, CursorOK
  <2>2. /\ cursor_x' \in 0 .. (max_cols - 1)
        /\ cursor_y' \in 0 .. (UintMod - 1)
    BY <2>1 DEF CursorOK
  <2>3. Good(vram')
    BY <1>1, <2>1, <2>2, ErasedGood DEF Erase, Good
  <2>. QED
    BY <2>1, <2>3, NextIsGood
<1>. QED
  BY <1>2, <1>3

LEMMA ClearInv ==
  ASSUME IInv, Clear
  PROVE  IInv'
<1>1. Good(vram) /\ CursorOK
  BY IInvIsGood
<1>2. vram' = [a \in 0 .. (total - 1) |-> 0]
  <2>1. DOMAIN vram = 0 .. (total - 1) /\ Span(0, total) = 0 .. (total - 1)
    BY <1>1, Sizes DEF Good, Frame, Span
  <2>. QED
    BY <2>1 DEF Clear, Filled
<1>3. Good(vram')
  BY <1>2, BlankGood
<1>4. CursorOK'
  BY <1>1, Sizes, RgbAssumption DEF Clear, CursorOK
<1>. QED
  BY <1>3, <1>4, NextIsGood

LEMMA ScrollInv ==
  ASSUME IInv, Scroll
  PROVE  IInv'
<1>1. Good(vram) /\ CursorOK
  BY IInvIsGood
<1>2. Good(vram')
  BY <1>1, ScrolledGood DEF Scroll, Good
<1>. QED
  BY <1>1, <1>2, NextIsGood DEF Scroll, CursorOK

LEMMA NextIInv == IInv /\ [Next]_vars => IInv'
<1>. SUFFICES ASSUME IInv, [Next]_vars PROVE IInv'
  OBVIOUS
<1>1. CASE putc
  BY <1>1, PrintInv, ControlInv, BackspaceInv DEF putc
<1>2. CASE Clear \/ Scroll
  BY <1>2, ClearInv, ScrollInv
<1>3. CASE UNCHANGED vars
  BY <1>3 DEF vars, IInv, TypeOK, MarginBlank, StripBlank
<1>. QED
  BY <1>1, <1>2, <1>3 DEF Next

LEMMA IInvAlways == Spec => []IInv
  BY InitIInv, NextIInv, PTL DEF Spec

(* No call of rgb.c stores outside the frame buffer, wherever its cursor   *)
(* has gone, and the cursor keeps its types.                               *)
THEOREM TypeCorrect == Spec => []TypeOK
  BY IInvAlways, PTL DEF IInv

(* Nothing is painted right of the last whole column of characters.        *)
THEOREM MarginStaysBlank == Spec => []MarginBlank
  BY IInvAlways, PTL DEF IInv

(* Between calls nothing is left below the last whole row of characters.   *)
THEOREM StripStaysBlank == Spec => []StripBlank
  BY IInvAlways, PTL DEF IInv

-----------------------------------------------------------------------------
(***************************************************************************)
(* The screen as cells of characters.                                      *)
(***************************************************************************)

WholeRows == Height % CharH = 0

Columns == 0 .. (max_cols - 1)
Lines == 0 .. (max_rows - 1)

(* The pixel at the offset o of the cell (x, r), and the cells of a        *)
(* picture; Screen is about those of vram.                                 *)
Pixel(x, r, o) == Address(x * CharW + o[1], r * CharH + o[2])
InkOf(v, r, x) == {o \in Offsets : v[Pixel(x, r, o)] = 1}
Cells(v) == [r \in Lines |-> [x \in Columns |-> InkOf(v, r, x)]]

-----------------------------------------------------------------------------
(* Arithmetic and geometry. *)

LEMMA RowsFill == ASSUME WholeRows PROVE Height = max_rows * CharH
<1>1. Height \in Nat /\ CharH \in Nat \ {0}
  BY RgbAssumption
<1>2. Height = (Height \div CharH) * CharH + (Height % CharH)
  BY <1>1
<1>3. max_rows * CharH \in Nat
  BY Sizes, <1>1
<1>. QED
  BY <1>2, <1>3 DEF WholeRows, max_rows

(* A number is a multiple of d and a rest in one way only. *)
LEMMA QuotientUnique ==
  ASSUME NEW d \in Nat \ {0}, NEW a \in Nat, NEW b \in Nat,
         NEW i \in 0 .. (d - 1), NEW j \in 0 .. (d - 1), a * d + i = b * d + j
  PROVE  a = b /\ i = j
<1>1. ASSUME a < b PROVE FALSE
  <2>1. a * d \in Nat /\ b * d \in Nat /\ a * d + d <= b * d
    BY <1>1, TimesLess
  <2>. QED
    BY <2>1
<1>2. ASSUME b < a PROVE FALSE
  <2>1. a * d \in Nat /\ b * d \in Nat /\ b * d + d <= a * d
    BY <1>2, TimesLess
  <2>. QED
    BY <2>1
<1>3. a = b
  BY <1>1, <1>2
<1>4. a * d \in Nat
  OBVIOUS
<1>. QED
  BY <1>3, <1>4

(* uint32_t is a whole number of rows, more than the screen has. *)
LEMMA Periods ==
  /\ UintMod \div CharH \in Nat \ {0}
  /\ UintMod = (UintMod \div CharH) * CharH
  /\ max_rows < UintMod \div CharH
<1>1. UintMod \in Nat /\ CharH \in Nat \ {0} /\ UintMod % CharH = 0
      /\ Height + CharH <= UintMod /\ Height \in Nat
  BY RgbAssumption
<1> DEFINE p == UintMod \div CharH
<1>2. p \in Nat /\ UintMod = p * CharH + (UintMod % CharH)
  BY <1>1
<1> HIDE DEF p
<1>3. UintMod = p * CharH
  <2>1. p * CharH \in Nat
    BY <1>1, <1>2
  <2>. QED
    BY <1>1, <1>2, <2>1
<1>4. max_rows * CharH \in Nat /\ max_rows * CharH <= Height /\ max_rows \in Nat
  BY Sizes, <1>1
<1>5. ASSUME p <= max_rows PROVE FALSE
  <2>1. p * CharH <= max_rows * CharH
    <3>1. CASE p = max_rows
      BY <1>3, <1>4, <3>1
    <3>2. CASE p < max_rows
      BY <1>1, <1>2, <1>4, <3>2, TimesLess
    <3>. QED
      BY <1>2, <1>4, <1>5, <3>1, <3>2
  <2>. QED
    BY <1>1, <1>3, <1>4, <2>1
<1>6. max_rows < p
  BY <1>2, <1>4, <1>5
<1>. QED
  BY <1>2, <1>3, <1>4, <1>6 DEF p

(* Where the row y of the cursor is displayed. *)
LEMMA RowOfDot ==
  ASSUME NEW y \in 0 .. (UintMod - 1), NEW o \in 0 .. (CharH - 1)
  PROVE  /\ Screen!Place(y) \in Nat
         /\ (y * CharH + o) % UintMod = Screen!Place(y) * CharH + o
<1> DEFINE p == UintMod \div CharH
           q == y \div p
           s == y % p
<1>1. p \in Nat \ {0} /\ UintMod = p * CharH /\ CharH \in Nat \ {0}
  BY Periods, RgbAssumption
<1>2. y \in Nat /\ o \in Nat
  BY RgbAssumption
<1> HIDE DEF p
<1>3. q \in Nat /\ s \in 0 .. (p - 1) /\ y = q * p + s
  BY <1>1, <1>2
<1> HIDE DEF q, s
<1>4. y * CharH = q * UintMod + s * CharH
  <2>1. q * p \in Nat /\ s \in Nat
    BY <1>1, <1>3
  <2>2. (q * p + s) * CharH = (q * p) * CharH + s * CharH
    BY <1>1, <2>1, TimesPlus
  <2>3. (q * p) * CharH = q * (p * CharH)
    BY <1>1, <1>3
  <2>. QED
    BY <1>1, <1>3, <2>2, <2>3
<1>5. s * CharH \in Nat /\ s * CharH + CharH <= p * CharH
  BY <1>1, <1>3, TimesLess
<1>6. s * CharH + o \in Nat /\ s * CharH + o < UintMod /\ UintMod \in Nat
  BY <1>1, <1>5, RgbAssumption
<1>7. y * CharH + o = q * UintMod + (s * CharH + o)
  <2>1. q * UintMod \in Nat
    BY <1>3, <1>6
  <2>. QED
    BY <1>2, <1>4, <1>5, <2>1
<1>8. (q * UintMod + (s * CharH + o)) % UintMod = s * CharH + o
  BY <1>3, <1>6, RemainderOf
<1>9. Screen!Place(y) = s
  BY DEF Screen!Place, s, p
<1>. QED
  BY <1>3, <1>7, <1>8, <1>9

(* On a screen of whole rows the dot of a cell is displayed if and only if *)
(* the row of the cell is.                                                 *)
LEMMA DotDisplayed ==
  ASSUME WholeRows, NEW x \in Columns, NEW y \in 0 .. (UintMod - 1),
         NEW o \in Offsets
  PROVE  LET d == <<(x * CharW + o[1]) % UintMod, (y * CharH + o[2]) % UintMod>>
         IN  /\ d = <<x * CharW + o[1], Screen!Place(y) * CharH + o[2]>>
             /\ d[1] \in Nat /\ d[2] \in Nat
             /\ OnScreen(d[1], d[2]) <=> Screen!Place(y) < max_rows
<1>1. o[1] \in 0 .. (CharW - 1) /\ o[2] \in 0 .. (CharH - 1)
  BY DEF Offsets
<1>2. CharW \in Nat \ {0} /\ CharH \in Nat \ {0} /\ Width \in Nat
      /\ Width + CharW <= UintMod /\ UintMod \in Nat
  BY RgbAssumption
<1>3. /\ x * CharW \in Nat /\ x * CharW + CharW <= max_cols * CharW
      /\ max_cols * CharW \in Nat
  BY <1>2, Sizes, TimesLess DEF Columns
<1>4. /\ x * CharW + o[1] \in Nat /\ x * CharW + o[1] < Width
      /\ x * CharW + o[1] < UintMod
  BY <1>1, <1>2, <1>3, Sizes
<1>5. (x * CharW + o[1]) % UintMod = x * CharW + o[1]
  BY <1>2, <1>4, SmallRemainder
<1> DEFINE s == Screen!Place(y)
<1>6. s \in Nat /\ (y * CharH + o[2]) % UintMod = s * CharH + o[2]
  BY <1>1, RowOfDot
<1> HIDE DEF s
<1>7. Height = max_rows * CharH /\ max_rows \in Nat /\ Height \in Nat
  BY RowsFill, Sizes, RgbAssumption
<1>8. s * CharH \in Nat
  BY <1>2, <1>6
<1>9. s * CharH + o[2] < Height <=> s < max_rows
  <2>1. CASE s < max_rows
    <3>1. s * CharH + CharH <= max_rows * CharH
      BY <1>2, <1>6, <1>7, <2>1, TimesLess
    <3>. QED
      BY <1>1, <1>2, <1>7, <1>8, <2>1, <3>1
  <2>2. CASE s = max_rows
    <3>1. s * CharH = Height
      BY <1>7, <2>2
    <3>. QED
      BY <1>1, <1>7, <1>8, <2>2, <3>1
  <2>3. CASE max_rows < s
    <3>1. max_rows * CharH + CharH <= s * CharH
      BY <1>2, <1>6, <1>7, <2>3, TimesLess
    <3>. QED
      BY <1>1, <1>2, <1>6, <1>7, <1>8, <2>3, <3>1
  <2>. QED
    BY <1>6, <1>7, <2>1, <2>2, <2>3
<1>10. s * CharH + o[2] \in Nat
  BY <1>1, <1>8
<1>. QED
  BY <1>4, <1>5, <1>6, <1>9, <1>10 DEF OnScreen, s

(* The cells of the screen lie on it, and two pixels of cells are the same *)
(* only as the same offset of the same cell.                               *)
LEMMA PixelInside ==
  ASSUME NEW x \in Columns, NEW r \in Lines, NEW o \in Offsets
  PROVE  /\ x * CharW + o[1] \in 0 .. (Pitch - 1)
         /\ r * CharH + o[2] \in 0 .. (Height - 1)
         /\ Pixel(x, r, o) \in 0 .. (total - 1)
<1>1. o[1] \in 0 .. (CharW - 1) /\ o[2] \in 0 .. (CharH - 1)
  BY DEF Offsets
<1>2. CharW \in Nat \ {0} /\ CharH \in Nat \ {0} /\ Width \in Nat /\ Height \in Nat
      /\ Pitch \in Nat /\ Width <= Pitch
  BY RgbAssumption
<1>3. /\ x * CharW \in Nat /\ x * CharW + CharW <= max_cols * CharW
      /\ max_cols * CharW \in Nat
  BY <1>2, Sizes, TimesLess DEF Columns
<1>4. /\ r * CharH \in Nat /\ r * CharH + CharH <= max_rows * CharH
      /\ max_rows * CharH \in Nat
  BY <1>2, Sizes, TimesLess DEF Lines
<1>5. x * CharW + o[1] \in 0 .. (Pitch - 1) /\ r * CharH + o[2] \in 0 .. (Height - 1)
  BY <1>1, <1>2, <1>3, <1>4, Sizes
<1>. QED
  BY <1>5, AddressInside DEF Pixel

LEMMA PixelUnique ==
  ASSUME NEW x1 \in Columns, NEW r1 \in Lines, NEW o1 \in Offsets,
         NEW x2 \in Columns, NEW r2 \in Lines, NEW o2 \in Offsets,
         Pixel(x1, r1, o1) = Pixel(x2, r2, o2)
  PROVE  x1 = x2 /\ r1 = r2 /\ o1 = o2
<1>1. /\ x1 * CharW + o1[1] = x2 * CharW + o2[1]
      /\ r1 * CharH + o1[2] = r2 * CharH + o2[2]
  <2>1. /\ x1 * CharW + o1[1] \in 0 .. (Pitch - 1)
        /\ r1 * CharH + o1[2] \in 0 .. (Height - 1)
        /\ x2 * CharW + o2[1] \in 0 .. (Pitch - 1)
        /\ r2 * CharH + o2[2] \in 0 .. (Height - 1)
    BY PixelInside
  <2>2. /\ r1 * CharH + o1[2] \in Nat /\ r2 * CharH + o2[2] \in Nat
    BY <2>1, RgbAssumption
  <2>. QED
    BY <2>1, <2>2, AddressUnique DEF Pixel
<1>2. /\ x1 \in Nat /\ x2 \in Nat /\ r1 \in Nat /\ r2 \in Nat
      /\ CharW \in Nat \ {0} /\ CharH \in Nat \ {0}
  BY Sizes, RgbAssumption DEF Columns, Lines
<1>3. /\ o1[1] \in 0 .. (CharW - 1) /\ o1[2] \in 0 .. (CharH - 1)
      /\ o2[1] \in 0 .. (CharW - 1) /\ o2[2] \in 0 .. (CharH - 1)
      /\ o1 = <<o1[1], o1[2]>> /\ o2 = <<o2[1], o2[2]>>
  BY DEF Offsets
<1>4. x1 = x2 /\ o1[1] = o2[1]
  BY <1>1, <1>2, <1>3, QuotientUnique
<1>5. r1 = r2 /\ o1[2] = o2[2]
  BY <1>1, <1>2, <1>3, QuotientUnique
<1>. QED
  BY <1>3, <1>4, <1>5

-----------------------------------------------------------------------------
(* What painting, scrolling and clearing do to the cells. *)

LEMMA PaintedPixel ==
  ASSUME WholeRows, NEW v \in Frame, NEW x \in Columns,
         NEW y \in 0 .. (UintMod - 1), NEW offs \in SUBSET Offsets,
         NEW ink \in {0, 1},
         NEW c \in Columns, NEW r \in Lines, NEW o \in Offsets
  PROVE  Painted(v, CellDots(x, y, offs), ink)[Pixel(c, r, o)] =
           IF c = x /\ r = Screen!Place(y) /\ o \in offs THEN ink
           ELSE v[Pixel(c, r, o)]
<1> DEFINE dots == CellDots(x, y, offs)
           hit == {Address(d[1], d[2]) : d \in {e \in dots : OnScreen(e[1], e[2])}}
           s == Screen!Place(y)
<1>1. Painted(v, dots, ink)[Pixel(c, r, o)] =
        IF Pixel(c, r, o) \in hit THEN ink ELSE v[Pixel(c, r, o)]
  <2>1. Pixel(c, r, o) \in DOMAIN v
    BY PixelInside DEF Frame
  <2>. QED
    BY <2>1 DEF Painted
<1>2. ASSUME c = x, r = s, o \in offs PROVE Pixel(c, r, o) \in hit
  <2> DEFINE d == <<(x * CharW + o[1]) % UintMod, (y * CharH + o[2]) % UintMod>>
  <2>1. d \in dots
    BY <1>2 DEF CellDots
  <2>2. s < max_rows
    BY <1>2, Sizes DEF Lines
  <2>3. OnScreen(d[1], d[2]) /\ d = <<x * CharW + o[1], s * CharH + o[2]>>
    BY <2>2, DotDisplayed
  <2>4. Address(d[1], d[2]) = Pixel(c, r, o)
    BY <1>2, <2>3 DEF Pixel
  <2> HIDE DEF d, dots
  <2>. QED
    BY <2>1, <2>3, <2>4
<1>3. ASSUME Pixel(c, r, o) \in hit PROVE c = x /\ r = s /\ o \in offs
  <2>1. PICK d \in dots : OnScreen(d[1], d[2]) /\ Address(d[1], d[2]) = Pixel(c, r, o)
    BY <1>3
  <2>2. PICK o2 \in offs : d = <<(x * CharW + o2[1]) % UintMod,
                                 (y * CharH + o2[2]) % UintMod>>
    BY <2>1 DEF CellDots
  <2>3. d = <<x * CharW + o2[1], s * CharH + o2[2]>> /\ s < max_rows
    BY <2>1, <2>2, DotDisplayed
  <2>4. s \in Lines
    <3>1. o2[2] \in 0 .. (CharH - 1)
      BY DEF Offsets
    <3>2. s \in Nat
      BY <3>1, RowOfDot
    <3>. QED
      BY <2>3, <3>2, Sizes DEF Lines
  <2>5. Pixel(x, s, o2) = Pixel(c, r, o)
    BY <2>1, <2>3 DEF Pixel
  <2> HIDE DEF s
  <2>6. c = x /\ r = s /\ o = o2
    BY <2>4, <2>5, PixelUnique
  <2>. QED
    BY <2>6
<1> HIDE DEF hit
<1>. QED
  BY <1>1, <1>2, <1>3

(* A character is printed into a cell as the terminal prints it. *)
LEMMA PaintedCells ==
  ASSUME WholeRows, NEW v \in Frame, NEW x \in Columns,
         NEW y \in 0 .. (UintMod - 1), NEW offs \in SUBSET Offsets
  PROVE  /\ Cells(Painted(v, CellDots(x, y, offs), 1)) =
              IF Screen!Shown(y)
                THEN [Cells(v) EXCEPT ![Screen!Place(y)][x] =
                        Cells(v)[Screen!Place(y)][x] \cup offs]
                ELSE Cells(v)
         /\ Cells(Painted(v, CellDots(x, y, Offsets), 0)) =
              IF Screen!Shown(y)
                THEN [Cells(v) EXCEPT ![Screen!Place(y)][x] = {}]
                ELSE Cells(v)
<1> DEFINE s == Screen!Place(y)
           w == Painted(v, CellDots(x, y, offs), 1)
           e == Painted(v, CellDots(x, y, Offsets), 0)
<1>1. \A r \in Lines, c \in Columns :
        /\ InkOf(w, r, c) = IF r = s /\ c = x THEN InkOf(v, r, c) \cup offs
                                              ELSE InkOf(v, r, c)
        /\ InkOf(e, r, c) = IF r = s /\ c = x THEN {} ELSE InkOf(v, r, c)
  <2> SUFFICES ASSUME NEW r \in Lines, NEW c \in Columns
               PROVE  /\ InkOf(w, r, c) = IF r = s /\ c = x THEN InkOf(v, r, c) \cup offs
                                                            ELSE InkOf(v, r, c)
                      /\ InkOf(e, r, c) = IF r = s /\ c = x THEN {} ELSE InkOf(v, r, c)
    OBVIOUS
  <2>1. \A o \in Offsets : w[Pixel(c, r, o)] =
          IF c = x /\ r = s /\ o \in offs THEN 1 ELSE v[Pixel(c, r, o)]
    BY PaintedPixel
  <2>2. \A o \in Offsets : e[Pixel(c, r, o)] =
          IF c = x /\ r = s /\ o \in Offsets THEN 0 ELSE v[Pixel(c, r, o)]
    BY PaintedPixel
  <2> HIDE DEF w, e, s
  <2>3. InkOf(w, r, c) = IF r = s /\ c = x THEN InkOf(v, r, c) \cup offs
                                           ELSE InkOf(v, r, c)
    BY <2>1 DEF InkOf
  <2>4. InkOf(e, r, c) = IF r = s /\ c = x THEN {} ELSE InkOf(v, r, c)
    BY <2>2 DEF InkOf
  <2>. QED
    BY <2>3, <2>4
<1>2. s \in Nat /\ max_rows \in Nat
  <2>1. 0 \in 0 .. (CharH - 1)
    BY RgbAssumption
  <2>. QED
    BY <2>1, RowOfDot, Sizes
<1>3. Screen!Shown(y) <=> s \in Lines
  BY <1>2 DEF Screen!Shown, Lines
<1> HIDE DEF w, e, s
<1>4. CASE s \in Lines
  <2>1. Cells(v)[s][x] = InkOf(v, s, x)
    BY <1>4 DEF Cells
  <2>2. [Cells(v) EXCEPT ![s][x] = InkOf(v, s, x) \cup offs] =
          [r \in Lines |-> [c \in Columns |->
             IF r = s /\ c = x THEN InkOf(v, r, c) \cup offs ELSE InkOf(v, r, c)]]
    BY <1>4 DEF Cells
  <2>3. [Cells(v) EXCEPT ![s][x] = {}] =
          [r \in Lines |-> [c \in Columns |->
             IF r = s /\ c = x THEN {} ELSE InkOf(v, r, c)]]
    BY <1>4 DEF Cells
  <2>4. /\ Cells(w) =
             [r \in Lines |-> [c \in Columns |->
                IF r = s /\ c = x THEN InkOf(v, r, c) \cup offs ELSE InkOf(v, r, c)]]
        /\ Cells(e) =
             [r \in Lines |-> [c \in Columns |->
                IF r = s /\ c = x THEN {} ELSE InkOf(v, r, c)]]
    BY <1>1 DEF Cells
  <2>5. /\ Cells(w) = [Cells(v) EXCEPT ![s][x] = InkOf(v, s, x) \cup offs]
        /\ Cells(e) = [Cells(v) EXCEPT ![s][x] = {}]
    BY <2>2, <2>3, <2>4
  <2>. QED
    BY <1>3, <1>4, <2>1, <2>5 DEF w, e, s
<1>5. CASE s \notin Lines
  <2>1. Cells(w) = Cells(v) /\ Cells(e) = Cells(v)
    BY <1>1, <1>5 DEF Cells
  <2>. QED
    BY <1>3, <1>5, <2>1 DEF w, e, s
<1>. QED
  BY <1>4, <1>5

LEMMA ScrolledCells ==
  ASSUME WholeRows, NEW v \in Frame
  PROVE  Cells(Scrolled(v)) = Screen!ScrolledUp(Cells(v))
<1>1. max_rows \in Nat \ {0} /\ Height = max_rows * CharH /\ CharH \in Nat \ {0}
      /\ Height \in Nat
  BY RowsFill, Sizes, RgbAssumption
<1>2. Height - CharH = (max_rows - 1) * CharH
  BY <1>1
<1>3. ASSUME NEW r \in Lines, NEW c \in Columns, NEW o \in Offsets
      PROVE  Scrolled(v)[Pixel(c, r, o)] =
               IF r < max_rows - 1 THEN v[Pixel(c, r + 1, o)] ELSE 0
  <2>1. /\ c * CharW + o[1] \in 0 .. (Pitch - 1)
        /\ r * CharH + o[2] \in 0 .. (Height - 1)
    BY PixelInside
  <2>2. Scrolled(v)[Pixel(c, r, o)] =
          IF r * CharH + o[2] < Height - CharH
            THEN v[Address(c * CharW + o[1], r * CharH + o[2] + CharH)] ELSE 0
    BY <2>1, ScrolledLine DEF Pixel
  <2>3. o[2] \in 0 .. (CharH - 1) /\ r \in Nat /\ r * CharH \in Nat
    BY <1>1 DEF Offsets, Lines
  <2>4. CASE r < max_rows - 1
    <3>1. r * CharH + CharH <= (max_rows - 1) * CharH
      BY <1>1, <2>3, <2>4, TimesLess
    <3>2. r * CharH + o[2] < Height - CharH
      BY <1>1, <1>2, <2>3, <3>1
    <3>3. r * CharH + o[2] + CharH = (r + 1) * CharH + o[2]
      BY <1>1, <2>3
    <3>. QED
      BY <2>2, <2>4, <3>2, <3>3 DEF Pixel
  <2>5. CASE ~(r < max_rows - 1)
    <3>1. r = max_rows - 1
      BY <1>1, <2>5 DEF Lines
    <3>2. r * CharH = Height - CharH
      BY <1>2, <3>1
    <3>3. ~(r * CharH + o[2] < Height - CharH)
      BY <1>1, <2>3, <3>2
    <3>. QED
      BY <2>2, <2>5, <3>3
  <2>. QED
    BY <2>4, <2>5
<1>4. ASSUME NEW r \in Lines
      PROVE  Cells(Scrolled(v))[r] =
               IF r < max_rows - 1 THEN Cells(v)[r + 1] ELSE Screen!BlankRow
  <2>1. Cells(Scrolled(v))[r] = [c \in Columns |-> InkOf(Scrolled(v), r, c)]
    BY DEF Cells
  <2>2. CASE r < max_rows - 1
    <3>1. r + 1 \in Lines
      BY <1>1, <2>2 DEF Lines
    <3>2. Cells(v)[r + 1] = [c \in Columns |-> InkOf(v, r + 1, c)]
      BY <3>1 DEF Cells
    <3>3. \A c \in Columns : InkOf(Scrolled(v), r, c) = InkOf(v, r + 1, c)
      BY <1>3, <2>2 DEF InkOf
    <3>. QED
      BY <2>1, <2>2, <3>2, <3>3
  <2>3. CASE ~(r < max_rows - 1)
    <3>1. \A c \in Columns : InkOf(Scrolled(v), r, c) = {}
      BY <1>3, <2>3 DEF InkOf
    <3>2. Screen!BlankRow = [c \in Columns |-> {}]
      BY DEF Screen!BlankRow, Columns
    <3>. QED
      BY <2>1, <2>3, <3>1, <3>2
  <2>. QED
    BY <2>2, <2>3
<1>. QED
  BY <1>4 DEF Screen!ScrolledUp, Cells, Lines

LEMMA BlankCells ==
  ASSUME NEW v, v = [a \in 0 .. (total - 1) |-> 0]
  PROVE  Cells(v) = Screen!BlankScreen
<1>1. \A r \in Lines, c \in Columns : InkOf(v, r, c) = {}
  BY PixelInside DEF InkOf
<1>2. Cells(v) = [r \in Lines |-> [c \in Columns |-> {}]]
  BY <1>1 DEF Cells
<1>. QED
  BY <1>2 DEF Screen!BlankScreen, Screen!BlankRow, Lines, Columns

-----------------------------------------------------------------------------
(* Refinement. *)

(* The cells Screen is instantiated with are those of vram. *)
LEMMA CellsOfScreen ==
  [r \in 0 .. (max_rows - 1) |-> [x \in 0 .. (max_cols - 1) |-> Ink(r, x)]]
    = Cells(vram)
  BY DEF Cells, InkOf, Ink, Pixel, Lines, Columns

LEMMA SettleMoves ==
  ASSUME WholeRows, NEW v \in Frame, NEW cs, cs = Cells(v), Settle(v),
         NEW x \in Columns, NEW y \in 0 .. (UintMod - 1),
         cursor_x' = x, cursor_y' = y
  PROVE  Screen!MoveTo(cs, x, y)
<1>1. max_rows' = max_rows
  BY DEF max_rows
<1>2. y \in Int /\ max_rows \in Int
  BY Sizes
<1>3. CASE y >= max_rows
  <2>1. vram' = Scrolled(v)
    BY <1>3 DEF Settle
  <2>2. Cells(vram') = Screen!ScrolledUp(cs)
    BY <2>1, ScrolledCells
  <2>. QED
    BY <1>2, <1>3, <2>2 DEF Screen!MoveTo, Cells, InkOf, Ink, Pixel, Lines, Columns
<1>4. CASE ~(y >= max_rows)
  <2>1. vram' = v
    BY <1>4 DEF Settle
  <2>2. Cells(vram') = cs
    BY <2>1
  <2>. QED
    BY <1>2, <1>4, <2>2 DEF Screen!MoveTo, Cells, InkOf, Ink, Pixel, Lines, Columns
<1>. QED
  BY <1>3, <1>4

(* What is painted is what the terminal writes. *)
LEMMA PaintedIsWritten ==
  ASSUME WholeRows, vram \in Frame, NEW x \in Columns, NEW y \in 0 .. (UintMod - 1)
  PROVE  /\ Painted(vram, CellDots(x, y, Offsets), 0) \in Frame
         /\ Cells(Painted(vram, CellDots(x, y, Offsets), 0)) = Screen!Written(x, y, {})
<1>1. CellDots(x, y, Offsets) \in SUBSET Dots
  BY CellDotsAreDots DEF Columns
<1>2. Cells(Painted(vram, CellDots(x, y, Offsets), 0)) =
        IF Screen!Shown(y)
          THEN [Cells(vram) EXCEPT ![Screen!Place(y)][x] = {}] ELSE Cells(vram)
  BY PaintedCells
<1>3. Screen!Written(x, y, {}) =
        IF Screen!Shown(y)
          THEN [Cells(vram) EXCEPT ![Screen!Place(y)][x] = {}] ELSE Cells(vram)
  BY CellsOfScreen DEF Screen!Written
<1>. QED
  BY <1>1, <1>2, <1>3, PaintedFrame

LEMMA PaintedIsPrinted ==
  ASSUME WholeRows, vram \in Frame, cursor_x \in Columns,
         cursor_y \in 0 .. (UintMod - 1), NEW ch \in Char
  PROVE  /\ Painted(vram, CellDots(cursor_x, cursor_y, Glyph[ch]), 1) \in Frame
         /\ Cells(Painted(vram, CellDots(cursor_x, cursor_y, Glyph[ch]), 1)) =
              Screen!Printed(ch)
<1> DEFINE offs == Glyph[ch]
           old == Cells(vram)[Screen!Place(cursor_y)][cursor_x]
<1>1. offs \in SUBSET Offsets
  BY RgbAssumption
<1>2. CellDots(cursor_x, cursor_y, offs) \in SUBSET Dots
  BY <1>1, CellDotsAreDots DEF Columns
<1>3. Cells(Painted(vram, CellDots(cursor_x, cursor_y, offs), 1)) =
        IF Screen!Shown(cursor_y)
          THEN [Cells(vram) EXCEPT ![Screen!Place(cursor_y)][cursor_x] = old \cup offs]
          ELSE Cells(vram)
  BY <1>1, PaintedCells
<1>4. Screen!Printed(ch) =
        IF Screen!Shown(cursor_y)
          THEN [Cells(vram) EXCEPT ![Screen!Place(cursor_y)][cursor_x] = old \cup offs]
          ELSE Cells(vram)
  <2> DEFINE dots == IF Screen!Shown(cursor_y) THEN old \cup offs ELSE offs
  <2>1. Screen!Printed(ch) = Screen!Written(cursor_x, cursor_y, dots)
    BY CellsOfScreen DEF Screen!Printed
  <2> HIDE DEF dots
  <2>2. Screen!Written(cursor_x, cursor_y, dots) =
          IF Screen!Shown(cursor_y)
            THEN [Cells(vram) EXCEPT ![Screen!Place(cursor_y)][cursor_x] = dots]
            ELSE Cells(vram)
    BY CellsOfScreen DEF Screen!Written
  <2>. QED
    BY <2>1, <2>2 DEF dots
<1>. QED
  BY <1>2, <1>3, <1>4, PaintedFrame

LEMMA InitOfScreen == Init => Screen!Init
<1> SUFFICES ASSUME Init PROVE Screen!Init
  OBVIOUS
<1>1. Cells(vram) = Screen!BlankScreen
  BY BlankCells DEF Init
<1>. QED
  BY <1>1, CellsOfScreen DEF Init, Screen!Init

LEMMA BackspaceOfScreen ==
  ASSUME WholeRows, IInv, Backspace
  PROVE  Screen!Backspace \/ UNCHANGED vars
<1>1. vram \in Frame /\ cursor_x \in Columns /\ cursor_y \in 0 .. (UintMod - 1)
      /\ max_cols \in Nat \ {0} /\ UintMod \in Nat
  BY Sizes, RgbAssumption DEF IInv, TypeOK, Frame, Columns
<1>2. CASE cursor_x > 0 /\ cursor_x' = cursor_x - 1 /\ UNCHANGED cursor_y /\ Erase
  <2>1. cursor_x - 1 \in Columns
    BY <1>1, <1>2 DEF Columns
  <2>2. vram' = Painted(vram, CellDots(cursor_x - 1, cursor_y, Offsets), 0)
    BY <1>2 DEF Erase
  <2>3. Cells(vram') = Screen!Written(cursor_x - 1, cursor_y, {})
    BY <1>1, <2>1, <2>2, PaintedIsWritten
  <2>. QED
    BY <1>2, <2>3 DEF Screen!Backspace, Cells, InkOf, Ink, Pixel, Lines, Columns
<1>3. CASE /\ cursor_x = 0 /\ cursor_y > 0
           /\ cursor_x' = max_cols - 1 /\ cursor_y' = cursor_y - 1 /\ Erase
  <2>1. max_cols - 1 \in Columns /\ cursor_y - 1 \in 0 .. (UintMod - 1)
    BY <1>1, <1>3 DEF Columns
  <2>2. vram' = Painted(vram, CellDots(max_cols - 1, cursor_y - 1, Offsets), 0)
    BY <1>3 DEF Erase
  <2>3. Cells(vram') = Screen!Written(max_cols - 1, cursor_y - 1, {})
    BY <1>1, <2>1, <2>2, PaintedIsWritten
  <2>. QED
    BY <1>3, <2>3 DEF Screen!Backspace, Cells, InkOf, Ink, Pixel, Lines, Columns
<1>. QED
  BY <1>2, <1>3 DEF Backspace

LEMMA StepOfScreen ==
  ASSUME WholeRows
  PROVE  IInv /\ [Next]_vars => [Screen!Next]_(Screen!vars)
<1> SUFFICES ASSUME IInv, [Next]_vars PROVE [Screen!Next]_(Screen!vars)
  OBVIOUS
<1>0. /\ vram \in Frame /\ cursor_x \in Columns /\ cursor_y \in 0 .. (UintMod - 1)
      /\ 0 \in Columns /\ UintMod \in Nat \ {0} /\ max_cols \in Nat
      /\ (cursor_y + 1) % UintMod \in 0 .. (UintMod - 1)
  BY Sizes, RgbAssumption DEF IInv, TypeOK, Frame, Columns
<1>1. ASSUME NEW ch \in Char, PrintChar(ch) PROVE Screen!PrintChar(ch)
  <2> DEFINE v == Painted(vram, CellDots(cursor_x, cursor_y, Glyph[ch]), 1)
  <2>1. v \in Frame /\ Cells(v) = Screen!Printed(ch)
    BY <1>0, PaintedIsPrinted
  <2>2. Settle(v)
    BY <1>1 DEF PrintChar
  <2> HIDE DEF v
  <2>3. CASE AtLineEnd
    <3>1. cursor_x' = 0 /\ cursor_y' = (cursor_y + 1) % UintMod
      BY <1>1, <2>3 DEF PrintChar, NextRow
    <3>2. Screen!MoveTo(Screen!Printed(ch), 0, (cursor_y + 1) % UintMod)
      BY <1>0, <2>1, <2>2, <3>1, SettleMoves
    <3>. QED
      BY <2>3, <3>2 DEF Screen!PrintChar, AtLineEnd
  <2>4. CASE ~AtLineEnd
    <3>1. cursor_x' = cursor_x + 1 /\ cursor_y' = cursor_y
      BY <1>1, <2>4 DEF PrintChar
    <3>2. cursor_x + 1 \in Columns
      BY <1>0, <2>4 DEF AtLineEnd, Columns
    <3>3. Screen!MoveTo(Screen!Printed(ch), cursor_x + 1, cursor_y)
      BY <1>0, <2>1, <2>2, <3>1, <3>2, SettleMoves
    <3>. QED
      BY <2>4, <3>3 DEF Screen!PrintChar, AtLineEnd
  <2>. QED
    BY <2>3, <2>4
<1>2. ASSUME NewLine PROVE Screen!NewLine
  <2>1. Screen!MoveTo(Cells(vram), 0, (cursor_y + 1) % UintMod)
    BY <1>0, <1>2, SettleMoves DEF NewLine, NextRow
  <2>. QED
    BY <2>1, CellsOfScreen DEF Screen!NewLine
<1>3. ASSUME CarriageReturn PROVE Screen!Return
  <2>1. Screen!MoveTo(Cells(vram), 0, cursor_y)
    BY <1>0, <1>3, SettleMoves DEF CarriageReturn
  <2>. QED
    BY <2>1, CellsOfScreen DEF Screen!Return
<1>4. ASSUME OtherChar PROVE Screen!Ignore
  <2>1. Screen!MoveTo(Cells(vram), cursor_x, cursor_y)
    BY <1>0, <1>4, SettleMoves DEF OtherChar
  <2>. QED
    BY <2>1, CellsOfScreen DEF Screen!Ignore
<1>5. ASSUME Clear PROVE Screen!Clear
  <2>1. vram' = [a \in 0 .. (total - 1) |-> 0]
    <3>1. DOMAIN vram = 0 .. (total - 1) /\ Span(0, total) = 0 .. (total - 1)
      BY <1>0, Sizes DEF Frame, Span
    <3>. QED
      BY <1>5, <3>1 DEF Clear, Filled
  <2>2. Cells(vram') = Screen!BlankScreen
    BY <2>1, BlankCells
  <2>. QED
    BY <1>5, <2>2 DEF Clear, Screen!Clear, Cells, InkOf, Ink, Pixel, Lines, Columns
<1>6. ASSUME Scroll PROVE Screen!Scroll
  <2>1. Cells(vram') = Screen!ScrolledUp(Cells(vram))
    BY <1>0, <1>6, ScrolledCells DEF Scroll
  <2>. QED
    BY <1>6, <2>1 DEF Scroll, Screen!Scroll, Cells, InkOf, Ink, Pixel, Lines, Columns
<1>7. CASE UNCHANGED vars
  BY <1>7 DEF vars, Screen!vars, Ink
<1>. QED
  BY <1>1, <1>2, <1>3, <1>4, <1>5, <1>6, <1>7, BackspaceOfScreen
  DEF Next, putc, Screen!Next

(* rgb.c is a terminal whose cursor runs off the bottom and never comes    *)
(* back: on every screen that is a whole number of rows of characters      *)
(* high, for every font, each call has on the cells the effect of the      *)
(* terminal's call (rgb.c:45-215).                                         *)
THEOREM RgbImplementsScreen ==
  ASSUME WholeRows
  PROVE  Spec => ImplementsScreen
<1>1. IInv /\ [Next]_vars => [Screen!Next]_(Screen!vars)
  BY StepOfScreen
<1>2. Spec => Screen!Init /\ [][Screen!Next]_(Screen!vars)
  BY <1>1, IInvAlways, InitOfScreen, PTL DEF Spec
<1>. QED
  BY <1>2, PTL DEF ImplementsScreen, Screen!Spec

-----------------------------------------------------------------------------
(***************************************************************************)
(* What is lost below the screen.                                          *)
(***************************************************************************)

(* The rows of v from k on are blank. *)
BlankFrom(v, k) == \A r \in Lines : r >= k => \A c \in Columns : InkOf(v, r, c) = {}

LEMMA BlankFromMore ==
  ASSUME NEW v, NEW k \in Int, NEW m \in Int, k <= m, BlankFrom(v, k)
  PROVE  BlankFrom(v, m)
<1>1. \A r \in Lines : r \in Int
  BY Sizes DEF Lines
<1>. QED
  BY <1>1 DEF BlankFrom

(* Nothing is painted on a row that is not displayed. *)
LEMMA PaintedNowhere ==
  ASSUME WholeRows, NEW v \in Frame, NEW x \in Columns, NEW y \in 0 .. (UintMod - 1),
         NEW offs \in SUBSET Offsets, NEW ink, ~Screen!Shown(y)
  PROVE  Painted(v, CellDots(x, y, offs), ink) = v
<1> DEFINE dots == CellDots(x, y, offs)
<1>1. ASSUME NEW d \in dots PROVE ~OnScreen(d[1], d[2])
  <2>1. PICK o \in offs : d = <<(x * CharW + o[1]) % UintMod,
                                (y * CharH + o[2]) % UintMod>>
    BY DEF CellDots
  <2>2. OnScreen(d[1], d[2]) <=> Screen!Place(y) < max_rows
    BY <2>1, DotDisplayed
  <2>. QED
    BY <2>2 DEF Screen!Shown
<1> HIDE DEF dots
<1>2. {Address(d[1], d[2]) : d \in {e \in dots : OnScreen(e[1], e[2])}} = {}
  BY <1>1
<1>3. Painted(v, dots, ink) = [a \in DOMAIN v |-> v[a]]
  BY <1>2 DEF Painted
<1>4. [a \in DOMAIN v |-> v[a]] = v
  BY DEF Frame
<1>. QED
  BY <1>3, <1>4 DEF dots

(* Rows of the cursor and rows of the screen. *)
LEMMA PeriodIs == Period \in Nat \ {0} /\ max_rows < Period /\ max_rows \in Nat \ {0}
  BY Periods, Sizes DEF Period

LEMMA PlaceIs ==
  ASSUME NEW y \in Nat
  PROVE  /\ Screen!Place(y) \in 0 .. (Period - 1)
         /\ y < Period => Screen!Place(y) = y
         /\ Screen!Place(y + 1) = IF Screen!Place(y) = Period - 1 THEN 0
                                  ELSE Screen!Place(y) + 1
         /\ Screen!Shown(y) <=> Screen!Place(y) < max_rows
         /\ Offscreen(y) <=> ~Screen!Shown(y)
<1>1. Period \in Nat \ {0} /\ max_rows \in Nat
  BY PeriodIs
<1>2. \A n : Screen!Place(n) = n % Period
  BY DEF Screen!Place, Period
<1>3. y = (y \div Period) * Period + (y % Period) /\ y % Period \in 0 .. (Period - 1)
      /\ y \div Period \in Nat
  BY <1>1
<1> DEFINE q == y \div Period
           p == y % Period
<1>4. y = q * Period + p /\ p \in 0 .. (Period - 1) /\ q \in Nat
  BY <1>3
<1> HIDE DEF p, q
<1>5. (y + 1) % Period = IF p = Period - 1 THEN 0 ELSE p + 1
  <2>1. CASE p = Period - 1
    <3>1. (q + 1) * Period = q * Period + Period /\ q * Period \in Nat
      BY <1>1, <1>4
    <3>2. y + 1 = (q + 1) * Period + 0 /\ q + 1 \in Nat /\ 0 \in 0 .. (Period - 1)
      BY <1>1, <1>4, <2>1, <3>1
    <3>3. \A r \in Nat : r < Period => ((q + 1) * Period + r) % Period = r
      BY <1>1, <3>2, RemainderOf
    <3>4. (y + 1) % Period = 0
      BY <1>1, <3>2, <3>3
    <3>. QED
      BY <2>1, <3>4
  <2>2. CASE p # Period - 1
    <3>1. y + 1 = q * Period + (p + 1) /\ p + 1 \in 0 .. (Period - 1)
      BY <1>1, <1>4, <2>2
    <3>2. (y + 1) % Period = p + 1
      BY <1>1, <1>4, <3>1, RemainderOf
    <3>. QED
      BY <2>2, <3>2
  <2>. QED
    BY <2>1, <2>2
<1>6. y < Period => y % Period = y
  BY <1>1, SmallRemainder
<1>7. Screen!Shown(y) <=> y % Period < max_rows
  BY <1>2 DEF Screen!Shown
<1>8. Offscreen(y) <=> ~(y % Period < max_rows)
  BY <1>1, <1>3 DEF Offscreen
<1>. QED
  BY <1>2, <1>3, <1>5, <1>6, <1>7, <1>8 DEF p

(* The cells of a painted and of a scrolled picture, one by one. *)
LEMMA PaintedInk ==
  ASSUME WholeRows, NEW v \in Frame, NEW x \in Columns,
         NEW y \in 0 .. (UintMod - 1), NEW offs \in SUBSET Offsets,
         NEW ink \in {0, 1}, NEW r \in Lines, NEW c \in Columns,
         \/ r # Screen!Place(y) \/ c # x
         \/ InkOf(v, r, c) = {} /\ ink = 0
  PROVE  InkOf(Painted(v, CellDots(x, y, offs), ink), r, c) = InkOf(v, r, c)
<1> DEFINE w == Painted(v, CellDots(x, y, offs), ink)
           s == Screen!Place(y)
<1>1. \A o \in Offsets : w[Pixel(c, r, o)] =
        IF c = x /\ r = s /\ o \in offs THEN ink ELSE v[Pixel(c, r, o)]
  BY PaintedPixel
<1> HIDE DEF w
<1>2. ASSUME r # s \/ c # x PROVE InkOf(w, r, c) = InkOf(v, r, c)
  <2>1. \A o \in Offsets : w[Pixel(c, r, o)] = v[Pixel(c, r, o)]
    BY <1>1, <1>2
  <2>. QED
    BY <2>1 DEF InkOf
<1>3. ASSUME InkOf(v, r, c) = {}, ink = 0 PROVE InkOf(w, r, c) = InkOf(v, r, c)
  <2>1. \A o \in Offsets : w[Pixel(c, r, o)] # 1
    BY <1>1, <1>3 DEF InkOf
  <2>. QED
    BY <1>3, <2>1 DEF InkOf
<1>. QED
  BY <1>2, <1>3 DEF w

LEMMA ErasedInk ==
  ASSUME WholeRows, NEW v \in Frame, NEW x \in Columns,
         NEW y \in 0 .. (UintMod - 1), Screen!Place(y) \in Lines
  PROVE  InkOf(Painted(v, CellDots(x, y, Offsets), 0), Screen!Place(y), x) = {}
<1> DEFINE w == Painted(v, CellDots(x, y, Offsets), 0)
           s == Screen!Place(y)
<1>1. \A o \in Offsets : w[Pixel(x, s, o)] =
        IF x = x /\ s = s /\ o \in Offsets THEN 0 ELSE v[Pixel(x, s, o)]
  BY PaintedPixel
<1> HIDE DEF w, s
<1>2. \A o \in Offsets : w[Pixel(x, s, o)] = 0
  BY <1>1
<1>3. InkOf(w, s, x) = {}
  BY <1>2 DEF InkOf
<1>. QED
  BY <1>3 DEF w, s

LEMMA ScrolledInk ==
  ASSUME WholeRows, NEW v \in Frame, NEW r \in Lines, NEW c \in Columns
  PROVE  InkOf(Scrolled(v), r, c) =
           IF r < max_rows - 1 THEN InkOf(v, r + 1, c) ELSE {}
<1>1. max_rows \in Nat \ {0}
  BY Sizes
<1>2. Cells(Scrolled(v)) = Screen!ScrolledUp(Cells(v))
  BY ScrolledCells
<1>3. Cells(Scrolled(v))[r] =
        IF r < max_rows - 1 THEN Cells(v)[r + 1] ELSE Screen!BlankRow
  BY <1>2 DEF Screen!ScrolledUp, Lines
<1>4. Cells(Scrolled(v))[r][c] = InkOf(Scrolled(v), r, c)
  BY DEF Cells
<1>5. CASE r < max_rows - 1
  <2>1. r + 1 \in Lines
    BY <1>1, <1>5 DEF Lines
  <2>2. Cells(v)[r + 1][c] = InkOf(v, r + 1, c)
    BY <2>1 DEF Cells
  <2>. QED
    BY <1>3, <1>4, <1>5, <2>2
<1>6. CASE ~(r < max_rows - 1)
  BY <1>3, <1>4, <1>6 DEF Screen!BlankRow, Columns
<1>. QED
  BY <1>5, <1>6

(* A scroll blanks one row more, the last one in any case. *)
LEMMA ScrolledBlank ==
  ASSUME WholeRows, NEW v \in Frame, NEW k \in Int, BlankFrom(v, k), k <= max_rows
  PROVE  Scrolled(v) \in Frame /\ BlankFrom(Scrolled(v), k - 1)
<1>1. max_rows \in Nat \ {0}
  BY Sizes
<1>2. ASSUME NEW r \in Lines, r >= k - 1, NEW c \in Columns
      PROVE  InkOf(Scrolled(v), r, c) = {}
  <2>1. CASE r < max_rows - 1
    <3>1. r + 1 \in Lines /\ r + 1 >= k
      BY <1>1, <1>2, <2>1 DEF Lines
    <3>2. InkOf(v, r + 1, c) = {}
      BY <3>1 DEF BlankFrom
    <3>. QED
      BY <2>1, <3>2, ScrolledInk
  <2>2. CASE ~(r < max_rows - 1)
    BY <2>2, ScrolledInk
  <2>. QED
    BY <2>1, <2>2
<1>. QED
  BY <1>2, ScrolledFrame DEF BlankFrom

-----------------------------------------------------------------------------
(* Erasing. *)

Erased(v, x, y) == Painted(v, CellDots(x, y, Offsets), 0)

(* Where dots are stored. *)
Hit(dots) == {Address(d[1], d[2]) : d \in {e \in dots : OnScreen(e[1], e[2])}}

LEMMA PaintedIs ==
  \A v, dots, ink :
    Painted(v, dots, ink) =
      [a \in DOMAIN v \cup Hit(dots) |-> IF a \in Hit(dots) THEN ink ELSE v[a]]
  BY DEF Painted, Hit

(* What was in a cell does not show after it is erased. *)
LEMMA ErasedTwice ==
  ASSUME NEW v, NEW x, NEW y, NEW offs \in SUBSET Offsets, NEW ink
  PROVE  Erased(Painted(v, CellDots(x, y, offs), ink), x, y) = Erased(v, x, y)
<1> DEFINE all == Hit(CellDots(x, y, Offsets))
           some == Hit(CellDots(x, y, offs))
           w == Painted(v, CellDots(x, y, offs), ink)
<1>1. CellDots(x, y, offs) \subseteq CellDots(x, y, Offsets)
  BY DEF CellDots
<1>2. some \subseteq all
  BY <1>1 DEF Hit
<1>3. w = [a \in DOMAIN v \cup some |-> IF a \in some THEN ink ELSE v[a]]
  BY PaintedIs
<1>4. Erased(w, x, y) = [a \in DOMAIN w \cup all |-> IF a \in all THEN 0 ELSE w[a]]
  BY PaintedIs DEF Erased
<1>5. Erased(v, x, y) = [a \in DOMAIN v \cup all |-> IF a \in all THEN 0 ELSE v[a]]
  BY PaintedIs DEF Erased
<1> HIDE DEF all, some, w
<1>6. DOMAIN w = DOMAIN v \cup some
  BY <1>3
<1>7. DOMAIN w \cup all = DOMAIN v \cup all
  BY <1>2, <1>6
<1>8. ASSUME NEW a \in DOMAIN v \cup all
      PROVE  (IF a \in all THEN 0 ELSE w[a]) = (IF a \in all THEN 0 ELSE v[a])
  <2>1. CASE a \in all
    BY <2>1
  <2>2. CASE a \notin all
    <3>1. a \in DOMAIN v \cup some /\ a \notin some
      BY <1>2, <2>2
    <3>2. w[a] = v[a]
      BY <1>3, <3>1
    <3>. QED
      BY <2>2, <3>2
  <2>. QED
    BY <2>1, <2>2
<1>9. Erased(w, x, y) = Erased(v, x, y)
  BY <1>4, <1>5, <1>7, <1>8
<1>. QED
  BY <1>9 DEF w

(* Erasing a cell that is blank, or not displayed, changes nothing. *)
LEMMA ErasedBlank ==
  ASSUME WholeRows, NEW v \in Frame, NEW x \in Columns, NEW y \in 0 .. (UintMod - 1),
         Screen!Shown(y) => InkOf(v, Screen!Place(y), x) = {}
  PROVE  Erased(v, x, y) = v
<1> DEFINE dots == CellDots(x, y, Offsets)
           s == Screen!Place(y)
<1>1. CASE ~Screen!Shown(y)
  BY <1>1, PaintedNowhere DEF Erased
<1>2. CASE Screen!Shown(y)
  <2>1. s \in Lines
    <3>1. y \in Nat /\ UintMod \in Nat
      BY RgbAssumption
    <3>. QED
      BY <1>2, <3>1, PlaceIs, PeriodIs DEF Lines
  <2>2. ASSUME NEW a \in Hit(dots) PROVE a \in DOMAIN v /\ v[a] = 0
    <3>1. PICK d \in dots : OnScreen(d[1], d[2]) /\ a = Address(d[1], d[2])
      BY <2>2 DEF Hit
    <3>2. PICK o \in Offsets : d = <<(x * CharW + o[1]) % UintMod,
                                     (y * CharH + o[2]) % UintMod>>
      BY <3>1 DEF CellDots
    <3>3. d = <<x * CharW + o[1], s * CharH + o[2]>>
      BY <3>2, DotDisplayed
    <3>4. a = Pixel(x, s, o)
      BY <3>1, <3>3 DEF Pixel
    <3> HIDE DEF s
    <3>5. a \in 0 .. (total - 1)
      BY <2>1, <3>4, PixelInside
    <3>6. v[a] # 1
      BY <1>2, <3>4 DEF InkOf, s
    <3>7. a \in DOMAIN v /\ v[a] \in {0, 1}
      BY <3>5 DEF Frame
    <3>. QED
      BY <3>6, <3>7
  <2> HIDE DEF dots
  <2>3. Painted(v, dots, 0) =
          [a \in DOMAIN v \cup Hit(dots) |-> IF a \in Hit(dots) THEN 0 ELSE v[a]]
    BY PaintedIs
  <2>4. DOMAIN v \cup Hit(dots) = DOMAIN v
    BY <2>2
  <2>5. Painted(v, dots, 0) = [a \in DOMAIN v |-> v[a]]
    BY <2>2, <2>3, <2>4
  <2>6. [a \in DOMAIN v |-> v[a]] = v
    BY DEF Frame
  <2>. QED
    BY <2>5, <2>6 DEF Erased, dots
<1>. QED
  BY <1>1, <1>2

(* What is blank stays blank when a cell is erased, and below the cell     *)
(* when a character is printed.                                            *)
LEMMA ErasedKeeps ==
  ASSUME WholeRows, NEW v \in Frame, NEW x \in Columns, NEW y \in 0 .. (UintMod - 1)
  PROVE  /\ Erased(v, x, y) \in Frame
         /\ \A r \in Lines, c \in Columns :
              InkOf(v, r, c) = {} => InkOf(Erased(v, x, y), r, c) = {}
         /\ \A k : BlankFrom(v, k) => BlankFrom(Erased(v, x, y), k)
<1>1. \A r \in Lines, c \in Columns :
        InkOf(v, r, c) = {} => InkOf(Erased(v, x, y), r, c) = {}
  BY PaintedInk DEF Erased
<1>2. CellDots(x, y, Offsets) \in SUBSET Dots
  BY CellDotsAreDots DEF Columns
<1>3. Erased(v, x, y) \in Frame
  BY <1>2, PaintedFrame DEF Erased
<1>. QED
  BY <1>1, <1>3 DEF BlankFrom

LEMMA PaintedKeeps ==
  ASSUME WholeRows, NEW v \in Frame, NEW x \in Columns, NEW y \in 0 .. (UintMod - 1),
         NEW offs \in SUBSET Offsets, NEW k \in Int, BlankFrom(v, k),
         Screen!Shown(y) => Screen!Place(y) < k
  PROVE  BlankFrom(Painted(v, CellDots(x, y, offs), 1), k)
<1>1. CASE ~Screen!Shown(y)
  BY <1>1, PaintedNowhere
<1>2. CASE Screen!Shown(y)
  <2>1. y \in Nat /\ UintMod \in Nat /\ max_rows \in Nat
    BY RgbAssumption, Sizes
  <2>2. Screen!Place(y) \in Int
    BY <2>1, PlaceIs, PeriodIs
  <2>3. \A r \in Lines : r \in Int
    BY <2>1 DEF Lines
  <2>4. \A r \in Lines : r >= k => r # Screen!Place(y)
    BY <1>2, <2>2, <2>3
  <2>. QED
    BY <2>4, PaintedInk DEF BlankFrom
<1>. QED
  BY <1>1, <1>2

(* What the calls that end in Settle have in common: some dots, perhaps    *)
(* none, are painted into the cell of the cursor.                          *)
LEMMA SettledPaint ==
  ASSUME IInv,
         (\E ch \in Char : PrintChar(ch)) \/ NewLine \/ CarriageReturn \/ OtherChar
  PROVE  /\ cursor_y' \in {cursor_y, (cursor_y + 1) % UintMod}
         /\ \E offs \in SUBSET Offsets :
              Settle(Painted(vram, CellDots(cursor_x, cursor_y, offs), 1))
<1>1. cursor_y' \in {cursor_y, (cursor_y + 1) % UintMod}
  BY DEF PrintChar, NewLine, CarriageReturn, OtherChar, NextRow
<1>2. CASE \E ch \in Char : PrintChar(ch)
  <2>1. PICK ch \in Char : PrintChar(ch)
    BY <1>2
  <2>2. Glyph[ch] \in SUBSET Offsets
    BY RgbAssumption
  <2>. QED
    BY <1>1, <2>1, <2>2 DEF PrintChar
<1>3. CASE NewLine \/ CarriageReturn \/ OtherChar
  <2>1. Settle(vram)
    BY <1>3 DEF NewLine, CarriageReturn, OtherChar
  <2>2. Hit(CellDots(cursor_x, cursor_y, {})) = {}
    BY DEF Hit, CellDots
  <2>3. Painted(vram, CellDots(cursor_x, cursor_y, {}), 1) = [a \in DOMAIN vram |-> vram[a]]
    BY <2>2, PaintedIs
  <2>4. vram = [a \in DOMAIN vram |-> vram[a]]
    BY DEF IInv, TypeOK
  <2>. QED
    BY <1>1, <2>1, <2>3, <2>4
<1>. QED
  BY <1>2, <1>3

LEMMA CursorRows ==
  IInv => /\ vram \in Frame /\ cursor_x \in Columns /\ cursor_y \in 0 .. (UintMod - 1)
          /\ UintMod \in Nat \ {0} /\ cursor_y \in Nat /\ cursor_x \in Nat
          /\ max_cols \in Nat \ {0}
          /\ \A n \in {cursor_y, (cursor_y + 1) % UintMod} :
               n \in 0 .. (UintMod - 1) /\ n \in Nat
          /\ (cursor_y + 1) % UintMod = IF cursor_y = UintMod - 1 THEN 0 ELSE cursor_y + 1
<1> SUFFICES ASSUME IInv
             PROVE  /\ vram \in Frame /\ cursor_x \in Columns
                    /\ cursor_y \in 0 .. (UintMod - 1)
                    /\ UintMod \in Nat \ {0} /\ cursor_y \in Nat /\ cursor_x \in Nat
                    /\ max_cols \in Nat \ {0}
                    /\ \A n \in {cursor_y, (cursor_y + 1) % UintMod} :
                         n \in 0 .. (UintMod - 1) /\ n \in Nat
                    /\ (cursor_y + 1) % UintMod =
                         IF cursor_y = UintMod - 1 THEN 0 ELSE cursor_y + 1
  OBVIOUS
<1>1. UintMod \in Nat \ {0} /\ max_cols \in Nat \ {0}
  BY RgbAssumption, Sizes
<1>2. /\ vram \in Frame /\ cursor_x \in Columns /\ cursor_y \in 0 .. (UintMod - 1)
      /\ cursor_y \in Nat /\ cursor_x \in Nat
  BY <1>1 DEF IInv, TypeOK, Frame, Columns
<1>3. (cursor_y + 1) % UintMod = IF cursor_y = UintMod - 1 THEN 0 ELSE cursor_y + 1
  BY <1>1, <1>2
<1>. QED
  BY <1>1, <1>2, <1>3

-----------------------------------------------------------------------------
(* The lost rows. *)

Lost(v, y, b) == b \in 0 .. max_rows /\ (Offscreen(y) => BlankFrom(v, max_rows - b))

LEMMA LostIsLost ==
  Lost(vram, cursor_y, below) => TextIsLostBelow
<1> SUFFICES ASSUME Lost(vram, cursor_y, below), Offscreen(cursor_y),
                    NEW r \in (max_rows - below) .. (max_rows - 1),
                    NEW x \in 0 .. (max_cols - 1)
             PROVE  Ink(r, x) = {}
  BY DEF TextIsLostBelow
<1>1. max_rows \in Nat
  BY Sizes
<1>2. r \in Lines /\ r >= max_rows - below /\ x \in Columns
  BY <1>1 DEF Lost, Lines, Columns
<1>3. InkOf(vram, r, x) = {}
  BY <1>2 DEF Lost, BlankFrom
<1>. QED
  BY <1>3 DEF InkOf, Ink, Pixel

LEMMA OffscreenScrolls ==
  ASSUME NEW y \in Nat, Offscreen(y)
  PROVE  y >= max_rows
  BY PlaceIs, PeriodIs

LEMMA LostInit == HistoryInit => Lost(vram, cursor_y, below)
<1> SUFFICES ASSUME HistoryInit PROVE Lost(vram, cursor_y, below)
  OBVIOUS
<1>1. max_rows \in Nat /\ below = 0
  BY Sizes DEF HistoryInit
<1>2. \A r \in Lines : ~(r >= max_rows - below)
  BY <1>1 DEF Lines
<1>. QED
  BY <1>1, <1>2 DEF Lost, BlankFrom

(* Below the screen nothing is painted, and each call scrolls. *)
LEMMA LostByPutc ==
  ASSUME WholeRows, IInv, Lost(vram, cursor_y, below),
         (\E ch \in Char : PrintChar(ch)) \/ NewLine \/ CarriageReturn \/ OtherChar,
         Count(Scrolls)
  PROVE  Lost(vram', cursor_y', below')
<1>1. max_rows \in Nat \ {0} /\ below \in 0 .. max_rows
  BY Sizes DEF Lost
<1>2. CASE ~(Offscreen(cursor_y) /\ Offscreen(cursor_y'))
  <2>1. below' = 0
    BY <1>2 DEF Count
  <2>2. \A r \in Lines : ~(r >= max_rows - below')
    BY <1>1, <2>1 DEF Lines
  <2>. QED
    BY <1>1, <2>1, <2>2 DEF Lost, BlankFrom
<1>3. CASE Offscreen(cursor_y) /\ Offscreen(cursor_y')
  <2>1. vram \in Frame /\ cursor_x \in Columns /\ cursor_y \in 0 .. (UintMod - 1)
        /\ cursor_y \in Nat /\ cursor_y' \in Nat
    BY CursorRows, SettledPaint
  <2>2. PICK offs \in SUBSET Offsets :
          Settle(Painted(vram, CellDots(cursor_x, cursor_y, offs), 1))
    BY SettledPaint
  <2>3. ~Screen!Shown(cursor_y)
    BY <1>3, <2>1, PlaceIs
  <2>4. Settle(vram)
    BY <2>1, <2>2, <2>3, PaintedNowhere
  <2>5. cursor_y' >= max_rows
    BY <1>3, <2>1, OffscreenScrolls
  <2>6. vram' = Scrolled(vram)
    BY <2>4, <2>5 DEF Settle
  <2>7. below' = IF below < max_rows THEN below + 1 ELSE below
    BY <1>3, <2>5 DEF Count, Scrolls
  <2>8. BlankFrom(vram, max_rows - below)
    BY <1>3 DEF Lost
  <2>9. BlankFrom(vram', max_rows - below - 1)
    BY <1>1, <2>1, <2>6, <2>8, ScrolledBlank
  <2>10. BlankFrom(vram', max_rows - below')
    <3>1. max_rows - below - 1 \in Int /\ max_rows - below' \in Int
          /\ max_rows - below - 1 <= max_rows - below'
      BY <1>1, <2>7
    <3>. QED
      BY <2>9, <3>1, BlankFromMore
  <2>. QED
    BY <1>1, <2>7, <2>10 DEF Lost
<1>. QED
  BY <1>2, <1>3

LEMMA LostByScroll ==
  ASSUME WholeRows, IInv, Lost(vram, cursor_y, below), Scroll, Count(TRUE)
  PROVE  Lost(vram', cursor_y', below')
<1>1. max_rows \in Nat \ {0} /\ below \in 0 .. max_rows /\ vram \in Frame
  BY Sizes, CursorRows DEF Lost
<1>2. CASE ~Offscreen(cursor_y)
  BY <1>1, <1>2 DEF Scroll, Count, Lost, Offscreen
<1>3. CASE Offscreen(cursor_y)
  <2>1. vram' = Scrolled(vram) /\ cursor_y' = cursor_y
    BY DEF Scroll
  <2>2. Offscreen(cursor_y')
    BY <1>3, <2>1
  <2>3. below' = IF below < max_rows THEN below + 1 ELSE below
    BY <1>3, <2>2 DEF Count
  <2>4. BlankFrom(vram, max_rows - below)
    BY <1>3 DEF Lost
  <2>5. BlankFrom(vram', max_rows - below - 1)
    BY <1>1, <2>1, <2>4, ScrolledBlank
  <2>6. max_rows - below - 1 \in Int /\ max_rows - below' \in Int
        /\ max_rows - below - 1 <= max_rows - below'
    BY <1>1, <2>3
  <2>7. BlankFrom(vram', max_rows - below')
    BY <2>5, <2>6, BlankFromMore
  <2>. QED
    BY <1>1, <2>3, <2>7 DEF Lost
<1>. QED
  BY <1>2, <1>3

(* A backspace is an erasure, or nothing. *)
Unprint(v, x, y) ==
  IF x > 0 THEN Erased(v, x - 1, y)
  ELSE IF y > 0 THEN Erased(v, max_cols - 1, y - 1)
  ELSE v

LEMMA BackspaceIs ==
  ASSUME IInv, Backspace
  PROVE  /\ vram' = Unprint(vram, cursor_x, cursor_y)
         /\ \/ UNCHANGED vars
            \/ /\ cursor_x' \in Columns /\ cursor_y' \in 0 .. (UintMod - 1)
               /\ vram' = Erased(vram, cursor_x', cursor_y')
               /\ \/ cursor_x > 0 /\ cursor_x' = cursor_x - 1 /\ cursor_y' = cursor_y
                  \/ /\ cursor_x = 0 /\ cursor_y > 0
                     /\ cursor_x' = max_cols - 1 /\ cursor_y' = cursor_y - 1
<1>1. /\ cursor_x \in 0 .. (max_cols - 1) /\ cursor_y \in 0 .. (UintMod - 1)
      /\ max_cols \in Nat \ {0} /\ UintMod \in Nat
  BY CursorRows DEF Columns
<1>2. CASE cursor_x > 0 /\ cursor_x' = cursor_x - 1 /\ UNCHANGED cursor_y /\ Erase
  BY <1>1, <1>2 DEF Erase, Erased, Unprint, Columns
<1>3. CASE /\ cursor_x = 0 /\ cursor_y > 0
           /\ cursor_x' = max_cols - 1 /\ cursor_y' = cursor_y - 1 /\ Erase
  BY <1>1, <1>3 DEF Erase, Erased, Unprint, Columns
<1>4. CASE cursor_x = 0 /\ cursor_y = 0 /\ UNCHANGED vars
  BY <1>1, <1>4 DEF Unprint, vars
<1>. QED
  BY <1>2, <1>3, <1>4 DEF Backspace

LEMMA LostByBackspace ==
  ASSUME WholeRows, IInv, Lost(vram, cursor_y, below), Backspace, Count(FALSE)
  PROVE  Lost(vram', cursor_y', below')
<1>1. max_rows \in Nat \ {0} /\ below \in 0 .. max_rows /\ vram \in Frame
  BY Sizes, CursorRows DEF Lost
<1>2. below' \in 0 .. max_rows
  BY <1>1 DEF Count
<1>3. CASE ~(Offscreen(cursor_y) /\ Offscreen(cursor_y'))
  <2>1. below' = 0
    BY <1>3 DEF Count
  <2>2. \A r \in Lines : ~(r >= max_rows - below')
    BY <1>1, <2>1 DEF Lines
  <2>. QED
    BY <1>2, <2>2 DEF Lost, BlankFrom
<1>4. CASE Offscreen(cursor_y) /\ Offscreen(cursor_y')
  <2>1. below' = below
    BY <1>4 DEF Count
  <2>2. BlankFrom(vram, max_rows - below)
    BY <1>4 DEF Lost
  <2>3. BlankFrom(vram', max_rows - below)
    <3>1. CASE UNCHANGED vars
      BY <2>2, <3>1 DEF vars
    <3>2. CASE /\ cursor_x' \in Columns /\ cursor_y' \in 0 .. (UintMod - 1)
               /\ vram' = Erased(vram, cursor_x', cursor_y')
      BY <1>1, <2>2, <3>2, ErasedKeeps
    <3>. QED
      BY <3>1, <3>2, BackspaceIs
  <2>. QED
    BY <1>2, <2>1, <2>3 DEF Lost
<1>. QED
  BY <1>3, <1>4

LEMMA ClearBlanks ==
  ASSUME IInv, Clear, NEW k
  PROVE  BlankFrom(vram', k)
<1>1. DOMAIN vram = 0 .. (total - 1) /\ Span(0, total) = 0 .. (total - 1)
  BY CursorRows, Sizes DEF Frame, Span
<1>2. vram' = [a \in 0 .. (total - 1) |-> 0]
  BY <1>1 DEF Clear, Filled
<1>. QED
  BY <1>2, PixelInside DEF BlankFrom, InkOf

LEMMA LostStep ==
  ASSUME WholeRows
  PROVE  IInv /\ Lost(vram, cursor_y, below)
           /\ [HistoryNext]_<<vars, below, unprinted>>
         => Lost(vram', cursor_y', below')
<1> SUFFICES ASSUME IInv, Lost(vram, cursor_y, below),
                    [HistoryNext]_<<vars, below, unprinted>>
             PROVE  Lost(vram', cursor_y', below')
  OBVIOUS
<1>1. CASE Printing
  BY <1>1, LostByPutc DEF Printing
<1>2. CASE Control
  BY <1>2, LostByPutc DEF Control
<1>3. CASE Backspace /\ Count(FALSE)
  BY <1>3, LostByBackspace
<1>4. CASE Clear /\ Count(FALSE)
  <2>1. BlankFrom(vram', max_rows - below')
    BY <1>4, ClearBlanks
  <2>2. below' \in 0 .. max_rows
    BY <1>4, Sizes DEF Count, Lost
  <2>. QED
    BY <2>1, <2>2 DEF Lost
<1>5. CASE Scroll /\ Count(TRUE)
  BY <1>5, LostByScroll
<1>6. CASE UNCHANGED <<vars, below, unprinted>>
  BY <1>6 DEF vars, Lost, BlankFrom, Offscreen
<1>. QED
  BY <1>1, <1>2, <1>3, <1>4, <1>5, <1>6 DEF HistoryNext

(* The history variables watch: what they watch is a behaviour of Rgb. *)
LEMMA HistoryIsRgb == HistorySpec => Spec
<1>1. HistoryInit => Init
  BY DEF HistoryInit
<1>2. [HistoryNext]_<<vars, below, unprinted>> => [Next]_vars
  BY DEF HistoryNext, Printing, Control, Next, putc, vars
<1>. QED
  BY <1>1, <1>2, PTL DEF HistorySpec, Spec

(* On every screen of whole rows, text printed after the cursor has gone   *)
(* below it is lost: n calls that scroll later the last n rows are blank,  *)
(* whatever was printed meanwhile (rgb.c:35, 69-77, 213).                  *)
THEOREM TextStaysLost ==
  ASSUME WholeRows
  PROVE  HistorySpec => []TextIsLostBelow
<1>1. HistoryInit => Lost(vram, cursor_y, below)
  BY LostInit
<1>2. IInv /\ Lost(vram, cursor_y, below)
        /\ [HistoryNext]_<<vars, below, unprinted>>
      => Lost(vram, cursor_y, below)'
  <2>1. Lost(vram, cursor_y, below)' <=> Lost(vram', cursor_y', below')
    BY DEF Lost, BlankFrom, InkOf, Pixel, Lines, Columns, Offscreen, Period
  <2>. QED
    BY <2>1, LostStep
<1>3. HistorySpec => []IInv
  BY HistoryIsRgb, IInvAlways, PTL
<1>4. HistorySpec => []Lost(vram, cursor_y, below)
  BY <1>1, <1>2, <1>3, PTL DEF HistorySpec
<1>. QED
  BY <1>4, LostIsLost, PTL

-----------------------------------------------------------------------------
(* What a backspace takes back. *)

(* A uint32_t counts at least twice the rows of the screen. *)
Wide == 2 * max_rows <= Period

(* With the cursor at row y below the first screenful the rows from here   *)
(* on are blank: those below the cursor or, with the cursor off the        *)
(* screen, those that have come in since it left.                          *)
Threshold(y) ==
  IF Screen!Shown(y) THEN Screen!Place(y) + 1
                     ELSE 2 * max_rows - Screen!Place(y) - 1

BlankRight(v, r, x) == \A c \in Columns : c >= x => InkOf(v, r, c) = {}

Behind(v, x, y) ==
  y >= max_rows =>
    /\ BlankFrom(v, Threshold(y))
    /\ Screen!Shown(y) => BlankRight(v, Screen!Place(y), x)

LEMMA ThresholdIs ==
  ASSUME NEW y \in Nat
  PROVE  Threshold(y) \in Int /\ Threshold(y) <= max_rows
         /\ (Screen!Shown(y) => Screen!Place(y) \in Lines
                                /\ Screen!Place(y) < Threshold(y))
  BY PlaceIs, PeriodIs DEF Threshold, Lines

LEMMA NextThreshold ==
  ASSUME Wide, NEW y \in Nat, y + 1 >= max_rows
  PROVE  LET k == IF y >= max_rows THEN Threshold(y) ELSE max_rows
         IN  /\ k - 1 <= Threshold(y + 1)
             /\ Screen!Shown(y + 1) => k - 1 <= Screen!Place(y + 1)
<1>0. max_rows \in Nat \ {0} /\ Period \in Nat /\ max_rows < Period
      /\ 2 * max_rows <= Period
  BY PeriodIs DEF Wide
<1> DEFINE p == Screen!Place(y)
           q == Screen!Place(y + 1)
<1>1. p \in 0 .. (Period - 1) /\ q = IF p = Period - 1 THEN 0 ELSE p + 1
  BY PlaceIs
<1>2. (Screen!Shown(y) <=> p < max_rows) /\ (Screen!Shown(y + 1) <=> q < max_rows)
  BY PlaceIs
<1>3. Threshold(y) = IF p < max_rows THEN p + 1 ELSE 2 * max_rows - p - 1
  BY <1>2 DEF Threshold
<1>4. Threshold(y + 1) = IF q < max_rows THEN q + 1 ELSE 2 * max_rows - q - 1
  BY <1>2 DEF Threshold
<1>5. y < max_rows => y = max_rows - 1 /\ p = y
  BY <1>0, PlaceIs
<1> HIDE DEF p, q
<1>. QED
  BY <1>0, <1>1, <1>2, <1>3, <1>4, <1>5 DEF q

(* A scroll with the cursor left where it was, or one row further down. *)
LEMMA ScrolledBehind ==
  ASSUME WholeRows, Wide, NEW v \in Frame, NEW y \in Nat, NEW n \in {y, y + 1},
         n >= max_rows, y >= max_rows => BlankFrom(v, Threshold(y)), NEW x
  PROVE  Behind(Scrolled(v), x, n)
<1> DEFINE k == IF y >= max_rows THEN Threshold(y) ELSE max_rows
<1>1. max_rows \in Nat
  BY Sizes
<1>2. k \in Int /\ k <= max_rows
  BY <1>1, ThresholdIs
<1>3. BlankFrom(v, k)
  BY <1>1 DEF BlankFrom, Lines
<1>4. k - 1 <= Threshold(n) /\ (Screen!Shown(n) => k - 1 <= Screen!Place(n))
  <2>1. CASE n = y
    BY <2>1, ThresholdIs, PlaceIs, PeriodIs DEF Threshold
  <2>2. CASE n = y + 1
    BY <2>2, NextThreshold
  <2>. QED
    BY <2>1, <2>2
<1> HIDE DEF k
<1>5. BlankFrom(Scrolled(v), k - 1)
  BY <1>2, <1>3, ScrolledBlank
<1>6. n \in Nat /\ Threshold(n) \in Int
  BY ThresholdIs
<1>7. BlankFrom(Scrolled(v), Threshold(n))
  BY <1>2, <1>4, <1>5, <1>6, BlankFromMore
<1>8. ASSUME Screen!Shown(n) PROVE BlankRight(Scrolled(v), Screen!Place(n), x)
  BY <1>4, <1>5, <1>6, <1>8, ThresholdIs DEF BlankFrom, BlankRight
<1>. QED
  BY <1>7, <1>8 DEF Behind

LEMMA BehindByPutc ==
  ASSUME WholeRows, Wide, IInv, Behind(vram, cursor_x, cursor_y),
         (\E ch \in Char : PrintChar(ch)) \/ NewLine \/ CarriageReturn \/ OtherChar
  PROVE  Behind(vram', cursor_x', cursor_y')
<1>1. /\ vram \in Frame /\ cursor_x \in Columns /\ cursor_y \in 0 .. (UintMod - 1)
      /\ cursor_y \in Nat /\ UintMod \in Nat \ {0}
  BY CursorRows
<1>2. max_rows \in Nat \ {0}
  BY Sizes
<1>3. cursor_y' \in Nat /\ cursor_y' \in {cursor_y, (cursor_y + 1) % UintMod}
  BY CursorRows, SettledPaint
<1>4. CASE ~(cursor_y' >= max_rows)
  BY <1>4 DEF Behind
<1>5. CASE cursor_y' >= max_rows
  <2>1. cursor_y' \in {cursor_y, cursor_y + 1}
    BY <1>2, <1>3, <1>5, CursorRows
  <2>2. PICK offs \in SUBSET Offsets :
          Settle(Painted(vram, CellDots(cursor_x, cursor_y, offs), 1))
    BY SettledPaint
  <2> DEFINE w == Painted(vram, CellDots(cursor_x, cursor_y, offs), 1)
  <2>3. vram' = Scrolled(w)
    BY <1>5, <2>2 DEF Settle
  <2>4. w \in Frame
    <3>1. CellDots(cursor_x, cursor_y, offs) \in SUBSET Dots
      BY <1>1, CellDotsAreDots DEF Columns
    <3>. QED
      BY <1>1, <3>1, PaintedFrame
  <2>5. cursor_y >= max_rows => BlankFrom(w, Threshold(cursor_y))
    <3> SUFFICES ASSUME cursor_y >= max_rows PROVE BlankFrom(w, Threshold(cursor_y))
      OBVIOUS
    <3>1. BlankFrom(vram, Threshold(cursor_y))
      BY DEF Behind
    <3>2. Threshold(cursor_y) \in Int
          /\ (Screen!Shown(cursor_y) => Screen!Place(cursor_y) < Threshold(cursor_y))
      BY <1>1, ThresholdIs
    <3>. QED
      BY <1>1, <3>1, <3>2, PaintedKeeps
  <2> HIDE DEF w
  <2>6. Behind(Scrolled(w), cursor_x', cursor_y')
    BY <1>1, <1>5, <2>1, <2>4, <2>5, ScrolledBehind
  <2>. QED
    BY <2>3, <2>6
<1>. QED
  BY <1>4, <1>5

LEMMA BehindByBackspace ==
  ASSUME WholeRows, Wide, IInv, Behind(vram, cursor_x, cursor_y), Backspace
  PROVE  Behind(vram', cursor_x', cursor_y')
<1>1. /\ vram \in Frame /\ cursor_x \in Columns /\ cursor_y \in 0 .. (UintMod - 1)
      /\ cursor_y \in Nat /\ cursor_x \in Nat /\ UintMod \in Nat \ {0}
      /\ max_cols \in Nat \ {0}
  BY CursorRows
<1>2. max_rows \in Nat \ {0} /\ Period \in Nat /\ max_rows < Period
      /\ 2 * max_rows <= Period
  BY PeriodIs DEF Wide
<1>3. CASE UNCHANGED vars
  BY <1>3 DEF vars
<1>4. CASE ~(cursor_y' >= max_rows)
  BY <1>4 DEF Behind
<1>5. ASSUME cursor_y' >= max_rows,
             cursor_x' \in Columns, cursor_y' \in 0 .. (UintMod - 1),
             vram' = Erased(vram, cursor_x', cursor_y'),
             \/ cursor_x > 0 /\ cursor_x' = cursor_x - 1 /\ cursor_y' = cursor_y
             \/ /\ cursor_x = 0 /\ cursor_y > 0
                /\ cursor_x' = max_cols - 1 /\ cursor_y' = cursor_y - 1
      PROVE  Behind(vram', cursor_x', cursor_y')
  <2> DEFINE n == cursor_y'
             s == Screen!Place(cursor_y')
  <2>1. n \in Nat /\ cursor_y >= max_rows
    BY <1>1, <1>2, <1>5
  <2>2. BlankFrom(vram, Threshold(cursor_y))
        /\ (Screen!Shown(cursor_y) => BlankRight(vram, Screen!Place(cursor_y), cursor_x))
    BY <2>1 DEF Behind
  <2>3. Screen!Shown(n) => InkOf(vram', s, cursor_x') = {}
    <3> SUFFICES ASSUME Screen!Shown(n) PROVE InkOf(vram', s, cursor_x') = {}
      OBVIOUS
    <3>1. s \in Lines
      BY <2>1, ThresholdIs
    <3>. QED
      BY <1>1, <1>5, <3>1, ErasedInk DEF Erased
  <2>4. /\ \A r \in Lines, c \in Columns : InkOf(vram, r, c) = {} => InkOf(vram', r, c) = {}
        /\ \A k : BlankFrom(vram, k) => BlankFrom(vram', k)
    BY <1>1, <1>5, ErasedKeeps
  <2>5. \A c \in Columns : c \in Int
    BY <1>1 DEF Columns
  <2>6. CASE cursor_x > 0 /\ cursor_x' = cursor_x - 1 /\ n = cursor_y
    <3>1. BlankFrom(vram', Threshold(n))
      BY <2>2, <2>4, <2>6
    <3>2. ASSUME Screen!Shown(n) PROVE BlankRight(vram', s, cursor_x')
      <4>1. s \in Lines
        BY <2>1, <3>2, ThresholdIs
      <4>2. ASSUME NEW c \in Columns, c >= cursor_x' PROVE InkOf(vram', s, c) = {}
        <5>1. CASE c = cursor_x'
          BY <2>3, <3>2, <5>1
        <5>2. CASE c # cursor_x'
          <6>1. c >= cursor_x
            BY <1>1, <2>5, <2>6, <4>2, <5>2
          <6>2. InkOf(vram, s, c) = {}
            BY <2>2, <2>6, <3>2, <6>1 DEF BlankRight
          <6>. QED
            BY <2>4, <4>1, <6>2
        <5>. QED
          BY <5>1, <5>2
      <4>. QED
        BY <4>2 DEF BlankRight
    <3>. QED
      BY <3>1, <3>2 DEF Behind
  <2>7. CASE /\ cursor_x = 0 /\ cursor_y > 0
             /\ cursor_x' = max_cols - 1 /\ n = cursor_y - 1
    <3> DEFINE p == Screen!Place(cursor_y)
    <3>1. cursor_y = n + 1
      BY <1>1, <2>1, <2>7
    <3>2. s \in 0 .. (Period - 1) /\ p = IF s = Period - 1 THEN 0 ELSE s + 1
      BY <2>1, <3>1, PlaceIs
    <3>3. (Screen!Shown(n) <=> s < max_rows) /\ (Screen!Shown(cursor_y) <=> p < max_rows)
      BY <1>1, <2>1, PlaceIs
    <3>4. Threshold(n) = (IF s < max_rows THEN s + 1 ELSE 2 * max_rows - s - 1)
          /\ Threshold(cursor_y) = (IF p < max_rows THEN p + 1 ELSE 2 * max_rows - p - 1)
      BY <3>3 DEF Threshold
    <3>5. BlankFrom(vram, IF p < max_rows THEN p ELSE Threshold(cursor_y))
      <4>1. CASE ~(p < max_rows)
        BY <2>2, <4>1
      <4>2. CASE p < max_rows
        <5>1. ASSUME NEW r \in Lines, r >= p, NEW c \in Columns
              PROVE  InkOf(vram, r, c) = {}
          <6>1. CASE r = p
            <7>1. c >= cursor_x
              BY <1>1, <2>7 DEF Columns
            <7>. QED
              BY <2>2, <3>3, <4>2, <6>1, <7>1 DEF BlankRight
          <6>2. CASE r # p
            <7>1. r >= Threshold(cursor_y)
              BY <1>2, <3>2, <3>4, <4>2, <5>1, <6>2 DEF Lines
            <7>. QED
              BY <2>2, <7>1 DEF BlankFrom
          <6>. QED
            BY <6>1, <6>2
        <5>. QED
          BY <4>2, <5>1 DEF BlankFrom
      <4>. QED
        BY <4>1, <4>2
    <3>6. ASSUME NEW r \in Lines, r >= Threshold(n)
          PROVE  r >= IF p < max_rows THEN p ELSE Threshold(cursor_y)
      <4>1. r \in Nat
        BY <1>2 DEF Lines
      <4> HIDE DEF p, s
      <4>. QED
        BY <1>2, <3>2, <3>4, <3>6, <4>1
    <3>7. BlankFrom(vram, Threshold(n))
      BY <3>5, <3>6 DEF BlankFrom
    <3>8. BlankFrom(vram', Threshold(n))
      BY <2>4, <3>7
    <3>9. ASSUME Screen!Shown(n) PROVE BlankRight(vram', s, cursor_x')
      <4>1. \A c \in Columns : c >= cursor_x' => c = cursor_x'
        BY <1>1, <2>7 DEF Columns
      <4>. QED
        BY <2>3, <3>9, <4>1 DEF BlankRight
    <3>. QED
      BY <3>8, <3>9 DEF Behind
  <2>. QED
    BY <1>5, <2>6, <2>7
<1>. QED
  BY <1>3, <1>4, <1>5, BackspaceIs

LEMMA BehindStep ==
  ASSUME WholeRows, Wide
  PROVE  IInv /\ Behind(vram, cursor_x, cursor_y) /\ [Next]_vars
           => Behind(vram', cursor_x', cursor_y')
<1> SUFFICES ASSUME IInv, Behind(vram, cursor_x, cursor_y), [Next]_vars
             PROVE  Behind(vram', cursor_x', cursor_y')
  OBVIOUS
<1>1. CASE (\E ch \in Char : PrintChar(ch)) \/ NewLine \/ CarriageReturn \/ OtherChar
  BY <1>1, BehindByPutc
<1>2. CASE Backspace
  BY <1>2, BehindByBackspace
<1>3. CASE Clear
  <2>1. BlankFrom(vram', Threshold(cursor_y')) /\ BlankFrom(vram', Screen!Place(cursor_y'))
    BY <1>3, ClearBlanks
  <2>2. cursor_y' \in Nat
    BY <1>3, CursorRows DEF Clear
  <2>3. Screen!Place(cursor_y') \in Int
    BY <2>2, PlaceIs, PeriodIs
  <2>4. Screen!Shown(cursor_y') => BlankRight(vram', Screen!Place(cursor_y'), cursor_x')
    BY <2>1, <2>2, <2>3, ThresholdIs DEF BlankFrom, BlankRight
  <2>. QED
    BY <2>1, <2>4 DEF Behind
<1>4. CASE Scroll
  <2>1. vram \in Frame /\ cursor_y \in Nat
    BY CursorRows
  <2>2. cursor_y >= max_rows => Behind(Scrolled(vram), cursor_x, cursor_y)
    BY <2>1, ScrolledBehind DEF Behind
  <2>3. Behind(Scrolled(vram), cursor_x, cursor_y)
    BY <2>2 DEF Behind
  <2>. QED
    BY <1>4, <2>3 DEF Scroll
<1>5. CASE UNCHANGED vars
  BY <1>5 DEF vars
<1>. QED
  BY <1>1, <1>2, <1>3, <1>4, <1>5 DEF Next, putc

(* The cell behind the cursor after a character is the one printed.        *)
LEMMA CursorBefore ==
  ASSUME IInv, NEW ch \in Char, PrintChar(ch), NEW v
  PROVE  Unprint(v, cursor_x', cursor_y') =
           IF cursor_x' = 0 /\ cursor_y = UintMod - 1 THEN v
           ELSE Erased(v, cursor_x, cursor_y)
<1>1. /\ cursor_x \in 0 .. (max_cols - 1) /\ cursor_y \in Nat /\ cursor_x \in Nat
      /\ UintMod \in Nat \ {0} /\ max_cols \in Nat \ {0}
      /\ (cursor_y + 1) % UintMod = IF cursor_y = UintMod - 1 THEN 0 ELSE cursor_y + 1
  BY CursorRows DEF Columns
<1>2. CASE ~AtLineEnd
  <2>1. cursor_x' = cursor_x + 1 /\ cursor_y' = cursor_y
    BY <1>2 DEF PrintChar
  <2>2. cursor_x' > 0 /\ cursor_x' - 1 = cursor_x
    BY <1>1, <2>1
  <2>. QED
    BY <1>1, <2>1, <2>2 DEF Unprint
<1>3. CASE AtLineEnd
  <2>1. cursor_x' = 0 /\ cursor_y' = (cursor_y + 1) % UintMod
    BY <1>3 DEF PrintChar, NextRow
  <2>2. max_cols - 1 = cursor_x
    BY <1>1, <1>3 DEF AtLineEnd
  <2>3. CASE cursor_y = UintMod - 1
    BY <1>1, <2>1, <2>3 DEF Unprint
  <2>4. CASE cursor_y # UintMod - 1
    <3>1. cursor_y' > 0 /\ cursor_y' - 1 = cursor_y
      BY <1>1, <2>1, <2>4
    <3>. QED
      BY <2>1, <2>2, <2>4, <3>1 DEF Unprint
  <2>. QED
    BY <2>3, <2>4
<1>. QED
  BY <1>2, <1>3

(* The last row a uint32_t counts is not displayed. *)
LEMMA LastRowOff ==
  ASSUME NEW y \in Nat, y = UintMod - 1
  PROVE  ~Screen!Shown(y)
<1>1. /\ UintMod = Period * CharH /\ CharH \in Nat \ {0}
      /\ Period \in Nat \ {0} /\ max_rows < Period /\ max_rows \in Nat
  BY Periods, PeriodIs, RgbAssumption DEF Period
<1>2. UintMod = CharH * Period
  BY <1>1
<1>3. (CharH - 1) * Period + (Period - 1) = CharH * Period - 1
  BY <1>1
<1>4. y = (CharH - 1) * Period + (Period - 1) /\ CharH - 1 \in Nat /\ Period - 1 \in Nat
  BY <1>1, <1>2, <1>3
<1>5. \A q, r \in Nat : r < Period => (q * Period + r) % Period = r
  BY <1>1, RemainderOf
<1>6. y % Period = Period - 1
  BY <1>1, <1>4, <1>5
<1>7. Screen!Place(y) = Period - 1
  BY <1>6 DEF Screen!Place, Period
<1>. QED
  BY <1>1, <1>7 DEF Screen!Shown

(* Without a scroll a backspace empties the cell that was printed. *)
LEMMA PrintInPlace ==
  ASSUME WholeRows, IInv, NEW ch \in Char, PrintChar(ch), ~Scrolls
  PROVE  Unprint(vram', cursor_x', cursor_y') = Erased(vram, cursor_x, cursor_y)
<1> DEFINE offs == Glyph[ch]
           w == Painted(vram, CellDots(cursor_x, cursor_y, offs), 1)
<1>1. /\ vram \in Frame /\ cursor_x \in Columns /\ cursor_y \in 0 .. (UintMod - 1)
      /\ cursor_y \in Nat
  BY CursorRows
<1>2. offs \in SUBSET Offsets
  BY RgbAssumption
<1>3. vram' = w
  BY DEF PrintChar, Settle, Scrolls
<1>4. CASE cursor_x' = 0 /\ cursor_y = UintMod - 1
  <2>1. ~Screen!Shown(cursor_y)
    BY <1>1, <1>4, LastRowOff
  <2>2. w = vram /\ Erased(vram, cursor_x, cursor_y) = vram
    BY <1>1, <1>2, <2>1, PaintedNowhere DEF Erased
  <2>3. Unprint(vram', cursor_x', cursor_y') = vram'
    BY <1>4, CursorBefore
  <2>. QED
    BY <1>3, <2>2, <2>3
<1>5. CASE ~(cursor_x' = 0 /\ cursor_y = UintMod - 1)
  <2>1. Unprint(vram', cursor_x', cursor_y') = Erased(vram', cursor_x, cursor_y)
    BY <1>5, CursorBefore
  <2>2. Erased(w, cursor_x, cursor_y) = Erased(vram, cursor_x, cursor_y)
    BY <1>2, ErasedTwice
  <2>. QED
    BY <1>3, <2>1, <2>2
<1>. QED
  BY <1>4, <1>5

(* With a scroll the cell behind the cursor is blank: the one below the    *)
(* character has moved into it.                                            *)
LEMMA PrintAndScroll ==
  ASSUME WholeRows, Wide, IInv, Behind(vram, cursor_x, cursor_y),
         NEW ch \in Char, PrintChar(ch), Scrolls
  PROVE  Unprint(vram', cursor_x', cursor_y') = vram'
<1> DEFINE offs == Glyph[ch]
           w == Painted(vram, CellDots(cursor_x, cursor_y, offs), 1)
           s == Screen!Place(cursor_y)
<1>1. /\ vram \in Frame /\ cursor_x \in Columns /\ cursor_y \in 0 .. (UintMod - 1)
      /\ cursor_y \in Nat /\ UintMod \in Nat \ {0} /\ max_rows \in Nat \ {0}
  BY CursorRows, Sizes
<1>2. offs \in SUBSET Offsets
  BY RgbAssumption
<1>3. vram' = Scrolled(w)
  BY DEF PrintChar, Settle, Scrolls
<1>4. w \in Frame
  <2>1. CellDots(cursor_x, cursor_y, offs) \in SUBSET Dots
    BY <1>1, <1>2, CellDotsAreDots DEF Columns
  <2>. QED
    BY <1>1, <2>1, PaintedFrame
<1>5. Scrolled(w) \in Frame
  BY <1>4, ScrolledFrame
<1>6. ASSUME Screen!Shown(cursor_y) PROVE InkOf(Scrolled(w), s, cursor_x) = {}
  <2>1. s \in Lines /\ s < Threshold(cursor_y) /\ Threshold(cursor_y) = s + 1
    BY <1>1, <1>6, ThresholdIs DEF Threshold
  <2> HIDE DEF s, w
  <2>2. CASE s < max_rows - 1
    <3>1. cursor_y >= max_rows
      <4> SUFFICES ASSUME ~(cursor_y >= max_rows) PROVE FALSE
        OBVIOUS
      <4>1. s = cursor_y
        BY <1>1, PlaceIs, PeriodIs DEF s
      <4>2. cursor_y' \in {cursor_y, (cursor_y + 1) % UintMod}
        BY SettledPaint
      <4>3. cursor_y' \in {0, cursor_y, cursor_y + 1}
        BY <4>2, CursorRows
      <4>. QED
        BY <1>1, <2>2, <4>1, <4>3 DEF Scrolls
    <3>2. BlankFrom(vram, s + 1)
      BY <2>1, <3>1 DEF Behind
    <3>3. s + 1 \in Int /\ s < s + 1
      BY <1>1, <2>1 DEF Lines
    <3>4. BlankFrom(w, s + 1)
      BY <1>1, <1>2, <3>2, <3>3, PaintedKeeps DEF w, s
    <3>5. s + 1 \in Lines /\ s + 1 >= s + 1
      BY <1>1, <2>1, <2>2 DEF Lines
    <3>6. InkOf(w, s + 1, cursor_x) = {}
      BY <1>1, <3>4, <3>5 DEF BlankFrom
    <3>. QED
      BY <1>1, <1>4, <2>1, <2>2, <3>6, ScrolledInk
  <2>3. CASE ~(s < max_rows - 1)
    BY <1>1, <1>4, <2>1, <2>3, ScrolledInk
  <2>. QED
    BY <2>2, <2>3
<1>7. Erased(Scrolled(w), cursor_x, cursor_y) = Scrolled(w)
  BY <1>1, <1>5, <1>6, ErasedBlank
<1> HIDE DEF w
<1>. QED
  BY <1>3, <1>7, CursorBefore

(* A backspace now would leave what it should. *)
UnprintOK ==
  \A v \in unprinted : Unprint(vram, cursor_x, cursor_y) = v

LEMMA UnprintStep ==
  ASSUME WholeRows, Wide
  PROVE  IInv /\ Behind(vram, cursor_x, cursor_y) /\ UnprintOK
           /\ [HistoryNext]_<<vars, below, unprinted>>
         => \A v \in unprinted' : Unprint(vram', cursor_x', cursor_y') = v
<1> SUFFICES ASSUME IInv, Behind(vram, cursor_x, cursor_y), UnprintOK,
                    [HistoryNext]_<<vars, below, unprinted>>,
                    NEW v \in unprinted'
             PROVE  Unprint(vram', cursor_x', cursor_y') = v
  OBVIOUS
<1>1. CASE Printing
  <2>1. PICK ch \in Char : PrintChar(ch)
    BY <1>1 DEF Printing
  <2>2. v = IF Scrolls THEN vram' ELSE Erased(vram, cursor_x, cursor_y)
    BY <1>1 DEF Printing, Erased
  <2>3. CASE Scrolls
    BY <2>1, <2>2, <2>3, PrintAndScroll
  <2>4. CASE ~Scrolls
    BY <2>1, <2>2, <2>4, PrintInPlace
  <2>. QED
    BY <2>3, <2>4
<1>2. CASE unprinted' = {}
  BY <1>2
<1>3. CASE UNCHANGED <<vars, below, unprinted>>
  BY <1>3 DEF vars, UnprintOK
<1>. QED
  BY <1>1, <1>2, <1>3 DEF HistoryNext, Control

(* On a screen of whole rows, of at most half as many as a uint32_t        *)
(* counts, a backspace right after a character empties its cell, except    *)
(* when printing it scrolled: then it changes no pixel (rgb.c:185-196).    *)
THEOREM BackspaceTakesBack ==
  ASSUME WholeRows, Wide
  PROVE  HistorySpec => BackspaceUnprints
<1> DEFINE Inv == Behind(vram, cursor_x, cursor_y) /\ UnprintOK
<1>1. HistoryInit => Inv
  <2> SUFFICES ASSUME HistoryInit PROVE Inv
    OBVIOUS
  <2>1. cursor_y = 0 /\ unprinted = {} /\ max_rows \in Nat \ {0}
    BY Sizes DEF HistoryInit, Init
  <2>. QED
    BY <2>1 DEF Behind, UnprintOK
<1>2. IInv /\ Inv /\ [HistoryNext]_<<vars, below, unprinted>> => Inv'
  <2> SUFFICES ASSUME IInv, Inv, [HistoryNext]_<<vars, below, unprinted>> PROVE Inv'
    OBVIOUS
  <2>1. [Next]_vars
    BY DEF HistoryNext, Printing, Control, Next, putc, vars
  <2>2. Behind(vram', cursor_x', cursor_y')
    BY <2>1, BehindStep
  <2>3. \A v \in unprinted' : Unprint(vram', cursor_x', cursor_y') = v
    BY UnprintStep
  <2>4. Behind(vram, cursor_x, cursor_y)' <=> Behind(vram', cursor_x', cursor_y')
    BY DEF Behind, BlankFrom, BlankRight, InkOf, Pixel, Lines, Columns, Threshold,
           Screen!Shown, Screen!Place
  <2>5. UnprintOK' <=> \A v \in unprinted' : Unprint(vram', cursor_x', cursor_y') = v
    BY DEF UnprintOK, Unprint, Erased, Painted, CellDots
  <2>. QED
    BY <2>2, <2>3, <2>4, <2>5
<1>3. HistorySpec => []IInv
  BY HistoryIsRgb, IInvAlways, PTL
<1>4. IInv /\ Inv => (Backspace => \A v \in unprinted : vram' = v)
  BY BackspaceIs DEF UnprintOK
<1> HIDE DEF Inv
<1>5. HistorySpec => []Inv
  BY <1>1, <1>2, <1>3, PTL DEF HistorySpec
<1>6. IInv /\ Inv /\ [HistoryNext]_<<vars, below, unprinted>>
        => [Backspace => \A v \in unprinted : vram' = v]_<<vars, below, unprinted>>
  BY <1>4
<1>. QED
  BY <1>3, <1>5, <1>6, PTL DEF HistorySpec, BackspaceUnprints
=============================================================================
