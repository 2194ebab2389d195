------------------------------ MODULE Numerals ------------------------------
(***************************************************************************)
(* The text of a number, by place values: what itoa of src/src/lib/string.c*)
(* and the widths of console_printf come down to.  Itoa.tla runs the code. *)
(***************************************************************************)
EXTENDS Integers, Sequences

CONSTANT IntBits   (* the width of an int, 32 *)

(* An int has a sign and a bit at least: with one bit the text of its       *)
(* smallest number, -1, would be too long for the buffer of itoa.          *)
ASSUME IntBitsAssumption == IntBits \in Nat /\ IntBits >= 2

(* b to the power of n. *)
Power(b, n) ==
  LET power[m \in Nat] == IF m = 0 THEN 1 ELSE b * power[m - 1]
  IN  power[n]

IntMod == Power(2, IntBits)
Ints == (-(IntMod \div 2)) .. (IntMod \div 2 - 1)

(* The value of v in an unsigned int, and that of u in an int. *)
AsUnsigned(v) == v % IntMod
AsInt(u) ==
  LET w == u % IntMod IN IF w < IntMod \div 2 THEN w ELSE w - IntMod

(* '0' + digit or 'a' + digit - 10, from the digit 0 on. *)
Digit ==
  [d \in 0 .. 35 |->
     <<"0", "1", "2", "3", "4", "5", "6", "7", "8", "9", "a", "b",
       "c", "d", "e", "f", "g", "h", "i", "j", "k", "l", "m", "n",
       "o", "p", "q", "r", "s", "t", "u", "v", "w", "x", "y", "z">>[d + 1]]

(* How many digits u takes; 0 takes one.  Good for numbers of 2 ints. *)
Places(u, base) ==
  CHOOSE n \in 1 .. (2 * IntBits) :
    u < Power(base, n) /\ (n > 1 => Power(base, n - 1) <= u)

(* u with n digits, from its first: zeros before the places it takes.      *)
Digits(u, base, n) ==
  [k \in 1 .. n |->
     IF n - k >= Places(u, base) THEN "0"
                                 ELSE Digit[(u \div Power(base, n - k)) % base]]

Larger(a, b) == IF a < b THEN b ELSE a

(* Only base 10 has a sign. *)
Signed(v, base) == base = 10 /\ v < 0
Unsigned(v, base) == IF Signed(v, base) THEN -v ELSE AsUnsigned(v)
SignOf(v, base) == IF Signed(v, base) THEN <<"-">> ELSE <<>>

(* What itoa stores for an int and a base from 2 to 36. *)
Shown(v, base) ==
  LET u == Unsigned(v, base)
  IN  SignOf(v, base) \o Digits(u, base, Places(u, base))

(* A number with zeros between its sign and its digits to fill a field of   *)
(* width characters, of which the sign counts for counted, 0 or 1.          *)
Padded(v, base, width, counted) ==
  LET u == Unsigned(v, base)
      room == IF Signed(v, base) THEN width - counted ELSE width
  IN  SignOf(v, base) \o Digits(u, base, Larger(room, Places(u, base)))
=============================================================================
