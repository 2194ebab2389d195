-------------------------------- MODULE Itoa --------------------------------
(***************************************************************************)
(* itoa of src/src/lib/string.c, one character of its loops at a time, for *)
(* one call.  temp and str are the characters stored so far, so that their *)
(* lengths are the indices i and j of the code; k is that of the last loop.*)
(* Names shared with Console start with itoa: a proof extends both modules.*)
(***************************************************************************)
EXTENDS Numerals

CONSTANTS
  Values,    (* the ints passed *)
  Bases      (* the bases passed *)

VARIABLES value, base, itoa_pc, uval, temp, str, k

itoa_vars == <<value, base, itoa_pc, uval, temp, str, k>>

(* The size of temp, and of the buffer of print_number. *)
BufferSize == IntBits + 1

ItoaInit ==
  /\ value \in Values /\ base \in Bases
  /\ itoa_pc = "start" /\ uval = 0 /\ temp = <<>> /\ str = <<>> /\ k = 0

(* A plausible bug: base 1 let through. *)
MutBadBase == base < 1 \/ base > 36

BadBase == base < 2 \/ base > 36

Refuse ==
  /\ itoa_pc = "start" /\ BadBase
  /\ itoa_pc' = "end"
  /\ UNCHANGED <<value, base, uval, temp, str, k>>

Negative == base = 10 /\ value < 0

(* -value of the smallest int is undefined in C (string.c:43 asks, "Might  *)
(* not work for a very large negative value?"); the build's negation wraps *)
(* and the conversion to unsigned gives its magnitude.                     *)
Magnitude == AsUnsigned(IF Negative THEN -value ELSE value)

Start ==
  /\ itoa_pc = "start" /\ ~BadBase
  /\ itoa_pc' = "digits"
  /\ uval' = Magnitude
  /\ temp' = IF Magnitude = 0 THEN <<"0">> ELSE <<>>
  /\ UNCHANGED <<value, base, str, k>>

StoreDigit ==
  /\ itoa_pc = "digits" /\ uval > 0
  /\ temp' = Append(temp, Digit[uval % base])
  /\ uval' = uval \div base
  /\ UNCHANGED <<value, base, itoa_pc, str, k>>

Sign ==
  /\ itoa_pc = "digits" /\ ~(uval > 0)
  /\ itoa_pc' = "copy"
  /\ str' = IF Negative THEN <<"-">> ELSE <<>>
  /\ k' = Len(temp)
  /\ UNCHANGED <<value, base, uval, temp>>

(* A plausible bug: the first digit is copied last. *)
MutCopied == temp[Len(temp) + 1 - k]

Copied == temp[k]

CopyDigit ==
  /\ itoa_pc = "copy" /\ k > 0
  /\ str' = Append(str, Copied)
  /\ k' = k - 1
  /\ UNCHANGED <<value, base, itoa_pc, uval, temp>>

Terminate ==
  /\ itoa_pc = "copy" /\ ~(k > 0)
  /\ itoa_pc' = "end"
  /\ UNCHANGED <<value, base, uval, temp, str, k>>

ItoaNext ==
  \/ Refuse \/ Start \/ StoreDigit \/ Sign \/ CopyDigit \/ Terminate

ItoaSpec == ItoaInit /\ [][ItoaNext]_itoa_vars

-----------------------------------------------------------------------------
(* Properties. *)

(* No store outside temp or the buffer of the caller, where the terminator *)
(* takes one more: 33 is enough for 32 binary digits, and for the sign.    *)
ItoaTypeOK ==
  /\ itoa_pc \in {"start", "digits", "copy", "end"}
  /\ uval \in 0 .. (IntMod - 1)
  /\ Len(temp) <= BufferSize /\ Len(str) + 1 <= BufferSize
  /\ k \in 0 .. Len(temp)

(* itoa returns the numeral of the value: signed in base 10, the smallest  *)
(* int included, of the memory representation otherwise (string.c:4).      *)
ReturnsNumeral ==
  itoa_pc = "end" =>
    str = IF base \in 2 .. 36 THEN Shown(value, base) ELSE <<>>
=============================================================================
