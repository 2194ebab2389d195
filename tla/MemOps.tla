------------------------------- MODULE MemOps -------------------------------
(***************************************************************************)
(* What the functions of src/src/lib/mem.c do to memory, as operators on   *)
(* memories.  A memory is a function from addresses to bytes.  A store     *)
(* outside its domain extends the domain: a stray write is then visible as *)
(* a memory that has grown, instead of being silently dropped.             *)
(***************************************************************************)
EXTENDS Integers

(* The n addresses from a on. *)
Span(a, n) == a .. (a + n - 1)

(* memset: the n bytes from s on become c, nothing else changes. *)
Filled(m, s, c, n) ==
  [a \in DOMAIN m \cup Span(s, n) |-> IF a \in Span(s, n) THEN c ELSE m[a]]

(* memmove: the n bytes from dest on become the n bytes that were at src,  *)
(* whether or not the two spans overlap.                                   *)
Moved(m, dest, src, n) ==
  [a \in DOMAIN m \cup Span(dest, n) |->
     IF a \in Span(dest, n) THEN m[src + (a - dest)] ELSE m[a]]

(* The first k bytes at p1 and at p2 are the same. *)
AgreeUpTo(m, p1, p2, k) == \A j \in 0 .. (k - 1) : m[p1 + j] = m[p2 + j]

(* memcmp: r is 0 when the spans agree, otherwise the difference of the    *)
(* first two bytes that differ.                                            *)
IsComparison(m, p1, p2, n, r) ==
  \/ AgreeUpTo(m, p1, p2, n) /\ r = 0
  \/ \E k \in 0 .. (n - 1) :
       /\ AgreeUpTo(m, p1, p2, k)
       /\ m[p1 + k] # m[p2 + k]
       /\ r = m[p1 + k] - m[p2 + k]
=============================================================================
