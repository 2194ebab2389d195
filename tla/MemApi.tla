------------------------------- MODULE MemApi -------------------------------
(***************************************************************************)
(* What a caller of src/src/lib/mem.c may rely on: each call takes effect  *)
(* at once, when it returns.  Mem.tla runs the loops of the code and       *)
(* implements this specification.                                          *)
(***************************************************************************)
EXTENDS MemOps

CONSTANTS
  MemSize,   (* bytes of memory the callers own: addresses 0 .. MemSize - 1 *)
  ByteMod,   (* number of values of a byte, 256 in the code                 *)
  FillArgs   (* the ints a caller passes to memset as the fill value        *)

VARIABLES
  mem,   (* the memory                                   *)
  ret,   (* what the last call to return has returned    *)
  call   (* the call that is under way                   *)

vars == <<mem, ret, call>>

Addr == 0 .. (MemSize - 1)
Byte == 0 .. (ByteMod - 1)

(* A call of op with the pointers p and q, the length len and memset's byte. *)
Arguments(op, p, q, len, byte) ==
  [op |-> op, p |-> p, q |-> q, len |-> len, byte |-> byte]

NoCall == Arguments("none", 0, 0, 0, 0)

(* A span the caller owns; an empty one may start right after the memory. *)
Owned(a, n) == a \in 0 .. MemSize /\ n \in 0 .. MemSize /\ a + n <= MemSize

(* The conversion (uint8_t)c of memset's int argument. *)
ByteOf(c) == c % ByteMod

Init == mem \in [Addr -> Byte] /\ ret = 0 /\ call = NoCall

Invoke(op, p, q, len, byte) ==
  /\ call = NoCall
  /\ Owned(p, len) /\ Owned(q, len)
  /\ call' = Arguments(op, p, q, len, byte)
  /\ UNCHANGED <<mem, ret>>

Call ==
  \E p, q, len \in 0 .. MemSize :
    \/ \E v \in FillArgs : Invoke("memset", p, p, len, ByteOf(v))
    \/ Invoke("memmove", p, q, len, 0)
    \/ Invoke("memcmp", p, q, len, 0)

memset ==
  /\ call.op = "memset" /\ call' = NoCall
  /\ mem' = Filled(mem, call.p, call.byte, call.len)
  /\ ret' = call.p

memmove ==
  /\ call.op = "memmove" /\ call' = NoCall
  /\ mem' = Moved(mem, call.p, call.q, call.len)
  /\ ret' = call.p

memcmp ==
  /\ call.op = "memcmp" /\ call' = NoCall
  /\ IsComparison(mem, call.p, call.q, call.len, ret')
  /\ UNCHANGED mem

Next == Call \/ memset \/ memmove \/ memcmp

Spec == Init /\ [][Next]_vars
=============================================================================
