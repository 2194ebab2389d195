-------------------------------- MODULE Mem --------------------------------
(***************************************************************************)
(* src/src/lib/mem.c: memset, memmove and memcmp, one byte of their loops  *)
(* at a time.  The caller starts a call with a Call action; the loop then  *)
(* runs, and a Return action ends the call.                                *)
(***************************************************************************)
EXTENDS MemOps

CONSTANTS
  MemSize,   (* bytes of memory the callers own: addresses 0 .. MemSize - 1 *)
  ByteMod,   (* number of values of a byte, 256 in the code                 *)
  FillArgs   (* the ints a caller passes to memset as the fill value        *)

ASSUME MemAssumption ==
  /\ MemSize \in Nat
  /\ ByteMod \in Nat \ {0}
  /\ FillArgs \subseteq Int

VARIABLES
  mem,     (* the memory                                                    *)
  ret,     (* what the last call to return has returned                     *)
  fn,      (* the loop that is running, "none" between calls                *)
  dst,     (* s of memset, dest of memmove, s1 of memcmp                    *)
  src,     (* src of memmove, s2 of memcmp                                  *)
  n,       (* the length passed                                             *)
  c,       (* the byte memset stores                                        *)
  i,       (* the loop counter                                              *)
  entry    (* the memory when the call began (between calls: the memory);   *)
           (* a history variable, the code has no copy of it                *)

args == <<dst, src, n, c>>
vars == <<mem, ret, fn, args, i, entry>>

Addr == 0 .. (MemSize - 1)
Byte == 0 .. (ByteMod - 1)

(* A span the caller owns; an empty one may start right after the memory. *)
Owned(a, len) ==
  a \in 0 .. MemSize /\ len \in 0 .. MemSize /\ a + len <= MemSize

(* A plausible bug: the fill value is stored without the conversion. *)
MutByteOf(v) == v

(* The conversion (uint8_t)c of memset's int argument. *)
ByteOf(v) == v % ByteMod

Init ==
  /\ mem \in [Addr -> Byte]
  /\ ret = 0
  /\ fn = "none"
  /\ dst = 0 /\ src = 0 /\ n = 0 /\ c = 0 /\ i = 0
  /\ entry = mem

-----------------------------------------------------------------------------
(* The calls. *)

Enter(f, p, q, len, byte) ==
  /\ fn = "none"
  /\ Owned(p, len) /\ Owned(q, len)
  /\ fn' = f /\ dst' = p /\ src' = q /\ n' = len /\ c' = byte /\ i' = 0
  /\ UNCHANGED <<mem, ret, entry>>

CallMemset(s, v, len) == Enter("memset", s, s, len, ByteOf(v))

CallMemmove(dest, source, len) == Enter("memmove", dest, source, len, 0)

CallMemcmp(p1, p2, len) == Enter("memcmp", p1, p2, len, 0)

-----------------------------------------------------------------------------
(* The loops. *)

(* The parameters and the counter die with the call. *)
Return(value) ==
  /\ fn' = "none"
  /\ ret' = value
  /\ dst' = 0 /\ src' = 0 /\ n' = 0 /\ c' = 0 /\ i' = 0
  /\ entry' = mem
  /\ UNCHANGED mem

Store(addr, value) ==
  /\ mem' = [mem EXCEPT ![addr] = value]
  /\ UNCHANGED <<ret, fn, args, entry>>

(* if (d == s || n == 0) return dest; *)
MoveNothing == fn = "memmove" /\ (dst = src \/ n = 0) /\ Return(dst)

(* A plausible bug: the direction test the wrong way round. *)
MutCopiesUp == dst > src

(* if (d < s): the copy runs from the lowest byte to the highest. *)
CopiesUp == dst < src

ChooseDirection ==
  /\ fn = "memmove" /\ dst # src /\ n # 0
  /\ \/ CopiesUp /\ fn' = "move_up" /\ i' = 0
     \/ ~CopiesUp /\ fn' = "move_down" /\ i' = n
  /\ UNCHANGED <<mem, ret, args, entry>>

(* A plausible bug: one byte too few. *)
MutMore == i + 1 < n

(* The condition of the loops that count up. *)
More == i < n

(* while (n--) *ptr++ = c; *)
SetByte ==
  /\ fn = "memset" /\ More
  /\ Store(dst + i, c)
  /\ i' = i + 1

MoveUpByte ==
  /\ fn = "move_up" /\ More
  /\ Store(dst + i, mem[src + i])
  /\ i' = i + 1

(* A plausible bug: the counter of the downward loop is not moved. *)
MutMoveDownByte ==
  /\ fn = "move_down" /\ i > 0
  /\ Store(dst + i - 1, mem[src + i - 1])
  /\ UNCHANGED i

MoveDownByte ==
  /\ fn = "move_down" /\ i > 0
  /\ Store(dst + i - 1, mem[src + i - 1])
  /\ i' = i - 1

(* if (p1[i] != p2[i]) return (int)p1[i] - (int)p2[i]; *)
CompareByte ==
  /\ fn = "memcmp" /\ More
  /\ IF mem[dst + i] # mem[src + i]
       THEN Return(mem[dst + i] - mem[src + i])
       ELSE i' = i + 1 /\ UNCHANGED <<mem, ret, fn, args, entry>>

(* The loop is over: return dest, or 0 from memcmp. *)
Finish ==
  \/ fn \in {"memset", "move_up"} /\ ~More /\ Return(dst)
  \/ fn = "move_down" /\ ~(i > 0) /\ Return(dst)
  \/ fn = "memcmp" /\ ~More /\ Return(0)

Call ==
  \E p, q, len \in 0 .. MemSize :
    \/ \E v \in FillArgs : CallMemset(p, v, len)
    \/ CallMemmove(p, q, len)
    \/ CallMemcmp(p, q, len)

Run ==
  \/ MoveNothing \/ ChooseDirection
  \/ SetByte \/ MoveUpByte \/ MoveDownByte \/ CompareByte
  \/ Finish

Next == Call \/ Run

Spec == Init /\ [][Next]_vars

(* A processor that has entered a function goes on executing it. *)
FairSpec == Spec /\ WF_vars(Run)

-----------------------------------------------------------------------------
(* Properties. *)

TypeOK ==
  /\ mem \in [Addr -> Byte]
  /\ entry \in [Addr -> Byte]
  /\ ret \in Int
  /\ fn \in {"none", "memset", "memmove", "move_up", "move_down", "memcmp"}
  /\ dst \in 0 .. MemSize /\ src \in 0 .. MemSize
  /\ n \in 0 .. MemSize /\ i \in 0 .. n
  /\ c \in Byte

(* The parameters of a running call are spans of the caller, and memmove's *)
(* loop counts up exactly when the destination is below the source.        *)
ArgsOK ==
  /\ fn = "none" => <<dst, src, n, c>> = <<0, 0, 0, 0>>
  /\ dst + n <= MemSize /\ src + n <= MemSize
  /\ fn = "move_up" => dst < src
  /\ fn = "move_down" => src < dst

(* After i steps a loop has done the work of a call on the part it has     *)
(* passed, computed from the memory at the time of the call.  For memmove  *)
(* on overlapping spans this is the point of the two directions (mem.c:18):*)
(* no source byte is overwritten before it is read.                        *)
PartialEffect ==
  /\ fn \in {"none", "memmove"} => mem = entry
  /\ fn = "memset" => mem = Filled(entry, dst, c, i)
  /\ fn = "move_up" => mem = Moved(entry, dst, src, i)
  /\ fn = "move_down" => mem = Moved(entry, dst + i, src + i, n - i)
  /\ fn = "memcmp" => mem = entry /\ AgreeUpTo(entry, dst, src, i)

(* The induction hypothesis of the proofs in Mem_proofs. *)
IInv == TypeOK /\ ArgsOK /\ PartialEffect

(* The call a caller of these functions sees under way. *)
operation == IF fn \in {"move_up", "move_down"} THEN "memmove" ELSE fn

(* The loops implement the functions a caller expects, with the arguments  *)
(* of the call: until it returns the memory a caller may look at is the    *)
(* one before the call.                                                    *)
Api ==
  INSTANCE MemApi WITH
    mem <- entry,
    call <- [op |-> operation, p |-> dst, q |-> src, len |-> n, byte |-> c]
ImplementsApi == Api!Spec

(* Every call returns. *)
EveryCallReturns == [](fn # "none" => <>(fn = "none"))
=============================================================================
