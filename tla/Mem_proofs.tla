----------------------------- MODULE Mem_proofs -----------------------------
(***************************************************************************)
(* Mem.tla for every memory size and every byte width: the loops of mem.c  *)
(* keep their partial effect, and implement MemApi.                        *)
(***************************************************************************)
EXTENDS Mem, TLAPS

-----------------------------------------------------------------------------
(* Lemmas on the effects. *)

(* The effect of memset on zero bytes is nothing. *)
LEMMA FilledNothing ==
  ASSUME NEW m \in [Addr -> Byte], NEW s \in Nat, NEW v
  PROVE  Filled(m, s, v, 0) = m
  BY DEF Filled, Span, Addr

(* One more store at the end of the filled span fills one more byte. *)
LEMMA FilledStep ==
  ASSUME NEW m \in [Addr -> Byte], NEW s \in Nat, NEW v, NEW k \in Nat,
         s + k < MemSize
  PROVE  [Filled(m, s, v, k) EXCEPT ![s + k] = v] = Filled(m, s, v, k + 1)
<1>1. DOMAIN Filled(m, s, v, k) = Addr /\ DOMAIN Filled(m, s, v, k + 1) = Addr
  BY MemAssumption DEF Filled, Span, Addr
<1>2. \A a \in Addr : a \in Span(s, k + 1) <=> a \in Span(s, k) \/ a = s + k
  BY MemAssumption DEF Span, Addr
<1>. QED
  BY <1>1, <1>2, MemAssumption DEF Filled, Addr

(* The effect of memmove on zero bytes is nothing. *)
LEMMA MovedNothing ==
  ASSUME NEW m \in [Addr -> Byte], NEW p \in Nat, NEW q \in Nat
  PROVE  Moved(m, p, q, 0) = m
  BY DEF Moved, Span, Addr

(* memmove onto itself is nothing. *)
LEMMA MovedInPlace ==
  ASSUME NEW m \in [Addr -> Byte], NEW p \in Nat, NEW k \in Nat,
         p + k <= MemSize
  PROVE  Moved(m, p, p, k) = m
<1>1. DOMAIN m \cup Span(p, k) = Addr
  BY MemAssumption DEF Span, Addr
<1>2. \A a \in Addr : p + (a - p) = a
  BY MemAssumption DEF Addr
<1>. QED
  BY <1>1, <1>2 DEF Moved

(* Copying upwards with the destination below the source: the byte read in *)
(* this iteration has not been overwritten by the earlier ones.            *)
LEMMA MovedUpStep ==
  ASSUME NEW m \in [Addr -> Byte], NEW p \in Nat, NEW q \in Nat, NEW k \in Nat,
         p < q, q + k < MemSize
  PROVE  /\ Moved(m, p, q, k)[q + k] = m[q + k]
         /\ [Moved(m, p, q, k) EXCEPT ![p + k] = m[q + k]] = Moved(m, p, q, k + 1)
<1>1. DOMAIN m \cup Span(p, k) = Addr /\ DOMAIN m \cup Span(p, k + 1) = Addr
  BY MemAssumption DEF Span, Addr
<1>2. q + k \in Addr /\ q + k \notin Span(p, k)
  BY MemAssumption DEF Span, Addr
<1>3. \A a \in Addr : a \in Span(p, k + 1) <=> a \in Span(p, k) \/ a = p + k
  BY MemAssumption DEF Span, Addr
<1>4. q + ((p + k) - p) = q + k
  OBVIOUS
<1>5. p + k \in Addr /\ p + k \in Span(p, k + 1)
  BY MemAssumption DEF Addr, Span
<1>6. Moved(m, p, q, k)[q + k] = m[q + k]
  BY <1>1, <1>2 DEF Moved
<1>7. [Moved(m, p, q, k) EXCEPT ![p + k] = m[q + k]] = Moved(m, p, q, k + 1)
  BY <1>1, <1>3, <1>4, <1>5 DEF Moved
<1>. QED
  BY <1>6, <1>7

(* Copying downwards with the source below the destination: the byte just  *)
(* below the span already moved has not been overwritten.                  *)
LEMMA MovedDownStep ==
  ASSUME NEW m \in [Addr -> Byte], NEW p \in Nat, NEW q \in Nat, NEW k \in Nat,
         0 < q, q < p, p + k <= MemSize
  PROVE  /\ Moved(m, p, q, k)[q - 1] = m[q - 1]
         /\ [Moved(m, p, q, k) EXCEPT ![p - 1] = m[q - 1]]
              = Moved(m, p - 1, q - 1, k + 1)
<1>1. /\ DOMAIN m \cup Span(p, k) = Addr
      /\ DOMAIN m \cup Span(p - 1, k + 1) = Addr
  BY MemAssumption DEF Span, Addr
<1>2. q - 1 \in Addr /\ q - 1 \notin Span(p, k)
  BY MemAssumption DEF Span, Addr
<1>3. \A a \in Addr :
        a \in Span(p - 1, k + 1) <=> a \in Span(p, k) \/ a = p - 1
  BY MemAssumption DEF Span, Addr
<1>4. \A a \in Addr : q + (a - p) = (q - 1) + (a - (p - 1))
  BY MemAssumption DEF Addr
<1>5. p - 1 \in Addr /\ (q - 1) + ((p - 1) - (p - 1)) = q - 1
  BY MemAssumption DEF Addr
<1>6. Moved(m, p, q, k)[q - 1] = m[q - 1]
  BY <1>1, <1>2 DEF Moved
<1>7. [Moved(m, p, q, k) EXCEPT ![p - 1] = m[q - 1]]
        = Moved(m, p - 1, q - 1, k + 1)
  BY <1>1, <1>3, <1>4, <1>5 DEF Moved
<1>. QED
  BY <1>6, <1>7

(* One more pair of equal bytes. *)
LEMMA AgreeStep ==
  ASSUME NEW m, NEW p \in Nat, NEW q \in Nat, NEW k \in Nat,
         AgreeUpTo(m, p, q, k), m[p + k] = m[q + k]
  PROVE  AgreeUpTo(m, p, q, k + 1)
  BY DEF AgreeUpTo

-----------------------------------------------------------------------------
(* The invariant. *)

LEMMA InitIInv == Init => IInv
  BY MemAssumption
     DEF Init, IInv, TypeOK, ArgsOK, PartialEffect, Addr, Byte

(* Entering a function: nothing has been done yet. *)
LEMMA EnterInv ==
  ASSUME IInv, NEW f \in {"memset", "memmove", "memcmp"},
         NEW p \in 0 .. MemSize, NEW q \in 0 .. MemSize,
         NEW len \in 0 .. MemSize, NEW byte \in Byte, Enter(f, p, q, len, byte)
  PROVE  IInv'
<1>1. mem = entry /\ mem \in [Addr -> Byte]
  BY DEF Enter, IInv, TypeOK, PartialEffect
<1>2. Filled(mem, p, byte, 0) = mem
  BY <1>1, FilledNothing, MemAssumption
<1>3. TypeOK' /\ ArgsOK'
  BY MemAssumption DEF Enter, Owned, IInv, TypeOK, ArgsOK
<1>4. PartialEffect'
  BY <1>1, <1>2 DEF Enter, PartialEffect, AgreeUpTo
<1>. QED
  BY <1>3, <1>4 DEF IInv

LEMMA CallInv == IInv /\ Call => IInv'
<1>1. 0 \in Byte /\ \A v \in FillArgs : ByteOf(v) \in Byte
  BY MemAssumption DEF ByteOf, Byte
<1>. QED
  BY <1>1, EnterInv DEF Call, CallMemset, CallMemmove, CallMemcmp

(* memmove's choice of a loop: nothing has been copied yet in either. *)
LEMMA ChooseDirectionInv == IInv /\ ChooseDirection => IInv'
<1>. SUFFICES ASSUME IInv, ChooseDirection PROVE IInv'
  OBVIOUS
<1>. USE MemAssumption DEF ChooseDirection, CopiesUp, args
<1>1. mem = entry /\ mem \in [Addr -> Byte]
  BY DEF IInv, TypeOK, PartialEffect
<1>2. Moved(mem, dst, src, 0) = mem /\ Moved(mem, dst + n, src + n, 0) = mem
  BY <1>1, MovedNothing DEF IInv, TypeOK
<1>3. n - n = 0 /\ n \in Nat /\ dst \in Nat /\ src \in Nat
  BY DEF IInv, TypeOK
<1>4. TypeOK' /\ ArgsOK'
  BY <1>3 DEF IInv, TypeOK, ArgsOK
<1>5. PartialEffect'
  BY <1>1, <1>2, <1>3 DEF PartialEffect
<1>. QED
  BY <1>4, <1>5 DEF IInv

(* One iteration of memset. *)
LEMMA SetByteInv == IInv /\ SetByte => IInv'
<1>. SUFFICES ASSUME IInv, SetByte PROVE IInv'
  OBVIOUS
<1>. USE MemAssumption DEF IInv, SetByte, Store, More, args
<1>1. /\ dst \in Nat /\ i \in Nat /\ n \in Nat
      /\ i < n /\ dst + n <= MemSize /\ dst + i \in Addr
  BY DEF TypeOK, ArgsOK, Addr
<1>2. TypeOK'
  BY <1>1 DEF TypeOK
<1>3. mem = Filled(entry, dst, c, i) /\ entry \in [Addr -> Byte]
  BY DEF PartialEffect, TypeOK
<1>4. [Filled(entry, dst, c, i) EXCEPT ![dst + i] = c]
        = Filled(entry, dst, c, i + 1)
  <2>. HIDE DEF IInv, SetByte, Store, More
  <2>. QED  BY <1>1, <1>3, FilledStep
<1>5. mem' = Filled(entry, dst, c, i + 1)
  BY <1>3, <1>4
<1>. QED
  BY <1>2, <1>5 DEF ArgsOK, PartialEffect

(* One iteration of memmove's upward loop. *)
LEMMA MoveUpByteInv == IInv /\ MoveUpByte => IInv'
<1>. SUFFICES ASSUME IInv, MoveUpByte PROVE IInv'
  OBVIOUS
<1>. USE MemAssumption DEF IInv, MoveUpByte, Store, More, args
<1>1. /\ dst \in Nat /\ src \in Nat /\ i \in Nat /\ n \in Nat
      /\ i < n /\ dst < src /\ src + n <= MemSize
      /\ dst + i \in Addr /\ src + i \in Addr
  BY DEF TypeOK, ArgsOK, Addr
<1>2. TypeOK'
  BY <1>1 DEF TypeOK
<1>3. mem = Moved(entry, dst, src, i) /\ entry \in [Addr -> Byte]
  BY DEF PartialEffect, TypeOK
<1>4. /\ Moved(entry, dst, src, i)[src + i] = entry[src + i]
      /\ [Moved(entry, dst, src, i) EXCEPT ![dst + i] = entry[src + i]]
           = Moved(entry, dst, src, i + 1)
  <2>. HIDE DEF IInv, MoveUpByte, Store, More
  <2>1. src + i < MemSize
    BY <1>1
  <2>. QED  BY <1>1, <1>3, <2>1, MovedUpStep
<1>5. mem' = Moved(entry', dst', src', i')
  BY <1>3, <1>4
<1>. QED
  BY <1>2, <1>5 DEF ArgsOK, PartialEffect

(* One iteration of memmove's downward loop. *)
LEMMA MoveDownByteInv == IInv /\ MoveDownByte => IInv'
<1>. SUFFICES ASSUME IInv, MoveDownByte PROVE IInv'
  OBVIOUS
<1>. USE MemAssumption DEF IInv, MoveDownByte, Store, args
<1>1. /\ dst \in Nat /\ src \in Nat /\ i \in Nat /\ n \in Nat /\ 0 < i
      /\ i <= n /\ src < dst /\ dst + n <= MemSize
      /\ dst + i - 1 \in Addr /\ src + i - 1 \in Addr
  BY DEF TypeOK, ArgsOK, Addr
<1>2. TypeOK'
  BY <1>1 DEF TypeOK
<1>3. mem = Moved(entry, dst + i, src + i, n - i) /\ entry \in [Addr -> Byte]
  BY DEF PartialEffect, TypeOK
<1>4. /\ Moved(entry, dst + i, src + i, n - i)[(src + i) - 1]
           = entry[(src + i) - 1]
      /\ [Moved(entry, dst + i, src + i, n - i) EXCEPT
             ![(dst + i) - 1] = entry[(src + i) - 1]]
           = Moved(entry, (dst + i) - 1, (src + i) - 1, (n - i) + 1)
  <2>. DEFINE p == dst + i
              q == src + i
              k == n - i
  <2>1. /\ p \in Nat /\ q \in Nat /\ k \in Nat
        /\ 0 < q /\ q < p /\ p + k <= MemSize
    BY <1>1
  <2>. HIDE MemAssumption DEF IInv, MoveDownByte, Store, args, p, q, k
  <2>2. /\ Moved(entry, p, q, k)[q - 1] = entry[q - 1]
        /\ [Moved(entry, p, q, k) EXCEPT ![p - 1] = entry[q - 1]]
             = Moved(entry, p - 1, q - 1, k + 1)
    BY <1>3, <2>1, MovedDownStep
  <2>. QED  BY <2>2 DEF p, q, k
<1>5. /\ (dst + i) - 1 = dst + (i - 1) /\ (src + i) - 1 = src + (i - 1)
       /\ (n - i) + 1 = n - (i - 1)
  BY <1>1
<1>6. mem' = Moved(entry', dst' + i', src' + i', n' - i')
  BY <1>3, <1>4, <1>5
<1>. QED
  BY <1>2, <1>6 DEF ArgsOK, PartialEffect

(* A call ends: the memory is handed back to the caller as it is. *)
LEMMA ReturnInv ==
  ASSUME IInv, NEW value \in Int, Return(value)
  PROVE  IInv'
  BY MemAssumption DEF IInv, TypeOK, ArgsOK, PartialEffect, Return, Byte

(* One iteration of memcmp. *)
LEMMA CompareByteInv == IInv /\ CompareByte => IInv'
<1>. SUFFICES ASSUME IInv, CompareByte PROVE IInv'
  OBVIOUS
<1>1. /\ dst \in Nat /\ src \in Nat /\ i \in Nat /\ n \in Nat /\ i < n
      /\ dst + i \in Addr /\ src + i \in Addr
  BY MemAssumption DEF IInv, TypeOK, ArgsOK, CompareByte, More, Addr
<1>2. CASE mem[dst + i] # mem[src + i]
  <2>1. mem[dst + i] - mem[src + i] \in Int
    BY <1>1 DEF IInv, TypeOK, Byte
  <2>. QED
    BY <1>2, <2>1, ReturnInv DEF CompareByte
<1>3. CASE mem[dst + i] = mem[src + i]
  <2>1. mem = entry /\ AgreeUpTo(entry, dst, src, i + 1)
    BY <1>1, <1>3, AgreeStep DEF IInv, PartialEffect, CompareByte
  <2>. QED
    BY <1>1, <1>3, <2>1
       DEF IInv, TypeOK, ArgsOK, PartialEffect, CompareByte, args
<1>. QED
  BY <1>2, <1>3

(* memmove's early return, and the end of a loop. *)
LEMMA FinishInv == IInv /\ (MoveNothing \/ Finish) => IInv'
  BY ReturnInv, MemAssumption DEF MoveNothing, Finish, IInv, TypeOK

LEMMA NextIInv == IInv /\ [Next]_vars => IInv'
<1>. SUFFICES ASSUME IInv, [Next]_vars PROVE IInv'
  OBVIOUS
<1>1. CASE Call
  BY <1>1, CallInv
<1>2. CASE Run
  BY <1>2, ChooseDirectionInv, SetByteInv, MoveUpByteInv, MoveDownByteInv,
     CompareByteInv, FinishInv DEF Run
<1>3. CASE UNCHANGED vars
  BY <1>3 DEF vars, args, IInv, TypeOK, ArgsOK, PartialEffect
<1>. QED
  BY <1>1, <1>2, <1>3 DEF Next

LEMMA IInvAlways == Spec => []IInv
  BY InitIInv, NextIInv, PTL DEF Spec

(* The variables of mem.c keep their types; in particular no loop stores a *)
(* byte outside the memory of its caller (TypeOK fixes mem's domain).      *)
THEOREM TypeCorrect == Spec => []TypeOK
  BY IInvAlways, PTL DEF IInv

(* Whatever the sizes and the overlap of the spans, a loop of mem.c has at *)
(* each iteration done exactly the part of its effect it has passed.       *)
THEOREM LoopsKeepPartialEffect == Spec => []PartialEffect
  BY IInvAlways, PTL DEF IInv

-----------------------------------------------------------------------------
(* Refinement. *)

(* The call MemApi sees, by the two ends of its life. *)
LEMMA NoCallIsNone ==
  /\ Init => operation = "none" /\ <<dst, src, n, c>> = <<0, 0, 0, 0>>
  /\ \A value : Return(value) =>
       (operation = "none" /\ <<dst, src, n, c>> = <<0, 0, 0, 0>>)'
  BY DEF Init, Return, operation

(* MemApi's operators on memories are those of MemOps. *)
LEMMA SameOps ==
  ASSUME NEW m, NEW p, NEW q, NEW len, NEW v
  PROVE  /\ Api!Filled(m, p, v, len) = Filled(m, p, v, len)
         /\ Api!Moved(m, p, q, len) = Moved(m, p, q, len)
         /\ Api!IsComparison(m, p, q, len, v) <=> IsComparison(m, p, q, len, v)
<1>1. Api!Filled(m, p, v, len) = Filled(m, p, v, len)
  BY DEF Api!Filled, Filled, Api!Span, Span
<1>2. Api!Moved(m, p, q, len) = Moved(m, p, q, len)
  BY DEF Api!Moved, Moved, Api!Span, Span
<1>3. Api!IsComparison(m, p, q, len, v) <=> IsComparison(m, p, q, len, v)
  BY DEF Api!IsComparison, IsComparison, Api!AgreeUpTo, AgreeUpTo
<1>. QED
  BY <1>1, <1>2, <1>3

(* Until its return a call changes nothing the caller may look at. *)
LEMMA RunningStutters ==
  ASSUME UNCHANGED <<entry, ret, dst, src, n, c, operation>>
  PROVE  UNCHANGED Api!vars
  BY DEF Api!vars

(* A call of mem.c is a call in MemApi. *)
LEMMA CallRefines ==
  ASSUME IInv, Call
  PROVE  Api!Call
<1>1. ASSUME NEW f \in {"memset", "memmove", "memcmp"},
             NEW p \in 0 .. MemSize, NEW q \in 0 .. MemSize,
             NEW len \in 0 .. MemSize, NEW byte \in Byte,
             Enter(f, p, q, len, byte)
      PROVE  Api!Invoke(f, p, q, len, byte)
  <2>1. /\ operation = "none" /\ operation' = f
        /\ <<dst, src, n, c>> = <<0, 0, 0, 0>>
    BY <1>1 DEF Enter, operation, IInv, ArgsOK
  <2>. QED
    BY <1>1, <2>1 DEF Enter, Owned, Api!Invoke, Api!Owned, Api!NoCall,
                      Api!Arguments
<1>2. 0 \in Byte /\ \A v \in FillArgs : ByteOf(v) \in Byte /\ Api!ByteOf(v) = ByteOf(v)
  BY MemAssumption DEF ByteOf, Byte, Api!ByteOf
<1>. QED
  BY <1>1, <1>2 DEF Call, CallMemset, CallMemmove, CallMemcmp, Api!Call

(* The end of memset's loop. *)
LEMMA MemsetReturns ==
  ASSUME IInv, fn = "memset", ~More, Return(dst)
  PROVE  Api!memset
<1>1. i = n
  BY MemAssumption DEF IInv, TypeOK, More
<1>2. entry' = Filled(entry, dst, c, n) /\ ret' = dst
  BY <1>1 DEF IInv, PartialEffect, Return
<1>3. operation = "memset"
  BY DEF operation
<1>. QED
  BY <1>2, <1>3, SameOps, NoCallIsNone DEF Api!memset, Api!NoCall, Api!Arguments

(* memmove's early return, and the end of either loop. *)
LEMMA MemmoveReturns ==
  ASSUME IInv, Return(dst),
         \/ fn = "memmove" /\ (dst = src \/ n = 0)
         \/ fn = "move_up" /\ ~More
         \/ fn = "move_down" /\ ~(i > 0)
  PROVE  Api!memmove
<1>1. entry' = Moved(entry, dst, src, n) /\ ret' = dst
  <2>1. CASE fn = "memmove"
    <3>1. /\ mem = entry /\ entry \in [Addr -> Byte]
          /\ dst \in Nat /\ src \in Nat /\ n \in Nat /\ dst + n <= MemSize
      BY <2>1 DEF IInv, TypeOK, ArgsOK, PartialEffect
    <3>2. CASE dst = src
      BY <2>1, <3>1, <3>2, MovedInPlace DEF Return
    <3>3. CASE n = 0
      BY <2>1, <3>1, <3>3, MovedNothing DEF Return
    <3>. QED
      BY <2>1, <3>2, <3>3
  <2>2. CASE fn = "move_up"
    <3>1. i = n
      BY <2>2, MemAssumption DEF IInv, TypeOK, More
    <3>. QED
      BY <2>2, <3>1 DEF IInv, PartialEffect, Return
  <2>3. CASE fn = "move_down"
    <3>1. i = 0 /\ dst + i = dst /\ src + i = src /\ n - i = n
      BY <2>3, MemAssumption DEF IInv, TypeOK
    <3>. QED
      BY <2>3, <3>1 DEF IInv, PartialEffect, Return
  <2>. QED
    BY <2>1, <2>2, <2>3
<1>2. operation = "memmove"
  BY DEF operation
<1>. QED
  BY <1>1, <1>2, SameOps, NoCallIsNone DEF Api!memmove, Api!NoCall, Api!Arguments

(* The end of memcmp, at a difference or at the end of the spans. *)
LEMMA MemcmpReturns ==
  ASSUME IInv, fn = "memcmp",
         \/ /\ More /\ mem[dst + i] # mem[src + i]
            /\ Return(mem[dst + i] - mem[src + i])
         \/ ~More /\ Return(0)
  PROVE  Api!memcmp
<1>1. mem = entry /\ entry' = entry /\ AgreeUpTo(entry, dst, src, i)
  BY DEF IInv, PartialEffect, Return
<1>2. IsComparison(entry, dst, src, n, ret')
  <2>1. CASE /\ More /\ mem[dst + i] # mem[src + i]
             /\ Return(mem[dst + i] - mem[src + i])
    <3>1. i \in 0 .. (n - 1)
      BY <2>1, MemAssumption DEF IInv, TypeOK, More
    <3>. QED
      BY <1>1, <2>1, <3>1 DEF IsComparison, Return
  <2>2. CASE ~More /\ Return(0)
    <3>1. i = n /\ ret' = 0
      BY <2>2, MemAssumption DEF IInv, TypeOK, More, Return
    <3>. QED
      BY <1>1, <3>1 DEF IsComparison
  <2>. QED
    BY <2>1, <2>2
<1>3. operation = "memcmp"
  BY DEF operation
<1>4. \E value : Return(value)
  OBVIOUS
<1>. QED
  BY <1>1, <1>2, <1>3, <1>4, SameOps, NoCallIsNone
     DEF Api!memcmp, Api!NoCall, Api!Arguments

(* Every step of the loops is a step of MemApi or invisible in it. *)
LEMMA StepRefines ==
  ASSUME IInv, [Next]_vars
  PROVE  Api!Next \/ UNCHANGED Api!vars
<1>1. CASE Call
  BY <1>1, CallRefines DEF Api!Next
<1>2. CASE ChooseDirection \/ SetByte \/ MoveUpByte \/ MoveDownByte
  <2>1. UNCHANGED <<entry, ret, dst, src, n, c, operation>>
    BY <1>2 DEF ChooseDirection, SetByte, MoveUpByte, MoveDownByte, Store,
                operation, args
  <2>. QED
    BY <2>1, RunningStutters
<1>3. CASE CompareByte
  <2>1. CASE mem[dst + i] # mem[src + i]
    BY <1>3, <2>1, MemcmpReturns DEF CompareByte, Api!Next
  <2>2. CASE mem[dst + i] = mem[src + i]
    <3>1. UNCHANGED <<entry, ret, dst, src, n, c, operation>>
      BY <1>3, <2>2 DEF CompareByte, operation, args
    <3>. QED
      BY <3>1, RunningStutters
  <2>. QED
    BY <2>1, <2>2
<1>4. CASE MoveNothing
  BY <1>4, MemmoveReturns DEF MoveNothing, Api!Next
<1>5. CASE Finish
  <2>1. CASE fn = "memset" /\ ~More /\ Return(dst)
    BY <2>1, MemsetReturns DEF Api!Next
  <2>2. CASE \/ fn = "move_up" /\ ~More /\ Return(dst)
             \/ fn = "move_down" /\ ~(i > 0) /\ Return(dst)
    BY <2>2, MemmoveReturns DEF Api!Next
  <2>3. CASE fn = "memcmp" /\ ~More /\ Return(0)
    BY <2>3, MemcmpReturns DEF Api!Next
  <2>. QED
    BY <1>5, <2>1, <2>2, <2>3 DEF Finish
<1>6. CASE UNCHANGED vars
  <2>1. UNCHANGED <<entry, ret, dst, src, n, c, operation>>
    BY <1>6 DEF vars, args, operation
  <2>. QED
    BY <2>1, RunningStutters
<1>. QED
  BY <1>1, <1>2, <1>3, <1>4, <1>5, <1>6 DEF Next, Run

LEMMA InitRefines == Init => Api!Init
  BY NoCallIsNone
     DEF Init, Api!Init, Api!Addr, Api!Byte, Addr, Byte, Api!NoCall, Api!Arguments

(* mem.c implements MemApi: seen by its callers, memset, memmove and memcmp *)
(* happen at once and as specified, for all sizes, overlaps and contents.   *)
THEOREM MemImplementsApi == Spec => ImplementsApi
<1>1. IInv /\ [Next]_vars => [Api!Next]_(Api!vars)
  BY StepRefines
<1>. QED
  BY <1>1, InitRefines, IInvAlways, PTL DEF Spec, Api!Spec, ImplementsApi
=============================================================================
