----------------------------- MODULE Pic_proofs -----------------------------
(***************************************************************************)
(* Proofs about Pic, whatever devices there are, whichever lines are       *)
(* masked and wherever in a function of the driver an interrupt comes.     *)
(* First that both controllers have ended an interrupt when its handler    *)
(* returns: proof of ServiceEnds.  Then what the driver does with masks and *)
(* vectors, proofs of MasksAsAsked, MaskedOnlyInWindow and NoStaleVector,  *)
(* by an invariant that says for each place in each function how far either *)
(* chip has got.  At the end what the two reads return, proof of           *)
(* HalvesWereTrue, and the types, which include that only devices interrupt. *)
(***************************************************************************)
EXTENDS Pic, NaturalsInduction, SequenceTheorems, TLAPS

ChipSet ==
  [imr : Byte, irr : Byte, isr : Byte, offset : Byte, icw3 : Byte,
   phase : {"ready", "icw2", "icw3", "icw4"}, select : {"irr", "isr"}]

(* What a driver function consists of. *)
Access ==
  [op : {"out"}, chip : ChipName, port : {"command", "data"},
   kept : BOOLEAN, add : Byte, drop : Byte] \cup
  [op : {"in"}, chip : ChipName, port : {"command", "data"}]

Eoi(name) == Out(name, "command", OCW2_EOI)

(* Where a handler is, and what is then in service: the line of its        *)
(* interrupt, and line 2 of the master for one of the slave's.             *)
Serving(irq, accesses, m, s) ==
  /\ handler = [irq |-> irq, rest |-> accesses]
  /\ chips["master"].isr = m /\ chips["slave"].isr = s

HandlerOK ==
  \/ Serving(-1, <<>>, {}, {})
  \/ \E irq \in 0 .. 7 : Serving(irq, <<Eoi("master")>>, {irq}, {})
  \/ \E irq \in 8 .. 15 :
       \/ Serving(irq, <<Eoi("slave"), Eoi("master")>>, {2}, {irq - 8})
       \/ Serving(irq, <<Eoi("master")>>, {2}, {})

IInv ==
  /\ chips \in [ChipName -> ChipSet]
  /\ reg \in [ChipName -> Byte]
  /\ rest \in Seq(Access)
  /\ 2 \notin chips["master"].irr
  /\ HandlerOK

-----------------------------------------------------------------------------
(* The chips. *)

LEMMA MinOfLines ==
  ASSUME NEW S \in Byte, S # {}
  PROVE  Min(S) \in S
<1> DEFINE Least == \E x \in S : \A y \in S : x <= y
           Below(n) == (\E x \in S : x < n) => Least
<1>1. S \subseteq 0 .. 7
  BY DEF Byte, Line
<1>2. ASSUME NEW n \in 0 .. 7, Below(n)
      PROVE  Below(n + 1)
  <2>1. CASE n \in S /\ ~\E x \in S : x < n
    <3>1. \A y \in S : n <= y
      BY <1>1, <2>1
    <3>. QED BY <2>1, <3>1
  <2>2. CASE ~(n \in S /\ ~\E x \in S : x < n)
    BY <1>1, <1>2, <2>2
  <2>. QED BY <2>1, <2>2
<1>3. Below(0)
  BY <1>1
<1> HIDE DEF Below
<1>4. Below(0 + 1) /\ Below(1 + 1) /\ Below(2 + 1) /\ Below(3 + 1)
  BY <1>2, <1>3
<1>5. Below(4 + 1) /\ Below(5 + 1) /\ Below(6 + 1) /\ Below(7 + 1)
  BY <1>2, <1>4
<1>6. \E x \in S : x < 7 + 1
  <2>1. PICK z \in S : TRUE
    OBVIOUS
  <2>. QED BY <1>1, <2>1
<1>7. Least
  BY <1>5, <1>6 DEF Below
<1>. QED BY <1>7 DEF Min

LEMMA MinOfOne ==
  ASSUME NEW x \in Line PROVE Min({x}) = x
<1>1. {x} \in Byte
  BY DEF Byte
<1>. QED BY <1>1, MinOfLines

(* What a chip is written to puts nothing in service that was not.         *)
LEMMA DataKeeps ==
  ASSUME NEW c \in ChipSet, NEW byte \in Byte
  PROVE  /\ Data(c, byte) \in ChipSet
         /\ Data(c, byte).isr = c.isr /\ Data(c, byte).irr = c.irr
<1>1. byte \ 0 .. 2 \in Byte
  BY DEF Byte
<1>2. CASE c.phase = "icw2"
  BY <1>1, <1>2 DEF Data, ChipSet
<1>3. CASE c.phase = "icw3"
  BY <1>3 DEF Data, ChipSet
<1>4. CASE c.phase = "icw4"
  BY <1>4 DEF Data, ChipSet
<1>5. CASE c.phase = "ready"
  BY <1>5 DEF Data, ChipSet
<1>. QED BY <1>2, <1>3, <1>4, <1>5 DEF ChipSet

LEMMA CommandKeeps ==
  ASSUME NEW c \in ChipSet, NEW byte \in Byte
  PROVE  /\ Command(c, byte) \in ChipSet
         /\ Command(c, byte).isr \subseteq c.isr
         /\ Command(c, byte).irr \subseteq c.irr
<1>1. {} \in Byte /\ c.isr \ {Min(c.isr)} \in Byte
  BY DEF Byte, ChipSet
<1>2. CASE 4 \in byte
  BY <1>1, <1>2 DEF Command, ChipSet
<1>3. CASE 4 \notin byte /\ {1, 3} \subseteq byte
  BY <1>3 DEF Command, ChipSet
<1>4. CASE 4 \notin byte /\ ~({1, 3} \subseteq byte)
  <2>1. CASE byte = {5} /\ c.isr # {}
    <3>1. Command(c, byte) = [c EXCEPT !.isr = @ \ {Min(@)}]
      BY <1>4, <2>1 DEF Command
    <3>. QED BY <1>1, <3>1 DEF ChipSet
  <2>2. CASE ~(byte = {5} /\ c.isr # {})
    <3>1. Command(c, byte) = c
      BY <1>4, <2>2 DEF Command
    <3>. QED BY <3>1
  <2>. QED BY <2>1, <2>2
<1>. QED BY <1>2, <1>3, <1>4

(* The end of interrupt takes the one line in service out of it. *)
LEMMA EoiEnds ==
  ASSUME NEW c \in ChipSet, NEW x \in Line, c.isr = {x}
  PROVE  /\ Command(c, {5}) \in ChipSet
         /\ Command(c, {5}).isr = {}
         /\ Command(c, {5}).irr = c.irr
<1>1. {} \in Byte /\ 4 \notin {5} /\ ~({1, 3} \subseteq {5})
  BY DEF Byte
<1>2. Command(c, {5}) = [c EXCEPT !.isr = @ \ {Min(@)}]
  BY <1>1 DEF Command
<1>3. c.isr \ {Min(c.isr)} = {}
  BY MinOfOne
<1>. QED BY <1>1, <1>2, <1>3 DEF ChipSet

-----------------------------------------------------------------------------
(* The driver. *)

LEMMA OutIsAccess ==
  ASSUME NEW name \in ChipName, NEW port \in {"command", "data"},
         NEW byte \in Byte
  PROVE  Out(name, port, byte) \in Access
BY DEF Out, Access, Byte

LEMMA UpdateIsAccess ==
  ASSUME NEW name \in ChipName, NEW add \in Byte, NEW drop \in Byte
  PROVE  Update(name, add, drop) \in Access
BY DEF Update, Access

LEMMA InIsAccess ==
  ASSUME NEW name \in ChipName, NEW port \in {"command", "data"}
  PROVE  In(name, port) \in Access
BY DEF In, Access

LEMMA BothIsProgram ==
  ASSUME NEW port \in {"command", "data"}, NEW m \in Byte, NEW s \in Byte
  PROVE  Both(port, m, s) \in Seq(Access)
BY OutIsAccess DEF Both, ChipName

LEMMA RemapIsProgram ==
  ASSUME NEW m \in Byte, NEW s \in Byte
  PROVE  pic_remap(m, s) \in Seq(Access)
<1>1. /\ ICW1 \in Byte /\ ICW4_8086 \in Byte
      /\ {} \in Byte /\ {1} \in Byte /\ {2} \in Byte
  BY DEF Byte, Line, ICW1, ICW4_8086
<1>2. SaveMasks \in Seq(Access)
  BY InIsAccess DEF SaveMasks, ChipName
<1>3. RestoreMasks \in Seq(Access)
  BY <1>1, UpdateIsAccess DEF RestoreMasks, ChipName
<1>4. /\ Both("command", ICW1, ICW1) \in Seq(Access)
      /\ Both("data", m, s) \in Seq(Access)
      /\ Both("data", {2}, {1}) \in Seq(Access)
      /\ Both("data", ICW4_8086, ICW4_8086) \in Seq(Access)
  BY <1>1, BothIsProgram
<1>. QED BY <1>2, <1>3, <1>4, ConcatProperties DEF pic_remap

LEMMA MaskIsProgram ==
  ASSUME NEW irq \in Irqs
  PROVE  pic_set_mask(irq) \in Seq(Access) /\ pic_clear_mask(irq) \in Seq(Access)
<1>1. Bit(LineOf(irq)) \in Byte /\ {} \in Byte /\ ChipOf(irq) \in ChipName
  BY DEF Bit, Byte, ChipOf, ChipName
<1>2. /\ In(ChipOf(irq), "data") \in Access
      /\ Update(ChipOf(irq), Bit(LineOf(irq)), {}) \in Access
      /\ Update(ChipOf(irq), {}, Bit(LineOf(irq))) \in Access
  BY <1>1, InIsAccess, UpdateIsAccess
<1>. QED BY <1>2 DEF pic_set_mask, pic_clear_mask

LEMMA GetIsProgram ==
  ASSUME NEW select \in {"isr", "irr"}
  PROVE  pic_get(select) \in Seq(Access)
<1>1. OCW3(select) \in Byte
  BY DEF OCW3, Byte, Line
<1>2. \A name \in ChipName : /\ Out(name, "command", OCW3(select)) \in Access
                             /\ In(name, "command") \in Access
  BY <1>1, OutIsAccess, InIsAccess
<1>. QED BY <1>2 DEF pic_get, ChipName

LEMMA WrittenIsByte ==
  ASSUME NEW a \in Access, a.op = "out", reg \in [ChipName -> Byte]
  PROVE  Written(a) \in Byte
<1>1. a.chip \in ChipName /\ a.add \in Byte /\ a.drop \in Byte
  BY DEF Access
<1>. QED BY <1>1 DEF Written, Byte

(* An access leaves nothing more in service, and requests nothing.         *)
LEMMA EffectKeeps ==
  ASSUME NEW a \in Access,
         chips \in [ChipName -> ChipSet], reg \in [ChipName -> Byte]
  PROVE  /\ Effect(a) \in [ChipName -> ChipSet]
         /\ \A name \in ChipName :
              /\ Effect(a)[name].isr \subseteq chips[name].isr
              /\ Effect(a)[name].irr \subseteq chips[name].irr
<1>1. CASE a.op = "in"
  BY <1>1 DEF Effect
<1>2. CASE a.op # "in"
  <2>1. a.op = "out" /\ a.chip \in ChipName
    BY <1>2 DEF Access
  <2>2. Written(a) \in Byte
    BY <2>1, WrittenIsByte
  <2> DEFINE c == IF a.port = "data" THEN Data(chips[a.chip], Written(a))
                  ELSE Command(chips[a.chip], Written(a))
  <2>3. /\ c \in ChipSet
        /\ c.isr \subseteq chips[a.chip].isr
        /\ c.irr \subseteq chips[a.chip].irr
    BY <2>1, <2>2, DataKeeps, CommandKeeps
  <2>4. Effect(a) = [chips EXCEPT ![a.chip] = c]
    BY <1>2 DEF Effect
  <2> HIDE DEF c
  <2>. QED BY <2>1, <2>3, <2>4
<1>. QED BY <1>1, <1>2

-----------------------------------------------------------------------------
(* The steps. *)

LEMMA InitOK == Init => IInv
<1> SUFFICES ASSUME Init PROVE IInv
  OBVIOUS
<1>1. \A name \in ChipName :
        Programmed(LinesOf(name, asked), FirmwareOffset(name), Cascade(name))
          \in ChipSet
  BY DEF Programmed, LinesOf, FirmwareOffset, Cascade, ChipSet, Byte, Line
<1>2. chips \in [ChipName -> ChipSet]
  BY <1>1 DEF Init
<1>3. reg \in [ChipName -> Byte] /\ rest \in Seq(Access)
  BY DEF Init, Byte
<1>4. \A name \in ChipName : chips[name].irr = {} /\ chips[name].isr = {}
  BY DEF Init, Programmed
<1>5. HandlerOK
  BY <1>4 DEF Init, NoHandler, HandlerOK, Serving, ChipName
<1>. QED BY <1>2, <1>3, <1>4, <1>5 DEF IInv, ChipName

(* A call only sets out the accesses to make. *)
LEMMA CallOK == IInv /\ Calls => IInv'
<1> SUFFICES ASSUME IInv, Calls PROVE IInv'
  OBVIOUS
<1>1. /\ chips' = chips /\ handler' = handler
      /\ reg' = [name \in ChipName |-> {}]
  BY DEF Calls, CallRemap, CallMask, CallDisable, CallGet, Call
<1>2. rest' \in Seq(Access)
  <2>1. CASE CallRemap
    <3>1. PICK o \in Offsets : rest' = pic_remap(o[1], o[2])
      BY <2>1 DEF CallRemap, Call
    <3>2. o[1] \in Byte /\ o[2] \in Byte
      BY PicAssumption DEF Byte, Line
    <3>. QED BY <3>1, <3>2, RemapIsProgram
  <2>2. CASE CallMask
    BY <2>2, MaskIsProgram DEF CallMask, Call
  <2>3. CASE CallDisable
    <3>1. rest' = Both("data", Line, Line)
      BY <2>3 DEF CallDisable, Call, pic_disable
    <3>. QED BY <3>1, BothIsProgram DEF Byte
  <2>4. CASE CallGet
    BY <2>4, GetIsProgram DEF CallGet, Call
  <2>. QED BY <2>1, <2>2, <2>3, <2>4 DEF Calls
<1>3. HandlerOK'
  BY <1>1 DEF IInv, HandlerOK, Serving
<1>. QED BY <1>1, <1>2, <1>3 DEF IInv, Byte

(* Between interrupts nothing is in service.                               *)
LEMMA IdleHandler ==
  ASSUME HandlerOK, ~Handling
  PROVE  Serving(-1, <<>>, {}, {})
BY DEF HandlerOK, Handling, NoHandler, Serving

LEMMA ProgramStepOK == IInv /\ ProgramStep => IInv'
<1> SUFFICES ASSUME IInv, ProgramStep PROVE IInv'
  OBVIOUS
<1> DEFINE a == Head(rest)
<1>1. a \in Access /\ rest' \in Seq(Access)
  BY HeadTailProperties DEF IInv, ProgramStep
<1>2. chips' = Effect(a) /\ handler' = handler
  BY DEF ProgramStep
<1>3. /\ chips' \in [ChipName -> ChipSet]
      /\ \A name \in ChipName : /\ chips'[name].isr \subseteq chips[name].isr
                                /\ chips'[name].irr \subseteq chips[name].irr
  BY <1>1, <1>2, EffectKeeps DEF IInv
<1>4. reg' \in [ChipName -> Byte]
  <2>1. a.chip \in ChipName
    BY <1>1 DEF Access
  <2>2. Value(a) \in Byte
    BY <2>1 DEF Value, Register, Requests, IInv, ChipSet, Byte, Line
  <2>. QED BY <2>1, <2>2 DEF ProgramStep, IInv
<1>5. HandlerOK'
  <2>1. Serving(-1, <<>>, {}, {})
    BY IdleHandler DEF IInv, ProgramStep
  <2>. QED BY <2>1, <1>2, <1>3 DEF Serving, HandlerOK, ChipName
<1>. QED BY <1>1, <1>3, <1>4, <1>5 DEF IInv, ChipName

LEMMA RaiseOK == IInv /\ Raise => IInv'
<1> SUFFICES ASSUME IInv, Raise PROVE IInv'
  OBVIOUS
<1>1. PICK irq \in Devices : chips' = Raised(chips, irq)
  BY DEF Raise
<1>2. irq \in 0 .. 15 /\ irq # 2 /\ irq % 8 \in Line /\ ChipOf(irq) \in ChipName
      /\ (irq < 8 => irq % 8 = irq)
  BY PicAssumption DEF Line, ChipOf, ChipName
<1>3. chips' = [chips EXCEPT ![ChipOf(irq)] =
                  [chips[ChipOf(irq)] EXCEPT !.irr = @ \cup {irq % 8}]]
  BY <1>1, <1>2 DEF Raised, IInv
<1>4. [chips[ChipOf(irq)] EXCEPT !.irr = @ \cup {irq % 8}] \in ChipSet
  BY <1>2 DEF IInv, ChipSet, Byte
<1>5. /\ chips' \in [ChipName -> ChipSet]
      /\ \A name \in ChipName : chips'[name].isr = chips[name].isr
  BY <1>2, <1>3, <1>4 DEF IInv, ChipSet
<1>6. 2 \notin chips'["master"].irr
  BY <1>2, <1>3 DEF IInv, ChipOf, ChipName, ChipSet
<1>7. HandlerOK'
  BY <1>5 DEF IInv, Raise, HandlerOK, Serving, ChipName
<1>. QED BY <1>5, <1>6, <1>7 DEF IInv, Raise

(* The processor gets an interrupt that is requested; one of the slave's   *)
(* through line 2.                                                         *)
LEMMA WinnerIsRequested ==
  ASSUME IInv, Interrupting(chips)
  PROVE  Winner(chips) \in 0 .. 15 /\ Winner(chips) # 2
<1>1. MasterOpen(chips) \subseteq Requests(chips, "master")
  BY DEF MasterOpen, Open
<1>2. Requests(chips, "master") \in Byte
  BY DEF Requests, IInv, ChipSet, ChipName, Byte, Line
<1>3. Min(MasterOpen(chips)) \in MasterOpen(chips)
  BY <1>1, <1>2, MinOfLines DEF Interrupting, Byte
<1>4. CASE Min(MasterOpen(chips)) = 2
  <2>1. SlaveOpen(chips) # {}
    BY <1>1, <1>3, <1>4 DEF Requests, IInv
  <2>2. SlaveOpen(chips) \in Byte
    BY DEF SlaveOpen, Open, IInv, ChipSet, ChipName, Byte
  <2>3. Min(SlaveOpen(chips)) \in 0 .. 7
    BY <2>1, <2>2, MinOfLines DEF Byte, Line
  <2>4. Winner(chips) = 8 + Min(SlaveOpen(chips))
    BY <1>4 DEF Winner
  <2>. QED BY <2>3, <2>4
<1>5. CASE Min(MasterOpen(chips)) # 2
  BY <1>1, <1>2, <1>3, <1>5 DEF Winner, Byte, Line
<1>. QED BY <1>4, <1>5

LEMMA AcceptOK == IInv /\ Accept => IInv'
<1> SUFFICES ASSUME IInv, Accept PROVE IInv'
  OBVIOUS
<1>1. PICK irq \in 0 .. 15 : irq = Winner(chips) /\ irq # 2
  BY WinnerIsRequested DEF Accept
<1>2. /\ chips' = Acknowledged(chips, irq)
      /\ handler' = [irq |-> irq, rest |-> pic_send_eoi(irq)]
      /\ UNCHANGED <<rest, reg>>
  BY <1>1 DEF Accept
<1>3. Serving(-1, <<>>, {}, {})
  BY IdleHandler DEF IInv, Accept
<1>4. CASE irq < 8
  <2>1. irq % 8 = irq /\ irq \in Line
    BY <1>1, <1>4 DEF Line
  <2> DEFINE c == [chips["master"] EXCEPT !.irr = @ \ {irq}, !.isr = {irq}]
  <2>2. chips' = [chips EXCEPT !["master"] = c]
    BY <1>2, <1>3, <1>4, <2>1 DEF Acknowledged, ChipOf, Serving, IInv, ChipSet, ChipName
  <2>3. c \in ChipSet /\ c.isr = {irq} /\ c.irr \subseteq chips["master"].irr
    BY <2>1 DEF IInv, ChipSet, ChipName, Byte
  <2> HIDE DEF c
  <2>4. chips' \in [ChipName -> ChipSet] /\ 2 \notin chips'["master"].irr
    BY <2>2, <2>3 DEF IInv, ChipName
  <2>5. handler' = [irq |-> irq, rest |-> <<Eoi("master")>>]
    BY <1>1, <1>2, <1>4 DEF pic_send_eoi, EndOf, Eoi
  <2>6. chips'["master"].isr = {irq} /\ chips'["slave"].isr = {}
    BY <1>3, <2>2, <2>3 DEF IInv, Serving, ChipName
  <2>7. HandlerOK'
    BY <1>1, <1>4, <2>5, <2>6 DEF HandlerOK, Serving
  <2>. QED BY <1>2, <2>4, <2>7 DEF IInv
<1>5. CASE irq >= 8
  <2>1. irq % 8 = irq - 8 /\ irq - 8 \in Line /\ 2 \in Line
    BY <1>1, <1>5 DEF Line
  <2> DEFINE c == [chips["slave"] EXCEPT !.irr = @ \ {irq - 8}, !.isr = {irq - 8}]
             d == [chips["master"] EXCEPT !.isr = {2}]
  <2>2. chips' = [[chips EXCEPT !["slave"] = c] EXCEPT !["master"] = d]
    <3>1. ChipOf(irq) = "slave"
      BY <1>1, <1>5 DEF ChipOf
    <3>2. chips' = [[chips EXCEPT !["slave"].irr = @ \ {irq - 8},
                                  !["slave"].isr = @ \cup {irq - 8}]
                      EXCEPT !["master"].isr = @ \cup {2}]
      BY <1>2, <2>1, <3>1 DEF Acknowledged
    <3>3. chips["slave"].isr = {} /\ chips["master"].isr = {}
      BY <1>3 DEF Serving
    <3>. QED BY <3>2, <3>3 DEF IInv, ChipSet, ChipName
  <2>3. c \in ChipSet /\ c.isr = {irq - 8}
    BY <2>1 DEF IInv, ChipSet, ChipName, Byte
  <2>4. d \in ChipSet /\ d.isr = {2} /\ d.irr = chips["master"].irr
    BY <2>1 DEF IInv, ChipSet, ChipName, Byte
  <2> HIDE DEF c, d
  <2>5. chips' \in [ChipName -> ChipSet] /\ 2 \notin chips'["master"].irr
    BY <2>2, <2>3, <2>4 DEF IInv, ChipName
  <2>6. handler' = [irq |-> irq, rest |-> <<Eoi("slave"), Eoi("master")>>]
    BY <1>1, <1>2, <1>5 DEF pic_send_eoi, EndOf, Eoi
  <2>7. chips'["master"].isr = {2} /\ chips'["slave"].isr = {irq - 8}
    BY <2>2, <2>3, <2>4 DEF IInv, ChipName
  <2>8. Serving(irq, <<Eoi("slave"), Eoi("master")>>, {2}, {irq - 8})'
    BY <2>6, <2>7 DEF Serving
  <2>9. irq \in 8 .. 15
    BY <1>1, <1>5
  <2>10. HandlerOK'
    BY <2>8, <2>9 DEF HandlerOK
  <2>. QED BY <1>2, <2>5, <2>10 DEF IInv
<1>. QED BY <1>1, <1>4, <1>5

(* What the write of an end of interrupt does, to the chip it goes to.     *)
LEMMA EoiEffect ==
  ASSUME chips \in [ChipName -> ChipSet], NEW name \in ChipName,
         NEW x \in Line, chips[name].isr = {x}
  PROVE  /\ Effect(Eoi(name)) \in [ChipName -> ChipSet]
         /\ Effect(Eoi(name))[name].isr = {}
         /\ Effect(Eoi(name))[name].irr = chips[name].irr
         /\ \A other \in ChipName \ {name} :
              Effect(Eoi(name))[other] = chips[other]
<1>1. /\ Eoi(name).op = "out" /\ Eoi(name).chip = name
      /\ Eoi(name).port = "command" /\ Written(Eoi(name)) = {5}
  BY DEF Eoi, Out, Written, OCW2_EOI
<1>2. Effect(Eoi(name)) = [chips EXCEPT ![name] = Command(chips[name], {5})]
  BY <1>1 DEF Effect
<1>. QED BY <1>2, EoiEnds

LEMMA HandlerStepOK == IInv /\ HandlerStep => IInv'
<1> SUFFICES ASSUME IInv, HandlerStep PROVE IInv'
  OBVIOUS
<1>1. /\ handler # NoHandler /\ chips' = Effect(Head(handler.rest))
      /\ handler' = IF Len(handler.rest) = 1 THEN NoHandler
                    ELSE [handler EXCEPT !.rest = Tail(@)]
      /\ UNCHANGED <<rest, reg>>
  BY DEF HandlerStep, Handling
<1>2. HandlerOK /\ chips \in [ChipName -> ChipSet] /\ 2 \notin chips["master"].irr
  BY DEF IInv
<1>3. ASSUME NEW irq, NEW x \in Line, Serving(irq, <<Eoi("master")>>, {x}, {})
      PROVE  IInv'
  <2>1. handler' = NoHandler /\ chips' = Effect(Eoi("master"))
    BY <1>1, <1>3 DEF Serving
  <2>2. /\ chips' \in [ChipName -> ChipSet]
        /\ chips'["master"].isr = {} /\ chips'["slave"].isr = {}
        /\ chips'["master"].irr = chips["master"].irr
    BY <1>2, <1>3, <2>1, EoiEffect DEF Serving, ChipName
  <2>. QED BY <1>1, <1>2, <2>1, <2>2 DEF IInv, HandlerOK, Serving, NoHandler
<1>4. ASSUME NEW irq \in 8 .. 15,
             Serving(irq, <<Eoi("slave"), Eoi("master")>>, {2}, {irq - 8})
      PROVE  IInv'
  <2>1. /\ handler' = [irq |-> irq, rest |-> <<Eoi("master")>>]
        /\ chips' = Effect(Eoi("slave"))
    BY <1>1, <1>4 DEF Serving
  <2>2. irq - 8 \in Line
    BY DEF Line
  <2>3. /\ chips' \in [ChipName -> ChipSet]
        /\ chips'["slave"].isr = {} /\ chips'["master"] = chips["master"]
    BY <1>2, <1>4, <2>1, <2>2, EoiEffect DEF Serving, ChipName
  <2>4. Serving(irq, <<Eoi("master")>>, {2}, {})'
    BY <1>4, <2>1, <2>3 DEF Serving
  <2>. QED BY <1>1, <1>2, <2>3, <2>4 DEF IInv, HandlerOK
<1>. QED BY <1>1, <1>2, <1>3, <1>4 DEF HandlerOK, Serving, NoHandler, Line

LEMMA Inductive == Spec => []IInv
<1>1. IInv /\ [Next]_vars => IInv'
  <2> SUFFICES ASSUME IInv, [Next]_vars PROVE IInv'
    OBVIOUS
  <2>1. CASE UNCHANGED vars
    BY <2>1 DEF vars, IInv, HandlerOK, Serving
  <2>. QED BY <2>1, CallOK, ProgramStepOK, RaiseOK, AcceptOK, HandlerStepOK DEF Next
<1>. QED BY <1>1, InitOK, PTL DEF Spec

(* However interrupts fall between the port accesses of the driver, once   *)
(* a handler has returned neither chip has an interrupt in service         *)
(* (i8259.c:63-67).                                                        *)
THEOREM InterruptsAreEnded == Spec => []ServiceEnds
<1>1. IInv => ServiceEnds
  BY IdleHandler DEF IInv, ServiceEnds, Serving
<1>. QED BY <1>1, Inductive, PTL

-----------------------------------------------------------------------------
(***************************************************************************)
(* Masks and vectors.                                                      *)
(***************************************************************************)

(* The invariant. *)

Asked(name) == LinesOf(name, asked)

Ready(name) == chips[name].phase = "ready"

(* A chip between calls. *)
Settled(name) ==
  /\ Ready(name) /\ chips[name].imr = Asked(name)
  /\ chips[name].offset = offsets[name]

(* The n-th of the six accesses of pic_remap to a chip. *)
RemapAccess(name, n, offset) ==
  CASE n = 1 -> In(name, "data")
    [] n = 2 -> Out(name, "command", ICW1)
    [] n = 3 -> Out(name, "data", offset)
    [] n = 4 -> Out(name, "data", Cascade(name))
    [] n = 5 -> Out(name, "data", ICW4_8086)
    [] n = 6 -> Update(name, {}, {})

(* A chip before that access; after the sixth it is settled. *)
Stage(name, n) ==
  /\ chips[name].phase = CASE n = 3 -> "icw2" [] n = 4 -> "icw3"
                           [] n = 5 -> "icw4" [] OTHER -> "ready"
  /\ n \in {1, 2, 7} => chips[name].imr = Asked(name)
  /\ n \in 2 .. 6 => reg[name] = Asked(name)
  /\ n \in 4 .. 7 => chips[name].offset = offsets[name]

(* The accesses left of pic_remap are the last ones of it. *)
RestOfRemap(o) ==
  \A j \in 1 .. Len(rest) : rest[j] = pic_remap(o[1], o[2])[12 - Len(rest) + j]

(* The master is one access ahead of the slave or level with it. *)
Remapping ==
  /\ call.fn = "remap"
  /\ \E o \in Offsets, n \in 1 .. 6 :
       /\ offsets = [master |-> o[1], slave |-> o[2]]
       /\ RestOfRemap(o)
       /\ \/ Len(rest) = 14 - 2 * n /\ Stage("master", n) /\ Stage("slave", n)
          \/ Len(rest) = 13 - 2 * n /\ Stage("master", n + 1) /\ Stage("slave", n)

(* The last write of pic_set_mask and pic_clear_mask. *)
MaskWrite ==
  Update(ChipOf(call.irq),
         IF call.fn = "set" THEN Bit(LineOf(call.irq)) ELSE {},
         IF call.fn = "set" THEN {} ELSE Bit(LineOf(call.irq)))

Masking ==
  /\ call.fn \in {"set", "clear"} /\ call.irq \in Irqs
  /\ \A name \in ChipName : Settled(name)
  /\ \/ rest = <<In(ChipOf(call.irq), "data"), MaskWrite>>
     \/ rest = <<MaskWrite>> /\ reg[ChipOf(call.irq)] = Asked(ChipOf(call.irq))

Disabling ==
  /\ call.fn = "disable" /\ Settled("slave")
  /\ \/ rest = pic_disable /\ Settled("master")
     \/ /\ rest = <<Out("slave", "data", Line)>>
        /\ Ready("master") /\ chips["master"].imr = Line
        /\ chips["master"].offset = offsets["master"]

(* What pic_get_isr and pic_get_irr consist of. *)
Look ==
  {In(name, "command") : name \in ChipName} \cup
  {Out(name, "command", OCW3(select)) : name \in ChipName, select \in {"isr", "irr"}}

Getting ==
  /\ call.fn = "get" /\ rest \in Seq(Look) /\ rest # <<>>
  /\ \A name \in ChipName : Settled(name)

Idle == rest = <<>> /\ \A name \in ChipName : Settled(name)

MaskInv ==
  /\ offsets \in [ChipName -> Byte]
  /\ Idle \/ Remapping \/ Masking \/ Disabling \/ Getting

-----------------------------------------------------------------------------
(* Interrupts leave masks, vectors and the initialization alone.           *)

SameSetup(c, d) == c.imr = d.imr /\ c.phase = d.phase /\ c.offset = d.offset

LEMMA RaisedSetup ==
  ASSUME chips \in [ChipName -> ChipSet], NEW irq \in 0 .. 15
  PROVE  \A name \in ChipName : SameSetup(Raised(chips, irq)[name], chips[name])
BY DEF Raised, SameSetup, ChipSet, ChipName, ChipOf

LEMMA AcknowledgedSetup ==
  ASSUME chips \in [ChipName -> ChipSet], NEW irq \in 0 .. 15
  PROVE  \A name \in ChipName :
           SameSetup(Acknowledged(chips, irq)[name], chips[name])
<1> DEFINE taken == [chips EXCEPT ![ChipOf(irq)].irr = @ \ {irq % 8},
                                  ![ChipOf(irq)].isr = @ \cup {irq % 8}]
<1>1. ChipOf(irq) \in ChipName
  BY DEF ChipOf, ChipName
<1>2. /\ DOMAIN taken = ChipName
      /\ \A name \in ChipName : SameSetup(taken[name], chips[name])
  BY <1>1 DEF SameSetup, ChipSet
<1>3. Acknowledged(chips, irq) =
        IF ChipOf(irq) = "slave" THEN [taken EXCEPT !["master"].isr = @ \cup {2}]
                                 ELSE taken
  BY DEF Acknowledged
<1>4. DOMAIN taken["master"] = DOMAIN chips["master"]
  BY <1>1 DEF ChipSet, ChipName
<1> HIDE DEF taken
<1>5. \A name \in ChipName :
        SameSetup([taken EXCEPT !["master"].isr = @ \cup {2}][name], taken[name])
  BY <1>2, <1>4 DEF SameSetup, ChipSet, ChipName
<1>. QED
  BY <1>2, <1>3, <1>5 DEF SameSetup

LEMMA EoiSetup ==
  ASSUME chips \in [ChipName -> ChipSet], NEW name \in ChipName
  PROVE  \A other \in ChipName : SameSetup(Effect(Eoi(name))[other], chips[other])
<1>1. /\ Eoi(name).op = "out" /\ Eoi(name).chip = name
      /\ Eoi(name).port = "command" /\ Written(Eoi(name)) = {5}
  BY DEF Eoi, Out, Written, OCW2_EOI
<1>2. Effect(Eoi(name)) = [chips EXCEPT ![name] = Command(chips[name], {5})]
  BY <1>1 DEF Effect
<1>3. SameSetup(Command(chips[name], {5}), chips[name])
  <2>1. 4 \notin {5} /\ ~({1, 3} \subseteq {5})
    OBVIOUS
  <2>. QED
    BY <2>1 DEF Command, SameSetup, ChipSet
<1>. QED
  BY <1>2, <1>3 DEF SameSetup

LEMMA SetupKeepsMaskInv ==
  ASSUME MaskInv, UNCHANGED <<call, rest, reg, asked, offsets>>,
         \A name \in ChipName : SameSetup(chips'[name], chips[name])
  PROVE  MaskInv'
<1>1. \A name \in ChipName : /\ chips'[name].imr = chips[name].imr
                             /\ chips'[name].phase = chips[name].phase
                             /\ chips'[name].offset = chips[name].offset
  BY DEF SameSetup
<1>2. \A name \in ChipName : Settled(name)' <=> Settled(name)
  BY <1>1 DEF Settled, Ready, Asked
<1>3. \A name \in ChipName, n \in 1 .. 7 : Stage(name, n)' <=> Stage(name, n)
  BY <1>1 DEF Stage, Asked
<1>4. CASE Idle
  BY <1>2, <1>4 DEF MaskInv, Idle
<1>5. CASE Remapping
  BY <1>3, <1>5 DEF MaskInv, Remapping, RestOfRemap, ChipName
<1>6. CASE Masking
  BY <1>2, <1>6 DEF MaskInv, Masking, MaskWrite, Asked
<1>7. CASE Disabling
  BY <1>1, <1>2, <1>7 DEF MaskInv, Disabling, Ready, ChipName
<1>8. CASE Getting
  BY <1>2, <1>8 DEF MaskInv, Getting
<1>. QED
  BY <1>4, <1>5, <1>6, <1>7, <1>8 DEF MaskInv

LEMMA InterruptKeepsMaskInv ==
  ASSUME IInv, MaskInv, Raise \/ Accept \/ HandlerStep
  PROVE  MaskInv'
<1>1. UNCHANGED <<call, rest, reg, asked, offsets>> /\ chips \in [ChipName -> ChipSet]
  BY DEF Raise, Accept, HandlerStep, IInv
<1>2. \A name \in ChipName : SameSetup(chips'[name], chips[name])
  <2>1. CASE Raise
    <3>1. PICK irq \in Devices : chips' = Raised(chips, irq)
      BY <2>1 DEF Raise
    <3>2. irq \in 0 .. 15
      BY PicAssumption
    <3>. QED
      BY <1>1, <3>1, <3>2, RaisedSetup
  <2>2. CASE Accept
    <3>1. Winner(chips) \in 0 .. 15 /\ chips' = Acknowledged(chips, Winner(chips))
      BY <2>2, WinnerIsRequested DEF Accept
    <3>. QED
      BY <1>1, <3>1, AcknowledgedSetup
  <2>3. CASE HandlerStep
    <3>1. \E name \in ChipName : chips' = Effect(Eoi(name))
      BY <2>3 DEF HandlerStep, Handling, IInv, HandlerOK, Serving, NoHandler, ChipName
    <3>. QED
      BY <1>1, <3>1, EoiSetup
  <2>. QED
    BY <2>1, <2>2, <2>3
<1>. QED
  BY <1>1, <1>2, SetupKeepsMaskInv

-----------------------------------------------------------------------------
(* Calls. *)

LEMMA PairBehind ==
  ASSUME NEW S, NEW q \in Seq(S), NEW p \in Seq(S), Len(p) = 2
  PROVE  /\ q \o p \in Seq(S) /\ Len(q \o p) = Len(q) + 2
         /\ \A j \in 1 .. Len(q) : (q \o p)[j] = q[j]
         /\ (q \o p)[Len(q) + 1] = p[1] /\ (q \o p)[Len(q) + 2] = p[2]
<1>1. /\ q \o p \in Seq(S) /\ Len(q \o p) = Len(q) + Len(p)
      /\ \A j \in 1 .. Len(q) + Len(p) :
           (q \o p)[j] = IF j <= Len(q) THEN q[j] ELSE p[j - Len(q)]
  BY ConcatProperties
<1>. QED
  BY <1>1

LEMMA RemapNth ==
  ASSUME NEW m \in Byte, NEW s \in Byte, NEW n \in 1 .. 6
  PROVE  /\ Len(pic_remap(m, s)) = 12
         /\ pic_remap(m, s)[2 * n - 1] = RemapAccess("master", n, m)
         /\ pic_remap(m, s)[2 * n] = RemapAccess("slave", n, s)
<1> DEFINE M(k) == RemapAccess("master", k, m)
           S(k) == RemapAccess("slave", k, s)
           P(k) == <<M(k), S(k)>>
           q1 == P(1)
           q2 == q1 \o P(2)
           q3 == q2 \o P(3)
           q4 == q3 \o P(4)
           q5 == q4 \o P(5)
           q6 == q5 \o P(6)
<1>1. pic_remap(m, s) = q6
  BY DEF pic_remap, SaveMasks, Both, RestoreMasks, RemapAccess, Cascade
<1>2. \A k \in 1 .. 6 : M(k) \in Access /\ S(k) \in Access
  <2>1. /\ ICW1 \in Byte /\ ICW4_8086 \in Byte
        /\ {} \in Byte /\ {1} \in Byte /\ {2} \in Byte
    BY DEF Byte, Line, ICW1, ICW4_8086
  <2>2. \A name \in ChipName, offset \in Byte, k \in 1 .. 6 :
          RemapAccess(name, k, offset) \in Access
    BY <2>1, OutIsAccess, UpdateIsAccess, InIsAccess DEF RemapAccess, Cascade
  <2>. QED
    BY <2>2 DEF ChipName
<1> HIDE DEF M, S
<1>3. /\ q1 \in Seq(Access) /\ Len(q1) = 2 /\ q1[1] = M(1) /\ q1[2] = S(1)
      /\ \A k \in 1 .. 6 : /\ P(k) \in Seq(Access) /\ Len(P(k)) = 2
                           /\ P(k)[1] = M(k) /\ P(k)[2] = S(k)
  BY <1>2
<1> HIDE DEF P
<1> HIDE DEF q1
<1>4. /\ q2 \in Seq(Access) /\ Len(q2) = 4 /\ \A j \in 1 .. 2 : q2[j] = q1[j]
      /\ q2[3] = M(2) /\ q2[4] = S(2)
  <2>1. P(2) \in Seq(Access) /\ Len(P(2)) = 2
    BY <1>3
  <2>2. /\ q2 \in Seq(Access) /\ Len(q2) = Len(q1) + 2
        /\ \A j \in 1 .. Len(q1) : q2[j] = q1[j]
        /\ q2[Len(q1) + 1] = P(2)[1] /\ q2[Len(q1) + 2] = P(2)[2]
    BY <1>3, <2>1, PairBehind
  <2> HIDE DEF q2
  <2>. QED
    BY <1>3, <2>2
<1> HIDE DEF q2
<1>5. /\ q3 \in Seq(Access) /\ Len(q3) = 6 /\ \A j \in 1 .. 4 : q3[j] = q2[j]
      /\ q3[5] = M(3) /\ q3[6] = S(3)
  <2>1. P(3) \in Seq(Access) /\ Len(P(3)) = 2
    BY <1>3
  <2>2. /\ q3 \in Seq(Access) /\ Len(q3) = Len(q2) + 2
        /\ \A j \in 1 .. Len(q2) : q3[j] = q2[j]
        /\ q3[Len(q2) + 1] = P(3)[1] /\ q3[Len(q2) + 2] = P(3)[2]
    BY <1>4, <2>1, PairBehind
  <2> HIDE DEF q3
  <2>. QED
    BY <1>3, <1>4, <2>2
<1> HIDE DEF q3
<1>6. /\ q4 \in Seq(Access) /\ Len(q4) = 8 /\ \A j \in 1 .. 6 : q4[j] = q3[j]
      /\ q4[7] = M(4) /\ q4[8] = S(4)
  <2>1. P(4) \in Seq(Access) /\ Len(P(4)) = 2
    BY <1>3
  <2>2. /\ q4 \in Seq(Access) /\ Len(q4) = Len(q3) + 2
        /\ \A j \in 1 .. Len(q3) : q4[j] = q3[j]
        /\ q4[Len(q3) + 1] = P(4)[1] /\ q4[Len(q3) + 2] = P(4)[2]
    BY <1>5, <2>1, PairBehind
  <2> HIDE DEF q4
  <2>. QED
    BY <1>3, <1>5, <2>2
<1> HIDE DEF q4
<1>7. /\ q5 \in Seq(Access) /\ Len(q5) = 10 /\ \A j \in 1 .. 8 : q5[j] = q4[j]
      /\ q5[9] = M(5) /\ q5[10] = S(5)
  <2>1. P(5) \in Seq(Access) /\ Len(P(5)) = 2
    BY <1>3
  <2>2. /\ q5 \in Seq(Access) /\ Len(q5) = Len(q4) + 2
        /\ \A j \in 1 .. Len(q4) : q5[j] = q4[j]
        /\ q5[Len(q4) + 1] = P(5)[1] /\ q5[Len(q4) + 2] = P(5)[2]
    BY <1>6, <2>1, PairBehind
  <2> HIDE DEF q5
  <2>. QED
    BY <1>3, <1>6, <2>2
<1> HIDE DEF q5
<1>8. /\ q6 \in Seq(Access) /\ Len(q6) = 12 /\ \A j \in 1 .. 10 : q6[j] = q5[j]
      /\ q6[11] = M(6) /\ q6[12] = S(6)
  <2>1. P(6) \in Seq(Access) /\ Len(P(6)) = 2
    BY <1>3
  <2>2. /\ q6 \in Seq(Access) /\ Len(q6) = Len(q5) + 2
        /\ \A j \in 1 .. Len(q5) : q6[j] = q5[j]
        /\ q6[Len(q5) + 1] = P(6)[1] /\ q6[Len(q5) + 2] = P(6)[2]
    BY <1>7, <2>1, PairBehind
  <2> HIDE DEF q6
  <2>. QED
    BY <1>3, <1>7, <2>2
<1> HIDE DEF q6
<1>9. /\ q6[1] = M(1) /\ q6[2] = S(1) /\ q6[3] = M(2) /\ q6[4] = S(2)
      /\ q6[5] = M(3) /\ q6[6] = S(3) /\ q6[7] = M(4) /\ q6[8] = S(4)
      /\ q6[9] = M(5) /\ q6[10] = S(5) /\ q6[11] = M(6) /\ q6[12] = S(6)
  BY <1>3, <1>4, <1>5, <1>6, <1>7, <1>8
<1>10. q6[2 * n - 1] = M(n) /\ q6[2 * n] = S(n)
  <2>1. n \in {1, 2, 3, 4, 5, 6}
    OBVIOUS
  <2>. QED
    BY <2>1, <1>9
<1>. QED
  BY <1>1, <1>8, <1>10 DEF M, S

LEMMA InitMaskInv == Init => MaskInv
<1> SUFFICES ASSUME Init PROVE MaskInv
  OBVIOUS
<1>1. \A name \in ChipName : Settled(name)
  BY DEF Init, Programmed, Settled, Ready, Asked
<1>2. offsets \in [ChipName -> Byte]
  BY DEF Init, FirmwareOffset, ChipName, Byte, Line
<1>. QED
  BY <1>1, <1>2 DEF Init, MaskInv, Idle

(* A function is only called between calls. *)
LEMMA CallFromIdle ==
  ASSUME MaskInv, rest = <<>>
  PROVE  \A name \in ChipName : Settled(name)
<1>1. ~Remapping
  BY DEF Remapping
<1>2. ~Disabling
  BY DEF Disabling, pic_disable, Both
<1>. QED
  BY <1>1, <1>2 DEF MaskInv, Idle, Masking, Getting

LEMMA CallMaskInv ==
  ASSUME MaskInv, Calls
  PROVE  MaskInv'
<1>1. rest = <<>> /\ UNCHANGED <<chips, asked>>
  BY DEF Calls, CallRemap, CallMask, CallDisable, CallGet, Call
<1>2. \A name \in ChipName : Settled(name)
  BY <1>1, CallFromIdle
<1>3. ASSUME offsets' = offsets PROVE \A name \in ChipName : Settled(name)'
  BY <1>1, <1>2, <1>3 DEF Settled, Ready, Asked
<1>4. CASE CallRemap
  <2>1. PICK o \in Offsets : /\ call' = [fn |-> "remap"]
                             /\ rest' = pic_remap(o[1], o[2])
                             /\ offsets' = [master |-> o[1], slave |-> o[2]]
    BY <1>4 DEF CallRemap, Call
  <2>5. o[1] \in Byte /\ o[2] \in Byte
    BY PicAssumption DEF Byte, Line
  <2>2. Len(rest') = 12
    BY <2>1, <2>5, RemapNth
  <2>3. RestOfRemap(o)'
    BY <2>1, <2>2 DEF RestOfRemap
  <2>4. \A name \in ChipName : Stage(name, 1)'
    BY <1>1, <1>2 DEF Stage, Settled, Ready, Asked
  <2>6. offsets' \in [ChipName -> Byte]
    BY <2>1, <2>5 DEF ChipName
  <2>7. Remapping'
    BY <2>1, <2>2, <2>3, <2>4 DEF Remapping, ChipName
  <2>. QED
    BY <2>6, <2>7 DEF MaskInv
<1>5. CASE CallMask
  <2>1. PICK irq \in Irqs :
          /\ \/ call' = [fn |-> "set", irq |-> irq] /\ rest' = pic_set_mask(irq)
             \/ call' = [fn |-> "clear", irq |-> irq] /\ rest' = pic_clear_mask(irq)
          /\ offsets' = offsets
    BY <1>5 DEF CallMask, Call
  <2>2. rest' = <<In(ChipOf(call.irq), "data"), MaskWrite>>'
    BY <2>1 DEF MaskWrite, pic_set_mask, pic_clear_mask
  <2>3. Masking'
    BY <1>3, <2>1, <2>2 DEF Masking
  <2>. QED
    BY <2>1, <2>3 DEF MaskInv
<1>6. CASE CallDisable
  BY <1>3, <1>6 DEF CallDisable, Call, Disabling, MaskInv, ChipName
<1>7. CASE CallGet
  <2>1. PICK select \in {"isr", "irr"} :
          /\ call' = [fn |-> "get", select |-> select] /\ rest' = pic_get(select)
          /\ offsets' = offsets
    BY <1>7 DEF CallGet, Call
  <2>2. rest' \in Seq(Look) /\ rest' # <<>>
    <3>1. \A name \in ChipName : /\ Out(name, "command", OCW3(select)) \in Look
                                 /\ In(name, "command") \in Look
      BY DEF Look
    <3>. QED
      BY <2>1, <3>1 DEF pic_get, ChipName
  <2>. QED
    BY <1>3, <2>1, <2>2 DEF Getting, MaskInv
<1>. QED
  BY <1>4, <1>5, <1>6, <1>7 DEF Calls

-----------------------------------------------------------------------------
(* The accesses of pic_remap. *)

(* What an access of the program does to the two chips and to reg. *)
Performed(a) ==
  /\ chips' = Effect(a)
  /\ reg' = IF a.op = "in" THEN [reg EXCEPT ![a.chip] = Value(a)] ELSE reg

LEMMA OtherChipKept ==
  ASSUME chips \in [ChipName -> ChipSet], reg \in [ChipName -> Byte], NEW a,
         NEW other \in ChipName, a.chip # other, Performed(a)
  PROVE  chips'[other] = chips[other] /\ reg'[other] = reg[other]
BY DEF Performed, Effect

(* What a write to the data port of a chip does, by its phase.             *)
LEMMA DataByPhase ==
  ASSUME NEW c \in ChipSet, NEW byte
  PROVE  /\ c.phase = "icw2" => /\ Data(c, byte).phase = "icw3"
                                /\ Data(c, byte).offset = byte \ 0 .. 2
         /\ c.phase = "icw3" => /\ Data(c, byte).phase = "icw4"
                                /\ Data(c, byte).offset = c.offset
         /\ c.phase = "icw4" => /\ Data(c, byte).phase = "ready"
                                /\ Data(c, byte).offset = c.offset
         /\ c.phase = "ready" => /\ Data(c, byte).phase = "ready"
                                 /\ Data(c, byte).imr = byte
                                 /\ Data(c, byte).offset = c.offset
<1>1. CASE c.phase = "icw2"
  BY <1>1 DEF Data, ChipSet
<1>2. CASE c.phase = "icw3"
  BY <1>2 DEF Data, ChipSet
<1>3. CASE c.phase = "icw4"
  BY <1>3 DEF Data, ChipSet
<1>4. CASE c.phase = "ready"
  BY <1>4 DEF Data, ChipSet
<1>. QED
  BY <1>1, <1>2, <1>3, <1>4 DEF ChipSet

LEMMA RemapStep ==
  ASSUME chips \in [ChipName -> ChipSet], reg \in [ChipName -> Byte],
         NEW name \in ChipName, NEW n \in 1 .. 6,
         offsets[name] \subseteq 3 .. 7, Stage(name, n),
         Performed(RemapAccess(name, n, offsets[name])),
         UNCHANGED <<asked, offsets>>
  PROVE  Stage(name, n + 1)'
<1> DEFINE a == RemapAccess(name, n, offsets[name])
           c == chips[name]
<1>0. c \in ChipSet
  OBVIOUS
<1>1. CASE n = 1
  <2>1. a = In(name, "data")
    BY <1>1 DEF RemapAccess
  <2>2. chips' = chips /\ reg'[name] = c.imr
    BY <2>1 DEF Performed, Effect, Value, In
  <2>. QED
    BY <1>1, <2>2 DEF Stage, Asked
<1>2. CASE n = 2
  <2>1. a = Out(name, "command", ICW1)
    BY <1>2 DEF RemapAccess
  <2>2. Written(a) = ICW1
    BY <2>1 DEF Written, Out
  <2>3. chips'[name] = Command(c, ICW1) /\ reg' = reg
    BY <2>1, <2>2 DEF Performed, Effect, Out
  <2>4. Command(c, ICW1).phase = "icw2"
    BY DEF Command, ICW1, ChipSet
  <2>. QED
    BY <1>2, <2>3, <2>4 DEF Stage, Asked
<1>3. CASE n = 3
  <2>1. a = Out(name, "data", offsets[name])
    BY <1>3 DEF RemapAccess
  <2>2. Written(a) = offsets[name]
    BY <2>1 DEF Written, Out
  <2>3. chips'[name] = Data(c, offsets[name]) /\ reg' = reg
    BY <2>1, <2>2 DEF Performed, Effect, Out
  <2>4. offsets[name] \ 0 .. 2 = offsets[name]
    OBVIOUS
  <2>5. /\ Data(c, offsets[name]).phase = "icw3"
        /\ Data(c, offsets[name]).offset = offsets[name]
    BY <1>0, <1>3, <2>4, DataByPhase DEF Stage
  <2>. QED
    BY <1>3, <2>3, <2>5 DEF Stage, Asked
<1>4. CASE n = 4
  <2>1. a = Out(name, "data", Cascade(name))
    BY <1>4 DEF RemapAccess
  <2>2. Written(a) = Cascade(name)
    BY <2>1 DEF Written, Out
  <2>3. chips'[name] = Data(c, Cascade(name)) /\ reg' = reg
    BY <2>1, <2>2 DEF Performed, Effect, Out
  <2>4. /\ Data(c, Cascade(name)).phase = "icw4"
        /\ Data(c, Cascade(name)).offset = c.offset
    BY <1>0, <1>4, DataByPhase DEF Stage
  <2>. QED
    BY <1>4, <2>3, <2>4 DEF Stage, Asked
<1>5. CASE n = 5
  <2>1. a = Out(name, "data", ICW4_8086)
    BY <1>5 DEF RemapAccess
  <2>2. Written(a) = ICW4_8086
    BY <2>1 DEF Written, Out
  <2>3. chips'[name] = Data(c, ICW4_8086) /\ reg' = reg
    BY <2>1, <2>2 DEF Performed, Effect, Out
  <2>4. /\ Data(c, ICW4_8086).phase = "ready"
        /\ Data(c, ICW4_8086).offset = c.offset
    BY <1>0, <1>5, DataByPhase DEF Stage
  <2>. QED
    BY <1>5, <2>3, <2>4 DEF Stage, Asked
<1>6. CASE n = 6
  <2>1. a = Update(name, {}, {})
    BY <1>6 DEF RemapAccess
  <2>2. Written(a) = Asked(name)
    BY <1>6, <2>1 DEF Written, Update, Stage
  <2>3. chips'[name] = Data(c, Asked(name)) /\ reg' = reg
    BY <2>1, <2>2 DEF Performed, Effect, Update
  <2>4. /\ Data(c, Asked(name)).phase = "ready"
        /\ Data(c, Asked(name)).imr = Asked(name)
        /\ Data(c, Asked(name)).offset = c.offset
    BY <1>0, <1>6, DataByPhase DEF Stage
  <2>. QED
    BY <1>6, <2>3, <2>4 DEF Stage, Asked
<1>. QED
  BY <1>1, <1>2, <1>3, <1>4, <1>5, <1>6

LEMMA StageKept ==
  ASSUME NEW name, NEW n \in 1 .. 7, Stage(name, n),
         chips'[name] = chips[name], reg'[name] = reg[name],
         UNCHANGED <<asked, offsets>>
  PROVE  Stage(name, n)'
BY DEF Stage, Asked

LEMMA LastStage ==
  ASSUME NEW name, Stage(name, 7) PROVE Settled(name)
BY DEF Stage, Settled, Ready

LEMMA RemappingStep ==
  ASSUME IInv, MaskInv, Remapping, ProgramStep
  PROVE  MaskInv'
<1>1. PICK o \in Offsets, n \in 1 .. 6 :
        /\ offsets = [master |-> o[1], slave |-> o[2]]
        /\ RestOfRemap(o)
        /\ \/ Len(rest) = 14 - 2 * n /\ Stage("master", n) /\ Stage("slave", n)
           \/ Len(rest) = 13 - 2 * n /\ Stage("master", n + 1) /\ Stage("slave", n)
  BY DEF Remapping
<1>2. /\ o[1] \in Byte /\ o[2] \in Byte
      /\ \A name \in ChipName : offsets[name] \subseteq 3 .. 7
  BY <1>1, PicAssumption DEF Byte, Line, ChipName
<1>3. /\ rest \in Seq(Access) /\ rest # <<>>
      /\ chips \in [ChipName -> ChipSet] /\ reg \in [ChipName -> Byte]
      /\ call.fn = "remap"
  BY DEF IInv, ProgramStep, Remapping
<1>4. /\ Performed(Head(rest)) /\ rest' = Tail(rest)
      /\ UNCHANGED <<call, asked, offsets>>
  BY <1>3 DEF ProgramStep, Performed, AskedAfter
<1>5. /\ Head(rest) = rest[1] /\ Len(rest') = Len(rest) - 1 /\ Len(rest) \in Nat \ {0}
      /\ \A j \in 1 .. Len(rest) - 1 : rest'[j] = rest[j + 1]
  BY <1>3, <1>4
<1>6. RestOfRemap(o)'
  <2>1. \A j \in 1 .. Len(rest) - 1 :
          rest'[j] = pic_remap(o[1], o[2])[12 - (Len(rest) - 1) + j]
    <3> SUFFICES ASSUME NEW j \in 1 .. Len(rest) - 1
                 PROVE  rest'[j] = pic_remap(o[1], o[2])[12 - (Len(rest) - 1) + j]
      OBVIOUS
    <3>1. rest[j + 1] = pic_remap(o[1], o[2])[12 - Len(rest) + (j + 1)]
      BY <1>1, <1>5 DEF RestOfRemap
    <3>2. 12 - Len(rest) + (j + 1) = 12 - (Len(rest) - 1) + j
      BY <1>5
    <3>. QED
      BY <1>5, <3>1, <3>2
  <2>. QED
    BY <1>5, <2>1 DEF RestOfRemap
<1>7. offsets' \in [ChipName -> Byte]
  BY <1>4 DEF MaskInv
<1>8. CASE Len(rest) = 14 - 2 * n /\ Stage("master", n) /\ Stage("slave", n)
  <2>1. Head(rest) = RemapAccess("master", n, offsets["master"])
    <3>1. Head(rest) = pic_remap(o[1], o[2])[2 * n - 1]
      <4>1. 12 - Len(rest) + 1 = 2 * n - 1 /\ 1 \in 1 .. Len(rest)
        BY <1>5, <1>8
      <4>. QED
        BY <1>1, <1>5, <4>1 DEF RestOfRemap
    <3>. QED
      BY <1>1, <1>2, <3>1, RemapNth
  <2>2. Stage("master", n + 1)'
    BY <1>2, <1>3, <1>4, <1>8, <2>1, RemapStep DEF ChipName
  <2>3. Head(rest).chip = "master"
    BY <2>1 DEF RemapAccess, In, Out, Update
  <2>4. chips'["slave"] = chips["slave"] /\ reg'["slave"] = reg["slave"]
    BY <1>3, <1>4, <2>3, OtherChipKept DEF ChipName
  <2>5. Stage("slave", n)'
    BY <1>4, <1>8, <2>4, StageKept
  <2>6. Len(rest') = 13 - 2 * n
    BY <1>5, <1>8
  <2>7. Remapping'
    BY <1>1, <1>3, <1>4, <1>6, <2>2, <2>5, <2>6 DEF Remapping
  <2>. QED
    BY <1>7, <2>7 DEF MaskInv
<1>9. CASE Len(rest) = 13 - 2 * n /\ Stage("master", n + 1) /\ Stage("slave", n)
  <2>1. Head(rest) = RemapAccess("slave", n, offsets["slave"])
    <3>1. Head(rest) = pic_remap(o[1], o[2])[2 * n]
      <4>1. 12 - Len(rest) + 1 = 2 * n /\ 1 \in 1 .. Len(rest)
        BY <1>5, <1>9
      <4>. QED
        BY <1>1, <1>5, <4>1 DEF RestOfRemap
    <3>. QED
      BY <1>1, <1>2, <3>1, RemapNth
  <2>2. Stage("slave", n + 1)'
    BY <1>2, <1>3, <1>4, <1>9, <2>1, RemapStep DEF ChipName
  <2>3. Head(rest).chip = "slave"
    BY <2>1 DEF RemapAccess, In, Out, Update
  <2>4. chips'["master"] = chips["master"] /\ reg'["master"] = reg["master"]
    BY <1>3, <1>4, <2>3, OtherChipKept DEF ChipName
  <2>5. n + 1 \in 1 .. 7
    OBVIOUS
  <2>6. Stage("master", n + 1)'
    BY <1>4, <1>9, <2>4, <2>5, StageKept
  <2>7. CASE n = 6
    <3>1. rest' = <<>>
      BY <1>3, <1>4, <1>9, <2>7
    <3>2. Stage("master", 7)' /\ Stage("slave", 7)'
      BY <2>2, <2>6, <2>7
    <3>3. Settled("master")' /\ Settled("slave")'
      BY <3>2 DEF Stage, Settled, Ready
    <3>. QED
      BY <1>7, <3>1, <3>3 DEF MaskInv, Idle, ChipName
  <2>8. CASE n # 6
    <3>1. n + 1 \in 1 .. 6 /\ Len(rest') = 14 - 2 * (n + 1)
      BY <1>5, <1>9, <2>8
    <3>2. Remapping'
      BY <1>1, <1>3, <1>4, <1>6, <2>2, <2>6, <3>1 DEF Remapping
    <3>. QED
      BY <1>7, <3>2 DEF MaskInv
  <2>. QED
    BY <2>7, <2>8
<1>. QED
  BY <1>1, <1>8, <1>9

-----------------------------------------------------------------------------
(* The accesses of the other functions. *)

(* The arithmetic of i8259.c:41-60: the bit that is set or cleared is the  *)
(* line the argument means, on the chip it is one of, or none.             *)
Number(name, l) == IF name = "master" THEN l ELSE 8 + l
BitOn(name, irq) == IF name = ChipOf(irq) THEN Bit(LineOf(irq)) ELSE {}

LEMMA BitOnIsNumber ==
  ASSUME NEW irq \in 0 .. 39, NEW name \in ChipName, NEW l \in Line
  PROVE  Number(name, l) \in 0 .. 15 /\ (Number(name, l) = irq <=> l \in BitOn(name, irq))
<1>1. l \in 0 .. 7
  BY DEF Line
<1>2. CASE name = "master"
  <2>1. Number(name, l) = l
    BY <1>2 DEF Number
  <2>2. CASE irq < 8
    <3>1. BitOn(name, irq) = Bit(irq)
      BY <1>2, <2>2 DEF BitOn, ChipOf, LineOf
    <3>2. l \in Bit(irq) <=> l = irq
      BY DEF Bit
    <3>. QED
      BY <1>1, <2>1, <3>1, <3>2
  <2>3. CASE ~(irq < 8)
    <3>1. BitOn(name, irq) = {}
      BY <1>2, <2>3 DEF BitOn, ChipOf
    <3>. QED
      BY <1>1, <2>1, <2>3, <3>1
  <2>. QED
    BY <2>2, <2>3
<1>3. CASE name = "slave"
  <2>1. Number(name, l) = 8 + l
    BY <1>3 DEF Number
  <2>2. CASE irq < 8
    <3>1. BitOn(name, irq) = {}
      BY <1>3, <2>2 DEF BitOn, ChipOf
    <3>. QED
      BY <1>1, <2>1, <2>2, <3>1
  <2>3. CASE ~(irq < 8)
    <3>1. BitOn(name, irq) = Bit(irq - 8)
      BY <1>3, <2>3 DEF BitOn, ChipOf, LineOf
    <3>2. l \in Bit(irq - 8) <=> l = irq - 8
      BY DEF Bit
    <3>3. l = irq - 8 <=> 8 + l = irq
      BY <1>1
    <3>. QED
      BY <1>1, <2>1, <3>1, <3>2, <3>3
  <2>. QED
    BY <2>2, <2>3
<1>. QED
  BY <1>2, <1>3 DEF ChipName

LEMMA MaskOfOne ==
  ASSUME NEW irq \in 0 .. 39, NEW name \in ChipName, NEW S, NEW T
  PROVE  /\ T = S \cup ({irq} \cap 0 .. 15) =>
              LinesOf(name, T) = LinesOf(name, S) \cup BitOn(name, irq)
         /\ T = S \ {irq} =>
              LinesOf(name, T) = LinesOf(name, S) \ BitOn(name, irq)
<1>1. /\ BitOn(name, irq) \subseteq Line
      /\ \A l \in Line : /\ Number(name, l) \in 0 .. 15
                         /\ Number(name, l) = irq <=> l \in BitOn(name, irq)
  <2>1. BitOn(name, irq) \subseteq Line
    BY DEF BitOn, Bit
  <2>. QED
    BY <2>1, BitOnIsNumber
<1>2. /\ LinesOf(name, S) = {l \in Line : Number(name, l) \in S}
      /\ LinesOf(name, T) = {l \in Line : Number(name, l) \in T}
  BY DEF LinesOf, Number
<1>3. ASSUME T = S \cup ({irq} \cap 0 .. 15)
      PROVE  LinesOf(name, T) = LinesOf(name, S) \cup BitOn(name, irq)
  <2>1. \A l \in Line : Number(name, l) \in T
                          <=> Number(name, l) \in S \/ l \in BitOn(name, irq)
    BY <1>1, <1>3
  <2>. QED
    BY <1>1, <1>2, <2>1
<1>4. ASSUME T = S \ {irq}
      PROVE  LinesOf(name, T) = LinesOf(name, S) \ BitOn(name, irq)
  <2>1. \A l \in Line : Number(name, l) \in T
                          <=> Number(name, l) \in S /\ l \notin BitOn(name, irq)
    BY <1>1, <1>4
  <2>. QED
    BY <1>1, <1>2, <2>1
<1>. QED
  BY <1>3, <1>4

LEMMA MaskOfAll ==
  ASSUME NEW name \in ChipName PROVE LinesOf(name, 0 .. 15) = Line
BY DEF LinesOf, Line, ChipName

LEMMA MaskingStep ==
  ASSUME IInv, MaskInv, Masking, ProgramStep
  PROVE  MaskInv'
<1> DEFINE irq == call.irq
           name == ChipOf(irq)
<1>1. /\ irq \in 0 .. 39 /\ name \in ChipName
      /\ chips \in [ChipName -> ChipSet] /\ reg \in [ChipName -> Byte]
  BY PicAssumption DEF Masking, ChipOf, ChipName, IInv
<1>2. /\ Performed(Head(rest)) /\ rest' = Tail(rest)
      /\ UNCHANGED <<call, offsets>>
      /\ asked' = IF Len(rest) = 1 THEN AskedAfter ELSE asked
  BY DEF ProgramStep, Performed
<1>3. CASE rest = <<In(name, "data"), MaskWrite>>
  <2>1. Head(rest) = In(name, "data") /\ rest' = <<MaskWrite>> /\ Len(rest) = 2
    BY <1>2, <1>3
  <2>2. chips' = chips /\ reg'[name] = chips[name].imr /\ asked' = asked
    BY <1>1, <1>2, <2>1 DEF Performed, Effect, Value, In
  <2>3. \A other \in ChipName : Settled(other)'
    BY <1>2, <2>2 DEF Masking, Settled, Ready, Asked
  <2>4. reg'[name] = Asked(name)'
    BY <1>1, <1>2, <2>2 DEF Masking, Settled, Asked
  <2>5. MaskWrite' = MaskWrite
    BY <1>2 DEF MaskWrite
  <2>6. Masking'
    BY <1>2, <2>1, <2>3, <2>4, <2>5 DEF Masking
  <2>. QED
    BY <1>2, <2>6 DEF MaskInv
<1>4. CASE rest = <<MaskWrite>> /\ reg[name] = Asked(name)
  <2>1. Head(rest) = MaskWrite /\ rest' = <<>> /\ Len(rest) = 1
    BY <1>2, <1>4
  <2>2. /\ MaskWrite.op = "out" /\ MaskWrite.chip = name /\ MaskWrite.port = "data"
        /\ Written(MaskWrite) =
             IF call.fn = "set" THEN Asked(name) \cup Bit(LineOf(irq))
                                ELSE Asked(name) \ Bit(LineOf(irq))
    BY <1>4 DEF MaskWrite, Update, Written
  <2>3. /\ chips'[name] = Data(chips[name], Written(MaskWrite))
        /\ reg' = reg
        /\ \A other \in ChipName : other # name => chips'[other] = chips[other]
    BY <1>1, <1>2, <2>1, <2>2 DEF Performed, Effect
  <2>4. /\ chips'[name].phase = "ready" /\ chips'[name].imr = Written(MaskWrite)
        /\ chips'[name].offset = chips[name].offset
    BY <1>1, <2>3, DataByPhase DEF Masking, Settled, Ready
  <2>5. asked' = IF call.fn = "set" THEN asked \cup ({irq} \cap 0 .. 15)
                                    ELSE asked \ {irq}
    BY <1>2, <2>1 DEF AskedAfter, Masking
  <2>6. \A other \in ChipName :
          Asked(other)' =
            IF other = name THEN Written(MaskWrite) ELSE Asked(other)
    <3>1. \A other \in ChipName :
            /\ call.fn = "set" =>
                 LinesOf(other, asked') = LinesOf(other, asked) \cup BitOn(other, irq)
            /\ call.fn # "set" =>
                 LinesOf(other, asked') = LinesOf(other, asked) \ BitOn(other, irq)
      BY <1>1, <2>5, MaskOfOne
    <3>2. \A other \in ChipName :
            BitOn(other, irq) = IF other = name THEN Bit(LineOf(irq)) ELSE {}
      BY DEF BitOn
    <3>. QED
      BY <2>2, <3>1, <3>2 DEF Asked
  <2>7. \A other \in ChipName : Settled(other)'
    <3> SUFFICES ASSUME NEW other \in ChipName PROVE Settled(other)'
      OBVIOUS
    <3>1. Settled(other)
      BY DEF Masking
    <3>2. CASE other = name
      BY <1>2, <2>4, <2>6, <3>1, <3>2 DEF Settled, Ready
    <3>3. CASE other # name
      BY <1>2, <2>3, <2>6, <3>1, <3>3 DEF Settled, Ready
    <3>. QED
      BY <3>2, <3>3
  <2>. QED
    BY <1>2, <2>1, <2>7 DEF MaskInv, Idle
<1>. QED
  BY <1>3, <1>4 DEF Masking

LEMMA DisablingStep ==
  ASSUME IInv, MaskInv, Disabling, ProgramStep
  PROVE  MaskInv'
<1>1. chips \in [ChipName -> ChipSet] /\ reg \in [ChipName -> Byte]
  BY DEF IInv
<1>2. /\ Performed(Head(rest)) /\ rest' = Tail(rest)
      /\ UNCHANGED <<call, offsets>>
      /\ asked' = IF Len(rest) = 1 THEN AskedAfter ELSE asked
  BY DEF ProgramStep, Performed
<1>3. \A name \in ChipName :
        Performed(Out(name, "data", Line)) /\ Ready(name) =>
          /\ chips'[name].phase = "ready" /\ chips'[name].imr = Line
          /\ chips'[name].offset = chips[name].offset
          /\ \A other \in ChipName : other # name => chips'[other] = chips[other]
  <2> SUFFICES ASSUME NEW name \in ChipName,
                      Performed(Out(name, "data", Line)), Ready(name)
               PROVE  /\ chips'[name].phase = "ready" /\ chips'[name].imr = Line
                      /\ chips'[name].offset = chips[name].offset
                      /\ \A other \in ChipName :
                           other # name => chips'[other] = chips[other]
    OBVIOUS
  <2> DEFINE a == Out(name, "data", Line)
  <2>1. /\ a.op = "out" /\ a.chip = name /\ a.port = "data" /\ Written(a) = Line
    BY DEF Out, Written
  <2>2. chips' = [chips EXCEPT ![name] = Data(chips[name], Line)]
    BY <2>1 DEF Performed, Effect
  <2>. QED
    BY <1>1, <2>2, DataByPhase DEF Ready
<1>4. CASE rest = pic_disable /\ Settled("master")
  <2>1. /\ Head(rest) = Out("master", "data", Line) /\ Len(rest) = 2
        /\ rest' = <<Out("slave", "data", Line)>>
    BY <1>2, <1>4 DEF pic_disable, Both
  <2>2. /\ chips'["master"].phase = "ready" /\ chips'["master"].imr = Line
        /\ chips'["master"].offset = chips["master"].offset
        /\ chips'["slave"] = chips["slave"]
    BY <1>2, <1>3, <1>4, <2>1 DEF Settled, ChipName
  <2>3. asked' = asked
    BY <1>2, <2>1
  <2>4. Settled("slave")'
    BY <1>2, <2>2, <2>3 DEF Disabling, Settled, Ready, Asked
  <2>5. Disabling'
    BY <1>2, <1>4, <2>1, <2>2, <2>4 DEF Disabling, Settled, Ready
  <2>. QED
    BY <1>2, <2>5 DEF MaskInv
<1>5. CASE /\ rest = <<Out("slave", "data", Line)>>
           /\ Ready("master") /\ chips["master"].imr = Line
           /\ chips["master"].offset = offsets["master"]
  <2>1. Head(rest) = Out("slave", "data", Line) /\ Len(rest) = 1 /\ rest' = <<>>
    BY <1>2, <1>5
  <2>2. /\ chips'["slave"].phase = "ready" /\ chips'["slave"].imr = Line
        /\ chips'["slave"].offset = chips["slave"].offset
        /\ chips'["master"] = chips["master"]
    BY <1>2, <1>3, <2>1 DEF Disabling, Settled, ChipName
  <2>3. asked' = 0 .. 15
    BY <1>2, <2>1 DEF AskedAfter, Disabling
  <2>4. \A name \in ChipName : Asked(name)' = Line
    BY <2>3, MaskOfAll DEF Asked
  <2>5. Settled("master")' /\ Settled("slave")'
    BY <1>2, <1>5, <2>2, <2>4 DEF Disabling, Settled, Ready, ChipName
  <2>. QED
    BY <1>2, <2>1, <2>5 DEF MaskInv, Idle, ChipName
<1>. QED
  BY <1>4, <1>5 DEF Disabling

LEMMA GettingStep ==
  ASSUME IInv, MaskInv, Getting, ProgramStep
  PROVE  MaskInv'
<1>1. chips \in [ChipName -> ChipSet] /\ reg \in [ChipName -> Byte]
  BY DEF IInv
<1>2. /\ Performed(Head(rest)) /\ rest' = Tail(rest)
      /\ UNCHANGED <<call, offsets>> /\ asked' = asked
  BY DEF ProgramStep, Performed, AskedAfter, Getting
<1>3. Head(rest) \in Look /\ rest' \in Seq(Look)
  BY <1>2, HeadTailProperties DEF Getting
<1>4. \A name \in ChipName : SameSetup(chips'[name], chips[name])
  <2>1. CASE \E name \in ChipName : Head(rest) = In(name, "command")
    BY <1>2, <2>1 DEF Performed, Effect, In, SameSetup
  <2>2. ASSUME NEW name \in ChipName, NEW select \in {"isr", "irr"},
               Head(rest) = Out(name, "command", OCW3(select))
        PROVE  \A other \in ChipName : SameSetup(chips'[other], chips[other])
    <3> DEFINE a == Out(name, "command", OCW3(select))
    <3>1. /\ a.op = "out" /\ a.chip = name /\ a.port = "command"
          /\ Written(a) = OCW3(select)
      BY DEF Out, Written
    <3>2. chips' = [chips EXCEPT ![name] = Command(chips[name], OCW3(select))]
      BY <1>2, <2>2, <3>1 DEF Performed, Effect
    <3>3. SameSetup(Command(chips[name], OCW3(select)), chips[name])
      <4>1. 4 \notin OCW3(select) /\ {1, 3} \subseteq OCW3(select)
        BY DEF OCW3
      <4>. QED
        BY <1>1, <4>1 DEF Command, SameSetup, ChipSet
    <3>. QED
      BY <1>1, <3>2, <3>3 DEF SameSetup
  <2>. QED
    BY <1>3, <2>1, <2>2 DEF Look
<1>5. \A name \in ChipName : Settled(name)'
  BY <1>2, <1>4 DEF Getting, Settled, Ready, Asked, SameSetup
<1>6. rest' = <<>> => Idle'
  BY <1>5 DEF Idle
<1>7. rest' # <<>> => Getting'
  BY <1>2, <1>3, <1>5 DEF Getting
<1>. QED
  BY <1>2, <1>6, <1>7 DEF MaskInv

LEMMA MaskInductive == Spec => [](IInv /\ MaskInv)
<1>1. IInv /\ MaskInv /\ [Next]_vars => MaskInv'
  <2> SUFFICES ASSUME IInv, MaskInv, [Next]_vars PROVE MaskInv'
    OBVIOUS
  <2>1. CASE UNCHANGED vars
    <3>1. /\ UNCHANGED <<call, rest, reg, asked, offsets>>
          /\ \A name \in ChipName : SameSetup(chips'[name], chips[name])
      BY <2>1 DEF vars, SameSetup
    <3>. QED
      BY <3>1, SetupKeepsMaskInv
  <2>2. CASE ProgramStep
    <3>1. ~Idle
      BY <2>2 DEF ProgramStep, Idle
    <3>. QED
      BY <2>2, <3>1, RemappingStep, MaskingStep, DisablingStep, GettingStep
      DEF MaskInv
  <2>. QED
    BY <2>1, <2>2, CallMaskInv, InterruptKeepsMaskInv DEF Next
<1>2. Spec => []MaskInv
  BY <1>1, InitMaskInv, Inductive, PTL DEF Spec
<1>. QED
  BY <1>2, Inductive, PTL

(* Between calls the masks are what the calls have asked for, whatever     *)
(* interrupts came between their port accesses; pic_remap, in which the    *)
(* chips forget them, has brought them back (i8259.c:9-35).                *)
THEOREM MasksReturn == Spec => []MasksAsAsked
<1>1. MaskInv => MasksAsAsked
  BY CallFromIdle DEF MasksAsAsked, Settled, Asked
<1>. QED
  BY <1>1, MaskInductive, PTL

-----------------------------------------------------------------------------
(* What comes through while the driver is at work. *)

(* The chip of the interrupt the processor gets, and the master in any     *)
(* case, are in operation, and the interrupt is not masked there.          *)
LEMMA WinnerIsOpen ==
  ASSUME IInv, Interrupting(chips)
  PROVE  /\ Ready("master")
         /\ Winner(chips) < 8 =>
              Winner(chips) \in Line /\ Winner(chips) \notin chips["master"].imr
         /\ ~(Winner(chips) < 8) =>
              \E l \in Line : /\ Winner(chips) = 8 + l /\ Ready("slave")
                              /\ l \notin chips["slave"].imr
<1> DEFINE l == Min(MasterOpen(chips))
<1>1. /\ chips["master"] \in ChipSet /\ chips["slave"] \in ChipSet
      /\ 2 \notin chips["master"].irr
  BY DEF IInv, ChipName
<1>2. /\ MasterOpen(chips) \subseteq Requests(chips, "master") \ chips["master"].imr
      /\ Ready("master")
  BY DEF MasterOpen, Open, Interrupting, Ready
<1>3. Requests(chips, "master") \in Byte
  BY <1>1 DEF Requests, ChipSet, Byte, Line
<1>4. l \in MasterOpen(chips) /\ l \in Line
  BY <1>2, <1>3, MinOfLines DEF Interrupting, Byte
<1>5. CASE l # 2
  BY <1>2, <1>4, <1>5 DEF Winner, Line
<1>6. CASE l = 2
  <2>1. SlaveOpen(chips) # {}
    BY <1>1, <1>2, <1>4, <1>6 DEF Requests
  <2>2. /\ SlaveOpen(chips) \subseteq chips["slave"].irr \ chips["slave"].imr
        /\ Ready("slave")
    BY <2>1 DEF SlaveOpen, Open, Ready
  <2>3. SlaveOpen(chips) \in Byte
    BY <1>1, <2>2 DEF ChipSet, Byte
  <2>4. /\ Min(SlaveOpen(chips)) \in Line
        /\ Min(SlaveOpen(chips)) \notin chips["slave"].imr
    BY <2>1, <2>2, <2>3, MinOfLines DEF Byte
  <2>5. Winner(chips) = 8 + Min(SlaveOpen(chips))
    BY <1>6 DEF Winner
  <2>6. ~(Winner(chips) < 8)
    BY <2>4, <2>5 DEF Line
  <2>. QED
    BY <1>2, <2>2, <2>4, <2>5, <2>6
<1>. QED
  BY <1>5, <1>6

LEMMA AcceptedIsWinner ==
  ASSUME [Next]_vars, Accepted
  PROVE  Interrupting(chips) /\ handler'.irq = Winner(chips)
<1>1. handler' # handler
  BY DEF Accepted, Handling
<1>2. ~HandlerStep
  BY DEF Accepted, HandlerStep
<1>3. Accept
  BY <1>1, <1>2
  DEF Next, Calls, CallRemap, CallMask, CallDisable, CallGet, Call, ProgramStep,
      Raise, vars
<1>. QED
  BY <1>3 DEF Accept

(* An interrupt that the calls so far have masked comes through in one     *)
(* place only: in pic_remap, between the ICW4 of its chip and the write of *)
(* its mask, with the master in operation (i8259.c:27-34).                 *)
THEOREM MaskedInOneWindow == Spec => MaskedOnlyInWindow
<1>1. ASSUME IInv, MaskInv, [Next]_vars, Accepted, handler'.irq \in asked
      PROVE  call.fn = "remap" /\ Len(rest) \in Window
  <2>1. Interrupting(chips) /\ handler'.irq = Winner(chips)
    BY <1>1, AcceptedIsWinner
  <2>2. Ready("master")
    BY <1>1, <2>1, WinnerIsOpen
  <2>3. CASE Winner(chips) < 8
    <3>1. Winner(chips) \in Line /\ Winner(chips) \notin chips["master"].imr
      BY <1>1, <2>1, <2>3, WinnerIsOpen
    <3>2. Winner(chips) \in Asked("master")
      BY <1>1, <2>1, <3>1 DEF Asked, LinesOf
    <3>3. chips["master"].imr # Asked("master") /\ chips["master"].imr # Line
      BY <3>1, <3>2
    <3>4. Remapping
      BY <1>1, <3>3 DEF MaskInv, Idle, Masking, Getting, Disabling, Settled, ChipName
    <3>5. \A n \in 1 .. 7 : Stage("master", n) => n = 6
      BY <2>2, <3>3 DEF Stage, Ready
    <3>6. Len(rest) \in 2 .. 3
      <4>1. PICK n \in 1 .. 6 :
              \/ Len(rest) = 14 - 2 * n /\ Stage("master", n) /\ Stage("slave", n)
              \/ Len(rest) = 13 - 2 * n /\ Stage("master", n + 1) /\ Stage("slave", n)
        BY <3>4 DEF Remapping
      <4>2. n \in 1 .. 7 /\ n + 1 \in 1 .. 7
        OBVIOUS
      <4>3. CASE Len(rest) = 14 - 2 * n /\ Stage("master", n) /\ Stage("slave", n)
        <5>1. n = 6
          BY <3>5, <4>2, <4>3
        <5>. QED
          BY <4>3, <5>1
      <4>4. CASE Len(rest) = 13 - 2 * n /\ Stage("master", n + 1) /\ Stage("slave", n)
        <5>1. n + 1 = 6
          BY <3>5, <4>2, <4>4
        <5>2. n = 5
          BY <4>2, <5>1
        <5>. QED
          BY <4>4, <5>2
      <4>. QED
        BY <4>1, <4>3, <4>4
    <3>. QED
      BY <2>1, <2>3, <3>4, <3>6 DEF Remapping, Window
  <2>4. CASE ~(Winner(chips) < 8)
    <3>1. PICK l \in Line : /\ Winner(chips) = 8 + l /\ Ready("slave")
                            /\ l \notin chips["slave"].imr
      BY <1>1, <2>1, <2>4, WinnerIsOpen
    <3>2. l \in Asked("slave")
      BY <1>1, <2>1, <3>1 DEF Asked, LinesOf
    <3>3. chips["slave"].imr # Asked("slave")
      BY <3>1, <3>2
    <3>4. Remapping
      BY <1>1, <3>3 DEF MaskInv, Idle, Masking, Getting, Disabling, Settled, ChipName
    <3>5. \A n \in 1 .. 6 : Stage("slave", n) => n = 6
      BY <3>1, <3>3 DEF Stage, Ready
    <3>6. Len(rest) \in 1 .. 2
      <4>1. PICK n \in 1 .. 6 :
              \/ Len(rest) = 14 - 2 * n /\ Stage("master", n) /\ Stage("slave", n)
              \/ Len(rest) = 13 - 2 * n /\ Stage("master", n + 1) /\ Stage("slave", n)
        BY <3>4 DEF Remapping
      <4>2. n \in 1 .. 7 /\ n + 1 \in 1 .. 7
        OBVIOUS
      <4>3. CASE Len(rest) = 14 - 2 * n /\ Stage("master", n) /\ Stage("slave", n)
        <5>1. n = 6
          BY <3>5, <4>2, <4>3
        <5>. QED
          BY <4>3, <5>1
      <4>4. CASE Len(rest) = 13 - 2 * n /\ Stage("master", n + 1) /\ Stage("slave", n)
        <5>1. n = 6
          BY <3>5, <4>2, <4>4
        <5>2. n = 6
          BY <4>2, <5>1
        <5>. QED
          BY <4>4, <5>2
      <4>. QED
        BY <4>1, <4>3, <4>4
    <3>. QED
      BY <2>1, <2>4, <3>4, <3>6 DEF Remapping, Window
  <2>. QED
    BY <2>3, <2>4
<1>2. IInv /\ MaskInv /\ [Next]_vars =>
        [Accepted /\ handler'.irq \in asked =>
           call.fn = "remap" /\ Len(rest) \in Window]_vars
  BY <1>1
<1>. QED
  BY <1>2, MaskInductive, PTL DEF Spec, MaskedOnlyInWindow

(* From the first command of pic_remap on no interrupt comes through a     *)
(* vector the chips had before the call, on either chip (i8259.c:4-22).    *)
THEOREM VectorsAreNew == Spec => NoStaleVector
<1> DEFINE name == ChipOf(handler'.irq)
<1>1. ASSUME IInv, MaskInv, [Next]_vars, Accepted,
             ~(call.fn = "remap" /\ Len(rest) >= 10)
      PROVE  chips[name].offset = offsets[name]
  <2>1. Interrupting(chips) /\ handler'.irq = Winner(chips)
    BY <1>1, AcceptedIsWinner
  <2>2. Ready("master") /\ (name = "slave" => Ready("slave")) /\ name \in ChipName
    BY <1>1, <2>1, WinnerIsOpen DEF ChipOf, ChipName
  <2>3. CASE ~Remapping
    BY <1>1, <2>2, <2>3
    DEF MaskInv, Idle, Masking, Getting, Disabling, Settled, ChipName
  <2>4. CASE Remapping
    <3>1. PICK n \in 1 .. 6 :
            \/ Len(rest) = 14 - 2 * n /\ Stage("master", n) /\ Stage("slave", n)
            \/ Len(rest) = 13 - 2 * n /\ Stage("master", n + 1) /\ Stage("slave", n)
      BY <2>4 DEF Remapping
    <3>2. Len(rest) < 10
      BY <1>1, <2>4, <3>1 DEF Remapping
    <3>3. CASE Stage("master", n) /\ Stage("slave", n) /\ n >= 3
      <4>1. n = 6
        BY <2>2, <3>3 DEF Stage, Ready
      <4>. QED
        BY <2>2, <3>3, <4>1 DEF Stage, ChipName
    <3>4. CASE Stage("master", n + 1) /\ Stage("slave", n) /\ n >= 2
      <4>1. n + 1 \in {6, 7}
        BY <2>2, <3>4 DEF Stage, Ready
      <4>2. n + 1 \in 4 .. 7 /\ n \in 4 .. 7
        BY <4>1
      <4>. QED
        BY <2>2, <3>4, <4>2 DEF Stage, ChipName
    <3>. QED
      BY <3>1, <3>2, <3>3, <3>4
  <2>. QED
    BY <2>3, <2>4
<1>2. IInv /\ MaskInv /\ [Next]_vars =>
        [Accepted /\ ~(call.fn = "remap" /\ Len(rest) >= 10) =>
           LET c == ChipOf(handler'.irq) IN chips[c].offset = offsets[c]]_vars
  BY <1>1
<1>. QED
  BY <1>2, MaskInductive, PTL DEF Spec, NoStaleVector

-----------------------------------------------------------------------------
(* The reads of both chips. *)

(* Where pic_get is, which chips show the register that is asked for, and  *)
(* whether the byte read of the master has been seen there.                *)
Reading(s) ==
  \/ rest = pic_get(s)
  \/ /\ rest = <<In("master", "command"), Out("slave", "command", OCW3(s)),
                 In("slave", "command")>>
     /\ chips["master"].select = s
  \/ /\ rest = <<Out("slave", "command", OCW3(s)), In("slave", "command")>>
     /\ reg["master"] \in seen["master"]
  \/ /\ rest = <<In("slave", "command")>>
     /\ reg["master"] \in seen["master"] /\ chips["slave"].select = s

ReadInv ==
  /\ DOMAIN seen = ChipName
  /\ call.fn = "get" /\ rest # <<>> =>
       /\ call.select \in {"isr", "irr"} /\ Reading(call.select)
       /\ \A name \in ChipName : Register(chips, name, call.select) \in seen[name]

LEMMA ObserveSees ==
  ASSUME ReadInv, Observe, UNCHANGED call, call.fn = "get", rest # <<>>,
         NEW name \in ChipName
  PROVE  /\ seen[name] \subseteq seen'[name]
         /\ Register(chips', name, call.select) \in seen'[name]
BY DEF Observe

(* An end of interrupt leaves what a chip shows alone, and so does the     *)
(* rest of what is not the program's.                                      *)
LEMMA SelectKept ==
  ASSUME IInv, Raise \/ Accept \/ HandlerStep, NEW name \in ChipName
  PROVE  chips'[name].select = chips[name].select
<1>1. chips \in [ChipName -> ChipSet]
  BY DEF IInv
<1>2. CASE Raise
  <2>1. PICK irq \in Devices : chips' = Raised(chips, irq)
    BY <1>2 DEF Raise
  <2>2. ChipOf(irq) \in ChipName
    BY DEF ChipOf, ChipName
  <2>. QED
    BY <1>1, <2>1, <2>2 DEF Raised, ChipSet
<1>3. CASE Accept
  <2> DEFINE irq == Winner(chips)
             taken == [chips EXCEPT ![ChipOf(irq)].irr = @ \ {irq % 8},
                                    ![ChipOf(irq)].isr = @ \cup {irq % 8}]
  <2>1. ChipOf(irq) \in ChipName /\ chips' = Acknowledged(chips, irq)
    BY <1>3 DEF Accept, ChipOf, ChipName
  <2>2. /\ DOMAIN taken = ChipName
        /\ \A other \in ChipName :
             /\ taken[other].select = chips[other].select
             /\ DOMAIN taken[other] = DOMAIN chips[other]
    BY <1>1, <2>1 DEF ChipSet
  <2>3. chips' = IF ChipOf(irq) = "slave"
                   THEN [taken EXCEPT !["master"].isr = @ \cup {2}] ELSE taken
    BY <2>1 DEF Acknowledged
  <2> HIDE DEF taken
  <2>. QED
    BY <1>1, <2>2, <2>3 DEF ChipSet, ChipName
<1>4. CASE HandlerStep
  <2>1. PICK at \in ChipName : chips' = Effect(Eoi(at))
    BY <1>4 DEF HandlerStep, Handling, IInv, HandlerOK, Serving, NoHandler, ChipName
  <2>2. /\ Eoi(at).op = "out" /\ Eoi(at).chip = at
        /\ Eoi(at).port = "command" /\ Written(Eoi(at)) = {5}
    BY DEF Eoi, Out, Written, OCW2_EOI
  <2>3. chips' = [chips EXCEPT ![at] = Command(chips[at], {5})]
    BY <2>1, <2>2 DEF Effect
  <2>4. Command(chips[at], {5}).select = chips[at].select
    <3>1. 4 \notin {5} /\ ~({1, 3} \subseteq {5})
      OBVIOUS
    <3>. QED
      BY <1>1, <3>1 DEF Command, ChipSet
  <2>. QED
    BY <1>1, <2>3, <2>4
<1>. QED
  BY <1>2, <1>3, <1>4

LEMMA CallReadInv ==
  ASSUME ReadInv, Calls
  PROVE  ReadInv'
<1>1. DOMAIN seen' = ChipName
  BY DEF Calls, CallRemap, CallMask, CallDisable, CallGet, Call, Observe
<1>2. CASE CallGet
  <2>1. PICK s \in {"isr", "irr"} :
          /\ call' = [fn |-> "get", select |-> s] /\ rest' = pic_get(s) /\ Observe
    BY <1>2 DEF CallGet, Call
  <2>2. rest' # <<>>
    BY <2>1 DEF pic_get
  <2>3. \A name \in ChipName : Register(chips', name, s) \in seen'[name]
    BY <2>1, <2>2 DEF Observe
  <2>. QED
    BY <1>1, <2>1, <2>3 DEF ReadInv, Reading
<1>3. CASE call'.fn # "get"
  BY <1>1, <1>3 DEF ReadInv
<1>. QED
  BY <1>2, <1>3 DEF Calls, CallRemap, CallMask, CallDisable, Call

LEMMA InterruptReadInv ==
  ASSUME IInv, ReadInv, Raise \/ Accept \/ HandlerStep
  PROVE  ReadInv'
<1>1. UNCHANGED <<call, rest, reg>> /\ Observe
  BY DEF Raise, Accept, HandlerStep
<1>2. DOMAIN seen' = ChipName
  BY <1>1 DEF Observe
<1>3. CASE call.fn = "get" /\ rest # <<>>
  <2>1. \A name \in ChipName :
          /\ seen[name] \subseteq seen'[name]
          /\ Register(chips', name, call.select) \in seen'[name]
          /\ chips'[name].select = chips[name].select
    BY <1>1, <1>3, ObserveSees, SelectKept
  <2>2. Reading(call.select) => Reading(call.select)'
    BY <1>1, <2>1 DEF Reading, ChipName
  <2>. QED
    BY <1>1, <1>2, <1>3, <2>1, <2>2 DEF ReadInv
<1>4. CASE ~(call.fn = "get" /\ rest # <<>>)
  BY <1>1, <1>2, <1>4 DEF ReadInv
<1>. QED
  BY <1>3, <1>4

LEMMA SelectSet ==
  ASSUME chips \in [ChipName -> ChipSet], NEW name \in ChipName,
         NEW s \in {"isr", "irr"}, Performed(Out(name, "command", OCW3(s)))
  PROVE  /\ chips'[name].select = s /\ reg' = reg
         /\ \A other \in ChipName : other # name => chips'[other] = chips[other]
<1> DEFINE a == Out(name, "command", OCW3(s))
<1>1. /\ a.op = "out" /\ a.chip = name /\ a.port = "command" /\ Written(a) = OCW3(s)
  BY DEF Out, Written
<1>2. chips' = [chips EXCEPT ![name] = Command(chips[name], OCW3(s))] /\ reg' = reg
  BY <1>1 DEF Performed, Effect
<1>3. Command(chips[name], OCW3(s)).select = s
  <2>1. /\ 4 \notin OCW3(s) /\ {1, 3} \subseteq OCW3(s)
        /\ (0 \in OCW3(s) <=> s = "isr")
    BY DEF OCW3
  <2>. QED
    BY <2>1 DEF Command, ChipSet
<1>. QED
  BY <1>2, <1>3

LEMMA RegisterRead ==
  ASSUME reg \in [ChipName -> Byte], NEW name \in ChipName,
         Performed(In(name, "command"))
  PROVE  /\ chips' = chips
         /\ reg'[name] = Register(chips, name, chips[name].select)
         /\ \A other \in ChipName : other # name => reg'[other] = reg[other]
BY DEF Performed, Effect, Value, In

LEMMA ReadStep ==
  ASSUME IInv, ReadInv, ProgramStep
  PROVE  /\ ReadInv'
         /\ call.fn = "get" /\ rest' = <<>> =>
              \A name \in ChipName : reg'[name] \in seen'[name]
<1>1. /\ Performed(Head(rest)) /\ rest' = Tail(rest) /\ rest # <<>>
      /\ UNCHANGED call /\ Observe
      /\ chips \in [ChipName -> ChipSet] /\ reg \in [ChipName -> Byte]
  BY DEF ProgramStep, Performed, IInv
<1>2. DOMAIN seen' = ChipName
  BY <1>1 DEF Observe
<1>3. CASE call.fn # "get"
  BY <1>1, <1>2, <1>3 DEF ReadInv
<1>4. CASE call.fn = "get"
  <2> DEFINE s == call.select
  <2>0. s' = s /\ OCW3(s)' = OCW3(s)
    BY <1>1
  <2>1. /\ s \in {"isr", "irr"} /\ Reading(s)
        /\ \A name \in ChipName : Register(chips, name, s) \in seen[name]
    BY <1>1, <1>4 DEF ReadInv
  <2>2. \A name \in ChipName : /\ seen[name] \subseteq seen'[name]
                               /\ Register(chips', name, s) \in seen'[name]
    BY <1>1, <1>4, ObserveSees
  <2>3. Reading(s)' /\ rest' # <<>> => ReadInv'
    BY <1>1, <1>2, <2>1, <2>2 DEF ReadInv
  <2>4. CASE rest = pic_get(s)
    <3>1. /\ Head(rest) = Out("master", "command", OCW3(s))
          /\ rest' = <<In("master", "command"), Out("slave", "command", OCW3(s)),
                       In("slave", "command")>>
      BY <1>1, <2>4 DEF pic_get
    <3>2. chips'["master"].select = s
      BY <1>1, <2>1, <3>1, SelectSet DEF ChipName
    <3>3. rest' # <<>>
      BY <3>1
    <3>4. Reading(s)'
      BY <2>0, <3>1, <3>2 DEF Reading
    <3>. QED
      BY <2>3, <3>3, <3>4
  <2>5. CASE /\ rest = <<In("master", "command"), Out("slave", "command", OCW3(s)),
                         In("slave", "command")>>
             /\ chips["master"].select = s
    <3>1. /\ Head(rest) = In("master", "command")
          /\ rest' = <<Out("slave", "command", OCW3(s)), In("slave", "command")>>
      BY <1>1, <2>5
    <3>2. reg'["master"] = Register(chips, "master", s)
      BY <1>1, <2>5, <3>1, RegisterRead DEF ChipName
    <3>3. reg'["master"] \in seen'["master"]
      BY <2>1, <2>2, <3>2 DEF ChipName
    <3>4. rest' # <<>>
      BY <3>1
    <3>5. Reading(s)'
      BY <2>0, <3>1, <3>3 DEF Reading
    <3>. QED
      BY <2>3, <3>4, <3>5
  <2>6. CASE /\ rest = <<Out("slave", "command", OCW3(s)), In("slave", "command")>>
             /\ reg["master"] \in seen["master"]
    <3>1. /\ Head(rest) = Out("slave", "command", OCW3(s))
          /\ rest' = <<In("slave", "command")>>
      BY <1>1, <2>6
    <3>2. chips'["slave"].select = s /\ reg' = reg
      BY <1>1, <2>1, <3>1, SelectSet DEF ChipName
    <3>3. reg'["master"] \in seen'["master"]
      BY <2>2, <2>6, <3>2 DEF ChipName
    <3>4. rest' # <<>>
      BY <3>1
    <3>5. Reading(s)'
      BY <2>0, <3>1, <3>2, <3>3 DEF Reading
    <3>. QED
      BY <2>3, <3>4, <3>5
  <2>7. CASE /\ rest = <<In("slave", "command")>>
             /\ reg["master"] \in seen["master"] /\ chips["slave"].select = s
    <3>1. Head(rest) = In("slave", "command") /\ rest' = <<>>
      BY <1>1, <2>7
    <3>2. /\ reg'["slave"] = Register(chips, "slave", s)
          /\ reg'["master"] = reg["master"]
      BY <1>1, <2>7, <3>1, RegisterRead DEF ChipName
    <3>3. \A name \in ChipName : reg'[name] \in seen'[name]
      BY <2>1, <2>2, <2>7, <3>2 DEF ChipName
    <3>4. ReadInv'
      BY <1>2, <3>1 DEF ReadInv
    <3>. QED
      BY <3>3, <3>4
  <2>. QED
    BY <2>1, <2>4, <2>5, <2>6, <2>7 DEF Reading
<1>. QED
  BY <1>3, <1>4

LEMMA ReadInductive == Spec => [](IInv /\ ReadInv)
<1>1. Init => ReadInv
  BY DEF Init, ReadInv
<1>2. IInv /\ ReadInv /\ [Next]_vars => ReadInv'
  <2> SUFFICES ASSUME IInv, ReadInv, [Next]_vars PROVE ReadInv'
    OBVIOUS
  <2>1. CASE UNCHANGED vars
    BY <2>1 DEF vars, ReadInv, Reading
  <2>. QED
    BY <2>1, CallReadInv, InterruptReadInv, ReadStep DEF Next
<1>3. Spec => []ReadInv
  BY <1>1, <1>2, Inductive, PTL DEF Spec
<1>. QED
  BY <1>3, Inductive, PTL

(* Each half of what pic_get_isr and pic_get_irr return was the register   *)
(* asked for of its chip at some time during the call, whatever interrupts *)
(* came between the four accesses (i8259.c:76-95).                         *)
THEOREM HalvesAreTrue == Spec => HalvesWereTrue
<1>1. ASSUME IInv, ReadInv, [Next]_vars, call.fn = "get", rest # <<>>, rest' = <<>>
      PROVE  \A name \in ChipName : reg'[name] \in seen'[name]
  <2>1. ProgramStep
    BY <1>1 DEF Next, Calls, CallRemap, CallMask, CallDisable, CallGet, Call,
                Raise, Accept, HandlerStep, vars
  <2>. QED
    BY <1>1, <2>1, ReadStep
<1>2. IInv /\ ReadInv /\ [Next]_vars =>
        [call.fn = "get" /\ rest # <<>> /\ rest' = <<>> =>
           \A name \in ChipName : reg'[name] \in seen'[name]]_vars
  BY <1>1
<1>. QED
  BY <1>2, ReadInductive, PTL DEF Spec, HalvesWereTrue

-----------------------------------------------------------------------------
(* Types. *)

(* Only devices request, and only they are handled. *)
DeviceInv ==
  /\ asked \subseteq 0 .. 15
  /\ \A name \in ChipName : \A l \in chips[name].irr : Number(name, l) \in Devices
  /\ handler.irq \in Devices \cup {-1}

LEMMA WinnerIsDevice ==
  ASSUME IInv, DeviceInv, Interrupting(chips)
  PROVE  Winner(chips) \in Devices
<1> DEFINE l == Min(MasterOpen(chips))
<1>1. /\ chips["master"] \in ChipSet /\ chips["slave"] \in ChipSet
      /\ 2 \notin chips["master"].irr
  BY DEF IInv, ChipName
<1>2. MasterOpen(chips) \subseteq Requests(chips, "master")
  BY DEF MasterOpen, Open
<1>3. Requests(chips, "master") \in Byte
  BY <1>1 DEF Requests, ChipSet, Byte, Line
<1>4. l \in Requests(chips, "master")
  BY <1>2, <1>3, MinOfLines DEF Interrupting, Byte
<1>5. CASE l # 2
  <2>1. l \in chips["master"].irr
    BY <1>4, <1>5 DEF Requests
  <2>. QED
    BY <1>5, <2>1 DEF Winner, DeviceInv, Number, ChipName
<1>6. CASE l = 2
  <2>1. SlaveOpen(chips) # {}
    BY <1>1, <1>4, <1>6 DEF Requests
  <2>2. SlaveOpen(chips) \subseteq chips["slave"].irr
    BY DEF SlaveOpen, Open
  <2>3. SlaveOpen(chips) \in Byte
    BY <1>1, <2>2 DEF ChipSet, Byte
  <2>4. Min(SlaveOpen(chips)) \in chips["slave"].irr
    BY <2>1, <2>2, <2>3, MinOfLines
  <2>. QED
    BY <1>6, <2>4 DEF Winner, DeviceInv, Number, ChipName
<1>. QED
  BY <1>5, <1>6

LEMMA InitDeviceInv == Init => DeviceInv
BY PicAssumption DEF Init, DeviceInv, Programmed, NoHandler

LEMMA StepDeviceInv ==
  ASSUME IInv, DeviceInv, [Next]_vars
  PROVE  DeviceInv'
<1>1. chips \in [ChipName -> ChipSet] /\ reg \in [ChipName -> Byte]
  BY DEF IInv
<1>2. ASSUME \A name \in ChipName : chips'[name].irr \subseteq chips[name].irr,
             asked' \subseteq 0 .. 15, handler'.irq \in Devices \cup {-1}
      PROVE  DeviceInv'
  BY <1>2 DEF DeviceInv
<1>3. CASE Calls
  BY <1>2, <1>3 DEF DeviceInv, Calls, CallRemap, CallMask, CallDisable, CallGet, Call
<1>4. CASE ProgramStep
  <2>1. Head(rest) \in Access
    BY <1>4, HeadTailProperties DEF IInv, ProgramStep
  <2>2. \A name \in ChipName : chips'[name].irr \subseteq chips[name].irr
    BY <1>1, <1>4, <2>1, EffectKeeps DEF ProgramStep
  <2>3. AskedAfter \subseteq 0 .. 15
    BY DEF AskedAfter, DeviceInv
  <2>. QED
    BY <1>2, <1>4, <2>2, <2>3 DEF ProgramStep, DeviceInv
<1>5. CASE Raise
  <2>1. PICK irq \in Devices : chips' = Raised(chips, irq)
    BY <1>5 DEF Raise
  <2>2. irq \in 0 .. 15 /\ ChipOf(irq) \in ChipName
    BY PicAssumption DEF ChipOf, ChipName
  <2>3. Number(ChipOf(irq), irq % 8) = irq
    BY <2>2 DEF Number, ChipOf
  <2>4. \A name \in ChipName :
          chips'[name].irr \subseteq
            chips[name].irr \cup (IF name = ChipOf(irq) THEN {irq % 8} ELSE {})
    BY <1>1, <2>1, <2>2 DEF Raised, ChipSet
  <2>5. \A name \in ChipName : \A l \in chips'[name].irr : Number(name, l) \in Devices
    BY <2>1, <2>3, <2>4 DEF DeviceInv
  <2>. QED
    BY <1>5, <2>5 DEF Raise, DeviceInv
<1>6. CASE Accept
  <2> DEFINE irq == Winner(chips)
             taken == [chips EXCEPT ![ChipOf(irq)].irr = @ \ {irq % 8},
                                    ![ChipOf(irq)].isr = @ \cup {irq % 8}]
  <2>1. ChipOf(irq) \in ChipName /\ chips' = Acknowledged(chips, irq)
    BY <1>6 DEF Accept, ChipOf, ChipName
  <2>2. /\ DOMAIN taken = ChipName
        /\ \A other \in ChipName : taken[other].irr \subseteq chips[other].irr
    BY <1>1, <2>1 DEF ChipSet
  <2>3. chips' = IF ChipOf(irq) = "slave"
                   THEN [taken EXCEPT !["master"].isr = @ \cup {2}] ELSE taken
    BY <2>1 DEF Acknowledged
  <2>4. DOMAIN taken["master"] = DOMAIN chips["master"]
    BY <1>1, <2>1 DEF ChipSet, ChipName
  <2> HIDE DEF taken
  <2>5. \A name \in ChipName : chips'[name].irr \subseteq chips[name].irr
    BY <1>1, <2>2, <2>3, <2>4 DEF ChipSet, ChipName
  <2>6. handler'.irq \in Devices
    BY <1>6, WinnerIsDevice DEF Accept
  <2>. QED
    BY <1>2, <1>6, <2>5, <2>6 DEF Accept, DeviceInv
<1>7. CASE HandlerStep
  <2>1. PICK at \in ChipName : chips' = Effect(Eoi(at))
    BY <1>7 DEF HandlerStep, Handling, IInv, HandlerOK, Serving, NoHandler, ChipName
  <2>2. Eoi(at) \in Access
    BY OutIsAccess DEF Eoi, OCW2_EOI, Byte, Line
  <2>3. \A name \in ChipName : chips'[name].irr \subseteq chips[name].irr
    BY <1>1, <2>1, <2>2, EffectKeeps
  <2>4. handler'.irq \in Devices \cup {-1}
    <3>1. handler' = NoHandler \/ handler' = [handler EXCEPT !.rest = Tail(@)]
      BY <1>7 DEF HandlerStep
    <3>2. DOMAIN handler = {"irq", "rest"}
      BY DEF IInv, HandlerOK, Serving
    <3>. QED
      BY <3>1, <3>2 DEF NoHandler, DeviceInv
  <2>. QED
    BY <1>2, <1>7, <2>3, <2>4 DEF HandlerStep, DeviceInv
<1>8. CASE UNCHANGED vars
  BY <1>8 DEF vars, DeviceInv
<1>. QED
  BY <1>3, <1>4, <1>5, <1>6, <1>7, <1>8 DEF Next

LEMMA SmallNumbers ==
  /\ \A n : n = 4 \/ n = 3 \/ n = 2 \/ n = 1 => n <= 12
  /\ \A n : n = 2 \/ n = 1 \/ n = 0 => n <= 2 /\ n <= 12
OBVIOUS

LEMMA RestIsShort ==
  ASSUME MaskInv, ReadInv PROVE Len(rest) <= 12
<1>1. CASE Getting
  <2>1. Reading(call.select)
    BY <1>1 DEF Getting, ReadInv
  <2>2. \A a, b, c, d : /\ Len(<<a, b, c, d>>) = 4 /\ Len(<<b, c, d>>) = 3
                        /\ Len(<<c, d>>) = 2 /\ Len(<<d>>) = 1
    OBVIOUS
  <2>3. Len(rest) = 4 \/ Len(rest) = 3 \/ Len(rest) = 2 \/ Len(rest) = 1
    BY <2>1, <2>2, Zenon DEF Reading, pic_get
  <2>. QED
    BY <2>3, SmallNumbers, Zenon
<1>2. CASE Remapping
  BY <1>2 DEF Remapping
<1>3. CASE Idle \/ Masking \/ Disabling
  <2>1. Len(<<>>) = 0 /\ \A a, b : Len(<<a, b>>) = 2 /\ Len(<<b>>) = 1
    OBVIOUS
  <2>2. Len(rest) = 2 \/ Len(rest) = 1 \/ Len(rest) = 0
    BY <1>3, <2>1, Zenon DEF Idle, Masking, Disabling, pic_disable, Both
  <2>. QED
    BY <2>2, SmallNumbers, Zenon
<1>. QED
  BY <1>1, <1>2, <1>3 DEF MaskInv

(* Every mask and register is a byte, whatever is passed for irq           *)
(* (i8259.c:47, 58), no call makes more than twelve accesses, and the      *)
(* processor handles interrupts of devices only.                           *)
THEOREM TypeCorrect == Spec => []TypeOK
<1>1. Spec => []DeviceInv
  <2>1. IInv /\ DeviceInv /\ [Next]_vars => DeviceInv'
    BY StepDeviceInv
  <2>. QED
    BY <2>1, InitDeviceInv, Inductive, PTL DEF Spec
<1>2. IInv /\ MaskInv /\ ReadInv /\ DeviceInv => TypeOK
  <2> SUFFICES ASSUME IInv, MaskInv, ReadInv, DeviceInv PROVE TypeOK
    OBVIOUS
  <2>1. \A name \in ChipName : ChipOK(chips[name]) /\ reg[name] \in Byte
    BY DEF IInv, ChipSet, ChipOK
  <2>2. Len(handler.rest) <= 2
    <3>1. Len(<<>>) = 0 /\ \A a, b : Len(<<a, b>>) = 2 /\ Len(<<b>>) = 1
      OBVIOUS
    <3>2. \/ handler.rest = <<>> \/ handler.rest = <<Eoi("master")>>
          \/ handler.rest = <<Eoi("slave"), Eoi("master")>>
      BY DEF IInv, HandlerOK, Serving
    <3>3. Len(handler.rest) = 2 \/ Len(handler.rest) = 1 \/ Len(handler.rest) = 0
      BY <3>1, <3>2, Zenon
    <3>. QED
      BY <3>3, SmallNumbers, Zenon
  <2>. QED
    BY <2>1, <2>2, RestIsShort DEF TypeOK, DeviceInv
<1>. QED
  BY <1>1, <1>2, MaskInductive, ReadInductive, PTL
=============================================================================
