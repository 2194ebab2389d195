--------------------------------- MODULE Pic ---------------------------------
(***************************************************************************)
(* src/src/drivers/i8259/i8259.c, one port access at a time, beside the    *)
(* two controllers and the devices on their lines.  Nothing in the kernel  *)
(* calls the driver yet; how it is meant to be used is what                *)
(* src/src/interrupts/idt.c, commented out, says: one program calls it,    *)
(* and the handler of an interrupt calls pic_send_eoi.  The processor      *)
(* takes interrupts between any two accesses of the program and none       *)
(* inside a handler, which runs through interrupt gates.                   *)
(*                                                                         *)
(* A driver function is the sequence of its port accesses.  io_wait, a     *)
(* write to an unused port, is left out.  Bytes are sets of bits, so | and *)
(* & ~ are \cup and \.                                                     *)
(***************************************************************************)
EXTENDS Chips8259, Sequences

CONSTANTS
  Devices,        (* the lines devices request on, 2 is the slave's        *)
  Irqs,           (* the arguments of pic_set_mask and pic_clear_mask      *)
  Offsets,        (* the arguments of pic_remap: pairs of bytes            *)
  FirmwareMasks   (* what may be masked when the kernel starts             *)

(* A shift by 32 or more, from irq = 40 on, is undefined. *)
ASSUME PicAssumption ==
  /\ Devices \subseteq 0 .. 15 \ {2} /\ Irqs \subseteq 0 .. 39
  /\ Offsets \subseteq (SUBSET (3 .. 7)) \X (SUBSET (3 .. 7))
  /\ FirmwareMasks \subseteq SUBSET (0 .. 15)

VARIABLES
  chips,     (* the controllers                                            *)
  call,      (* the function the program is in, or was in last             *)
  rest,      (* the port accesses left of it                               *)
  reg,       (* its byte variables, by the chip they are about             *)
  handler,   (* the interrupt being handled, if any                        *)
  asked,     (* the lines the calls that have returned masked, offsets     *)
  offsets,   (* those of the last pic_remap, and what the registers read   *)
  seen       (* have held since the call; three history variables          *)

vars == <<chips, call, rest, reg, handler, asked, offsets, seen>>

NoHandler == [irq |-> -1, rest |-> <<>>]
Handling == handler # NoHandler

-----------------------------------------------------------------------------
(* The driver: what it writes, access by access. *)

(* outb(port, byte); kept: outb(port, (variable | byte) & ~drop). *)
Out(name, port, byte) ==
  [op |-> "out", chip |-> name, port |-> port,
   kept |-> FALSE, add |-> byte, drop |-> {}]
Update(name, add, drop) ==
  [op |-> "out", chip |-> name, port |-> "data",
   kept |-> TRUE, add |-> add, drop |-> drop]
In(name, port) == [op |-> "in", chip |-> name, port |-> port]

ICW1 == {0, 4}
ICW4_8086 == {0}
OCW2_EOI == {5}
OCW3(select) == IF select = "isr" THEN {0, 1, 3} ELSE {1, 3}

Both(port, m, s) == <<Out("master", port, m), Out("slave", port, s)>>
SaveMasks == <<In("master", "data"), In("slave", "data")>>
RestoreMasks == <<Update("master", {}, {}), Update("slave", {}, {})>>

(* Plausible bugs: the masks are saved after the first command word, or    *)
(* the third comes before the second.                                      *)
Mutpic_remap(m, s) ==
  Both("command", ICW1, ICW1) \o SaveMasks \o Both("data", m, s) \o
  Both("data", {2}, {1}) \o Both("data", ICW4_8086, ICW4_8086) \o RestoreMasks
MutOrder(m, s) ==
  SaveMasks \o Both("command", ICW1, ICW1) \o Both("data", {2}, {1}) \o
  Both("data", m, s) \o Both("data", ICW4_8086, ICW4_8086) \o RestoreMasks

pic_remap(m, s) ==
  SaveMasks \o Both("command", ICW1, ICW1) \o Both("data", m, s) \o
  Both("data", {2}, {1}) \o Both("data", ICW4_8086, ICW4_8086) \o RestoreMasks

(* A plausible bug: the shifted bit is not cut to a byte. *)
MutBit(n) == {n}

(* (uint8_t)(1 << n) *)
Bit(n) == {n} \cap Line

(* A plausible bug: irq -= 8 is missing. *)
MutLineOf(irq) == irq

LineOf(irq) == IF irq < 8 THEN irq ELSE irq - 8

pic_set_mask(irq) ==
  <<In(ChipOf(irq), "data"), Update(ChipOf(irq), Bit(LineOf(irq)), {})>>

pic_clear_mask(irq) ==
  <<In(ChipOf(irq), "data"), Update(ChipOf(irq), {}, Bit(LineOf(irq)))>>

EndOf(name) == <<Out(name, "command", OCW2_EOI)>>

(* Plausible bugs: the slave's line 0 is forgotten, or the master for its  *)
(* interrupts.                                                             *)
MutPastEight(irq) == (IF irq > 8 THEN EndOf("slave") ELSE <<>>) \o EndOf("master")
MutEither(irq) == EndOf(ChipOf(irq))

pic_send_eoi(irq) == (IF irq >= 8 THEN EndOf("slave") ELSE <<>>) \o EndOf("master")

pic_disable == Both("data", Line, Line)

(* A plausible bug: the slave is not told which register to show. *)
Mutpic_get(select) ==
  <<Out("master", "command", OCW3(select)), In("master", "command"),
    In("slave", "command")>>

(* pic_get_isr and pic_get_irr. *)
pic_get(select) ==
  <<Out("master", "command", OCW3(select)), In("master", "command"),
    Out("slave", "command", OCW3(select)), In("slave", "command")>>

-----------------------------------------------------------------------------
(* The program. *)

(* The firmware has both chips in operation, on vectors of its own. *)
FirmwareOffset(name) == IF name = "master" THEN {3} ELSE {4, 5, 6}

Init ==
  /\ asked \in FirmwareMasks
  /\ chips = [name \in ChipName |->
                Programmed(LinesOf(name, asked), FirmwareOffset(name),
                           Cascade(name))]
  /\ call = [fn |-> "none"] /\ rest = <<>>
  /\ reg = [name \in ChipName |-> {}]
  /\ handler = NoHandler
  /\ offsets = [name \in ChipName |-> FirmwareOffset(name)]
  /\ seen = [name \in ChipName |-> {}]

(* Every step of a read notes what the registers hold after it. *)
Observe ==
  seen' = [name \in ChipName |->
             IF call'.fn = "get" /\ (rest # <<>> \/ rest' # <<>>)
               THEN seen[name] \cup {Register(chips', name, call'.select)}
               ELSE {}]

Call(c, accesses) ==
  /\ ~Handling /\ rest = <<>>
  /\ call' = c /\ rest' = accesses
  /\ reg' = [name \in ChipName |-> {}]
  /\ UNCHANGED <<chips, handler, asked>>
  /\ Observe

CallRemap ==
  \E o \in Offsets :
    /\ Call([fn |-> "remap"], pic_remap(o[1], o[2]))
    /\ offsets' = [master |-> o[1], slave |-> o[2]]

CallMask ==
  \E irq \in Irqs :
    /\ \/ Call([fn |-> "set", irq |-> irq], pic_set_mask(irq))
       \/ Call([fn |-> "clear", irq |-> irq], pic_clear_mask(irq))
    /\ UNCHANGED offsets

CallDisable == Call([fn |-> "disable"], pic_disable) /\ UNCHANGED offsets

CallGet ==
  \E select \in {"isr", "irr"} :
    Call([fn |-> "get", select |-> select], pic_get(select)) /\ UNCHANGED offsets

(* What the call means for the masks, once it has returned. *)
AskedAfter ==
  CASE call.fn = "set" -> asked \cup ({call.irq} \cap 0 .. 15)
    [] call.fn = "clear" -> asked \ {call.irq}
    [] call.fn = "disable" -> 0 .. 15
    [] OTHER -> asked

(* The byte read, and the byte written, by an access. *)
Value(a) ==
  IF a.port = "data" THEN chips[a.chip].imr
  ELSE Register(chips, a.chip, chips[a.chip].select)

Written(a) == ((IF a.kept THEN reg[a.chip] ELSE {}) \cup a.add) \ a.drop

Effect(a) ==
  IF a.op = "in" THEN chips
  ELSE [chips EXCEPT ![a.chip] = IF a.port = "data" THEN Data(@, Written(a))
                                                    ELSE Command(@, Written(a))]

ProgramStep ==
  /\ ~Handling /\ rest # <<>>
  /\ LET a == Head(rest)
     IN  /\ chips' = Effect(a)
         /\ reg' = IF a.op = "in" THEN [reg EXCEPT ![a.chip] = Value(a)]
                                  ELSE reg
  /\ rest' = Tail(rest)
  /\ asked' = IF Len(rest) = 1 THEN AskedAfter ELSE asked
  /\ UNCHANGED <<call, handler, offsets>>
  /\ Observe

-----------------------------------------------------------------------------
(* Interrupts. *)

Raise ==
  \E irq \in Devices :
    /\ chips' = Raised(chips, irq)
    /\ UNCHANGED <<call, rest, reg, handler, asked, offsets>>
    /\ Observe

Accept ==
  /\ ~Handling /\ Interrupting(chips)
  /\ LET irq == Winner(chips)
     IN  /\ chips' = Acknowledged(chips, irq)
         /\ handler' = [irq |-> irq, rest |-> pic_send_eoi(irq)]
  /\ UNCHANGED <<call, rest, reg, asked, offsets>>
  /\ Observe

HandlerStep ==
  /\ Handling
  /\ chips' = Effect(Head(handler.rest))
  /\ handler' = IF Len(handler.rest) = 1 THEN NoHandler
                ELSE [handler EXCEPT !.rest = Tail(@)]
  /\ UNCHANGED <<call, rest, reg, asked, offsets>>
  /\ Observe

Calls == CallRemap \/ CallMask \/ CallDisable \/ CallGet

Next == Calls \/ ProgramStep \/ Raise \/ Accept \/ HandlerStep

Spec == Init /\ [][Next]_vars

(* The processor goes on executing, and takes an interrupt that is there   *)
(* before every instruction.                                               *)
Fairness == WF_vars(ProgramStep) /\ WF_vars(HandlerStep) /\ WF_vars(Accept)

FairSpec == Spec /\ Fairness

-----------------------------------------------------------------------------
(* Properties. *)

ChipOK(c) ==
  /\ {c.imr, c.irr, c.isr, c.offset, c.icw3} \subseteq Byte
  /\ c.phase \in {"ready", "icw2", "icw3", "icw4"}
  /\ c.select \in {"irr", "isr"}

TypeOK ==
  /\ \A name \in ChipName : ChipOK(chips[name]) /\ reg[name] \in Byte
  /\ Len(rest) <= 12 /\ Len(handler.rest) <= 2
  /\ handler.irq \in Devices \cup {-1}
  /\ asked \subseteq 0 .. 15

(* Between calls exactly those lines are masked that the calls so far have *)
(* masked, whatever interrupts came in between: pic_remap, which makes the *)
(* chips forget their masks (i8259.c:12), brings them back.                *)
MasksAsAsked ==
  rest = <<>> =>
    \A name \in ChipName : chips[name].imr = LinesOf(name, asked)

Accepted == ~Handling /\ Handling'

(* pic_remap re-enables masked lines for a moment: between its ICW4 for    *)
(* the master and its last write (i8259.c:27-34) an interrupt that is      *)
(* masked before and after can come; of the master's up to the write of    *)
(* its mask.  At no other time does one come.                              *)
Window == IF handler'.irq < 8 THEN 2 .. 3 ELSE 1 .. 2
MaskedOnlyInWindow ==
  [][Accepted /\ handler'.irq \in asked =>
       call.fn = "remap" /\ Len(rest) \in Window]_vars

(* From the first command of pic_remap on no interrupt comes through a     *)
(* vector of before, in the processor's exceptions (i8259.c:4-7), not even *)
(* while the chips are being programmed.                                   *)
NoStaleVector ==
  [][Accepted /\ ~(call.fn = "remap" /\ Len(rest) >= 10) =>
       LET name == ChipOf(handler'.irq)
       IN  chips[name].offset = offsets[name]]_vars

(* After a handler both chips have ended the interrupt: nothing is in      *)
(* service, and what comes next is not held back (i8259.c:64-66).          *)
ServiceEnds == ~Handling => chips.master.isr = {} /\ chips.slave.isr = {}

(* Each half of the word pic_get_isr and pic_get_irr return was the        *)
(* register of its chip at some time during the call, though interrupts    *)
(* change both between the accesses (i8259.c:76-95).                       *)
HalvesWereTrue ==
  [][call.fn = "get" /\ rest # <<>> /\ rest' = <<>> =>
       \A name \in ChipName : reg'[name] \in seen'[name]]_vars

(* Priorities are fixed: a line of the slave comes at the place of line 2. *)
MasterLine(irq) == IF irq < 8 THEN irq ELSE 2
Ahead(irq) ==
  {d \in Devices : \/ MasterLine(d) < MasterLine(irq)
                   \/ MasterLine(d) = MasterLine(irq) /\ d < irq}

(* Of each line, not of the system: a request that nothing masks is taken, *)
(* or forgotten with the chip by a pic_remap, or else interrupts before it *)
(* are handled again and again.  It never waits for a lower priority, for  *)
(* a service not ended (i8259.c:64-66) or for a slave never heard (:17).   *)
PriorityAloneDelays ==
  \A irq \in Devices :
    []<>(irq \notin Waiting(chips) \/ handler.irq \in Ahead(irq))
=============================================================================
