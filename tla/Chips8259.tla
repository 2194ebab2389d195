----------------------------- MODULE Chips8259 -----------------------------
(***************************************************************************)
(* Two 8259A interrupt controllers, the slave on line 2 of the master: the *)
(* devices src/src/drivers/i8259 programs, after their data sheet.  Only   *)
(* what the driver uses of them is here: edge triggered lines, fully       *)
(* nested priorities, unspecific end of interrupt, and the initialization  *)
(* in the order ICW1 to ICW4, before whose end a chip accepts nothing.     *)
(*                                                                         *)
(* A byte is the set of the numbers of its one bits; chips is a record of  *)
(* the two chips.  A request that goes away before the processor takes it  *)
(* (a spurious interrupt) is left out.                                     *)
(***************************************************************************)
EXTENDS Integers, FiniteSetsExt

Line == 0 .. 7
Byte == SUBSET Line
ChipName == {"master", "slave"}

(* A chip in operation. *)
Programmed(mask, offset, icw3) ==
  [imr |-> mask, irr |-> {}, isr |-> {}, offset |-> offset, icw3 |-> icw3,
   phase |-> "ready", select |-> "irr"]

(* A write to the command register: ICW1, OCW3 or OCW2. *)
Command(c, byte) ==
  CASE 4 \in byte ->
         [c EXCEPT !.imr = {}, !.irr = {}, !.isr = {}, !.icw3 = {},
                   !.select = "irr", !.phase = "icw2"]
    [] 4 \notin byte /\ {1, 3} \subseteq byte ->
         [c EXCEPT !.select = IF 0 \in byte THEN "isr" ELSE "irr"]
    [] byte = {5} /\ c.isr # {} -> [c EXCEPT !.isr = @ \ {Min(@)}]
    [] OTHER -> c

(* A write to the data register: the next ICW, or the mask. *)
Data(c, byte) ==
  CASE c.phase = "icw2" -> [c EXCEPT !.offset = byte \ 0 .. 2, !.phase = "icw3"]
    [] c.phase = "icw3" -> [c EXCEPT !.icw3 = byte, !.phase = "icw4"]
    [] c.phase = "icw4" -> [c EXCEPT !.phase = "ready"]
    [] c.phase = "ready" -> [c EXCEPT !.imr = byte]

(* What each must know of the other: the master that the slave is on its   *)
(* line 2, the slave that its number is 2.                                 *)
Cascade(name) == IF name = "master" THEN {2} ELSE {1}
Cascaded(chips) == \A name \in ChipName : chips[name].icw3 = Cascade(name)

(* The requests a chip would pass on. *)
Open(c, requests) ==
  IF c.phase = "ready"
    THEN {l \in requests \ c.imr : \A s \in c.isr : l < s}
    ELSE {}

SlaveOpen(chips) == Open(chips.slave, chips.slave.irr)

(* The request register; the slave is a device of the master's. *)
Requests(chips, name) ==
  chips[name].irr \cup
  (IF name = "master" /\ Cascaded(chips) /\ SlaveOpen(chips) # {}
     THEN {2} ELSE {})

(* What the register read through the command port holds. *)
Register(chips, name, select) ==
  IF select = "isr" THEN chips[name].isr ELSE Requests(chips, name)

MasterOpen(chips) == Open(chips.master, Requests(chips, "master"))

Interrupting(chips) == MasterOpen(chips) # {}

(* The interrupt the processor gets when it acknowledges, from 0 to 15. *)
Winner(chips) ==
  LET l == Min(MasterOpen(chips))
  IN  IF l = 2 THEN 8 + Min(SlaveOpen(chips)) ELSE l

ChipOf(irq) == IF irq < 8 THEN "master" ELSE "slave"

Acknowledged(chips, irq) ==
  LET name == ChipOf(irq)
      taken == [chips EXCEPT ![name].irr = @ \ {irq % 8},
                             ![name].isr = @ \cup {irq % 8}]
  IN  IF name = "slave" THEN [taken EXCEPT !.master.isr = @ \cup {2}]
                        ELSE taken

Raised(chips, irq) == [chips EXCEPT ![ChipOf(irq)].irr = @ \cup {irq % 8}]

(* The lines of one chip among irqs, numbers from 0 to 15. *)
LinesOf(name, irqs) ==
  {l \in Line : (IF name = "master" THEN l ELSE 8 + l) \in irqs}

(* The requests that only wait for the processor and for interrupts before *)
(* them to be ended: nothing masks them.                                   *)
Waiting(chips) ==
  (chips.master.irr \ chips.master.imr) \cup
  (IF 2 \in chips.master.imr THEN {}
   ELSE {8 + l : l \in chips.slave.irr \ chips.slave.imr})
=============================================================================
