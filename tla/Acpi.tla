-------------------------------- MODULE Acpi --------------------------------
(***************************************************************************)
(* src/src/acpi/acpi.c: acpi_init, run by the boot processor on the tables *)
(* the firmware has left in memory.  One action per iteration of a loop    *)
(* and per statement between the loops.                                    *)
(*                                                                         *)
(* The firmware fw is any record of the set Firmware:                      *)
(*   system_table   is there an EFI system table at all                    *)
(*   config         its configuration table, a sequence of [guid, rsdp]    *)
(*   cpu            what CPUID and the APIC base register say              *)
(* A pointer is the thing it points to, or NULL.  A checksum is a Boolean: *)
(* ok, or for an RSDP ok20 (first 20 bytes) and okLength (Length bytes).   *)
(* A root table (RSDT, XSDT) is [ok, entries].  Tables have sig and ok;    *)
(* a FADT also has revision, i8042, no_vga; a MADT has pcat, length and    *)
(* at, the entry header read at each offset from its Entries.  Offsets and *)
(* lengths of a MADT count units; its header is MadtHeader of them long.   *)
(***************************************************************************)
EXTENDS Integers, Sequences, FiniteSets

CONSTANTS
  Firmware,     (* the firmwares to boot on, records as above               *)
  NULL,         (* the null pointer                                         *)
  MadtHeader,   (* what the header of a MADT takes, 44 bytes                *)
  IntMod        (* numCores, an int that only grows, is counted modulo this *)

ASSUME AcpiAssumption == MadtHeader \in Nat /\ IntMod \in Nat \ {0}

VARIABLES
  fw,     (* the firmware's tables; never written                          *)
  pc,     (* where acpi_init is                                            *)
  i,      (* the counter of the loop it is in, from 1                      *)
  ptr,    (* where the walk over the MADT is: offset from Entries          *)
  info,   (* struct ACPIInfo acpi_info                                     *)
  listed  (* the tables printed so far                                     *)

vars == <<fw, pc, i, ptr, info, listed>>

Init ==
  /\ fw \in Firmware
  /\ pc = "find_rsdp" /\ i = 1 /\ ptr = 0 /\ listed = <<>>
  /\ info = [rsdp |-> NULL, rsdt |-> NULL, xsdt |-> NULL,
             fadt |-> NULL, madt |-> NULL,
             has_apic |-> FALSE, apic_enabled |-> FALSE, has_vga |-> FALSE,
             has_8259 |-> FALSE, has_i8042 |-> FALSE,
             numCores |-> 0, numEntries |-> 0]

(* A plausible bug: a loop that starts before its first entry. *)
MutGoTo(place) == pc' = place /\ i' = 0 /\ UNCHANGED <<fw, ptr, listed>>

(* On to the next statement, whose loop counter starts over. *)
GoTo(place) == pc' = place /\ i' = 1 /\ UNCHANGED <<fw, ptr, listed>>

(* An access through a NULL pointer: what happens from here on is not      *)
(* determined by the source.                                               *)
Wild == GoTo("wild") /\ UNCHANGED info

-----------------------------------------------------------------------------
(* find_rsdp. *)

RsdpValid(r) == IF r.revision >= 2 THEN r.okLength ELSE r.ok20

(* One of the two GUIDs, whichever. *)
IsRsdp(entry) == entry.guid \in {"acpi10", "acpi20"}

Here == i <= Len(fw.config)

RsdpFound ==
  /\ pc = "find_rsdp" /\ fw.system_table /\ Here
  /\ IsRsdp(fw.config[i]) /\ RsdpValid(fw.config[i].rsdp)
  /\ info' = [info EXCEPT !.rsdp = fw.config[i].rsdp]
  /\ GoTo("roots")

RsdpSkipped ==
  /\ pc = "find_rsdp" /\ fw.system_table /\ Here
  /\ ~(IsRsdp(fw.config[i]) /\ RsdpValid(fw.config[i].rsdp))
  /\ i' = i + 1
  /\ UNCHANGED <<fw, pc, ptr, info, listed>>

(* find_rsdp returns NULL, which acpi_init dereferences (acpi.c:87). *)
RsdpMissing ==
  /\ pc = "find_rsdp" /\ ~(fw.system_table /\ Here)
  /\ Wild

SetRoots ==
  /\ pc = "roots"
  /\ info' = [info EXCEPT
       !.rsdt = info.rsdp.rsdt,
       !.xsdt = IF info.rsdp.revision > 1 THEN info.rsdp.xsdt ELSE NULL]
  /\ GoTo("find_fadt")

-----------------------------------------------------------------------------
(* find_acpi_table, called for the FADT and then for the MADT. *)

(* A plausible bug: the RSDT is searched whatever the revision. *)
MutRoot(r) == r.rsdt

(* The root table find_acpi_table searches: no second try with the other. *)
Root(r) == IF r.revision >= 2 /\ r.xsdt # NULL THEN r.xsdt ELSE r.rsdt

(* What there is to search: nothing in a missing or damaged root table. *)
Candidates(root) ==
  IF root = NULL THEN <<>> ELSE IF root.ok THEN root.entries ELSE <<>>

(* A plausible bug: a table is taken without a look at its checksum. *)
MutMatches(t, sig) == t.sig = sig

Matches(t, sig) == t.sig = sig /\ t.ok

(* One iteration of the loop over the entries of the root table, or its    *)
(* end; the result goes to a field of acpi_info.                           *)
FindTable(sig, field, next) ==
  LET entries == Candidates(Root(info.rsdp))
  IN  \/ /\ i <= Len(entries)
         /\ Matches(entries[i], sig)
         /\ info' = [info EXCEPT ![field] = entries[i]] /\ GoTo(next)
      \/ /\ i <= Len(entries)
         /\ ~Matches(entries[i], sig)
         /\ i' = i + 1
         /\ UNCHANGED <<fw, pc, ptr, info, listed>>
      \/ /\ i > Len(entries)
         /\ info' = [info EXCEPT ![field] = NULL] /\ GoTo(next)

FindFadt == pc = "find_fadt" /\ FindTable("FACP", "fadt", "find_madt")

FindMadt == pc = "find_madt" /\ FindTable("APIC", "madt", "cpuid")

-----------------------------------------------------------------------------
(* The rest of acpi_init. *)

ReadCpu ==
  /\ pc = "cpuid"
  /\ info' = [info EXCEPT
       !.has_apic = fw.cpu.cpuid /\ fw.cpu.apic,
       !.apic_enabled = fw.cpu.cpuid /\ fw.cpu.apic /\ fw.cpu.enabled]
  /\ GoTo("boot_flags")

ReadBootFlags ==
  /\ pc = "boot_flags"
  /\ \/ info.fadt = NULL /\ Wild
     \/ /\ info.fadt # NULL
        /\ info' = [info EXCEPT !.has_i8042 = info.fadt.i8042,
                                !.has_vga = ~info.fadt.no_vga]
        /\ GoTo("madt_flags")

ReadMadtFlags ==
  /\ pc = "madt_flags"
  /\ \/ info.madt = NULL /\ Wild
     \/ /\ info.madt # NULL
        /\ info' = [info EXCEPT !.has_8259 = info.madt.pcat]
        /\ GoTo("walk")

(* A plausible bug: every local APIC counts. *)
MutIsCore(e) == e.type = 0

IsCore(e) == e.type = 0 /\ e.enabled

(* A plausible bug: the last entry is left out. *)
MutWalkEnd(madt) == madt.length - MadtHeader - 1

(* Where the walk stops, as an offset from Entries (acpi.c:114): the header *)
(* counts although Entries lies behind it.                                  *)
WalkEnd(madt) == madt.length

(* A plausible bug: the length of an entry taken for its offset. *)
MutWalkEntry ==
  LET e == info.madt.at[ptr]
  IN  /\ pc = "walk" /\ ptr < WalkEnd(info.madt)
      /\ info' = IF IsCore(e) THEN [info EXCEPT !.numCores = (@ + 1) % IntMod]
                             ELSE info
      /\ ptr' = e.length
      /\ UNCHANGED <<fw, pc, i, listed>>

WalkEntry ==
  LET e == info.madt.at[ptr]
  IN  /\ pc = "walk" /\ ptr < WalkEnd(info.madt)
      /\ info' = IF IsCore(e) THEN [info EXCEPT !.numCores = (@ + 1) % IntMod]
                             ELSE info
      /\ ptr' = ptr + e.length
      /\ UNCHANGED <<fw, pc, i, listed>>

(* A plausible bug: the test of acpi.c:127 and that of acpi.c:88 apart. *)
MutListsRsdt(r) == r.revision <= 2

ListsRsdt(r) == r.revision <= 1

ListedRoot == IF ListsRsdt(info.rsdp) THEN info.rsdt ELSE info.xsdt

WalkOver ==
  /\ pc = "walk" /\ ~(ptr < WalkEnd(info.madt))
  /\ \/ ListedRoot = NULL /\ Wild
     \/ /\ ListedRoot # NULL
        /\ info' = [info EXCEPT !.numEntries = Len(ListedRoot.entries)]
        /\ GoTo("list")

ListTable ==
  /\ pc = "list" /\ i <= info.numEntries
  /\ listed' = Append(listed, ListedRoot.entries[i])
  /\ i' = i + 1
  /\ UNCHANGED <<fw, pc, ptr, info>>

(* The status lines, and acpi_init returns. *)
Report ==
  /\ pc = "list" /\ i > info.numEntries
  /\ GoTo("done") /\ UNCHANGED info

Next ==
  \/ RsdpFound \/ RsdpSkipped \/ RsdpMissing \/ SetRoots
  \/ FindFadt \/ FindMadt \/ ReadCpu \/ ReadBootFlags \/ ReadMadtFlags
  \/ WalkEntry \/ WalkOver \/ ListTable \/ Report

Spec == Init /\ [][Next]_vars

(* The boot processor runs nothing else. *)
FairSpec == Spec /\ WF_vars(Next)

-----------------------------------------------------------------------------
(* What the tables say, without the code. *)

IsFirst(seq, k, Ok(_)) == Ok(seq[k]) /\ \A j \in 1 .. (k - 1) : ~Ok(seq[j])

(* The first element of seq that is Ok, or NULL. *)
FirstOf(seq, Ok(_)) ==
  IF \E k \in DOMAIN seq : Ok(seq[k])
    THEN seq[CHOOSE k \in DOMAIN seq : IsFirst(seq, k, Ok)]
    ELSE NULL

(* The first RSDP of f whose checksum is right. *)
BootRsdp(f) ==
  LET Ok(e) == /\ e.guid = "acpi10" \/ e.guid = "acpi20"
               /\ IF e.rsdp.revision < 2 THEN e.rsdp.ok20 ELSE e.rsdp.okLength
      e == FirstOf(IF f.system_table THEN f.config ELSE <<>>, Ok)
  IN  IF e = NULL THEN NULL ELSE e.rsdp

(* The first table with that signature, and a right checksum, in a list. *)
TableIn(entries, sig) ==
  LET Ok(t) == t.sig = sig /\ t.ok IN FirstOf(entries, Ok)

(* The offsets at which a walk from offset 0 that ends at limit reads an   *)
(* entry header: the fewest that hold 0 and each one's next.               *)
Visited(madt, limit) ==
  LET offsets == 0 .. (limit - 1)
      Closed(S) == \A o \in S : o + madt.at[o].length \in offsets
                                  => o + madt.at[o].length \in S
  IN  {o \in offsets : \A S \in SUBSET offsets : 0 \in S /\ Closed(S) => o \in S}

WalkEnds(madt) ==
  \A o \in Visited(madt, madt.length) : madt.at[o].length # 0

(* The enabled local APICs among the entries at the given offsets. *)
EnabledAt(madt, offsets) ==
  Cardinality({o \in offsets : madt.at[o].type = 0 /\ madt.at[o].enabled})

(* The firmware has all acpi_init relies on: a valid RSDP, with an XSDT if *)
(* it is of revision 2, a root table with a valid FADT and a valid MADT,   *)
(* and no entry of length 0 where the walk over the MADT comes by.         *)
Complete(f) ==
  LET r == BootRsdp(f)
      root == IF r.revision < 2 THEN r.rsdt ELSE r.xsdt
      madt == TableIn(root.entries, "APIC")
  IN  IF r = NULL THEN FALSE ELSE
      IF root = NULL THEN FALSE ELSE
      IF ~root.ok \/ TableIn(root.entries, "FACP") = NULL \/ madt = NULL
        THEN FALSE ELSE WalkEnds(madt)

-----------------------------------------------------------------------------
(* Properties. *)

TypeOK ==
  /\ pc \in {"find_rsdp", "roots", "find_fadt", "find_madt", "cpuid",
             "boot_flags", "madt_flags", "walk", "list", "done", "wild"}
  /\ i \in Nat \ {0} /\ ptr \in Nat
  /\ info.numCores \in 0 .. (IntMod - 1) /\ info.numEntries \in Nat

(* Whenever acpi_init has chosen a table it is the first valid one: of the *)
(* configuration table, or of the root table that RSDP names.              *)
ChosenAreFirst ==
  /\ info.rsdp # NULL => info.rsdp = BootRsdp(fw)
  /\ info.fadt # NULL => info.fadt = TableIn(Root(info.rsdp).entries, "FACP")
  /\ info.madt # NULL => info.madt = TableIn(Root(info.rsdp).entries, "APIC")

(* acpi_init comes to its end on no other firmware than a complete one.    *)
DoneOnlyIfComplete == pc = "done" => Complete(fw)

(* On a complete firmware acpi_init never goes through a NULL pointer.     *)
CompleteNeverWild == pc = "wild" => ~Complete(fw)

(* How acpi_init ends tells whether the firmware has all that it relies    *)
(* on.  None of the pointers of acpi.c:87, 105, 110 and 136 is checked, so *)
(* that all of it has to follow from what the searches have found: on any  *)
(* other firmware it goes through a NULL pointer, or walks on the spot     *)
(* (acpi.c:123), which is no end.                                          *)
EndTellsComplete == DoneOnlyIfComplete /\ CompleteNeverWild

(* The places in the order acpi_init comes by them; it leaves from         *)
(* anywhere when it goes wild.                                             *)
Places == <<"find_rsdp", "roots", "find_fadt", "find_madt", "cpuid",
            "boot_flags", "madt_flags", "walk", "list", "done", "wild">>

Later(there, here) ==
  \E m, n \in DOMAIN Places : m < n /\ here = Places[m] /\ there = Places[n]

(* What the loop at pc has still before it at most. *)
Left ==
  CASE pc = "find_rsdp" -> Len(fw.config) + 1 - i
    [] pc \in {"find_fadt", "find_madt"} ->
         Len(Candidates(Root(info.rsdp))) + 1 - i
    [] pc = "walk" -> IF ptr < info.madt.length THEN info.madt.length - ptr ELSE 0
    [] pc = "list" -> info.numEntries + 1 - i
    [] OTHER -> 0

(* Every step goes on to a later statement, or brings the loop it is in    *)
(* nearer to its end.  Only the walk may not, over a MADT with an entry of *)
(* length 0 in its way (acpi.c:123): any other firmware acpi_init is       *)
(* through with after finitely many steps.                                 *)
LoopsRunDown ==
  [][\/ Later(pc', pc)
     \/ pc' = pc /\ Left' \in 0 .. (Left - 1)
     \/ pc = "walk" /\ ~WalkEnds(info.madt)]_vars

(* On a complete firmware acpi_init ends.                                  *)
CompleteIsDone == Complete(fw) ~> pc = "done"

(* The walk counts each enabled local APIC it comes by exactly once, those *)
(* it takes the memory behind the MADT for among them (acpi.c:114).        *)
CoresCounted ==
  pc \in {"walk", "list", "done"} /\ WalkEnds(info.madt) =>
    info.numCores =
      EnabledAt(info.madt,
                {o \in Visited(info.madt, info.madt.length) : o < ptr})

(* The FADT and the MADT acpi_init has used are among the tables it lists: *)
(* find_acpi_table and the listing, which decide on their own between RSDT *)
(* and XSDT (acpi.c:55, 88 and 127), agree whenever both come to an end.   *)
UsedAreListed ==
  pc = "done" => \A t \in {info.fadt, info.madt} :
                   \E k \in DOMAIN listed : listed[k] = t

-----------------------------------------------------------------------------
(* What the repository says of this code and the code does not do. *)

(* README.md counts it as a bug to fix that find_rsdp defaults to ACPI     *)
(* 1.0: given a valid RSDP of either kind it ought to take the 2.0 one.    *)
PrefersAcpi20 ==
  info.rsdp # NULL =>
    \A k \in DOMAIN fw.config :
      fw.config[k].guid = "acpi20" /\ fw.config[k].rsdp.okLength
        /\ fw.config[k].rsdp.revision >= 2
      => info.rsdp.revision >= 2

(* acpi.c:162 prints numCores as the number of cores detected: those are   *)
(* the enabled local APICs of the MADT, not of what lies behind it.        *)
CoresAreOfMadt ==
  pc = "done" =>
    info.numCores =
      EnabledAt(info.madt,
                Visited(info.madt, info.madt.length - MadtHeader))
=============================================================================
