------------------------------- MODULE MCAcpi -------------------------------
(***************************************************************************)
(* Firmwares for Acpi.  Lengths and offsets of a MADT count units of which *)
(* its header takes two and an entry one or two.                           *)
(***************************************************************************)
EXTENDS Acpi

Header(type, length, enabled) ==
  [type |-> type, length |-> length, enabled |-> enabled]

Madt(ok, at) ==
  [sig |-> "APIC", ok |-> ok, pcat |-> TRUE,
   length |-> Cardinality(DOMAIN at), at |-> at]

Fadt(ok, revision) ==
  [sig |-> "FACP", ok |-> ok, revision |-> revision,
   i8042 |-> TRUE, no_vga |-> (revision = 1)]

Other == [sig |-> "HPET", ok |-> TRUE]

(* One local APIC, and nothing that looks like one behind it. *)
PlainMadt(ok) ==
  Madt(ok, [o \in 0 .. 2 |-> Header(IF o = 0 THEN 0 ELSE 1, 1, TRUE)])

RootTables ==
  LET lists == {<<Fadt(TRUE, 3), PlainMadt(TRUE)>>,
                <<Fadt(FALSE, 3), PlainMadt(TRUE), Fadt(TRUE, 1), Other>>,
                <<PlainMadt(FALSE), Fadt(TRUE, 1)>>}
  IN  {[ok |-> TRUE, entries |-> l] : l \in lists} \cup
      {[ok |-> FALSE, entries |-> l] : l \in {<<Fadt(TRUE, 3), PlainMadt(TRUE)>>}}

Rsdps ==
  [revision : {0, 2}, ok20 : BOOLEAN, okLength : BOOLEAN,
   rsdt : RootTables \cup {NULL}, xsdt : RootTables \cup {NULL}]

Entries(rsdps) == [guid : {"acpi10", "acpi20", "other"}, rsdp : rsdps]

(* A few entries to come second in the configuration table. *)
SecondEntries ==
  Entries({r \in Rsdps : /\ r.ok20 /\ r.okLength
                         /\ r.rsdt # NULL /\ r.xsdt # NULL
                         /\ r.rsdt = r.xsdt
                         /\ Len(r.rsdt.entries) = 4})

Cpu(cpuid, apic, enabled) ==
  [cpuid |-> cpuid, apic |-> apic, enabled |-> enabled]

System(config, cpu) ==
  [system_table |-> TRUE, config |-> config, cpu |-> cpu]

(* Every combination of root tables, checksums and revisions. *)
MCTables ==
  {System(<<e>>, Cpu(TRUE, TRUE, TRUE)) : e \in Entries(Rsdps)} \cup
  {System(<<e, d>>, Cpu(TRUE, TRUE, FALSE)) :
     e \in Entries(Rsdps), d \in SecondEntries} \cup
  {System(<<>>, Cpu(FALSE, TRUE, TRUE)),
   [System(<<>>, Cpu(TRUE, FALSE, TRUE)) EXCEPT !.system_table = FALSE]}

(* A sound firmware of ACPI 2.0 but for its MADT. *)
WithMadt(madt) ==
  LET root == [ok |-> TRUE, entries |-> <<Fadt(TRUE, 3), madt>>]
      rsdp == [revision |-> 2, ok20 |-> TRUE, okLength |-> TRUE,
               rsdt |-> root, xsdt |-> root]
  IN  System(<<[guid |-> "acpi20", rsdp |-> rsdp]>>, Cpu(TRUE, TRUE, TRUE))

Headers ==
  {Header(0, l, e) : l \in 0 .. 2, e \in BOOLEAN} \cup
  {Header(1, l, TRUE) : l \in 0 .. 2}

(* Every MADT of up to two units of entries, sound or not, and every two   *)
(* units behind it.                                                        *)
MCMadts ==
  {WithMadt(Madt(TRUE, [o \in 0 .. (l - 1) |-> at[o]])) :
     at \in [0 .. (MadtHeader + 1) -> Headers], l \in MadtHeader .. (MadtHeader + 2)}

MCFirmware == MCTables \cup MCMadts
=============================================================================
