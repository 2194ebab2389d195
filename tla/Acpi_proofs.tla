---------------------------- MODULE Acpi_proofs ----------------------------
(***************************************************************************)
(* Proofs about Acpi, for every firmware whose tables are tables: the      *)
(* tables acpi_init uses are the first valid ones, those it lists are      *)
(* those it uses, it counts the cores of the MADT as it walks over it, and *)
(* it returns only where it has found all it relies on.                    *)
(***************************************************************************)
EXTENDS Acpi, FiniteSetTheorems, TLAPS

(* An RSDP is there, and the root tables it names, where it names any,     *)
(* list tables.                                                            *)
Names(r, Tables) ==
  /\ r # NULL /\ r.revision \in Nat
  /\ r.rsdt # NULL => r.rsdt.entries \in Seq(Tables)
  /\ r.xsdt # NULL => r.xsdt.entries \in Seq(Tables)

WellFormed(Tables) ==
  \A f \in Firmware :
    /\ Len(f.config) \in Nat /\ DOMAIN f.config = 1 .. Len(f.config)
    /\ \A j \in 1 .. Len(f.config) :
         f.config[j] # NULL /\ Names(f.config[j].rsdp, Tables)

-----------------------------------------------------------------------------
(* Searches: what a loop that has passed nothing valid stops at is the     *)
(* first valid one.                                                        *)

LEMMA FirstTable ==
  ASSUME NEW Tables, NEW entries \in Seq(Tables), NEW sig,
         NEW j \in 1 .. Len(entries), Matches(entries[j], sig),
         \A h \in 1 .. (j - 1) : ~Matches(entries[h], sig)
  PROVE  TableIn(entries, sig) = entries[j]
<1>1. DOMAIN entries = 1 .. Len(entries) /\ Len(entries) \in Nat
  OBVIOUS
<1>2. \A h \in DOMAIN entries :
        (Matches(entries[h], sig) /\ \A l \in 1 .. (h - 1) : ~Matches(entries[l], sig))
          <=> h = j
  BY <1>1
<1>3. (CHOOSE h \in DOMAIN entries :
         Matches(entries[h], sig) /\ \A l \in 1 .. (h - 1) : ~Matches(entries[l], sig)) = j
  BY <1>1, <1>2
<1>. QED
  BY <1>1, <1>3 DEF TableIn, FirstOf, IsFirst, Matches

(* What find_rsdp looks for. *)
Acceptable(entry) == IsRsdp(entry) /\ RsdpValid(entry.rsdp)

LEMMA FirstRsdp ==
  ASSUME NEW Tables, WellFormed(Tables), NEW f \in Firmware, f.system_table,
         NEW j \in 1 .. Len(f.config), Acceptable(f.config[j]),
         \A h \in 1 .. (j - 1) : ~Acceptable(f.config[h])
  PROVE  BootRsdp(f) = f.config[j].rsdp
<1> DEFINE Ok(e) == /\ e.guid = "acpi10" \/ e.guid = "acpi20"
                    /\ IF e.rsdp.revision < 2 THEN e.rsdp.ok20 ELSE e.rsdp.okLength
<1>1. /\ DOMAIN f.config = 1 .. Len(f.config) /\ Len(f.config) \in Nat
      /\ f.config[j] # NULL
      /\ \A h \in 1 .. Len(f.config) : f.config[h].rsdp.revision \in Nat
  BY DEF WellFormed, Names
<1>2. \A h \in 1 .. Len(f.config) : Ok(f.config[h]) <=> Acceptable(f.config[h])
  BY <1>1 DEF Acceptable, IsRsdp, RsdpValid
<1> HIDE DEF Ok
<1>3. \A h \in DOMAIN f.config :
        (Ok(f.config[h]) /\ \A l \in 1 .. (h - 1) : ~Ok(f.config[l])) <=> h = j
  BY <1>1, <1>2
<1>4. (CHOOSE h \in DOMAIN f.config :
         Ok(f.config[h]) /\ \A l \in 1 .. (h - 1) : ~Ok(f.config[l])) = j
  BY <1>1, <1>3
<1>5. Ok(f.config[j])
  BY <1>2
<1>. QED
  BY <1>1, <1>4, <1>5 DEF BootRsdp, FirstOf, IsFirst, Ok

-----------------------------------------------------------------------------
(* The invariant. *)

Fields == {"rsdp", "rsdt", "xsdt", "fadt", "madt", "has_apic", "apic_enabled",
           "has_vga", "has_8259", "has_i8042", "numCores", "numEntries"}

Tail3 == {"walk", "list", "done"}
HasFadt == {"madt_flags"} \cup Tail3
PastSearch == {"cpuid", "boot_flags"} \cup HasFadt
PastRoots == {"find_fadt", "find_madt"} \cup PastSearch
PastRsdp == {"roots"} \cup PastRoots

Searched == Candidates(Root(info.rsdp))

(* t is the table with that signature in the root table that is searched.  *)
Chosen(t, sig) ==
  /\ t = TableIn(Root(info.rsdp).entries, sig) /\ Matches(t, sig)
  /\ \E j \in 1 .. Len(Searched) : Searched[j] = t

Passed(sig) == \A h \in 1 .. (i - 1) : h <= Len(Searched) => ~Matches(Searched[h], sig)

(* The fields of acpi_info before and after find_rsdp has set the first.   *)
RsdpOK(Tables) ==
  /\ pc = "find_rsdp" =>
       /\ info.rsdp = NULL
       /\ \A h \in 1 .. (i - 1) : ~Acceptable(fw.config[h])
  /\ info.rsdp # NULL => info.rsdp = BootRsdp(fw)
  /\ pc \in PastRsdp => Names(info.rsdp, Tables)
  /\ pc \in PastRoots =>
       /\ info.rsdt = info.rsdp.rsdt
       /\ info.xsdt = IF info.rsdp.revision > 1 THEN info.rsdp.xsdt ELSE NULL

TablesOK ==
  /\ pc \in {"find_rsdp", "roots", "find_fadt"} => info.fadt = NULL
  /\ pc \in {"find_rsdp", "roots", "find_fadt", "find_madt"} => info.madt = NULL
  /\ info.fadt # NULL => Chosen(info.fadt, "FACP")
  /\ info.madt # NULL => Chosen(info.madt, "APIC")
  /\ pc = "find_fadt" => Passed("FACP")
  /\ pc = "find_madt" => Passed("APIC")
  /\ pc \in HasFadt => info.fadt # NULL
  /\ pc \in Tail3 => info.madt # NULL

(* The listing has come to its i-th table. *)
ListOK(Tables) ==
  /\ pc \notin {"list", "done"} => listed = <<>>
  /\ pc \in {"list", "done"} =>
       /\ ListedRoot # NULL /\ info.numEntries = Len(ListedRoot.entries)
       /\ listed \in Seq(Tables)
       /\ \A j \in 1 .. Len(listed) : listed[j] = ListedRoot.entries[j]
  /\ pc = "list" => Len(listed) = i - 1 /\ i - 1 <= info.numEntries
  /\ pc = "done" => Len(listed) = info.numEntries

IInv(Tables) ==
  /\ fw \in Firmware /\ DOMAIN info = Fields /\ i \in Nat \ {0}
  /\ pc \in PastRsdp \cup {"find_rsdp", "wild"}
  /\ RsdpOK(Tables) /\ TablesOK /\ ListOK(Tables)

(* The steps that leave the fields the invariant is about alone, and lead  *)
(* neither back nor into a loop.                                           *)
LEMMA KeptFields ==
  ASSUME NEW Tables, IInv(Tables), UNCHANGED <<fw, listed>>,
         pc \notin {"list", "done"},
         DOMAIN info' = Fields, i' \in Nat \ {0},
         info'.rsdp = info.rsdp, info'.rsdt = info.rsdt, info'.xsdt = info.xsdt,
         info'.fadt = info.fadt, info'.madt = info.madt,
         pc' \in {"boot_flags", "madt_flags", "walk", "wild"},
         pc' # "wild" => pc \in PastSearch,
         pc' = "madt_flags" => info.fadt # NULL,
         pc' = "walk" => info.madt # NULL /\ pc \in {"madt_flags", "walk"}
  PROVE  IInv(Tables)'
<1>1. RsdpOK(Tables)'
  BY DEF IInv, RsdpOK, PastRsdp, PastRoots, PastSearch, HasFadt, Tail3
<1>2. TablesOK'
  <2>1. /\ info'.fadt # NULL => Chosen(info.fadt, "FACP")'
        /\ info'.madt # NULL => Chosen(info.madt, "APIC")'
    BY DEF IInv, TablesOK, Chosen, Searched
  <2>2. /\ pc' \in HasFadt => info'.fadt # NULL
        /\ pc' \in Tail3 => info'.madt # NULL
    BY DEF IInv, TablesOK, HasFadt, Tail3
  <2>. QED
    BY <2>1, <2>2 DEF TablesOK
<1>3. ListOK(Tables)'
  BY DEF IInv, ListOK
<1>. QED
  BY <1>1, <1>2, <1>3
  DEF IInv, PastRsdp, PastRoots, PastSearch, HasFadt, Tail3

-----------------------------------------------------------------------------
(* It holds from the start, *)

LEMMA InitIInv ==
  ASSUME NEW Tables, Init
  PROVE  IInv(Tables)
<1>1. /\ fw \in Firmware /\ pc = "find_rsdp" /\ i = 1 /\ listed = <<>>
      /\ info.rsdp = NULL /\ info.fadt = NULL /\ info.madt = NULL
      /\ DOMAIN info = Fields
  BY DEF Init, Fields
<1>2. RsdpOK(Tables)
  BY <1>1 DEF RsdpOK, PastRsdp, PastRoots, PastSearch, HasFadt, Tail3
<1>3. TablesOK
  BY <1>1 DEF TablesOK, Passed, HasFadt, Tail3
<1>4. ListOK(Tables)
  BY <1>1 DEF ListOK
<1>. QED
  BY <1>1, <1>2, <1>3, <1>4 DEF IInv

-----------------------------------------------------------------------------
(* through find_rsdp, *)

LEMMA RsdpFoundIInv ==
  ASSUME NEW Tables, WellFormed(Tables), IInv(Tables), RsdpFound
  PROVE  IInv(Tables)'
<1>1. /\ fw \in Firmware /\ fw.system_table /\ i \in 1 .. Len(fw.config)
      /\ Acceptable(fw.config[i])
      /\ \A h \in 1 .. (i - 1) : ~Acceptable(fw.config[h])
  BY DEF RsdpFound, Here, IInv, RsdpOK, Acceptable, WellFormed
<1>2. BootRsdp(fw) = fw.config[i].rsdp
  BY <1>1, FirstRsdp
<1>3. Names(fw.config[i].rsdp, Tables)
  BY <1>1 DEF WellFormed
<1>4. /\ pc = "find_rsdp" /\ pc' = "roots" /\ i' = 1 /\ UNCHANGED <<fw, listed>>
      /\ DOMAIN info' = Fields /\ info'.rsdp = fw.config[i].rsdp
      /\ info'.fadt = NULL /\ info'.madt = NULL
  BY DEF RsdpFound, GoTo, IInv, TablesOK, Fields
<1>5. RsdpOK(Tables)'
  BY <1>2, <1>3, <1>4 DEF RsdpOK, PastRoots, PastSearch, HasFadt, Tail3
<1>6. TablesOK'
  BY <1>4 DEF TablesOK, HasFadt, Tail3
<1>7. ListOK(Tables)'
  BY <1>4 DEF ListOK, IInv
<1>. QED
  BY <1>1, <1>4, <1>5, <1>6, <1>7 DEF IInv, PastRsdp

LEMMA RsdpSkippedIInv ==
  ASSUME NEW Tables, IInv(Tables), RsdpSkipped
  PROVE  IInv(Tables)'
<1>1. /\ pc = "find_rsdp" /\ i' = i + 1 /\ i \in Nat \ {0}
      /\ UNCHANGED <<fw, pc, info, listed>>
      /\ ~Acceptable(fw.config[i])
  BY DEF RsdpSkipped, IInv, Acceptable
<1>2. RsdpOK(Tables)'
  <2>1. \A h \in 1 .. i : ~Acceptable(fw.config[h])
    BY <1>1 DEF IInv, RsdpOK
  <2>. QED
    BY <1>1, <2>1 DEF IInv, RsdpOK, PastRsdp, PastRoots, PastSearch, HasFadt, Tail3
<1>3. TablesOK'
  BY <1>1 DEF IInv, TablesOK, Chosen, Searched, HasFadt, Tail3
<1>4. ListOK(Tables)'
  BY <1>1 DEF IInv, ListOK
<1>. QED
  BY <1>1, <1>2, <1>3, <1>4 DEF IInv

(* and through whatever a NULL pointer does. *)
LEMMA WildIInv ==
  ASSUME NEW Tables, IInv(Tables), Wild, pc \notin {"list", "done"}
  PROVE  IInv(Tables)'
<1>1. pc' = "wild" /\ i' = 1 /\ UNCHANGED <<fw, info, listed>>
  BY DEF Wild, GoTo
<1>. QED
  BY <1>1, KeptFields DEF IInv

LEMMA SetRootsIInv ==
  ASSUME NEW Tables, IInv(Tables), SetRoots
  PROVE  IInv(Tables)'
<1>1. /\ pc = "roots" /\ pc' = "find_fadt" /\ i' = 1 /\ UNCHANGED <<fw, listed>>
      /\ DOMAIN info' = Fields
      /\ info'.rsdp = info.rsdp /\ info'.rsdt = info.rsdp.rsdt
      /\ info'.xsdt = IF info.rsdp.revision > 1 THEN info.rsdp.xsdt ELSE NULL
      /\ info'.fadt = NULL /\ info'.madt = NULL
  BY DEF SetRoots, GoTo, IInv, TablesOK, Fields
<1>2. RsdpOK(Tables)'
  BY <1>1 DEF IInv, RsdpOK, PastRsdp, PastRoots, PastSearch, HasFadt, Tail3
<1>3. TablesOK'
  BY <1>1 DEF TablesOK, Passed, HasFadt, Tail3
<1>4. ListOK(Tables)'
  BY <1>1 DEF IInv, ListOK
<1>. QED
  BY <1>1, <1>2, <1>3, <1>4 DEF IInv, PastRsdp, PastRoots

-----------------------------------------------------------------------------
(* through find_acpi_table, *)

(* Where there is anything to search it is what the root table lists.      *)
LEMMA SearchedIsRoot ==
  ASSUME NEW Tables, Names(info.rsdp, Tables), NEW j \in 1 .. Len(Searched)
  PROVE  /\ Root(info.rsdp) # NULL
         /\ Searched = Root(info.rsdp).entries
         /\ Searched \in Seq(Tables)
BY DEF Searched, Candidates, Root, Names

LEMMA ChosenWhenMatched ==
  ASSUME NEW Tables, Names(info.rsdp, Tables), NEW sig, Passed(sig),
         i \in 1 .. Len(Searched), Matches(Searched[i], sig)
  PROVE  Chosen(Searched[i], sig)
<1>1. Searched = Root(info.rsdp).entries /\ Searched \in Seq(Tables)
  BY SearchedIsRoot
<1>2. \A h \in 1 .. (i - 1) : ~Matches(Searched[h], sig)
  BY <1>1 DEF Passed
<1>3. TableIn(Searched, sig) = Searched[i]
  BY <1>1, <1>2, FirstTable
<1>. QED
  BY <1>1, <1>3 DEF Chosen

LEMMA FindFadtIInv ==
  ASSUME NEW Tables, IInv(Tables), FindFadt
  PROVE  IInv(Tables)'
<1>1. pc = "find_fadt" /\ Names(info.rsdp, Tables) /\ Passed("FACP") /\ i \in Nat \ {0}
  BY DEF FindFadt, IInv, RsdpOK, TablesOK, PastRsdp, PastRoots
<1>2. CASE /\ i <= Len(Searched) /\ ~Matches(Searched[i], "FACP")
           /\ i' = i + 1 /\ UNCHANGED <<fw, pc, ptr, info, listed>>
  <2>1. Passed("FACP")'
    BY <1>1, <1>2 DEF Passed, Searched
  <2>2. TablesOK'
    BY <1>1, <1>2, <2>1 DEF IInv, TablesOK, Chosen, Searched, HasFadt, Tail3
  <2>3. RsdpOK(Tables)' /\ ListOK(Tables)'
    BY <1>1, <1>2 DEF IInv, RsdpOK, ListOK
  <2>. QED
    BY <1>1, <1>2, <2>2, <2>3 DEF IInv
<1>3. ASSUME NEW t, t # NULL => Chosen(t, "FACP"),
             info' = [info EXCEPT !["fadt"] = t], GoTo("find_madt")
      PROVE  IInv(Tables)'
  <2>1. /\ pc' = "find_madt" /\ i' = 1 /\ UNCHANGED <<fw, listed>>
        /\ DOMAIN info' = Fields /\ info'.fadt = t /\ info'.madt = info.madt
        /\ info'.rsdp = info.rsdp /\ info'.rsdt = info.rsdt /\ info'.xsdt = info.xsdt
    BY <1>3 DEF GoTo, IInv, Fields
  <2>2. /\ info'.fadt # NULL => Chosen(info.fadt, "FACP")'
        /\ info'.madt # NULL => Chosen(info.madt, "APIC")'
    BY <1>3, <2>1 DEF IInv, TablesOK, Chosen, Searched
  <2>3. TablesOK'
    BY <1>1, <2>1, <2>2 DEF IInv, TablesOK, Passed, HasFadt, Tail3
  <2>4. RsdpOK(Tables)'
    BY <1>1, <2>1 DEF IInv, RsdpOK, PastRsdp, PastRoots, PastSearch, HasFadt, Tail3
  <2>5. ListOK(Tables)'
    BY <1>1, <2>1 DEF IInv, ListOK
  <2>. QED
    BY <2>1, <2>3, <2>4, <2>5 DEF IInv, PastRsdp, PastRoots, PastSearch
<1>4. CASE /\ i <= Len(Searched) /\ Matches(Searched[i], "FACP")
           /\ info' = [info EXCEPT !["fadt"] = Searched[i]] /\ GoTo("find_madt")
  <2>1. i \in 1 .. Len(Searched)
    BY <1>1, <1>4
  <2>. QED
    BY <1>1, <1>3, <1>4, <2>1, ChosenWhenMatched
<1>5. CASE info' = [info EXCEPT !["fadt"] = NULL] /\ GoTo("find_madt")
  BY <1>3, <1>5
<1>. QED
  BY <1>2, <1>4, <1>5 DEF FindFadt, FindTable, Searched

LEMMA FindMadtIInv ==
  ASSUME NEW Tables, IInv(Tables), FindMadt
  PROVE  IInv(Tables)'
<1>1. pc = "find_madt" /\ Names(info.rsdp, Tables) /\ Passed("APIC") /\ i \in Nat \ {0}
  BY DEF FindMadt, IInv, RsdpOK, TablesOK, PastRsdp, PastRoots
<1>2. CASE /\ i <= Len(Searched) /\ ~Matches(Searched[i], "APIC")
           /\ i' = i + 1 /\ UNCHANGED <<fw, pc, ptr, info, listed>>
  <2>1. Passed("APIC")'
    BY <1>1, <1>2 DEF Passed, Searched
  <2>2. TablesOK'
    BY <1>1, <1>2, <2>1 DEF IInv, TablesOK, Chosen, Searched, HasFadt, Tail3
  <2>3. RsdpOK(Tables)' /\ ListOK(Tables)'
    BY <1>1, <1>2 DEF IInv, RsdpOK, ListOK
  <2>. QED
    BY <1>1, <1>2, <2>2, <2>3 DEF IInv
<1>3. ASSUME NEW t, t # NULL => Chosen(t, "APIC"),
             info' = [info EXCEPT !["madt"] = t], GoTo("cpuid")
      PROVE  IInv(Tables)'
  <2>1. /\ pc' = "cpuid" /\ i' = 1 /\ UNCHANGED <<fw, listed>>
        /\ DOMAIN info' = Fields /\ info'.madt = t /\ info'.fadt = info.fadt
        /\ info'.rsdp = info.rsdp /\ info'.rsdt = info.rsdt /\ info'.xsdt = info.xsdt
    BY <1>3 DEF GoTo, IInv, Fields
  <2>2. /\ info'.madt # NULL => Chosen(info.madt, "APIC")'
        /\ info'.fadt # NULL => Chosen(info.fadt, "FACP")'
    BY <1>3, <2>1 DEF IInv, TablesOK, Chosen, Searched
  <2>3. TablesOK'
    BY <1>1, <2>1, <2>2 DEF IInv, TablesOK, Passed, HasFadt, Tail3
  <2>4. RsdpOK(Tables)'
    BY <1>1, <2>1 DEF IInv, RsdpOK, PastRsdp, PastRoots, PastSearch, HasFadt, Tail3
  <2>5. ListOK(Tables)'
    BY <1>1, <2>1 DEF IInv, ListOK
  <2>. QED
    BY <2>1, <2>3, <2>4, <2>5 DEF IInv, PastRsdp, PastRoots, PastSearch
<1>4. CASE /\ i <= Len(Searched) /\ Matches(Searched[i], "APIC")
           /\ info' = [info EXCEPT !["madt"] = Searched[i]] /\ GoTo("cpuid")
  <2>1. i \in 1 .. Len(Searched)
    BY <1>1, <1>4
  <2>. QED
    BY <1>1, <1>3, <1>4, <2>1, ChosenWhenMatched
<1>5. CASE info' = [info EXCEPT !["madt"] = NULL] /\ GoTo("cpuid")
  BY <1>3, <1>5
<1>. QED
  BY <1>2, <1>4, <1>5 DEF FindMadt, FindTable, Searched

-----------------------------------------------------------------------------
(* through the reading of CPU, FADT and MADT, *)

LEMMA ReadingIInv ==
  ASSUME NEW Tables, IInv(Tables),
         ReadCpu \/ ReadBootFlags \/ ReadMadtFlags \/ WalkEntry
  PROVE  IInv(Tables)'
<1>1. CASE ReadCpu
  <2>1. /\ pc = "cpuid" /\ pc' = "boot_flags" /\ i' = 1 /\ UNCHANGED <<fw, listed>>
        /\ DOMAIN info' = Fields
        /\ info'.rsdp = info.rsdp /\ info'.rsdt = info.rsdt /\ info'.xsdt = info.xsdt
        /\ info'.fadt = info.fadt /\ info'.madt = info.madt
    BY <1>1 DEF ReadCpu, GoTo, IInv, Fields
  <2>. QED
    BY <2>1, KeptFields DEF PastSearch
<1>2. CASE Wild /\ pc \in {"boot_flags", "madt_flags"}
  BY <1>2, WildIInv
<1>3. CASE ReadBootFlags /\ info.fadt # NULL
  <2>1. /\ pc = "boot_flags" /\ pc' = "madt_flags" /\ i' = 1 /\ UNCHANGED <<fw, listed>>
        /\ DOMAIN info' = Fields
        /\ info'.rsdp = info.rsdp /\ info'.rsdt = info.rsdt /\ info'.xsdt = info.xsdt
        /\ info'.fadt = info.fadt /\ info'.madt = info.madt
    BY <1>3 DEF ReadBootFlags, GoTo, IInv, Fields
  <2>. QED
    BY <1>3, <2>1, KeptFields DEF PastSearch
<1>4. CASE ReadMadtFlags /\ info.madt # NULL
  <2>1. /\ pc = "madt_flags" /\ pc' = "walk" /\ i' = 1 /\ UNCHANGED <<fw, listed>>
        /\ DOMAIN info' = Fields
        /\ info'.rsdp = info.rsdp /\ info'.rsdt = info.rsdt /\ info'.xsdt = info.xsdt
        /\ info'.fadt = info.fadt /\ info'.madt = info.madt
    BY <1>4 DEF ReadMadtFlags, GoTo, IInv, Fields
  <2>. QED
    BY <1>4, <2>1, KeptFields DEF PastSearch, HasFadt
<1>5. CASE WalkEntry
  <2>1. /\ pc = "walk" /\ pc' = "walk" /\ i' = i /\ UNCHANGED <<fw, listed>>
        /\ DOMAIN info' = Fields
        /\ info'.rsdp = info.rsdp /\ info'.rsdt = info.rsdt /\ info'.xsdt = info.xsdt
        /\ info'.fadt = info.fadt /\ info'.madt = info.madt
    BY <1>5 DEF WalkEntry, IInv, Fields
  <2>2. info.madt # NULL /\ i \in Nat \ {0}
    BY <2>1 DEF IInv, TablesOK, Tail3
  <2>. QED
    BY <2>1, <2>2, KeptFields DEF PastSearch, HasFadt, Tail3
<1>. QED
  BY <1>1, <1>2, <1>3, <1>4, <1>5 DEF ReadBootFlags, ReadMadtFlags

-----------------------------------------------------------------------------
(* and through the listing of the tables. *)

(* The listing takes the root table find_acpi_table has searched.          *)
LEMMA ListedRootIsRoot ==
  ASSUME NEW Tables, RsdpOK(Tables), pc \in PastRoots, ListedRoot # NULL
  PROVE  /\ ListedRoot = Root(info.rsdp)
         /\ ListedRoot.entries \in Seq(Tables)
<1>1. /\ Names(info.rsdp, Tables) /\ info.rsdt = info.rsdp.rsdt
      /\ info.xsdt = IF info.rsdp.revision > 1 THEN info.rsdp.xsdt ELSE NULL
  BY DEF RsdpOK, PastRsdp
<1>. QED
  BY <1>1 DEF ListedRoot, ListsRsdt, Root, Names

LEMMA WalkOverIInv ==
  ASSUME NEW Tables, IInv(Tables), WalkOver
  PROVE  IInv(Tables)'
<1>1. CASE Wild /\ pc = "walk"
  BY <1>1, WildIInv
<1>2. ASSUME pc = "walk", ListedRoot # NULL, GoTo("list"),
             info' = [info EXCEPT !.numEntries = Len(ListedRoot.entries)]
      PROVE  IInv(Tables)'
  <2>1. /\ pc' = "list" /\ i' = 1 /\ UNCHANGED <<fw, listed>> /\ listed = <<>>
        /\ DOMAIN info' = Fields
        /\ info'.rsdp = info.rsdp /\ info'.rsdt = info.rsdt /\ info'.xsdt = info.xsdt
        /\ info'.fadt = info.fadt /\ info'.madt = info.madt
        /\ info'.numEntries = Len(ListedRoot.entries)
    BY <1>2 DEF GoTo, IInv, ListOK, Fields
  <2>2. ListedRoot.entries \in Seq(Tables)
    BY <1>2, ListedRootIsRoot DEF IInv, PastRoots, PastSearch, HasFadt, Tail3
  <2>3. ListedRoot' = ListedRoot
    BY <2>1 DEF ListedRoot
  <2>4. ListOK(Tables)'
    BY <1>2, <2>1, <2>2, <2>3 DEF ListOK
  <2>5. RsdpOK(Tables)'
    BY <1>2, <2>1 DEF IInv, RsdpOK, PastRsdp, PastRoots, PastSearch, HasFadt, Tail3
  <2>6. TablesOK'
    BY <1>2, <2>1 DEF IInv, TablesOK, Chosen, Searched, HasFadt, Tail3
  <2>. QED
    BY <2>1, <2>4, <2>5, <2>6
    DEF IInv, PastRsdp, PastRoots, PastSearch, HasFadt, Tail3
<1>. QED
  BY <1>1, <1>2 DEF WalkOver

LEMMA ListTableIInv ==
  ASSUME NEW Tables, IInv(Tables), ListTable
  PROVE  IInv(Tables)'
<1>1. /\ pc = "list" /\ i <= info.numEntries /\ i \in Nat \ {0}
      /\ UNCHANGED <<fw, pc, info>> /\ i' = i + 1
      /\ listed' = Append(listed, ListedRoot.entries[i])
      /\ ListedRoot' = ListedRoot
  BY DEF ListTable, IInv, ListedRoot
<1>2. /\ ListedRoot # NULL /\ info.numEntries = Len(ListedRoot.entries)
      /\ listed \in Seq(Tables) /\ Len(listed) = i - 1
      /\ \A j \in 1 .. Len(listed) : listed[j] = ListedRoot.entries[j]
  BY <1>1 DEF IInv, ListOK
<1>3. ListedRoot.entries \in Seq(Tables)
  BY <1>1, <1>2, ListedRootIsRoot DEF IInv, PastRoots, PastSearch, HasFadt, Tail3
<1> DEFINE entries == ListedRoot.entries
<1>4. /\ Append(listed, entries[i]) \in Seq(Tables)
      /\ Len(Append(listed, entries[i])) = i
      /\ \A j \in 1 .. i : Append(listed, entries[i])[j] = entries[j]
  <2> HIDE DEF entries
  <2>. QED
    BY <1>1, <1>2, <1>3 DEF entries
<1>5. ListOK(Tables)'
  BY <1>1, <1>2, <1>4 DEF ListOK
<1>6. RsdpOK(Tables)'
  BY <1>1 DEF IInv, RsdpOK, PastRsdp, PastRoots, PastSearch, HasFadt, Tail3
<1>7. TablesOK'
  BY <1>1 DEF IInv, TablesOK, Chosen, Searched, HasFadt, Tail3
<1>. QED
  BY <1>1, <1>5, <1>6, <1>7 DEF IInv

LEMMA ReportIInv ==
  ASSUME NEW Tables, IInv(Tables), Report
  PROVE  IInv(Tables)'
<1>1. /\ pc = "list" /\ pc' = "done" /\ i > info.numEntries /\ i' = 1
      /\ i \in Nat \ {0}
      /\ UNCHANGED <<fw, info, listed>> /\ ListedRoot' = ListedRoot
  BY DEF Report, GoTo, IInv, ListedRoot
<1>2. /\ Len(listed) = info.numEntries
      /\ ListedRoot # NULL /\ info.numEntries = Len(ListedRoot.entries)
      /\ listed \in Seq(Tables)
      /\ \A j \in 1 .. Len(listed) : listed[j] = ListedRoot.entries[j]
  <2>1. /\ ListedRoot # NULL /\ info.numEntries = Len(ListedRoot.entries)
        /\ listed \in Seq(Tables) /\ Len(listed) = i - 1 /\ i - 1 <= info.numEntries
        /\ \A j \in 1 .. Len(listed) : listed[j] = ListedRoot.entries[j]
    BY <1>1 DEF IInv, ListOK
  <2>2. info.numEntries \in Nat
    BY <1>1, <2>1, ListedRootIsRoot DEF IInv, PastRoots, PastSearch, HasFadt, Tail3
  <2>. QED
    BY <1>1, <2>1, <2>2
<1>3. ListOK(Tables)'
  BY <1>1, <1>2 DEF ListOK
<1>4. RsdpOK(Tables)'
  BY <1>1 DEF IInv, RsdpOK, PastRsdp, PastRoots, PastSearch, HasFadt, Tail3
<1>5. TablesOK'
  BY <1>1 DEF IInv, TablesOK, Chosen, Searched, HasFadt, Tail3
<1>. QED
  BY <1>1, <1>3, <1>4, <1>5
  DEF IInv, PastRsdp, PastRoots, PastSearch, HasFadt, Tail3

-----------------------------------------------------------------------------
(* The theorems. *)

LEMMA StepIInv ==
  ASSUME NEW Tables, WellFormed(Tables), IInv(Tables), [Next]_vars
  PROVE  IInv(Tables)'
<1>1. CASE RsdpFound
  BY <1>1, RsdpFoundIInv
<1>2. CASE RsdpSkipped
  BY <1>2, RsdpSkippedIInv
<1>3. CASE RsdpMissing
  BY <1>3, WildIInv DEF RsdpMissing
<1>4. CASE SetRoots
  BY <1>4, SetRootsIInv
<1>5. CASE FindFadt
  BY <1>5, FindFadtIInv
<1>6. CASE FindMadt
  BY <1>6, FindMadtIInv
<1>7. CASE ReadCpu \/ ReadBootFlags \/ ReadMadtFlags \/ WalkEntry
  BY <1>7, ReadingIInv
<1>8. CASE WalkOver
  BY <1>8, WalkOverIInv
<1>9. CASE ListTable
  BY <1>9, ListTableIInv
<1>10. CASE Report
  BY <1>10, ReportIInv
<1>11. CASE UNCHANGED vars
  <2>1. UNCHANGED <<fw, pc, i, ptr, info, listed>>
    BY <1>11 DEF vars
  <2>2. RsdpOK(Tables)'
    BY <2>1 DEF IInv, RsdpOK, PastRsdp, PastRoots, PastSearch, HasFadt, Tail3
  <2>3. TablesOK'
    BY <2>1 DEF IInv, TablesOK, Chosen, Passed, Searched, HasFadt, Tail3
  <2>4. ListOK(Tables)'
    BY <2>1 DEF IInv, ListOK, ListedRoot
  <2>. QED
    BY <2>1, <2>2, <2>3, <2>4 DEF IInv
<1>. QED
  BY <1>1, <1>2, <1>3, <1>4, <1>5, <1>6, <1>7, <1>8, <1>9, <1>10, <1>11 DEF Next

LEMMA Invariance ==
  ASSUME NEW Tables, WellFormed(Tables)
  PROVE  Spec => []IInv(Tables)
<1>1. Init => IInv(Tables)
  BY InitIInv
<1>2. IInv(Tables) /\ [Next]_vars => IInv(Tables)'
  BY StepIInv
<1>. QED
  BY <1>1, <1>2, PTL DEF Spec

(* On every firmware whose tables are tables, whatever their number, their *)
(* order, their checksums and their revisions: what acpi_init has chosen   *)
(* is the first valid RSDP, and the first valid FADT and MADT of the root  *)
(* table it names (acpi.c:29, 54).                                         *)
THEOREM FirstTablesAreChosen ==
  ASSUME NEW Tables, WellFormed(Tables)
  PROVE  Spec => []ChosenAreFirst
<1>1. IInv(Tables) => ChosenAreFirst
  BY DEF IInv, RsdpOK, TablesOK, Chosen, ChosenAreFirst
<1>. QED
  BY <1>1, Invariance, PTL

(* The three places that decide between RSDT and XSDT (acpi.c:55, 88, 127) *)
(* agree: the FADT and the MADT in use are among the tables listed.        *)
THEOREM UsedTablesAreListed ==
  ASSUME NEW Tables, WellFormed(Tables)
  PROVE  Spec => []UsedAreListed
<1>1. ASSUME IInv(Tables), pc = "done", NEW t, NEW sig, Chosen(t, sig)
      PROVE  \E k \in DOMAIN listed : listed[k] = t
  <2>1. /\ ListedRoot # NULL /\ listed \in Seq(Tables)
        /\ Len(listed) = Len(ListedRoot.entries)
        /\ \A j \in 1 .. Len(listed) : listed[j] = ListedRoot.entries[j]
    BY <1>1 DEF IInv, ListOK
  <2>2. /\ pc \in PastRoots /\ Names(info.rsdp, Tables)
        /\ ListedRoot = Root(info.rsdp)
    BY <1>1, <2>1, ListedRootIsRoot
    DEF IInv, RsdpOK, PastRsdp, PastRoots, PastSearch, HasFadt, Tail3
  <2>3. PICK j \in 1 .. Len(Searched) : Searched[j] = t
    BY <1>1 DEF Chosen
  <2>4. Searched = ListedRoot.entries
    BY <2>2, SearchedIsRoot
  <2>. QED
    BY <2>1, <2>3, <2>4
<1>2. ASSUME IInv(Tables), pc = "done"
      PROVE  Chosen(info.fadt, "FACP") /\ Chosen(info.madt, "APIC")
  BY <1>2 DEF IInv, TablesOK, HasFadt, Tail3
<1>3. IInv(Tables) => UsedAreListed
  BY <1>1, <1>2 DEF UsedAreListed
<1>. QED
  BY <1>3, Invariance, PTL

-----------------------------------------------------------------------------
(* The walk over the MADT. *)

(* A MADT counts its bytes in a uint32_t, its entries theirs in a uint8_t. *)
MadtOK(madt) ==
  /\ madt.length \in 0 .. (IntMod - 1)
  /\ \A o \in 0 .. (madt.length - 1) : madt.at[o].length \in Nat

(* The tables the root tables list are there.                              *)
Sound(Tables) == \A t \in Tables : t # NULL /\ (t.sig = "APIC" => MadtOK(t))

(* Where the entry at o ends. *)
Behind(madt, o) == o + madt.at[o].length

AllVisited(madt) == Visited(madt, madt.length)

LEMMA VisitedOffsets ==
  ASSUME NEW madt, MadtOK(madt)
  PROVE  /\ AllVisited(madt) \subseteq 0 .. (madt.length - 1)
         /\ madt.length > 0 => 0 \in AllVisited(madt)
         /\ \A o \in AllVisited(madt) :
              Behind(madt, o) < madt.length => Behind(madt, o) \in AllVisited(madt)
<1> DEFINE offsets == 0 .. (madt.length - 1)
           Closed(S) == \A o \in S : o + madt.at[o].length \in offsets
                                     => o + madt.at[o].length \in S
<1>1. AllVisited(madt) =
        {o \in offsets : \A S \in SUBSET offsets : 0 \in S /\ Closed(S) => o \in S}
  BY DEF AllVisited, Visited
<1>2. ASSUME NEW o \in AllVisited(madt), Behind(madt, o) < madt.length
      PROVE  Behind(madt, o) \in AllVisited(madt)
  <2>1. o \in offsets /\ Behind(madt, o) \in offsets
    BY <1>1, <1>2 DEF Behind, MadtOK
  <2>2. ASSUME NEW S \in SUBSET offsets, 0 \in S, Closed(S)
        PROVE  Behind(madt, o) \in S
    <3>1. o \in S
      BY <1>1, <2>2
    <3>. QED
      BY <2>1, <2>2, <3>1 DEF Behind
  <2>. QED
    BY <1>1, <2>1, <2>2
<1>3. madt.length > 0 => 0 \in offsets
  BY DEF MadtOK
<1>. QED
  BY <1>1, <1>2, <1>3

LEMMA VisitedAreFewest ==
  ASSUME NEW madt, MadtOK(madt),
         NEW S \in SUBSET (0 .. (madt.length - 1)), 0 \in S,
         \A o \in S : Behind(madt, o) < madt.length => Behind(madt, o) \in S
  PROVE  AllVisited(madt) \subseteq S
<1>1. \A o \in S : o + madt.at[o].length \in 0 .. (madt.length - 1)
                   => o + madt.at[o].length \in S
  BY DEF Behind, MadtOK
<1>. QED
  BY <1>1 DEF AllVisited, Visited

(* Between an offset the walk comes by and the next there is none.         *)
LEMMA NoneBetween ==
  ASSUME NEW madt, MadtOK(madt), NEW o \in AllVisited(madt),
         \A h \in AllVisited(madt) : h < o => Behind(madt, h) <= o
  PROVE  \A h \in AllVisited(madt) : h <= o \/ Behind(madt, o) <= h
<1> DEFINE S == {h \in AllVisited(madt) : h <= o \/ Behind(madt, o) <= h}
<1>1. /\ madt.length \in Nat /\ S \in SUBSET (0 .. (madt.length - 1))
      /\ AllVisited(madt) \subseteq 0 .. (madt.length - 1)
      /\ \A h \in AllVisited(madt) :
           /\ h \in Nat /\ madt.at[h].length \in Nat /\ Behind(madt, h) \in Nat
           /\ h <= Behind(madt, h)
  BY VisitedOffsets DEF MadtOK, Behind
<1>2. 0 \in S
  BY <1>1, VisitedOffsets
<1>3. ASSUME NEW h \in S, Behind(madt, h) < madt.length
      PROVE  Behind(madt, h) \in S
  <2>1. Behind(madt, h) \in AllVisited(madt)
    BY <1>3, VisitedOffsets
  <2>2. CASE h < o
    BY <1>1, <2>1, <2>2
  <2>3. CASE h = o
    BY <1>1, <2>1, <2>3
  <2>4. CASE Behind(madt, o) <= h
    BY <1>1, <2>1, <2>4
  <2>. QED
    BY <1>1, <2>2, <2>3, <2>4
<1>4. AllVisited(madt) \subseteq S
  <2> HIDE DEF S
  <2>. QED
    BY <1>1, <1>2, <1>3, VisitedAreFewest
<1>. QED
  BY <1>4

(* The enabled local APICs the walk has come by before offset o.           *)
CoresBefore(madt, o) ==
  EnabledAt(madt, {h \in AllVisited(madt) : h < o})

LEMMA CoresAreCountable ==
  ASSUME NEW madt, MadtOK(madt), NEW offsets \in SUBSET AllVisited(madt)
  PROVE  /\ IsFiniteSet({o \in offsets : IsCore(madt.at[o])})
         /\ EnabledAt(madt, offsets) \in Nat
         /\ EnabledAt(madt, offsets) <= madt.length
<1> DEFINE cores == {o \in offsets : IsCore(madt.at[o])}
<1>1. EnabledAt(madt, offsets) = Cardinality(cores)
  BY DEF EnabledAt, IsCore
<1>2. cores \in SUBSET (0 .. (madt.length - 1)) /\ madt.length \in Nat
  BY VisitedOffsets DEF MadtOK
<1> HIDE DEF cores
<1>3. /\ IsFiniteSet(0 .. (madt.length - 1))
      /\ Cardinality(0 .. (madt.length - 1)) = madt.length
  <2>1. 0 \in Int /\ madt.length - 1 \in Int
    BY <1>2
  <2>2. IsFiniteSet(0 .. (madt.length - 1))
    BY <2>1, FS_Interval
  <2>3. Cardinality(0 .. (madt.length - 1)) =
          IF 0 > madt.length - 1 THEN 0 ELSE madt.length - 1 - 0 + 1
    BY <2>1, FS_Interval
  <2>. QED
    BY <1>2, <2>2, <2>3
<1>4. IsFiniteSet(cores) /\ Cardinality(cores) <= Cardinality(0 .. (madt.length - 1))
  BY <1>2, <1>3, FS_Subset
<1>5. Cardinality(cores) \in Nat
  BY <1>4, FS_CardinalityType
<1>. QED
  BY <1>1, <1>3, <1>4, <1>5 DEF cores

(* An iteration of the walk counts the entry it is at, and no other.       *)
LEMMA OneMoreCore ==
  ASSUME NEW madt, MadtOK(madt), NEW o \in AllVisited(madt),
         \A h \in AllVisited(madt) : h < o => Behind(madt, h) <= o,
         madt.at[o].length # 0
  PROVE  /\ CoresBefore(madt, o) \in Nat /\ CoresBefore(madt, o) < IntMod
         /\ CoresBefore(madt, Behind(madt, o)) < IntMod
         /\ CoresBefore(madt, Behind(madt, o)) =
              IF IsCore(madt.at[o]) THEN CoresBefore(madt, o) + 1
                                    ELSE CoresBefore(madt, o)
<1> DEFINE before == {h \in AllVisited(madt) : h < o}
           next == {h \in AllVisited(madt) : h < Behind(madt, o)}
           cores == {h \in before : IsCore(madt.at[h])}
           more == {h \in next : IsCore(madt.at[h])}
<1>1. /\ AllVisited(madt) \subseteq Nat /\ madt.length \in Nat /\ IntMod \in Nat
      /\ madt.length < IntMod /\ madt.at[o].length \in Nat \ {0}
  BY VisitedOffsets, AcpiAssumption DEF MadtOK
<1>2. \A h \in AllVisited(madt) : h < Behind(madt, o) <=> h < o \/ h = o
  <2>1. \A h \in AllVisited(madt) : h <= o \/ Behind(madt, o) <= h
    BY NoneBetween
  <2>. QED
    BY <1>1, <2>1 DEF Behind
<1>3. o \notin cores
  BY <1>1
<1>4. more = IF IsCore(madt.at[o]) THEN cores \cup {o} ELSE cores
  BY <1>2
<1>5. /\ CoresBefore(madt, o) = Cardinality(cores)
      /\ CoresBefore(madt, Behind(madt, o)) = Cardinality(more)
  BY DEF CoresBefore, EnabledAt, IsCore
<1>6. /\ IsFiniteSet(cores) /\ CoresBefore(madt, o) \in Nat
      /\ CoresBefore(madt, o) <= madt.length
  <2>1. before \in SUBSET AllVisited(madt)
    OBVIOUS
  <2> HIDE DEF before
  <2>2. /\ IsFiniteSet({h \in before : IsCore(madt.at[h])})
        /\ EnabledAt(madt, before) \in Nat /\ EnabledAt(madt, before) <= madt.length
    BY <2>1, CoresAreCountable
  <2>. QED
    BY <2>2 DEF CoresBefore, before
<1>7. /\ CoresBefore(madt, Behind(madt, o)) \in Nat
      /\ CoresBefore(madt, Behind(madt, o)) <= madt.length
  <2>1. next \in SUBSET AllVisited(madt)
    OBVIOUS
  <2> HIDE DEF next
  <2>2. EnabledAt(madt, next) \in Nat /\ EnabledAt(madt, next) <= madt.length
    BY <2>1, CoresAreCountable
  <2>. QED
    BY <2>2 DEF CoresBefore, next
<1> HIDE DEF cores, more
<1>8. Cardinality(cores \cup {o}) = Cardinality(cores) + 1
  BY <1>3, <1>6, FS_AddElement
<1>. QED
  BY <1>1, <1>4, <1>5, <1>6, <1>7, <1>8

-----------------------------------------------------------------------------
(* The invariant of the walk: it has come by exactly the offsets before    *)
(* ptr, none of which has held it up.                                      *)

Counting == {"walk", "list", "done"}

WalkOK ==
  LET V == AllVisited(info.madt)
  IN  /\ MadtOK(info.madt)
      /\ ptr < info.madt.length => ptr \in V
      /\ \A o \in V : o < ptr => /\ info.madt.at[o].length # 0
                                /\ Behind(info.madt, o) <= ptr
      /\ WalkEnds(info.madt) => info.numCores = CoresBefore(info.madt, ptr)

CountInv ==
  /\ ptr \in Nat
  /\ info.numCores \in 0 .. (IntMod - 1) /\ info.numEntries \in Nat
  /\ pc \notin Counting \cup {"wild"} => ptr = 0 /\ info.numCores = 0
  /\ pc \in Counting => WalkOK
  /\ pc \in {"list", "done"} => ptr >= info.madt.length

LEMMA InitCountInv == Init => CountInv
<1>1. Init => /\ pc = "find_rsdp" /\ ptr = 0
              /\ info.numCores = 0 /\ info.numEntries = 0
  BY DEF Init
<1>. QED
  BY <1>1, AcpiAssumption DEF CountInv, Counting

(* The MADT in use is one the walk can be relied on with.                  *)
LEMMA MadtIsSound ==
  ASSUME NEW Tables, Sound(Tables), IInv(Tables), pc \in PastRsdp, info.madt # NULL
  PROVE  MadtOK(info.madt)
<1>1. Chosen(info.madt, "APIC") /\ Names(info.rsdp, Tables)
  BY DEF IInv, TablesOK, RsdpOK
<1>2. PICK j \in 1 .. Len(Searched) : Searched[j] = info.madt
  BY <1>1 DEF Chosen
<1>3. Searched \in Seq(Tables)
  BY <1>1, SearchedIsRoot
<1>4. info.madt \in Tables
  BY <1>2, <1>3
<1>. QED
  BY <1>1, <1>4 DEF Chosen, Matches, Sound

LEMMA KeptCount ==
  ASSUME CountInv, UNCHANGED ptr, DOMAIN info' = Fields,
         info'.numCores = info.numCores, info'.numEntries \in Nat,
         pc \in Counting => info'.madt = info.madt,
         pc' \in Counting => pc \in Counting,
         pc \in Counting => pc' \in Counting \cup {"wild"},
         pc' \in {"list", "done"} => ptr >= info.madt.length,
         pc = "wild" => pc' = "wild"
  PROVE  CountInv'
<1>1. CASE pc' \in Counting
  <2>1. WalkOK'
    BY <1>1 DEF CountInv, WalkOK
  <2>. QED
    BY <1>1, <2>1 DEF CountInv
<1>2. CASE pc' \notin Counting
  BY <1>2 DEF CountInv, Counting
<1>. QED
  BY <1>1, <1>2

LEMMA WalkBegins ==
  ASSUME MadtOK(info.madt), ptr = 0, info.numCores = 0
  PROVE  WalkOK
<1> DEFINE V == AllVisited(info.madt)
<1>1. V \subseteq Nat /\ info.madt.length \in Nat
      /\ (info.madt.length > 0 => 0 \in V)
  BY VisitedOffsets DEF MadtOK
<1>2. ~ \E o \in V : o < 0
  BY <1>1
<1>3. CoresBefore(info.madt, 0) = 0
  <2>1. {o \in {h \in V : h < 0} : info.madt.at[o].type = 0 /\ info.madt.at[o].enabled} = {}
    BY <1>2
  <2>. QED
    BY <2>1, FS_EmptySet DEF CoresBefore, EnabledAt
<1>. QED
  BY <1>1, <1>2, <1>3 DEF WalkOK

LEMMA WalkEntryCount ==
  ASSUME NEW Tables, IInv(Tables), CountInv, WalkEntry
  PROVE  CountInv'
<1> DEFINE madt == info.madt  o == ptr
<1>1. /\ pc = "walk" /\ pc' = "walk" /\ WalkOK /\ ptr \in Nat
      /\ MadtOK(madt) /\ ptr \in AllVisited(madt)
      /\ ptr' = Behind(madt, ptr) /\ info'.madt = madt
      /\ info'.numEntries = info.numEntries
      /\ info'.numCores = IF IsCore(madt.at[ptr]) THEN (info.numCores + 1) % IntMod
                                                 ELSE info.numCores
  BY DEF WalkEntry, WalkEnd, CountInv, Counting, WalkOK, Behind, IInv, Fields
<1>2. /\ AllVisited(madt) \subseteq Nat /\ madt.length \in Nat
      /\ madt.at[ptr].length \in Nat /\ ptr' \in Nat /\ ptr <= ptr'
      /\ ptr' < madt.length => ptr' \in AllVisited(madt)
  BY <1>1, VisitedOffsets DEF MadtOK, Behind
<1>3. /\ info'.numCores \in 0 .. (IntMod - 1)
      /\ info'.numEntries \in Nat
  BY <1>1, AcpiAssumption DEF CountInv
<1>4. \A h \in AllVisited(madt) : h < ptr =>
        madt.at[h].length # 0 /\ Behind(madt, h) <= ptr
  BY <1>1 DEF WalkOK
<1>5. \A h \in AllVisited(madt) : h < ptr' =>
        madt.at[h].length # 0 /\ Behind(madt, h) <= ptr'
  <2> SUFFICES ASSUME NEW h \in AllVisited(madt), h < ptr'
               PROVE  madt.at[h].length # 0 /\ Behind(madt, h) <= ptr'
    OBVIOUS
  <2>1. h \in Nat /\ madt.at[h].length \in Nat /\ Behind(madt, h) \in Nat
    BY <1>1, <1>2, VisitedOffsets DEF MadtOK, Behind
  <2>2. CASE h < ptr
    BY <1>1, <1>2, <1>4, <2>1, <2>2
  <2>3. CASE ~(h < ptr)
    <3>1. h <= ptr \/ Behind(madt, ptr) <= h
      BY <1>1, <1>4, NoneBetween
    <3>2. h = ptr
      BY <1>1, <1>2, <2>1, <2>3, <3>1
    <3>. QED
      BY <1>1, <1>2, <3>2 DEF Behind
  <2>. QED
    BY <2>2, <2>3
<1>6. WalkEnds(madt) => info'.numCores = CoresBefore(madt, ptr')
  <2> SUFFICES ASSUME WalkEnds(madt)
               PROVE  info'.numCores = CoresBefore(madt, ptr')
    OBVIOUS
  <2>1. madt.at[ptr].length # 0 /\ info.numCores = CoresBefore(madt, ptr)
    BY <1>1 DEF WalkEnds, WalkOK, AllVisited
  <2>2. /\ CoresBefore(madt, ptr) \in Nat /\ CoresBefore(madt, ptr) < IntMod
        /\ CoresBefore(madt, Behind(madt, ptr)) < IntMod
        /\ CoresBefore(madt, Behind(madt, ptr)) =
             IF IsCore(madt.at[ptr]) THEN CoresBefore(madt, ptr) + 1
                                     ELSE CoresBefore(madt, ptr)
    BY <1>1, <1>4, <2>1, OneMoreCore
  <2>3. \A n \in Nat : n < IntMod => n % IntMod = n
    BY AcpiAssumption
  <2>. QED
    BY <1>1, <2>1, <2>2, <2>3
<1>7. WalkOK'
  BY <1>1, <1>2, <1>5, <1>6 DEF WalkOK
<1>. QED
  BY <1>1, <1>2, <1>3, <1>7 DEF CountInv, Counting

LEMMA StepCountInv ==
  ASSUME NEW Tables, WellFormed(Tables), Sound(Tables),
         IInv(Tables), CountInv, [Next]_vars
  PROVE  CountInv'
<1>1. /\ IInv(Tables)' /\ DOMAIN info' = Fields /\ DOMAIN info = Fields
      /\ info.numEntries \in Nat
  BY StepIInv DEF IInv, CountInv
<1>2. CASE Wild
  BY <1>1, <1>2, KeptCount DEF Wild, GoTo, Counting
<1>3. CASE RsdpFound \/ RsdpSkipped \/ SetRoots
  BY <1>1, <1>3, KeptCount DEF RsdpFound, RsdpSkipped, SetRoots, GoTo, Counting, Fields
<1>4. CASE FindFadt \/ FindMadt
  <2>1. /\ pc \in {"find_fadt", "find_madt"} /\ pc' \in {"find_fadt", "find_madt", "cpuid"}
        /\ UNCHANGED ptr
        /\ info'.numCores = info.numCores /\ info'.numEntries = info.numEntries
    BY <1>1, <1>4 DEF FindFadt, FindMadt, FindTable, GoTo, Fields
  <2>. QED
    BY <1>1, <2>1, KeptCount DEF Counting
<1>5. CASE ReadCpu \/ (ReadBootFlags /\ info.fadt # NULL)
  BY <1>1, <1>5, KeptCount DEF ReadCpu, ReadBootFlags, GoTo, Counting, Fields
<1>6. CASE ReadMadtFlags /\ info.madt # NULL
  <2>1. /\ pc = "madt_flags" /\ pc' = "walk" /\ UNCHANGED ptr
        /\ info'.numCores = info.numCores /\ info'.numEntries = info.numEntries
        /\ info'.madt = info.madt
    BY <1>1, <1>6 DEF ReadMadtFlags, GoTo, Fields
  <2>2. MadtOK(info.madt)
    BY <1>6, <2>1, MadtIsSound DEF PastRsdp, PastRoots, PastSearch, HasFadt
  <2>3. ptr = 0 /\ info.numCores = 0
    BY <2>1 DEF CountInv, Counting
  <2>4. WalkOK
    BY <2>2, <2>3, WalkBegins
  <2>5. WalkOK'
    BY <2>1, <2>4 DEF WalkOK
  <2>. QED
    BY <1>1, <2>1, <2>5 DEF CountInv, Counting
<1>7. CASE WalkEntry
  BY <1>7, WalkEntryCount
<1>8. CASE WalkOver /\ ~Wild
  <2>1. /\ pc = "walk" /\ pc' = "list" /\ UNCHANGED ptr
        /\ ~(ptr < info.madt.length) /\ ListedRoot # NULL
        /\ info'.numCores = info.numCores
        /\ info'.numEntries = Len(ListedRoot.entries) /\ info'.madt = info.madt
    BY <1>1, <1>8 DEF WalkOver, WalkEnd, GoTo, Fields
  <2>2. ListedRoot.entries \in Seq(Tables)
    BY <2>1, ListedRootIsRoot DEF IInv, PastRoots, PastSearch, HasFadt, Tail3
  <2>3. ptr \in Nat /\ info.madt.length \in Nat
    BY <2>1 DEF CountInv, Counting, WalkOK, MadtOK
  <2>. QED
    BY <1>1, <2>1, <2>2, <2>3, KeptCount DEF Counting
<1>9. CASE ListTable \/ Report
  <2>1. /\ pc = "list" /\ pc' \in {"list", "done"} /\ UNCHANGED <<info, ptr>>
        /\ ptr >= info.madt.length
    BY <1>9 DEF ListTable, Report, GoTo, CountInv
  <2>. QED
    BY <1>1, <2>1, KeptCount DEF Counting
<1>10. CASE UNCHANGED vars
  <2>1. UNCHANGED <<pc, info, ptr>>
    BY <1>10 DEF vars
  <2>. QED
    BY <1>1, <2>1, KeptCount DEF CountInv, Counting
<1>. QED
  BY <1>2, <1>3, <1>4, <1>5, <1>6, <1>7, <1>8, <1>9, <1>10
  DEF Next, RsdpMissing, ReadBootFlags, ReadMadtFlags

LEMMA CountInvariance ==
  ASSUME NEW Tables, WellFormed(Tables), Sound(Tables)
  PROVE  Spec => [](IInv(Tables) /\ CountInv)
<1>1. IInv(Tables) /\ CountInv /\ [Next]_vars => CountInv'
  BY StepCountInv
<1>. QED
  BY <1>1, InitCountInv, Invariance, PTL DEF Spec

(* On every firmware with sound tables the loops count upwards from where  *)
(* they begin, the walk never leaves the naturals, and numCores is an int. *)
THEOREM TypeCorrect ==
  ASSUME NEW Tables, WellFormed(Tables), Sound(Tables)
  PROVE  Spec => []TypeOK
<1>1. IInv(Tables) /\ CountInv => TypeOK
  BY DEF IInv, CountInv, TypeOK, PastRsdp, PastRoots, PastSearch, HasFadt, Tail3
<1>. QED
  BY <1>1, CountInvariance, PTL

(* The walk over any MADT, up to the 2^32 - 1 bytes one can have, counts   *)
(* each enabled local APIC it comes by once (acpi.c:114).                  *)
THEOREM CoresAreCounted ==
  ASSUME NEW Tables, WellFormed(Tables), Sound(Tables)
  PROVE  Spec => []CoresCounted
<1>1. CountInv => CoresCounted
  BY DEF CountInv, Counting, WalkOK, CoresCounted, CoresBefore, AllVisited
<1>. QED
  BY <1>1, CountInvariance, PTL

(* What the firmware has, by the RSDP acpi_init ought to take. *)
RootOf(f) == LET r == BootRsdp(f) IN IF r.revision < 2 THEN r.rsdt ELSE r.xsdt
FadtOf(f) == TableIn(RootOf(f).entries, "FACP")
MadtOf(f) == TableIn(RootOf(f).entries, "APIC")

(* Once it lists tables acpi_init has found all it relies on.              *)
LEMMA AllIsFound ==
  ASSUME NEW Tables, IInv(Tables), CountInv, pc \in {"list", "done"}
  PROVE  /\ info.rsdp = BootRsdp(fw) /\ BootRsdp(fw) # NULL
         /\ RootOf(fw) # NULL /\ RootOf(fw).ok /\ ListedRoot = RootOf(fw)
         /\ info.fadt = FadtOf(fw) /\ FadtOf(fw) # NULL
         /\ info.madt = MadtOf(fw) /\ MadtOf(fw) # NULL
         /\ WalkEnds(info.madt)
         /\ info.numCores = EnabledAt(info.madt, AllVisited(info.madt))
<1> DEFINE r == BootRsdp(fw)
           root == IF r.revision < 2 THEN r.rsdt ELSE r.xsdt
<1>1. pc \in PastRoots /\ pc \in PastRsdp /\ pc \in HasFadt /\ pc \in Tail3
  BY DEF PastRsdp, PastRoots, PastSearch, HasFadt, Tail3
<1>2. /\ Names(info.rsdp, Tables) /\ info.rsdp = BootRsdp(fw) /\ info.rsdp # NULL
      /\ info.rsdt = info.rsdp.rsdt
      /\ info.xsdt = IF info.rsdp.revision > 1 THEN info.rsdp.xsdt ELSE NULL
  BY <1>1 DEF IInv, RsdpOK, Names
<1>3. /\ info.fadt # NULL /\ Chosen(info.fadt, "FACP")
      /\ info.madt # NULL /\ Chosen(info.madt, "APIC")
  BY <1>1 DEF IInv, TablesOK
<1>4. ListedRoot # NULL
  BY DEF IInv, ListOK
<1>5. ListedRoot = Root(info.rsdp)
  BY <1>1, <1>4, ListedRootIsRoot DEF IInv
<1>6. root # NULL /\ root = Root(info.rsdp)
  BY <1>2, <1>4, <1>5 DEF ListedRoot, ListsRsdt, Names
<1>7. root.ok
  <2>1. \E j \in 1 .. Len(Searched) : TRUE
    BY <1>3 DEF Chosen
  <2>2. Len(<<>>) = 0
    OBVIOUS
  <2>. QED
    BY <1>6, <2>1, <2>2 DEF Searched, Candidates
<1>8. root = RootOf(fw)
  BY DEF RootOf
<1>9. FadtOf(fw) = info.fadt /\ MadtOf(fw) = info.madt
  BY <1>3, <1>6, <1>8 DEF Chosen, FadtOf, MadtOf
<1>10. /\ WalkEnds(info.madt)
       /\ info.numCores = EnabledAt(info.madt, AllVisited(info.madt))
  <2>1. WalkOK /\ ptr >= info.madt.length /\ ptr \in Nat
    BY DEF CountInv, Counting
  <2>2. /\ AllVisited(info.madt) \subseteq 0 .. (info.madt.length - 1)
        /\ info.madt.length \in Nat
    BY <2>1, VisitedOffsets DEF WalkOK, MadtOK
  <2>3. \A o \in AllVisited(info.madt) : o < ptr
    BY <2>1, <2>2
  <2>4. WalkEnds(info.madt)
    BY <2>1, <2>3 DEF WalkOK, WalkEnds, AllVisited
  <2>5. {o \in AllVisited(info.madt) : o < ptr} = AllVisited(info.madt)
    BY <2>3
  <2>. QED
    BY <2>1, <2>4, <2>5 DEF WalkOK, CoresBefore
<1>. QED
  BY <1>2, <1>3, <1>5, <1>6, <1>7, <1>8, <1>9, <1>10

(* acpi_init returns on no firmware that lacks anything it relies on.      *)
LEMMA DoneMeansComplete ==
  ASSUME NEW Tables, WellFormed(Tables), Sound(Tables)
  PROVE  Spec => []DoneOnlyIfComplete
<1>1. ASSUME IInv(Tables), CountInv, pc = "done"
      PROVE  Complete(fw)
  <2>1. /\ BootRsdp(fw) # NULL /\ RootOf(fw) # NULL /\ RootOf(fw).ok
        /\ FadtOf(fw) # NULL /\ MadtOf(fw) # NULL /\ WalkEnds(MadtOf(fw))
    BY <1>1, AllIsFound
  <2>. QED
    BY <2>1 DEF Complete, RootOf, FadtOf, MadtOf
<1>2. IInv(Tables) /\ CountInv => DoneOnlyIfComplete
  BY <1>1 DEF DoneOnlyIfComplete
<1>. QED
  BY <1>2, CountInvariance, PTL

-----------------------------------------------------------------------------
(* On a complete firmware nothing is missing: where a search has come to   *)
(* its end without a result, the firmware lacks what it was for.           *)

LEMMA NoRsdp ==
  ASSUME NEW Tables, WellFormed(Tables), NEW f \in Firmware,
         f.system_table => \A j \in 1 .. Len(f.config) : ~Acceptable(f.config[j])
  PROVE  BootRsdp(f) = NULL
<1> DEFINE Ok(e) == /\ e.guid = "acpi10" \/ e.guid = "acpi20"
                    /\ IF e.rsdp.revision < 2 THEN e.rsdp.ok20 ELSE e.rsdp.okLength
           entries == IF f.system_table THEN f.config ELSE <<>>
<1>1. ~ \E j \in DOMAIN entries : Ok(entries[j])
  <2>1. CASE f.system_table
    <3>1. /\ DOMAIN f.config = 1 .. Len(f.config)
          /\ \A j \in 1 .. Len(f.config) : f.config[j].rsdp.revision \in Nat
      BY DEF WellFormed, Names
    <3>2. \A j \in 1 .. Len(f.config) : ~Ok(f.config[j])
      BY <2>1, <3>1 DEF Acceptable, IsRsdp, RsdpValid
    <3>. QED
      BY <2>1, <3>1, <3>2
  <2>2. CASE ~f.system_table
    BY <2>2
  <2>. QED
    BY <2>1, <2>2
<1> HIDE DEF entries
<1>2. FirstOf(entries, Ok) = NULL
  BY <1>1 DEF FirstOf
<1>. QED
  BY <1>2 DEF BootRsdp, entries

LEMMA NoTable ==
  ASSUME NEW entries, NEW sig,
         \A j \in DOMAIN entries : ~Matches(entries[j], sig)
  PROVE  TableIn(entries, sig) = NULL
BY DEF TableIn, FirstOf, Matches

(* The root table of a complete firmware is the one that is searched.      *)
LEMMA CompleteRoot ==
  ASSUME NEW Tables, Names(info.rsdp, Tables), info.rsdp = BootRsdp(fw), Complete(fw)
  PROVE  LET root == Root(info.rsdp)
         IN  /\ root # NULL /\ Searched = root.entries /\ root.entries \in Seq(Tables)
             /\ IF info.rsdp.revision < 2 THEN root = info.rsdp.rsdt
                                          ELSE root = info.rsdp.xsdt
             /\ TableIn(root.entries, "FACP") # NULL
             /\ TableIn(root.entries, "APIC") # NULL
<1> DEFINE r == info.rsdp
           root == IF r.revision < 2 THEN r.rsdt ELSE r.xsdt
<1>1. /\ root # NULL /\ root.ok
      /\ TableIn(root.entries, "FACP") # NULL /\ TableIn(root.entries, "APIC") # NULL
  BY DEF Complete
<1>2. root = Root(r)
  BY <1>1 DEF Root, Names
<1>3. Searched = root.entries /\ root.entries \in Seq(Tables)
  BY <1>1, <1>2 DEF Searched, Candidates, Names
<1>. QED
  BY <1>1, <1>2, <1>3

LEMMA SearchedLength ==
  ASSUME NEW Tables, Names(info.rsdp, Tables)
  PROVE  Len(Searched) \in Nat
BY DEF Searched, Candidates, Root, Names

LEMMA NoneFound ==
  ASSUME NEW Tables, Names(info.rsdp, Tables), info.rsdp = BootRsdp(fw),
         NEW sig \in {"FACP", "APIC"},
         \A j \in 1 .. Len(Searched) : ~Matches(Searched[j], sig)
  PROVE  ~Complete(fw)
<1> SUFFICES ASSUME Complete(fw) PROVE FALSE
  OBVIOUS
<1> DEFINE entries == Root(info.rsdp).entries
<1>1. /\ entries \in Seq(Tables) /\ Searched = entries
      /\ TableIn(entries, sig) # NULL
  BY CompleteRoot
<1> HIDE DEF entries
<1>2. DOMAIN entries = 1 .. Len(entries)
  BY <1>1
<1>. QED
  BY <1>1, <1>2, NoTable

(* A search that is over has found the table of its signature, or there is *)
(* none on a complete firmware.                                            *)
LEMMA SearchOver ==
  ASSUME NEW Tables, Names(info.rsdp, Tables), info.rsdp = BootRsdp(fw),
         DOMAIN info = Fields, NEW sig \in {"FACP", "APIC"},
         NEW field \in {"fadt", "madt"}, NEW next, pc # next, pc' = next,
         Passed(sig), i \in Nat \ {0}, FindTable(sig, field, next)
  PROVE  info'[field] = NULL => ~Complete(fw)
<1> SUFFICES ASSUME info'[field] = NULL, Complete(fw) PROVE FALSE
  OBVIOUS
<1>1. Len(Searched) \in Nat
  BY SearchedLength
<1>2. CASE /\ i <= Len(Searched) /\ Matches(Searched[i], sig)
           /\ info' = [info EXCEPT ![field] = Searched[i]]
  <2>1. Searched[i] = NULL
    BY <1>2 DEF Fields
  <2>2. i \in 1 .. Len(Searched)
    BY <1>1, <1>2
  <2>3. Chosen(Searched[i], sig)
    BY <1>2, <2>2, ChosenWhenMatched
  <2>4. TableIn(Root(info.rsdp).entries, sig) # NULL
    BY CompleteRoot
  <2>. QED
    BY <2>1, <2>3, <2>4 DEF Chosen
<1>3. CASE i > Len(Searched)
  <2>1. \A j \in 1 .. Len(Searched) : ~Matches(Searched[j], sig)
    BY <1>1, <1>3 DEF Passed
  <2>. QED
    BY <2>1, NoneFound
<1>. QED
  BY <1>2, <1>3 DEF FindTable, Searched

(* What has not been found the firmware does not have.                     *)
Lacking ==
  /\ pc \in {"find_madt"} \cup PastSearch /\ info.fadt = NULL => ~Complete(fw)
  /\ pc \in PastSearch /\ info.madt = NULL => ~Complete(fw)
  /\ pc = "wild" => ~Complete(fw)

(* The steps after which no search has newly failed.                       *)
LEMMA KeptLacking ==
  ASSUME Lacking, UNCHANGED fw, info'.fadt = info.fadt, info'.madt = info.madt,
         pc' # "wild",
         pc' \in {"find_madt"} \cup PastSearch => pc \in {"find_madt"} \cup PastSearch,
         pc' \in PastSearch => pc \in PastSearch
  PROVE  Lacking'
BY DEF Lacking

LEMMA StepLacking ==
  ASSUME NEW Tables, WellFormed(Tables), IInv(Tables), Lacking, [Next]_vars
  PROVE  Lacking'
<1> USE DEF PastRsdp, PastRoots, PastSearch, HasFadt, Tail3
<1>1. /\ DOMAIN info = Fields /\ fw \in Firmware
      /\ pc \in PastRsdp => /\ Names(info.rsdp, Tables) /\ info.rsdp = BootRsdp(fw)
  BY DEF IInv, RsdpOK, Names
<1>2. CASE RsdpFound \/ RsdpSkipped \/ SetRoots
  BY <1>2 DEF RsdpFound, RsdpSkipped, SetRoots, GoTo, Lacking
<1>3. CASE RsdpMissing
  <2>1. pc = "find_rsdp" /\ pc' = "wild" /\ fw' = fw /\ ~(fw.system_table /\ Here)
    BY <1>3 DEF RsdpMissing, Wild, GoTo
  <2>2. /\ \A h \in 1 .. (i - 1) : ~Acceptable(fw.config[h])
        /\ i \in Nat /\ Len(fw.config) \in Nat
    BY <1>1, <2>1 DEF IInv, RsdpOK, WellFormed
  <2>3. fw.system_table => \A j \in 1 .. Len(fw.config) : ~Acceptable(fw.config[j])
    BY <2>1, <2>2 DEF Here
  <2>4. BootRsdp(fw) = NULL
    BY <1>1, <2>3, NoRsdp
  <2>5. ~Complete(fw)
    BY <2>4 DEF Complete
  <2>. QED
    BY <2>1, <2>5 DEF Lacking
<1>4. CASE FindFadt
  <2>1. /\ pc = "find_fadt" /\ Passed("FACP") /\ i \in Nat \ {0} /\ fw' = fw
        /\ FindTable("FACP", "fadt", "find_madt") /\ pc' \in {"find_fadt", "find_madt"}
    BY <1>4 DEF FindFadt, FindTable, GoTo, IInv, TablesOK
  <2>2. CASE pc' = "find_fadt"
    BY <2>2 DEF Lacking
  <2>3. CASE pc' = "find_madt"
    <3>1. info'.fadt = NULL => ~Complete(fw)
      BY <1>1, <2>1, <2>3, SearchOver
    <3>. QED
      BY <2>1, <2>3, <3>1 DEF Lacking
  <2>. QED
    BY <2>1, <2>2, <2>3
<1>5. CASE FindMadt
  <2>1. /\ pc = "find_madt" /\ Passed("APIC") /\ i \in Nat \ {0} /\ fw' = fw
        /\ FindTable("APIC", "madt", "cpuid") /\ pc' \in {"find_madt", "cpuid"}
        /\ info'.fadt = info.fadt
    BY <1>1, <1>5 DEF FindMadt, FindTable, GoTo, IInv, TablesOK, Fields
  <2>2. CASE pc' = "find_madt"
    BY <2>1, <2>2 DEF Lacking
  <2>3. CASE pc' = "cpuid"
    <3>1. info'.madt = NULL => ~Complete(fw)
      BY <1>1, <2>1, <2>3, SearchOver
    <3>. QED
      BY <2>1, <2>3, <3>1 DEF Lacking
  <2>. QED
    BY <2>1, <2>2, <2>3
<1>6. CASE ReadCpu \/ WalkEntry \/ ListTable \/ Report
  <2>1. /\ pc \in PastSearch /\ pc' \in PastSearch /\ fw' = fw
        /\ info'.fadt = info.fadt /\ info'.madt = info.madt
    BY <1>1, <1>6 DEF ReadCpu, WalkEntry, ListTable, Report, GoTo, Fields
  <2>. QED
    BY <2>1, KeptLacking
<1>7. CASE ReadBootFlags \/ ReadMadtFlags
  <2>1. /\ pc \in PastSearch /\ pc' \in PastSearch \cup {"wild"} /\ fw' = fw
        /\ info'.fadt = info.fadt /\ info'.madt = info.madt
        /\ pc' = "wild" => info.fadt = NULL \/ info.madt = NULL
    BY <1>1, <1>7 DEF ReadBootFlags, ReadMadtFlags, Wild, GoTo, Fields
  <2>. QED
    BY <2>1 DEF Lacking
<1>8. CASE WalkOver
  <2>1. /\ pc = "walk" /\ pc' \in {"list", "wild"} /\ fw' = fw
        /\ info'.fadt = info.fadt /\ info'.madt = info.madt
        /\ pc' = "wild" => ListedRoot = NULL
    BY <1>1, <1>8 DEF WalkOver, Wild, GoTo, Fields
  <2>2. ListedRoot = NULL => ~Complete(fw)
    BY <1>1, <2>1, CompleteRoot DEF IInv, RsdpOK, ListedRoot, ListsRsdt, Names
  <2>. QED
    BY <2>1, <2>2 DEF Lacking
<1>9. CASE UNCHANGED vars
  BY <1>9 DEF vars, Lacking
<1>. QED
  BY <1>2, <1>3, <1>4, <1>5, <1>6, <1>7, <1>8, <1>9 DEF Next

LEMMA LackingInvariance ==
  ASSUME NEW Tables, WellFormed(Tables)
  PROVE  Spec => []Lacking
<1>1. Init => Lacking
  BY DEF Init, Lacking, PastSearch, HasFadt, Tail3
<1>2. IInv(Tables) /\ Lacking /\ [Next]_vars => Lacking'
  BY StepLacking
<1>. QED
  BY <1>1, <1>2, Invariance, PTL DEF Spec

(* acpi_init checks none of the pointers it gets from its searches; on a   *)
(* firmware that has everything it relies on it needs no check.            *)
LEMMA CompleteRunsTame ==
  ASSUME NEW Tables, WellFormed(Tables)
  PROVE  Spec => []CompleteNeverWild
<1>1. Lacking => CompleteNeverWild
  BY DEF Lacking, CompleteNeverWild
<1>. QED
  BY <1>1, LackingInvariance, PTL

(* On every firmware the end acpi_init comes to tells whether that has all *)
(* that acpi.c relies on: it reaches its last statement with nothing       *)
(* missing, and an undefined access with something missing only.           *)
THEOREM EndTellsTheFirmware ==
  ASSUME NEW Tables, WellFormed(Tables), Sound(Tables)
  PROVE  Spec => []EndTellsComplete
<1>1. Spec => []DoneOnlyIfComplete
  BY DoneMeansComplete
<1>2. Spec => []CompleteNeverWild
  BY CompleteRunsTame
<1>3. DoneOnlyIfComplete /\ CompleteNeverWild => EndTellsComplete
  BY DEF EndTellsComplete
<1>. QED
  BY <1>1, <1>2, <1>3, PTL

-----------------------------------------------------------------------------
(* Every loop runs down. *)

LEMMA InOrder ==
  \A m, n \in 1 .. 11 : m < n => Later(Places[n], Places[m])
<1>1. DOMAIN Places = 1 .. 11
  BY DEF Places
<1>. QED
  BY <1>1 DEF Later

LEMMA PlaceOf ==
  /\ Places[1] = "find_rsdp" /\ Places[2] = "roots" /\ Places[3] = "find_fadt"
  /\ Places[4] = "find_madt" /\ Places[5] = "cpuid" /\ Places[6] = "boot_flags"
  /\ Places[7] = "madt_flags" /\ Places[8] = "walk" /\ Places[9] = "list"
  /\ Places[10] = "done" /\ Places[11] = "wild"
BY DEF Places

(* The steps from each place to the next, and from anywhere into the wild. *)
LEMMA NextPlaces ==
  /\ Later("roots", "find_rsdp") /\ Later("find_fadt", "roots")
  /\ Later("find_madt", "find_fadt") /\ Later("cpuid", "find_madt")
  /\ Later("boot_flags", "cpuid") /\ Later("madt_flags", "boot_flags")
  /\ Later("walk", "madt_flags") /\ Later("list", "walk") /\ Later("done", "list")
  /\ Later("wild", "find_rsdp") /\ Later("wild", "boot_flags")
  /\ Later("wild", "madt_flags") /\ Later("wild", "walk")
<1>1. \A m, n \in 1 .. 11 : m < n => Later(Places[n], Places[m])
  BY InOrder
<1>2. \A m \in 1 .. 10 : Later(Places[m + 1], Places[m])
  BY <1>1
<1>3. \A m \in 1 .. 10 : Later(Places[11], Places[m])
  BY <1>1
<1>. QED
  BY <1>2, <1>3, PlaceOf

LEMMA StepRunsDown ==
  ASSUME NEW Tables, WellFormed(Tables), IInv(Tables), CountInv, Next
  PROVE  \/ Later(pc', pc)
         \/ pc' = pc /\ Left' \in 0 .. (Left - 1)
         \/ pc = "walk" /\ ~WalkEnds(info.madt)
<1>1. /\ i \in Nat \ {0} /\ DOMAIN info = Fields /\ fw \in Firmware
      /\ pc \in PastRsdp => Names(info.rsdp, Tables)
  BY DEF IInv, RsdpOK
<1>2. CASE \/ RsdpFound \/ RsdpMissing \/ SetRoots \/ ReadCpu \/ ReadBootFlags
           \/ ReadMadtFlags \/ WalkOver \/ Report
  BY <1>2, NextPlaces
  DEF RsdpFound, RsdpMissing, SetRoots, ReadCpu, ReadBootFlags, ReadMadtFlags,
      WalkOver, Report, Wild, GoTo
<1>3. CASE RsdpSkipped
  <2>1. /\ pc = "find_rsdp" /\ pc' = pc /\ i' = i + 1 /\ fw' = fw
        /\ i <= Len(fw.config) /\ Len(fw.config) \in Nat
    BY <1>1, <1>3 DEF RsdpSkipped, Here, WellFormed
  <2>2. Left = Len(fw.config) + 1 - i /\ Left' = Len(fw.config) + 1 - (i + 1)
    BY <2>1 DEF Left
  <2>3. \A l \in Nat : i <= l => l + 1 - (i + 1) \in 0 .. ((l + 1 - i) - 1)
    BY <1>1
  <2>4. Left' \in 0 .. (Left - 1)
    BY <2>1, <2>2, <2>3
  <2>. QED
    BY <2>1, <2>4
<1>4. CASE FindFadt \/ FindMadt
  <2>1. /\ pc \in {"find_fadt", "find_madt"}
        /\ \/ Later(pc', pc)
           \/ i <= Len(Searched) /\ i' = i + 1 /\ pc' = pc /\ info' = info
    BY <1>4, NextPlaces DEF FindFadt, FindMadt, FindTable, GoTo, Searched
  <2>2. Len(Searched) \in Nat
    BY <1>1, <2>1, SearchedLength DEF PastRsdp, PastRoots
  <2>3. CASE i <= Len(Searched) /\ i' = i + 1 /\ pc' = pc /\ info' = info
    <3>1. /\ Left = Len(Searched) + 1 - i
          /\ Left' = Len(Searched) + 1 - (i + 1)
      BY <2>1, <2>3 DEF Left, Searched
    <3>. QED
      BY <1>1, <2>2, <2>3, <3>1
  <2>. QED
    BY <2>1, <2>3
<1>5. CASE WalkEntry /\ WalkEnds(info.madt)
  <2> DEFINE madt == info.madt
  <2>1. /\ pc = "walk" /\ pc' = "walk" /\ WalkOK /\ ptr \in Nat
        /\ MadtOK(madt) /\ ptr < madt.length /\ ptr \in AllVisited(madt)
        /\ ptr' = ptr + madt.at[ptr].length /\ info'.madt = madt
    BY <1>1, <1>5 DEF WalkEntry, WalkEnd, CountInv, Counting, WalkOK, Fields
  <2>2. madt.at[ptr].length # 0
    BY <1>5, <2>1 DEF WalkEnds, AllVisited
  <2>3. madt.length \in Nat /\ madt.at[ptr].length \in Nat
    BY <2>1 DEF MadtOK
  <2>4. /\ Left = madt.length - ptr
        /\ Left' = IF ptr' < madt.length THEN madt.length - ptr' ELSE 0
    BY <2>1 DEF Left
  <2>. QED
    BY <2>1, <2>2, <2>3, <2>4
<1>6. CASE ListTable
  <2>1. /\ pc = "list" /\ pc' = "list" /\ i <= info.numEntries /\ i' = i + 1
        /\ info' = info /\ info.numEntries \in Nat
    BY <1>6 DEF ListTable, CountInv
  <2>2. Left = info.numEntries + 1 - i /\ Left' = info.numEntries + 1 - (i + 1)
    BY <2>1 DEF Left
  <2>. QED
    BY <1>1, <2>1, <2>2
<1>7. CASE WalkEntry /\ ~WalkEnds(info.madt)
  BY <1>7 DEF WalkEntry
<1>. QED
  BY <1>2, <1>3, <1>4, <1>5, <1>6, <1>7 DEF Next

(* Every step of acpi_init, on any firmware with sound tables, goes on to  *)
(* a later statement or leaves less for the loop it is in, unless the MADT *)
(* has an entry of length 0 in the way of the walk (acpi.c:123).           *)
THEOREM AcpiRunsDown ==
  ASSUME NEW Tables, WellFormed(Tables), Sound(Tables)
  PROVE  Spec => LoopsRunDown
<1>1. IInv(Tables) /\ CountInv /\ [Next]_vars
        => [\/ Later(pc', pc)
            \/ pc' = pc /\ Left' \in 0 .. (Left - 1)
            \/ pc = "walk" /\ ~WalkEnds(info.madt)]_vars
  BY StepRunsDown
<1>. QED
  BY <1>1, CountInvariance, PTL DEF Spec, LoopsRunDown

-----------------------------------------------------------------------------
(* What acpi_init has to tell: the processor and the tables it has found,  *)
(* field by field.                                                         *)

FlagsOK ==
  /\ pc \in {"boot_flags"} \cup HasFadt =>
       /\ info.has_apic = (fw.cpu.cpuid /\ fw.cpu.apic)
       /\ info.apic_enabled = (fw.cpu.cpuid /\ fw.cpu.apic /\ fw.cpu.enabled)
  /\ pc \in HasFadt => /\ info.has_i8042 = info.fadt.i8042
                       /\ info.has_vga = ~info.fadt.no_vga
  /\ pc \in Tail3 => info.has_8259 = info.madt.pcat

LEMMA KeptFlags ==
  ASSUME FlagsOK, UNCHANGED fw,
         pc' # pc => pc' \notin {"boot_flags"} \cup HasFadt,
         pc \in {"boot_flags"} \cup HasFadt => UNCHANGED info
  PROVE  FlagsOK'
BY DEF FlagsOK, HasFadt, Tail3

LEMMA StepFlags ==
  ASSUME NEW Tables, IInv(Tables), FlagsOK, [Next]_vars PROVE FlagsOK'
<1>1. DOMAIN info = Fields
  BY DEF IInv
<1>2. CASE RsdpFound \/ RsdpSkipped \/ RsdpMissing \/ SetRoots \/ FindFadt \/ FindMadt
  <2>1. /\ UNCHANGED fw /\ pc \in {"find_rsdp", "roots", "find_fadt", "find_madt"}
        /\ pc' \notin {"boot_flags"} \cup HasFadt
    BY <1>2 DEF RsdpFound, RsdpSkipped, RsdpMissing, SetRoots, FindFadt, FindMadt,
                FindTable, GoTo, Wild, HasFadt, Tail3
  <2>. QED
    BY <2>1 DEF FlagsOK, HasFadt, Tail3
<1>3. CASE ReadCpu
  <2>1. /\ pc' = "boot_flags" /\ fw' = fw
        /\ info'.has_apic = (fw.cpu.cpuid /\ fw.cpu.apic)
        /\ info'.apic_enabled = (fw.cpu.cpuid /\ fw.cpu.apic /\ fw.cpu.enabled)
    BY <1>1, <1>3 DEF ReadCpu, GoTo, Fields
  <2>. QED
    BY <2>1 DEF FlagsOK, HasFadt, Tail3
<1>4. CASE ReadBootFlags
  <2>1. CASE pc' = "wild"
    BY <1>4, <2>1 DEF ReadBootFlags, FlagsOK, Wild, GoTo, HasFadt, Tail3
  <2>2. CASE pc' # "wild"
    <3>1. /\ pc = "boot_flags" /\ pc' = "madt_flags" /\ fw' = fw
          /\ info'.has_i8042 = info.fadt.i8042 /\ info'.has_vga = ~info.fadt.no_vga
          /\ info'.fadt = info.fadt /\ info'.has_apic = info.has_apic
          /\ info'.apic_enabled = info.apic_enabled
      BY <1>1, <1>4, <2>2 DEF ReadBootFlags, Wild, GoTo, Fields
    <3>. QED
      BY <3>1 DEF FlagsOK, HasFadt, Tail3
  <2>. QED
    BY <2>1, <2>2
<1>5. CASE ReadMadtFlags
  <2>1. CASE pc' = "wild"
    BY <1>5, <2>1 DEF ReadMadtFlags, FlagsOK, Wild, GoTo, HasFadt, Tail3
  <2>2. CASE pc' # "wild"
    <3>1. /\ pc = "madt_flags" /\ pc' = "walk" /\ fw' = fw
          /\ info'.has_8259 = info.madt.pcat /\ info'.madt = info.madt
          /\ info'.has_i8042 = info.has_i8042 /\ info'.has_vga = info.has_vga
          /\ info'.fadt = info.fadt /\ info'.has_apic = info.has_apic
          /\ info'.apic_enabled = info.apic_enabled
      BY <1>1, <1>5, <2>2 DEF ReadMadtFlags, Wild, GoTo, Fields
    <3>. QED
      BY <3>1 DEF FlagsOK, HasFadt, Tail3
  <2>. QED
    BY <2>1, <2>2
<1>6. CASE WalkEntry \/ WalkOver \/ ListTable \/ Report
  <2>1. /\ pc \in Tail3 /\ pc' \in Tail3 \cup {"wild"} /\ fw' = fw
        /\ info'.has_8259 = info.has_8259 /\ info'.madt = info.madt
        /\ info'.has_i8042 = info.has_i8042 /\ info'.has_vga = info.has_vga
        /\ info'.fadt = info.fadt /\ info'.has_apic = info.has_apic
        /\ info'.apic_enabled = info.apic_enabled
    BY <1>1, <1>6 DEF WalkEntry, WalkOver, ListTable, Report, Wild, GoTo, Fields, Tail3
  <2>. QED
    BY <2>1 DEF FlagsOK, HasFadt, Tail3
<1>7. CASE UNCHANGED vars
  BY <1>7 DEF vars, FlagsOK, HasFadt, Tail3
<1>. QED
  BY <1>2, <1>3, <1>4, <1>5, <1>6, <1>7 DEF Next

(* What the log of the kernel can rely on.                                 *)
Told(Tables) ==
  /\ fw \in Firmware /\ pc \in PastRsdp \cup {"find_rsdp", "wild"}
  /\ pc \notin {"list", "done"} => listed = <<>>
  /\ pc \in Tail3 => info.rsdp = BootRsdp(fw)
  /\ pc \in {"list", "done"} =>
       /\ listed \in Seq(Tables) /\ RootOf(fw).entries \in Seq(Tables)
  /\ pc = "done" =>
       /\ listed = RootOf(fw).entries
       /\ info.has_apic = (fw.cpu.cpuid /\ fw.cpu.apic)
       /\ info.apic_enabled = (fw.cpu.cpuid /\ fw.cpu.apic /\ fw.cpu.enabled)
       /\ info.has_i8042 = FadtOf(fw).i8042 /\ info.has_vga = ~FadtOf(fw).no_vga
       /\ info.has_8259 = MadtOf(fw).pcat
       /\ info.numCores = EnabledAt(MadtOf(fw), AllVisited(MadtOf(fw)))

LEMMA ToldInvariance ==
  ASSUME NEW Tables, WellFormed(Tables), Sound(Tables)
  PROVE  Spec => []Told(Tables)
<1>1. Init => FlagsOK
  BY DEF Init, FlagsOK, HasFadt, Tail3
<1>2. IInv(Tables) /\ FlagsOK /\ [Next]_vars => FlagsOK'
  BY StepFlags
<1>3. ASSUME IInv(Tables), CountInv, FlagsOK PROVE Told(Tables)
  <2>1. /\ fw \in Firmware /\ pc \in PastRsdp \cup {"find_rsdp", "wild"}
        /\ pc \notin {"list", "done"} => listed = <<>>
        /\ pc \in Tail3 => info.rsdp = BootRsdp(fw)
    BY <1>3 DEF IInv, ListOK, RsdpOK, Names, PastRsdp, PastRoots, PastSearch,
                HasFadt, Tail3
  <2>2. ASSUME pc \in {"list", "done"}
        PROVE  /\ listed \in Seq(Tables) /\ RootOf(fw).entries \in Seq(Tables)
               /\ ListedRoot = RootOf(fw)
    <3>1. /\ info.rsdp = BootRsdp(fw) /\ ListedRoot = RootOf(fw) /\ ListedRoot # NULL
      BY <1>3, <2>2, AllIsFound
    <3>2. listed \in Seq(Tables)
      BY <1>3, <2>2 DEF IInv, ListOK
    <3>3. Names(info.rsdp, Tables)
      BY <1>3, <2>2 DEF IInv, RsdpOK, PastRsdp, PastRoots, PastSearch, HasFadt, Tail3
    <3>. QED
      BY <3>1, <3>2, <3>3 DEF RootOf, Names
  <2>3. ASSUME pc = "done"
        PROVE  /\ listed = RootOf(fw).entries
               /\ info.has_apic = (fw.cpu.cpuid /\ fw.cpu.apic)
               /\ info.apic_enabled = (fw.cpu.cpuid /\ fw.cpu.apic /\ fw.cpu.enabled)
               /\ info.has_i8042 = FadtOf(fw).i8042 /\ info.has_vga = ~FadtOf(fw).no_vga
               /\ info.has_8259 = MadtOf(fw).pcat
               /\ info.numCores = EnabledAt(MadtOf(fw), AllVisited(MadtOf(fw)))
    <3>1. /\ listed \in Seq(Tables) /\ ListedRoot.entries \in Seq(Tables)
          /\ Len(listed) = Len(ListedRoot.entries)
          /\ \A j \in 1 .. Len(listed) : listed[j] = ListedRoot.entries[j]
      BY <1>3, <2>2, <2>3 DEF IInv, ListOK
    <3>2. listed = ListedRoot.entries
      BY <3>1
    <3>3. /\ ListedRoot = RootOf(fw) /\ info.fadt = FadtOf(fw) /\ info.madt = MadtOf(fw)
          /\ info.numCores = EnabledAt(info.madt, AllVisited(info.madt))
      BY <1>3, <2>3, AllIsFound
    <3>. QED
      BY <1>3, <2>3, <3>2, <3>3 DEF FlagsOK, HasFadt, Tail3
  <2>. QED
    BY <2>1, <2>2, <2>3 DEF Told
<1>4. IInv(Tables) /\ CountInv /\ FlagsOK => Told(Tables)
  BY <1>3
<1>. QED
  BY <1>1, <1>2, <1>4, CountInvariance, PTL DEF Spec
=============================================================================
