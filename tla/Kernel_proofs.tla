--------------------------- MODULE Kernel_proofs ---------------------------
(***************************************************************************)
(* Proofs about Kernel, for every firmware whose tables are tables, every  *)
(* memory map and descriptor size and every screen: the walk over the      *)
(* memory map stays inside the map, the log tells what it ought to tell,   *)
(* and the screen shows the log.                                           *)
(***************************************************************************)
EXTENDS Kernel, DataLemmas

P == INSTANCE Acpi_proofs

(* The walk is only begun with a descriptor size, and the loader's word    *)
(* about the map stays what it was.                                        *)
WalkOK ==
  /\ boot \in BootInfos
  /\ k \in Nat
  /\ kpc = "map" => boot.stride # 0

(* The descriptor k of a map of size \div stride descriptors ends in it.   *)
LEMMA DescriptorFits ==
  ASSUME NEW size \in Nat, NEW stride \in Nat, stride > 0,
         NEW n \in Nat, n < size \div stride,
         NEW d \in Nat, d <= stride
  PROVE  n * stride + d <= size
<1> DEFINE q == size \div stride
<1>1. q \in Nat /\ q * stride <= size
  OBVIOUS
<1>2. (n + 1) * stride <= q * stride
  <2>1. q - (n + 1) \in Nat
    BY <1>1
  <2>2. (q - (n + 1)) * stride >= 0
    BY <2>1
  <2>. QED BY <1>1, <2>2
<1>3. (n + 1) * stride = n * stride + stride
  OBVIOUS
<1>. QED BY <1>1, <1>2, <1>3

LEMMA WalkOKInductive == Init /\ [][Next]_vars => []WalkOK
<1>1. Init => WalkOK
  BY DEF Init, WalkOK
<1>2. WalkOK /\ [Next]_vars => WalkOK'
  <2> SUFFICES ASSUME WalkOK, [Next]_vars PROVE WalkOK'
    OBVIOUS
  <2>1. CASE ConsoleInit
    BY <2>1 DEF ConsoleInit, WalkOK
  <2>2. CASE ConsoleClear
    BY <2>2 DEF ConsoleClear, WalkOK
  <2>3. CASE PutChar
    BY <2>3 DEF PutChar, WalkOK
  <2>4. CASE AcpiStep
    <3>1. kpc = "acpi" /\ kpc' # "map" /\ k' = k /\ boot' = boot
      BY <2>4 DEF AcpiStep
    <3>. QED BY <3>1 DEF WalkOK
  <2>5. CASE ReadConfig
    BY <2>5 DEF ReadConfig, WalkOK
  <2>6. CASE ConfigOver
    BY <2>6 DEF ConfigOver, WalkOK
  <2>7. CASE ReadDescriptor
    BY <2>7 DEF ReadDescriptor, WalkOK
  <2>8. CASE Idle
    BY <2>8 DEF Idle, WalkOK
  <2>9. CASE UNCHANGED vars
    BY <2>9 DEF vars, WalkOK
  <2>. QED BY <2>1, <2>2, <2>3, <2>4, <2>5, <2>6, <2>7, <2>8, <2>9 DEF Next
<1>. QED BY <1>1, <1>2, PTL

(* Every descriptor the walk reads lies in the memory map the loader hands *)
(* over, for every size of the map and of the firmware's descriptors       *)
(* (main.c:47-51).                                                         *)
THEOREM WalkStaysInMap == Spec => []ReadsInsideMap
<1>1. WalkOK => ReadsInsideMap
  <2> SUFFICES ASSUME WalkOK, kpc = "map", k < Entries
               PROVE  Descriptor + DescSize <= boot.size
    BY DEF ReadsInsideMap
  <2>1. /\ boot.size \in Nat /\ boot.stride \in Nat
        /\ boot.stride > 0 /\ DescSize \in Nat /\ DescSize <= boot.stride
    BY KernelAssumption DEF WalkOK
  <2>2. k \in Nat /\ k < boot.size \div boot.stride
    BY DEF WalkOK, Entries
  <2>. QED BY <2>1, <2>2, DescriptorFits DEF Descriptor
<1>. QED BY <1>1, WalkOKInductive, PTL DEF Spec

-----------------------------------------------------------------------------
(* acpi_init inside the kernel is acpi_init: what is proved of it holds.   *)

LEMMA AcpiInit == Acpi!Init => P!Init
  BY DEF Acpi!Init, P!Init

LEMMA AcpiNext == Acpi!Next => P!Next
<1>1. Acpi!RsdpFound => P!RsdpFound
    BY DEF Acpi!RsdpFound, P!RsdpFound, Acpi!Here, P!Here, Acpi!IsRsdp,
         P!IsRsdp, Acpi!RsdpValid, P!RsdpValid, Acpi!GoTo, P!GoTo
<1>2. Acpi!RsdpSkipped => P!RsdpSkipped
    BY DEF Acpi!RsdpSkipped, P!RsdpSkipped, Acpi!Here, P!Here, Acpi!IsRsdp,
         P!IsRsdp, Acpi!RsdpValid, P!RsdpValid
<1>3. Acpi!RsdpMissing => P!RsdpMissing
    BY DEF Acpi!RsdpMissing, P!RsdpMissing, Acpi!Here, P!Here, Acpi!Wild,
         P!Wild, Acpi!GoTo, P!GoTo
<1>4. Acpi!SetRoots => P!SetRoots
    BY DEF Acpi!SetRoots, P!SetRoots, Acpi!GoTo, P!GoTo
<1>5. Acpi!FindFadt => P!FindFadt
    BY DEF Acpi!FindFadt, P!FindFadt, Acpi!FindTable, P!FindTable,
         Acpi!Candidates, P!Candidates, Acpi!Root, P!Root, Acpi!Matches,
         P!Matches, Acpi!GoTo, P!GoTo
<1>6. Acpi!FindMadt => P!FindMadt
    BY DEF Acpi!FindMadt, P!FindMadt, Acpi!FindTable, P!FindTable,
         Acpi!Candidates, P!Candidates, Acpi!Root, P!Root, Acpi!Matches,
         P!Matches, Acpi!GoTo, P!GoTo
<1>7. Acpi!ReadCpu => P!ReadCpu
    BY DEF Acpi!ReadCpu, P!ReadCpu, Acpi!GoTo, P!GoTo
<1>8. Acpi!ReadBootFlags => P!ReadBootFlags
    BY DEF Acpi!ReadBootFlags, P!ReadBootFlags, Acpi!Wild, P!Wild, Acpi!GoTo,
         P!GoTo
<1>9. Acpi!ReadMadtFlags => P!ReadMadtFlags
    BY DEF Acpi!ReadMadtFlags, P!ReadMadtFlags, Acpi!Wild, P!Wild, Acpi!GoTo,
         P!GoTo
<1>10. Acpi!WalkEntry => P!WalkEntry
    BY DEF Acpi!WalkEntry, P!WalkEntry, Acpi!WalkEnd, P!WalkEnd, Acpi!IsCore,
         P!IsCore
<1>11. Acpi!WalkOver => P!WalkOver
    BY DEF Acpi!WalkOver, P!WalkOver, Acpi!WalkEnd, P!WalkEnd,
         Acpi!ListedRoot, P!ListedRoot, Acpi!ListsRsdt, P!ListsRsdt,
         Acpi!Wild, P!Wild, Acpi!GoTo, P!GoTo
<1>12. Acpi!ListTable => P!ListTable
    BY DEF Acpi!ListTable, P!ListTable, Acpi!ListedRoot, P!ListedRoot,
         Acpi!ListsRsdt, P!ListsRsdt
<1>13. Acpi!Report => P!Report
    BY DEF Acpi!Report, P!Report, Acpi!GoTo, P!GoTo
<1>. QED
  BY <1>1, <1>2, <1>3, <1>4, <1>5, <1>6, <1>7, <1>8, <1>9, <1>10, <1>11, <1>12, <1>13 DEF Acpi!Next, P!Next

LEMMA AcpiRuns == Spec => P!Spec
<1>1. Init => P!Init
  BY AcpiInit DEF Init
<1>2. [Next]_vars => [P!Next]_(P!vars)
  <2>1. AcpiStep => P!Next
    BY AcpiNext DEF AcpiStep
  <2>2. ConsoleInit \/ ConsoleClear \/ PutChar \/ ReadConfig \/ ConfigOver
          \/ ReadDescriptor \/ Idle \/ UNCHANGED vars => UNCHANGED acpi
    BY DEF ConsoleInit, ConsoleClear, PutChar, ReadConfig, ConfigOver,
           ReadDescriptor, Idle, vars
  <2>. QED
    BY <2>1, <2>2 DEF Next, acpi, P!vars
<1>. QED
  BY <1>1, <1>2, PTL DEF Spec, P!Spec

LEMMA AcpiTold ==
  ASSUME NEW Tables, P!WellFormed(Tables), P!Sound(Tables)
  PROVE  Spec => [](P!Told(Tables) /\ P!TypeOK)
<1>1. MadtHeader \in Nat /\ IntMod \in Nat \ {0}
  BY KernelAssumption
<1>2. P!Spec => []P!Told(Tables)
  BY <1>1, P!ToldInvariance
<1>3. P!Spec => []P!TypeOK
  BY <1>1, P!TypeCorrect
<1>. QED
  BY <1>2, <1>3, AcpiRuns, PTL

-----------------------------------------------------------------------------
(* What can stop the kernel. *)

(* Each of its two bad ends has its reason. *)
StopReasons ==
  /\ kpc = "wild" => pc = "wild"
  /\ kpc = "fault" => boot.stride = 0

(* Where the firmware has what acpi_init relies on and the loader gives a  *)
(* descriptor size, neither a NULL pointer in acpi_init nor the division   *)
(* of main.c:47 stops the kernel.                                          *)
CompleteNeverFails ==
  kpc \in {"wild", "fault"} => ~(Acpi!Complete(fw) /\ boot.stride > 0)

LEMMA StopStep == StopReasons /\ [Next]_vars => StopReasons'
<1> SUFFICES ASSUME StopReasons, [Next]_vars PROVE StopReasons'
  OBVIOUS
<1>1. CASE ConsoleInit \/ ConsoleClear \/ Idle
  BY <1>1 DEF ConsoleInit, ConsoleClear, Idle, StopReasons
<1>2. CASE PutChar \/ ReadConfig \/ ReadDescriptor
  BY <1>2 DEF PutChar, ReadConfig, ReadDescriptor, acpi, StopReasons
<1>3. CASE AcpiStep
  BY <1>3 DEF AcpiStep, StopReasons
<1>4. CASE ConfigOver
  BY <1>4 DEF ConfigOver, StopReasons
<1>5. CASE UNCHANGED vars
  BY <1>5 DEF vars, acpi, StopReasons
<1>. QED
  BY <1>1, <1>2, <1>3, <1>4, <1>5 DEF Next

LEMMA SameComplete == P!Complete(fw) <=> Acpi!Complete(fw)
BY DEF P!Complete, Acpi!Complete, P!BootRsdp, Acpi!BootRsdp, P!TableIn, Acpi!TableIn,
       P!FirstOf, Acpi!FirstOf, P!IsFirst, Acpi!IsFirst, P!WalkEnds, Acpi!WalkEnds,
       P!Visited, Acpi!Visited

(* Where the firmware has what acpi_init relies on, and the loader gives a *)
(* descriptor size, nothing stops the kernel before its final loop: acpi_  *)
(* init finds all its pointers, and the division has a divisor             *)
(* (acpi.c:87, main.c:47).                                                 *)
THEOREM CompleteBootsAreSafe ==
  ASSUME NEW Tables, P!WellFormed(Tables)
  PROVE  Spec => []CompleteNeverFails
<1>1. MadtHeader \in Nat /\ IntMod \in Nat \ {0}
  BY KernelAssumption
<1>2. P!Spec => []P!CompleteNeverWild
  BY <1>1, P!CompleteRunsTame
<1>3. Init => StopReasons
  BY DEF Init, StopReasons
<1>4. P!CompleteNeverWild /\ StopReasons => CompleteNeverFails
  BY SameComplete DEF P!CompleteNeverWild, StopReasons, CompleteNeverFails
<1>. QED
  BY <1>2, <1>3, <1>4, StopStep, AcpiRuns, PTL DEF Spec

-----------------------------------------------------------------------------
(* The log. *)

(* Lines are of a known kind. *)
AreLines(l) == \E D : l \in Seq(D) /\ \A d \in D : d[1] \in Kinds

LEMMA TheseAreLines ==
  ASSUME NEW a, NEW b, NEW c, NEW d,
         a[1] \in Kinds, b[1] \in Kinds, c[1] \in Kinds, d[1] \in Kinds
  PROVE  /\ AreLines(<<>>) /\ AreLines(<<a>>) /\ AreLines(<<a, b>>)
         /\ AreLines(<<a, b, c, d>>)
<1> DEFINE D == {a, b, c, d}
<1>1. /\ <<>> \in Seq(D) /\ <<a>> \in Seq(D) /\ <<a, b>> \in Seq(D)
      /\ <<a, b, c, d>> \in Seq(D) /\ \A e \in D : e[1] \in Kinds
  OBVIOUS
<1> HIDE DEF D
<1>. QED
  BY <1>1, Zenon DEF AreLines

LEMMA LinesOfConfig == \A e : AreLines(ConfigLines(e))
<1> SUFFICES ASSUME NEW e PROVE AreLines(ConfigLines(e))
  OBVIOUS
<1> DEFINE a == <<"found", e.guid>>
           b == <<"revision", e.rsdp.revision>>
<1>1. a[1] \in Kinds /\ b[1] \in Kinds
  BY DEF Kinds
<1>2. ConfigLines(e) \in {<<a, b>>, <<>>}
  BY DEF ConfigLines
<1> HIDE DEF a, b
<1>3. AreLines(<<a, b>>) /\ AreLines(<<>>)
  BY <1>1, TheseAreLines
<1>. QED
  BY <1>2, <1>3

LEMMA LinesOfRegion == \A e : AreLines(RegionLines(e))
<1> SUFFICES ASSUME NEW e PROVE AreLines(RegionLines(e))
  OBVIOUS
<1> DEFINE a == <<"region", e.type, e.start>>
<1>1. a[1] \in Kinds
  BY DEF Kinds
<1>2. RegionLines(e) \in {<<a>>, <<>>}
  BY DEF RegionLines
<1> HIDE DEF a
<1>3. AreLines(<<a>>) /\ AreLines(<<>>)
  BY <1>1, TheseAreLines
<1>. QED
  BY <1>2, <1>3

(* The status lines, in their three parts. *)
ApicLine(yes) == <<<<"status", "apic", yes>>>>
EnabledLine(on) == IF on THEN <<<<"status", "enabled", TRUE>>>> ELSE <<>>
OtherLines(vga, i8042, pcat, cores) ==
  <<<<"status", "vga", vga>>, <<"status", "i8042", i8042>>,
    <<"status", "8259", pcat>>, <<"status", "cores", cores>>>>

LEMMA LinesOfStatus ==
  /\ \A yes : AreLines(ApicLine(yes))
  /\ \A on : AreLines(EnabledLine(on))
  /\ \A vga, i8042, pcat, cores : AreLines(OtherLines(vga, i8042, pcat, cores))
<1>1. \A what, v : <<"status", what, v>>[1] \in Kinds
  BY DEF Kinds
<1>2. ASSUME NEW what, NEW v PROVE AreLines(<<<<"status", what, v>>>>) /\ AreLines(<<>>)
  <2> DEFINE a == <<"status", what, v>>
  <2>1. a[1] \in Kinds
    BY <1>1
  <2> HIDE DEF a
  <2>2. AreLines(<<a>>) /\ AreLines(<<>>)
    BY <2>1, TheseAreLines
  <2>. QED
    BY <2>2 DEF a
<1>3. ASSUME NEW vga, NEW i8042, NEW pcat, NEW cores
      PROVE  AreLines(OtherLines(vga, i8042, pcat, cores))
  <2> DEFINE a == <<"status", "vga", vga>>
             b == <<"status", "i8042", i8042>>
             c == <<"status", "8259", pcat>>
             d == <<"status", "cores", cores>>
  <2>1. a[1] \in Kinds /\ b[1] \in Kinds /\ c[1] \in Kinds /\ d[1] \in Kinds
    BY <1>1
  <2>2. OtherLines(vga, i8042, pcat, cores) = <<a, b, c, d>>
    BY DEF OtherLines
  <2> HIDE DEF a, b, c, d
  <2>3. AreLines(<<a, b, c, d>>)
    BY <2>1, TheseAreLines
  <2>. QED
    BY <2>2, <2>3
<1>. QED
  BY <1>2, <1>3, Zenon DEF ApicLine, EnabledLine

LEMMA LinesTogether ==
  ASSUME NEW a, NEW b, AreLines(a), AreLines(b)
  PROVE  AreLines(a \o b) /\ IsSeq(a) /\ IsSeq(b)
<1>1. PICK A : a \in Seq(A) /\ \A d \in A : d[1] \in Kinds
  BY DEF AreLines
<1>2. PICK B : b \in Seq(B) /\ \A d \in B : d[1] \in Kinds
  BY DEF AreLines
<1>3. PICK D : /\ A \subseteq D /\ B \subseteq D
               /\ \A d \in D : d \in A \/ d \in B
  <2>1. /\ A \subseteq A \cup B /\ B \subseteq A \cup B
        /\ \A d \in A \cup B : d \in A \/ d \in B
    OBVIOUS
  <2>. QED
    BY <2>1, Zenon
<1>4. a \in Seq(D) /\ b \in Seq(D)
  BY <1>1, <1>2, <1>3, SeqMonotonic
<1>5. a \o b \in Seq(D) /\ \A d \in D : d[1] \in Kinds
  BY <1>1, <1>2, <1>3, <1>4, ConcatProperties
<1>. QED
  BY <1>1, <1>2, <1>5 DEF AreLines, IsSeq

VersionLine(f) == <<<<"version", P!BootRsdp(f).revision>>>>
TableLines(ts) == [j \in DOMAIN ts |-> <<"table", ts[j]>>]

HasApic(f) == f.cpu.cpuid /\ f.cpu.apic
StatusOf(f) ==
  (ApicLine(HasApic(f)) \o EnabledLine(HasApic(f) /\ f.cpu.enabled))
    \o OtherLines(~P!FadtOf(f).no_vga, P!FadtOf(f).i8042, P!MadtOf(f).pcat,
                  P!EnabledAt(P!MadtOf(f), P!AllVisited(P!MadtOf(f))))

(* What acpi_init prints, and what the loops behind it have after n rounds.*)
AcpiLog(f) == (VersionLine(f) \o TableLines(P!RootOf(f).entries)) \o StatusOf(f)
ConfigPart(f, n) == FlattenSeq([j \in 1 .. n |-> ConfigLines(f.config[j])])
RegionPart(b, n) == FlattenSeq([j \in 1 .. n |-> RegionLines(b.at[(j - 1) * b.stride])])

LEMMA LinesOfTables ==
  ASSUME NEW Tables, NEW ts \in Seq(Tables)
  PROVE  AreLines(TableLines(ts))
<1> DEFINE D == {<<"table", t>> : t \in Tables}
<1>1. \A t : <<"table", t>>[1] \in Kinds
  BY DEF Kinds
<1>2. \A d \in D : d[1] \in Kinds
  BY <1>1
<1>3. TableLines(ts) \in Seq(D)
  BY DEF TableLines
<1> HIDE DEF D
<1>. QED
  BY <1>2, <1>3, Zenon DEF AreLines

LEMMA LinesOfAcpi ==
  ASSUME NEW Tables, NEW f, P!RootOf(f).entries \in Seq(Tables)
  PROVE  /\ AreLines(VersionLine(f)) /\ AreLines(TableLines(P!RootOf(f).entries))
         /\ AreLines(VersionLine(f) \o TableLines(P!RootOf(f).entries))
         /\ AreLines(StatusOf(f)) /\ AreLines(AcpiLog(f))
<1>1. AreLines(VersionLine(f))
  <2> DEFINE a == <<"version", P!BootRsdp(f).revision>>
  <2>1. a[1] \in Kinds /\ VersionLine(f) = <<a>>
    BY DEF Kinds, VersionLine
  <2> HIDE DEF a
  <2>. QED
    BY <2>1, TheseAreLines
<1>2. AreLines(TableLines(P!RootOf(f).entries))
  BY LinesOfTables
<1>3. AreLines(VersionLine(f) \o TableLines(P!RootOf(f).entries))
  BY <1>1, <1>2, LinesTogether
<1>4. AreLines(StatusOf(f))
  <2> DEFINE a == ApicLine(HasApic(f))
             b == EnabledLine(HasApic(f) /\ f.cpu.enabled)
             c == OtherLines(~P!FadtOf(f).no_vga, P!FadtOf(f).i8042, P!MadtOf(f).pcat,
                             P!EnabledAt(P!MadtOf(f), P!AllVisited(P!MadtOf(f))))
  <2>1. AreLines(a) /\ AreLines(b) /\ AreLines(c)
    BY LinesOfStatus, Zenon
  <2>2. StatusOf(f) = (a \o b) \o c
    BY DEF StatusOf
  <2> HIDE DEF a, b, c
  <2>. QED
    BY <2>1, <2>2, LinesTogether
<1>. QED
  BY <1>1, <1>2, <1>3, <1>4, LinesTogether DEF AcpiLog

LEMMA SameFirmware ==
  /\ \A f : Acpi!BootRsdp(f) = P!BootRsdp(f)
  /\ \A entries, sig : Acpi!TableIn(entries, sig) = P!TableIn(entries, sig)
  /\ \A madt : Acpi!EnabledAt(madt, Acpi!Visited(madt, madt.length))
                = P!EnabledAt(madt, P!AllVisited(madt))
<1>1. \A f : Acpi!BootRsdp(f) = P!BootRsdp(f)
  BY DEF Acpi!BootRsdp, P!BootRsdp, Acpi!FirstOf, P!FirstOf, Acpi!IsFirst, P!IsFirst
<1>2. \A entries, sig : Acpi!TableIn(entries, sig) = P!TableIn(entries, sig)
  BY DEF Acpi!TableIn, P!TableIn, Acpi!FirstOf, P!FirstOf, Acpi!IsFirst, P!IsFirst
<1>3. \A madt : Acpi!EnabledAt(madt, Acpi!Visited(madt, madt.length))
                = P!EnabledAt(madt, P!AllVisited(madt))
  <2>1. \A S : Acpi!Cardinality(S) = P!Cardinality(S)
    BY DEF Acpi!Cardinality, P!Cardinality
  <2>2. \A madt : Acpi!Visited(madt, madt.length) = P!AllVisited(madt)
    BY DEF P!AllVisited, Acpi!Visited, P!Visited
  <2>. QED
    BY <2>1, <2>2 DEF Acpi!EnabledAt, P!EnabledAt
<1>. QED
  BY <1>1, <1>2, <1>3

LEMMA BootLogParts ==
  ASSUME NEW Tables, NEW f, NEW b, DOMAIN f.config = 1 .. Len(f.config),
         P!RootOf(f).entries \in Seq(Tables)
  PROVE  BootLog(f, b) =
           (AcpiLog(f) \o ConfigPart(f, Len(f.config)))
             \o RegionPart(b, b.size \div b.stride)
<1> DEFINE entries == P!RootOf(f).entries
           H == VersionLine(f) \o TableLines(entries)
           S == ApicLine(HasApic(f))
           E == EnabledLine(HasApic(f) /\ f.cpu.enabled)
           F == OtherLines(~P!FadtOf(f).no_vga, P!FadtOf(f).i8042, P!MadtOf(f).pcat,
                           P!EnabledAt(P!MadtOf(f), P!AllVisited(P!MadtOf(f))))
<1>1. BootLog(f, b) = ((((H \o S) \o E) \o F) \o ConfigPart(f, Len(f.config)))
                         \o RegionPart(b, b.size \div b.stride)
  <2>1. /\ Acpi!BootRsdp(f) = P!BootRsdp(f)
        /\ Acpi!TableIn(entries, "FACP") = P!FadtOf(f)
        /\ Acpi!TableIn(entries, "APIC") = P!MadtOf(f)
        /\ Acpi!EnabledAt(P!MadtOf(f), Acpi!Visited(P!MadtOf(f), P!MadtOf(f).length))
              = P!EnabledAt(P!MadtOf(f), P!AllVisited(P!MadtOf(f)))
    BY SameFirmware DEF P!FadtOf, P!MadtOf
  <2>2. (IF P!BootRsdp(f).revision < 2 THEN P!BootRsdp(f).rsdt
                                      ELSE P!BootRsdp(f).xsdt).entries = entries
    BY DEF P!RootOf
  <2> HIDE DEF entries
  <2>. QED
    BY <2>1, <2>2
    DEF BootLog, VersionLine, TableLines, ApicLine, EnabledLine, OtherLines, HasApic,
        ConfigPart, RegionPart
<1>2. IsSeq(H) /\ IsSeq(S) /\ IsSeq(E) /\ IsSeq(F)
  <2>1. AreLines(S) /\ AreLines(E) /\ AreLines(F)
    BY LinesOfStatus, Zenon
  <2>2. AreLines(H)
    BY LinesOfAcpi
  <2> HIDE DEF H, S, E, F
  <2>. QED
    BY <2>1, <2>2, LinesTogether
<1>3. AcpiLog(f) = H \o ((S \o E) \o F)
  BY DEF AcpiLog, StatusOf
<1> HIDE DEF H, S, E, F
<1>4. ((H \o S) \o E) \o F = H \o ((S \o E) \o F)
  <2>1. (H \o S) \o E = H \o (S \o E) /\ IsSeq(S \o E)
    BY <1>2, Associative
  <2> DEFINE X == S \o E
  <2> HIDE DEF X
  <2>2. (H \o X) \o F = H \o (X \o F)
    BY <1>2, <2>1, Associative DEF X
  <2>. QED
    BY <2>1, <2>2 DEF X
<1>. QED
  BY <1>1, <1>3, <1>4

Booting == {"console_init", "console_clear", "acpi"}
AcpiIsOver == {"config", "map", "idle", "fault"}

(* The log is the part of the boot log kernel_main has come to. *)
LogInv ==
  /\ kpc \in Booting \cup AcpiIsOver \cup {"wild"}
  /\ kpc \in Booting =>
       /\ k = 0 /\ pc # "done"
       /\ pc \notin {"list", "wild"} => log = <<>>
       /\ pc = "list" => log = VersionLine(fw) \o TableLines(listed)
  /\ kpc \in AcpiIsOver => pc = "done"
  /\ kpc = "config" => /\ k <= Len(fw.config)
                       /\ log = AcpiLog(fw) \o ConfigPart(fw, k)
  /\ kpc = "map" => /\ k <= Entries
                    /\ log = (AcpiLog(fw) \o ConfigPart(fw, Len(fw.config)))
                               \o RegionPart(boot, k)
  /\ kpc = "idle" => log = BootLog(fw, boot)

(* What a step of acpi_init leads to. *)
LEMMA AcpiMoves ==
  ASSUME Acpi!Next
  PROVE  /\ fw' = fw
         /\ \/ pc \notin {"walk", "list"} /\ pc' \notin {"list", "done"}
            \/ pc = "walk" /\ pc' \in {"walk", "wild"}
            \/ pc = "walk" /\ pc' = "list" /\ listed' = listed
            \/ pc = "list" /\ pc' = "list" /\ \E x : listed' = Append(listed, x)
            \/ pc = "list" /\ pc' = "done" /\ UNCHANGED <<info, listed>>
<1> USE DEF Acpi!GoTo, Acpi!Wild
<1>1. CASE Acpi!RsdpFound \/ Acpi!RsdpSkipped \/ Acpi!RsdpMissing \/ Acpi!SetRoots
  BY <1>1 DEF Acpi!RsdpFound, Acpi!RsdpSkipped, Acpi!RsdpMissing, Acpi!SetRoots
<1>2. CASE Acpi!FindFadt \/ Acpi!FindMadt
  BY <1>2 DEF Acpi!FindFadt, Acpi!FindMadt, Acpi!FindTable
<1>3. CASE Acpi!ReadCpu \/ Acpi!ReadBootFlags \/ Acpi!ReadMadtFlags
  BY <1>3 DEF Acpi!ReadCpu, Acpi!ReadBootFlags, Acpi!ReadMadtFlags
<1>4. CASE Acpi!WalkEntry
  BY <1>4 DEF Acpi!WalkEntry
<1>5. CASE Acpi!WalkOver
  BY <1>5 DEF Acpi!WalkOver
<1>6. CASE Acpi!ListTable
  BY <1>6 DEF Acpi!ListTable
<1>7. CASE Acpi!Report
  BY <1>7 DEF Acpi!Report
<1>. QED
  BY <1>1, <1>2, <1>3, <1>4, <1>5, <1>6, <1>7 DEF Acpi!Next

LEMMA OneMoreTable ==
  ASSUME NEW Tables, NEW ts \in Seq(Tables), NEW x, Append(ts, x) \in Seq(Tables)
  PROVE  /\ Last(Append(ts, x)) = x
         /\ TableLines(Append(ts, x)) = TableLines(ts) \o <<<<"table", x>>>>
<1> DEFINE L == Len(ts)
           a == [j \in 1 .. L |-> <<"table", ts[j]>>]
           b == <<"table", x>>
<1>1. L \in Nat /\ DOMAIN ts = 1 .. L /\ Len(Append(ts, x)) = L + 1
      /\ DOMAIN Append(ts, x) = 1 .. (L + 1)
      /\ Append(ts, x)[L + 1] = x /\ \A j \in 1 .. L : Append(ts, x)[j] = ts[j]
  OBVIOUS
<1>2. Last(Append(ts, x)) = x
  BY <1>1 DEF Last
<1>3. TableLines(ts) = a
  BY <1>1 DEF TableLines
<1>4. TableLines(Append(ts, x)) = [j \in 1 .. (L + 1) |-> IF j = L + 1 THEN b ELSE a[j]]
  BY <1>1 DEF TableLines
<1>5. PICK D : a \in Seq(D) /\ b \in D
  <2> DEFINE D == {a[j] : j \in 1 .. L} \cup {b}
  <2>1. a \in Seq(D) /\ b \in D
    BY <1>1
  <2> HIDE DEF D
  <2>. QED
    BY <2>1, Zenon
<1>. /\ Len(a) = L /\ DOMAIN a = 1 .. L
  BY <1>1
<1> HIDE DEF a, b, L
<1>6. a \o <<b>> = [j \in 1 .. (L + 1) |-> IF j = L + 1 THEN b ELSE a[j]]
  <2>1. a \o <<b>> = Append(a, b)
    BY <1>5, AppendIsConcat
  <2>2. Append(a, b) = [j \in 1 .. (L + 1) |-> IF j = L + 1 THEN b ELSE a[j]]
    <3> DEFINE c == Append(a, b)
    <3>1. /\ c \in Seq(D) /\ Len(c) = L + 1 /\ c[L + 1] = b
          /\ \A j \in 1 .. L : c[j] = a[j]
      BY <1>5
    <3> HIDE DEF c
    <3>2. c \in [1 .. (L + 1) -> D]
      BY <3>1
    <3>3. \A j \in 1 .. (L + 1) : c[j] = IF j = L + 1 THEN b ELSE a[j]
      BY <3>1, <1>1
    <3>4. c = [j \in 1 .. (L + 1) |-> IF j = L + 1 THEN b ELSE a[j]]
      BY <3>2, <3>3
    <3>. QED
      BY <3>4 DEF c
  <2>. QED
    BY <2>1, <2>2
<1>. QED
  BY <1>2, <1>3, <1>4, <1>6 DEF b

LEMMA AcpiStepLog ==
  ASSUME NEW Tables, P!WellFormed(Tables), P!Told(Tables), P!Told(Tables)',
         LogInv, AcpiStep
  PROVE  LogInv'
<1>1. /\ kpc = "acpi" /\ k' = k /\ k = 0 /\ log' = log \o AcpiLines /\ Acpi!Next
      /\ kpc' = CASE pc' = "done" -> "config" [] pc' = "wild" -> "wild" [] OTHER -> kpc
  BY DEF AcpiStep, Say, LogInv, Booting
<1>2. /\ fw' = fw /\ pc # "done"
      /\ pc \notin {"list", "wild"} => log = <<>>
      /\ pc = "list" => log = VersionLine(fw) \o TableLines(listed)
  BY <1>1, AcpiMoves DEF LogInv, Booting
<1>3. CASE pc' = "wild"
  BY <1>1, <1>3 DEF LogInv, Booting, AcpiIsOver
<1>4. CASE pc \notin {"walk", "list"} /\ pc' \notin {"list", "done", "wild"}
  <2>1. AcpiLines = <<>>
    BY <1>4 DEF AcpiLines
  <2>2. pc # "wild"
    <3> USE DEF Acpi!RsdpFound, Acpi!RsdpSkipped, Acpi!RsdpMissing, Acpi!SetRoots,
                Acpi!FindFadt, Acpi!FindMadt, Acpi!ReadCpu, Acpi!ReadBootFlags,
                Acpi!ReadMadtFlags, Acpi!WalkEntry, Acpi!WalkOver, Acpi!ListTable,
                Acpi!Report
    <3>. QED
      BY <1>1 DEF Acpi!Next
  <2>3. log' = <<>>
    BY <1>1, <1>2, <1>4, <2>1, <2>2
  <2>. QED
    BY <1>1, <1>4, <2>3 DEF LogInv, Booting, AcpiIsOver
<1>5. CASE pc = "walk" /\ pc' = "walk"
  <2>1. AcpiLines = <<>>
    BY <1>5 DEF AcpiLines
  <2>2. log' = <<>>
    BY <1>1, <1>2, <1>5, <2>1
  <2>. QED
    BY <1>1, <1>5, <2>2 DEF LogInv, Booting, AcpiIsOver
<1>6. CASE pc = "walk" /\ pc' = "list" /\ listed' = listed
  <2>1. AcpiLines = VersionLine(fw)
    <3>1. AcpiLines = <<<<"version", info.rsdp.revision>>>>
      BY <1>6 DEF AcpiLines
    <3>2. info.rsdp = P!BootRsdp(fw)
      BY <1>6 DEF P!Told, P!Tail3
    <3>. QED
      BY <3>1, <3>2 DEF VersionLine
  <2>2. listed' = <<>>
    BY <1>6 DEF P!Told
  <2>3. TableLines(listed') = <<>>
    BY <2>2 DEF TableLines
  <2>4. VersionLine(fw) \o <<>> = VersionLine(fw) /\ <<>> \o VersionLine(fw) = VersionLine(fw)
    BY DEF VersionLine
  <2>5. log' = VersionLine(fw') \o TableLines(listed')
    BY <1>1, <1>2, <1>6, <2>1, <2>3, <2>4
  <2>6. kpc' = "acpi"
    BY <1>1, <1>6
  <2>. QED
    BY <1>1, <1>6, <2>5, <2>6 DEF LogInv, Booting, AcpiIsOver, VersionLine, TableLines
<1>7. CASE pc = "list" /\ pc' = "list" /\ \E x : listed' = Append(listed, x)
  <2>1. PICK x : listed' = Append(listed, x)
    BY <1>7
  <2>2. listed \in Seq(Tables) /\ listed' \in Seq(Tables)
    BY <1>7 DEF P!Told
  <2>3. /\ Last(listed') = x
        /\ TableLines(listed') = TableLines(listed) \o <<<<"table", x>>>>
    BY <2>1, <2>2, OneMoreTable
  <2>4. AcpiLines = <<<<"table", x>>>>
    BY <1>7, <2>3 DEF AcpiLines
  <2>5. IsSeq(VersionLine(fw)) /\ IsSeq(TableLines(listed)) /\ IsSeq(<<<<"table", x>>>>)
    <3>1. AreLines(TableLines(listed))
      BY <2>2, LinesOfTables
    <3>2. P!RootOf(fw).entries \in Seq(Tables)
      BY <1>7 DEF P!Told
    <3>3. AreLines(VersionLine(fw))
      BY <3>2, LinesOfAcpi
    <3> DEFINE a == <<"table", x>>
    <3> HIDE DEF a
    <3>4. <<a>> \in Seq({a})
      OBVIOUS
    <3>5. IsSeq(<<a>>)
      BY <3>4, Zenon DEF IsSeq
    <3>. QED
      BY <3>1, <3>3, <3>5, LinesTogether DEF a
  <2>6. log' = VersionLine(fw) \o TableLines(listed')
    BY <1>1, <1>2, <1>7, <2>3, <2>4, <2>5, Associative
  <2>7. kpc' = "acpi"
    BY <1>1, <1>7
  <2>. QED
    BY <1>1, <1>2, <1>7, <2>6, <2>7 DEF LogInv, Booting, AcpiIsOver, VersionLine, TableLines
<1>8. CASE pc = "list" /\ pc' = "done" /\ UNCHANGED <<info, listed>>
  <2>1. AcpiLines = StatusLines
    BY <1>8 DEF AcpiLines
  <2>2. /\ listed = P!RootOf(fw).entries
        /\ info.has_apic = HasApic(fw)
        /\ info.apic_enabled = (HasApic(fw) /\ fw.cpu.enabled)
        /\ info.has_i8042 = P!FadtOf(fw).i8042 /\ info.has_vga = ~P!FadtOf(fw).no_vga
        /\ info.has_8259 = P!MadtOf(fw).pcat
        /\ info.numCores = P!EnabledAt(P!MadtOf(fw), P!AllVisited(P!MadtOf(fw)))
    <3>1. pc' = "done" /\ fw' = fw /\ info' = info /\ listed' = listed
      BY <1>2, <1>8
    <3>. QED
      BY <3>1 DEF P!Told, HasApic
  <2>3. StatusLines = StatusOf(fw)
    <3>1. StatusLines =
            (ApicLine(HasApic(fw)) \o EnabledLine(HasApic(fw) /\ fw.cpu.enabled))
              \o OtherLines(info.has_vga, info.has_i8042, info.has_8259, info.numCores)
      <4>1. CASE info.has_apic
        BY <2>2, <4>1 DEF StatusLines, ApicLine, EnabledLine, OtherLines
      <4>2. CASE ~info.has_apic
        <5>1. ~HasApic(fw)
          BY <2>2, <4>2
        <5>2. EnabledLine(HasApic(fw) /\ fw.cpu.enabled) = <<>>
          BY <5>1 DEF EnabledLine
        <5>3. ApicLine(HasApic(fw)) = <<<<"status", "apic", FALSE>>>>
          <6>1. HasApic(fw) = FALSE
            BY <5>1 DEF HasApic
          <6>. QED
            BY <6>1, Zenon DEF ApicLine
        <5>4. <<<<"status", "apic", FALSE>>>> \o <<>> = <<<<"status", "apic", FALSE>>>>
          OBVIOUS
        <5>. QED
          BY <4>2, <5>2, <5>3, <5>4 DEF StatusLines, OtherLines
      <4>. QED
        BY <4>1, <4>2
    <3>. QED
      BY <2>2, <3>1 DEF StatusOf
  <2>4. log' = AcpiLog(fw)
    BY <1>1, <1>2, <1>8, <2>1, <2>2, <2>3 DEF AcpiLog
  <2>5. IsSeq(AcpiLog(fw))
    <3>1. P!RootOf(fw).entries \in Seq(Tables)
      BY <1>8 DEF P!Told
    <3>. QED
      BY <3>1, LinesOfAcpi, LinesTogether
  <2>6. AcpiLog(fw) \o ConfigPart(fw, 0) = AcpiLog(fw)
    <3>1. ConfigPart(fw, 0) = <<>>
      <4>1. [j \in 1 .. 0 |-> ConfigLines(fw.config[j])] = <<>>
        OBVIOUS
      <4>. QED
        BY <4>1, FlattenNothing DEF ConfigPart
    <3>. QED
      BY <2>5, <3>1, ConcatEmptySeq DEF IsSeq
  <2>7. 0 <= Len(fw.config)
    BY DEF P!WellFormed, P!Told
  <2>8. kpc' = "config" /\ k' = 0
    BY <1>1, <1>8
  <2>9. log' = AcpiLog(fw') \o ConfigPart(fw', k')
    BY <1>2, <2>4, <2>6, <2>8
  <2>. QED
    BY <1>2, <1>8, <2>7, <2>8, <2>9 DEF LogInv, Booting, AcpiIsOver
<1>. QED
  BY <1>1, <1>3, <1>4, <1>5, <1>6, <1>7, <1>8, AcpiMoves

LEMMA NothingYet ==
  /\ \A f : ConfigPart(f, 0) = <<>>
  /\ \A b : RegionPart(b, 0) = <<>>
<1>1. ASSUME NEW f PROVE ConfigPart(f, 0) = <<>>
  <2>1. [j \in 1 .. 0 |-> ConfigLines(f.config[j])] = <<>>
    OBVIOUS
  <2>. QED
    BY <2>1, FlattenNothing DEF ConfigPart
<1>2. ASSUME NEW b PROVE RegionPart(b, 0) = <<>>
  <2>1. [j \in 1 .. 0 |-> RegionLines(b.at[(j - 1) * b.stride])] = <<>>
    OBVIOUS
  <2>. QED
    BY <2>1, FlattenNothing DEF RegionPart
<1>. QED
  BY <1>1, <1>2

LEMMA OneMoreEntry ==
  ASSUME NEW f, NEW n \in Nat
  PROVE  /\ IsSeq(ConfigPart(f, n))
         /\ ConfigPart(f, n + 1) = ConfigPart(f, n) \o ConfigLines(f.config[n + 1])
<1> DEFINE s == [j \in 1 .. (n + 1) |-> ConfigLines(f.config[j])]
<1>1. \A j \in 1 .. (n + 1) : IsSeq(s[j])
  BY LinesOfConfig, LinesTogether
<1>2. /\ [j \in 1 .. n |-> s[j]] = [j \in 1 .. n |-> ConfigLines(f.config[j])]
      /\ [j \in 1 .. (n + 1) |-> s[j]] = s
      /\ s[n + 1] = ConfigLines(f.config[n + 1])
  OBVIOUS
<1>3. ConfigPart(f, n) = FlattenSeq([j \in 1 .. n |-> s[j]])
  BY <1>2 DEF ConfigPart
<1>4. ConfigPart(f, n + 1) = FlattenSeq(s)
  BY DEF ConfigPart
<1> HIDE DEF s
<1>5. /\ IsSeq(FlattenSeq([j \in 1 .. n |-> s[j]]))
      /\ FlattenSeq([j \in 1 .. (n + 1) |-> s[j]])
           = FlattenSeq([j \in 1 .. n |-> s[j]]) \o s[n + 1]
  BY <1>1, FlattenNext
<1>. QED
  BY <1>2, <1>3, <1>4, <1>5

LEMMA OneMoreRegion ==
  ASSUME NEW b, NEW n \in Nat
  PROVE  /\ IsSeq(RegionPart(b, n))
         /\ RegionPart(b, n + 1) = RegionPart(b, n) \o RegionLines(b.at[n * b.stride])
<1> DEFINE s == [j \in 1 .. (n + 1) |-> RegionLines(b.at[(j - 1) * b.stride])]
<1>1. \A j \in 1 .. (n + 1) : IsSeq(s[j])
  BY LinesOfRegion, LinesTogether
<1>2. /\ [j \in 1 .. n |-> s[j]] = [j \in 1 .. n |-> RegionLines(b.at[(j - 1) * b.stride])]
      /\ [j \in 1 .. (n + 1) |-> s[j]] = s
      /\ s[n + 1] = RegionLines(b.at[n * b.stride])
  <2>1. (n + 1) - 1 = n
    OBVIOUS
  <2>. QED
    BY <2>1
<1>3. RegionPart(b, n) = FlattenSeq([j \in 1 .. n |-> s[j]])
  BY <1>2 DEF RegionPart
<1>4. RegionPart(b, n + 1) = FlattenSeq(s)
  BY DEF RegionPart
<1> HIDE DEF s
<1>5. /\ IsSeq(FlattenSeq([j \in 1 .. n |-> s[j]]))
      /\ FlattenSeq([j \in 1 .. (n + 1) |-> s[j]])
           = FlattenSeq([j \in 1 .. n |-> s[j]]) \o s[n + 1]
  BY <1>1, FlattenNext
<1>. QED
  BY <1>2, <1>3, <1>4, <1>5

LEMMA LogInit ==
  ASSUME NEW Tables, P!WellFormed(Tables), Init PROVE LogInv
<1>1. kpc = "console_init" /\ k = 0 /\ log = <<>> /\ pc = "find_rsdp"
  BY DEF Init, Acpi!Init
<1>. QED
  BY <1>1 DEF LogInv, Booting, AcpiIsOver

LEMMA LogStep ==
  ASSUME NEW Tables, P!WellFormed(Tables), P!Told(Tables), P!Told(Tables)',
         LogInv, WalkOK, [Next]_vars
  PROVE  LogInv'
<1>1. CASE ConsoleInit \/ ConsoleClear
  <2>1. /\ kpc \in Booting /\ kpc' \in Booting
        /\ UNCHANGED <<k, log, pc, fw, listed>>
    BY <1>1 DEF ConsoleInit, ConsoleClear, Booting, acpi
  <2>. QED
    BY <2>1 DEF LogInv, Booting, AcpiIsOver, VersionLine, TableLines
<1>2. CASE PutChar
  <2>1. UNCHANGED <<boot, kpc, k, log, pc, fw, listed>>
    BY <1>2 DEF PutChar, acpi
  <2>. QED
    BY <2>1 DEF LogInv, Booting, AcpiIsOver, VersionLine, TableLines, Entries
<1>3. CASE AcpiStep
  BY <1>3, AcpiStepLog
<1>4. CASE ReadConfig
  <2>1. /\ kpc = "config" /\ kpc' = "config" /\ UNCHANGED <<boot, pc, fw, listed>>
        /\ k < Len(fw.config) /\ k' = k + 1
        /\ log' = log \o ConfigLines(fw.config[k + 1])
    BY <1>4 DEF ReadConfig, Say, acpi
  <2>2. /\ pc = "done" /\ log = AcpiLog(fw) \o ConfigPart(fw, k) /\ k \in Nat
        /\ Len(fw.config) \in Nat
    BY <2>1 DEF LogInv, AcpiIsOver, WalkOK, P!WellFormed, P!Told
  <2>3. P!RootOf(fw).entries \in Seq(Tables)
    BY <2>2 DEF P!Told
  <2>4. /\ IsSeq(AcpiLog(fw)) /\ IsSeq(ConfigPart(fw, k))
        /\ IsSeq(ConfigLines(fw.config[k + 1]))
        /\ ConfigPart(fw, k + 1) = ConfigPart(fw, k) \o ConfigLines(fw.config[k + 1])
    BY <2>2, <2>3, OneMoreEntry, LinesOfAcpi, LinesOfConfig, LinesTogether
  <2>5. log' = AcpiLog(fw) \o ConfigPart(fw, k + 1)
    <3>1. (AcpiLog(fw) \o ConfigPart(fw, k)) \o ConfigLines(fw.config[k + 1])
            = AcpiLog(fw) \o (ConfigPart(fw, k) \o ConfigLines(fw.config[k + 1]))
      BY <2>4, Associative
    <3>. QED
      BY <2>1, <2>2, <2>4, <3>1
  <2>6. fw' = fw /\ k' = k + 1 /\ k + 1 <= Len(fw.config)
    BY <2>1, <2>2
  <2>7. log' = AcpiLog(fw') \o ConfigPart(fw', k') /\ k' <= Len(fw'.config)
    BY <2>5, <2>6
  <2>. QED
    BY <2>1, <2>2, <2>7 DEF LogInv, Booting, AcpiIsOver
<1>5. CASE ConfigOver
  <2>1. /\ kpc = "config" /\ kpc' = IF boot.stride = 0 THEN "fault" ELSE "map"
        /\ UNCHANGED <<boot, pc, fw, listed, log>>
        /\ k >= Len(fw.config) /\ k' = 0
    BY <1>5 DEF ConfigOver, acpi
  <2>2. /\ pc = "done" /\ log = AcpiLog(fw) \o ConfigPart(fw, k) /\ k \in Nat
        /\ Len(fw.config) \in Nat /\ k <= Len(fw.config)
        /\ P!RootOf(fw).entries \in Seq(Tables)
    BY <2>1 DEF LogInv, AcpiIsOver, WalkOK, P!WellFormed, P!Told
  <2>3. k = Len(fw.config)
    BY <2>1, <2>2
  <2>4. IsSeq(AcpiLog(fw) \o ConfigPart(fw, k))
    <3>1. IsSeq(AcpiLog(fw)) /\ IsSeq(ConfigPart(fw, k))
      BY <2>2, OneMoreEntry, LinesOfAcpi, LinesTogether
    <3>. QED
      BY <3>1, Associative
  <2>5. log = (AcpiLog(fw) \o ConfigPart(fw, Len(fw.config))) \o RegionPart(boot, 0)
    <3>1. PICK D : log \in Seq(D)
      BY <2>2, <2>4 DEF IsSeq
    <3>2. log \o <<>> = log
      BY <3>1, ConcatEmptySeq
    <3>3. RegionPart(boot, 0) = <<>>
      BY NothingYet
    <3>. QED
      BY <2>2, <2>3, <3>2, <3>3
  <2>6. boot.stride # 0 => 0 <= Entries
    BY KernelAssumption DEF WalkOK, Entries
  <2>7. log' = (AcpiLog(fw') \o ConfigPart(fw', Len(fw'.config))) \o RegionPart(boot', k')
    BY <2>1, <2>5
  <2>. QED
    BY <2>1, <2>2, <2>6, <2>7 DEF LogInv, Booting, AcpiIsOver, Entries
<1>6. CASE ReadDescriptor
  <2>1. /\ kpc = "map" /\ kpc' = "map" /\ UNCHANGED <<boot, pc, fw, listed>>
        /\ k < Entries /\ k' = k + 1
        /\ log' = log \o RegionLines(boot.at[k * boot.stride])
    BY <1>6 DEF ReadDescriptor, Say, Descriptor, acpi
  <2> DEFINE before == AcpiLog(fw) \o ConfigPart(fw, Len(fw.config))
  <2>2. /\ pc = "done" /\ log = before \o RegionPart(boot, k) /\ k \in Nat
        /\ Len(fw.config) \in Nat /\ P!RootOf(fw).entries \in Seq(Tables)
        /\ Entries \in Nat
    <3>1. Entries \in Nat
      BY <2>1, KernelAssumption DEF WalkOK, Entries
    <3>2. pc = "done" /\ k \in Nat /\ log = before \o RegionPart(boot, k)
      BY <2>1 DEF LogInv, AcpiIsOver, WalkOK
    <3>. QED
      BY <3>1, <3>2 DEF P!WellFormed, P!Told
  <2>3. IsSeq(before)
    <3>1. IsSeq(AcpiLog(fw)) /\ IsSeq(ConfigPart(fw, Len(fw.config)))
      BY <2>2, OneMoreEntry, LinesOfAcpi, LinesTogether
    <3>. QED
      BY <3>1, Associative
  <2>4. /\ IsSeq(RegionPart(boot, k)) /\ IsSeq(RegionLines(boot.at[k * boot.stride]))
        /\ RegionPart(boot, k + 1)
             = RegionPart(boot, k) \o RegionLines(boot.at[k * boot.stride])
    BY <2>2, OneMoreRegion, LinesOfRegion, LinesTogether
  <2> HIDE DEF before
  <2>5. log' = before \o RegionPart(boot, k + 1)
    <3>1. (before \o RegionPart(boot, k)) \o RegionLines(boot.at[k * boot.stride])
            = before \o (RegionPart(boot, k) \o RegionLines(boot.at[k * boot.stride]))
      BY <2>3, <2>4, Associative
    <3>. QED
      BY <2>1, <2>2, <2>4, <3>1
  <2>6. boot' = boot /\ fw' = fw /\ k' = k + 1 /\ k + 1 <= Entries
    BY <2>1, <2>2
  <2>7. log' = (AcpiLog(fw') \o ConfigPart(fw', Len(fw'.config))) \o RegionPart(boot', k')
    BY <2>5, <2>6 DEF before
  <2>. QED
    BY <2>1, <2>2, <2>6, <2>7 DEF LogInv, Booting, AcpiIsOver, Entries
<1>7. CASE Idle
  <2>1. /\ kpc = "map" /\ kpc' = "idle" /\ UNCHANGED <<boot, pc, fw, log>> /\ k >= Entries
    BY <1>7 DEF Idle, acpi
  <2>2. /\ pc = "done" /\ k <= Entries /\ k \in Nat /\ Entries \in Nat
        /\ log = (AcpiLog(fw) \o ConfigPart(fw, Len(fw.config))) \o RegionPart(boot, k)
        /\ DOMAIN fw.config = 1 .. Len(fw.config) /\ P!RootOf(fw).entries \in Seq(Tables)
    <3>1. Entries \in Nat
      BY <2>1, KernelAssumption DEF WalkOK, Entries
    <3>2. /\ pc = "done" /\ k <= Entries /\ k \in Nat
          /\ log = (AcpiLog(fw) \o ConfigPart(fw, Len(fw.config))) \o RegionPart(boot, k)
      BY <2>1 DEF LogInv, AcpiIsOver, WalkOK
    <3>. QED
      BY <3>1, <3>2 DEF P!WellFormed, P!Told
  <2>3. k = boot.size \div boot.stride
    BY <2>1, <2>2 DEF Entries
  <2>4. log = BootLog(fw, boot)
    BY <2>2, <2>3, BootLogParts
  <2>5. log' = BootLog(fw', boot')
    BY <2>1, <2>4
  <2>. QED
    BY <2>1, <2>2, <2>5 DEF LogInv, Booting, AcpiIsOver
<1>8. CASE UNCHANGED vars
  <2>1. UNCHANGED <<boot, kpc, k, log, pc, fw, listed>>
    BY <1>8 DEF vars, acpi
  <2>. QED
    BY <2>1 DEF LogInv, Booting, AcpiIsOver, VersionLine, TableLines, Entries
<1>. QED
  BY <1>1, <1>2, <1>3, <1>4, <1>5, <1>6, <1>7, <1>8 DEF Next

LEMMA LogInvariance ==
  ASSUME NEW Tables, P!WellFormed(Tables), P!Sound(Tables)
  PROVE  Spec => []LogInv
<1>1. Init => LogInv
  BY LogInit
<1>2. P!Told(Tables) /\ P!Told(Tables)' /\ LogInv /\ WalkOK /\ [Next]_vars => LogInv'
  BY LogStep
<1>3. Spec => [](P!Told(Tables) /\ P!TypeOK)
  BY AcpiTold
<1>. QED
  BY <1>1, <1>2, <1>3, WalkOKInductive, PTL DEF Spec

(* When the kernel comes to its final loop it has printed the boot log,    *)
(* line by line: for every firmware with sound tables, every configuration *)
(* table and every memory map (main.c:24-65).                              *)
THEOREM LogIsTheBootLog ==
  ASSUME NEW Tables, P!WellFormed(Tables), P!Sound(Tables)
  PROVE  Spec => []LogIsBootLog
<1>1. LogInv => LogIsBootLog
  BY DEF LogInv, LogIsBootLog
<1>2. Spec => []LogInv
  BY LogInvariance
<1>. QED
  BY <1>1, <1>2, PTL

-----------------------------------------------------------------------------
(* The characters of the lines still to be printed. *)

Chars == Kinds \cup {"\n"}

LineWidth(l, n) == Width[l[n][1]]

Remaining(line, c) == [j \in 1 .. (Width[line[1]] - c) |-> line[1]] \o <<"\n">>

Texts(l, n) == [j \in 1 .. (Len(l) - n) |-> Text(l[n + j])]
Pending(l, n) == FlattenSeq(Texts(l, n))

LEMMA KindOfLine ==
  ASSUME NEW l, AreLines(l)
  PROVE  /\ Len(l) \in Nat /\ DOMAIN l = 1 .. Len(l)
         /\ \A n \in 1 .. Len(l) : l[n][1] \in Kinds /\ LineWidth(l, n) \in 1 .. (Cols - 1)
<1>1. PICK D : l \in Seq(D) /\ \A d \in D : d[1] \in Kinds
  BY DEF AreLines
<1>2. Len(l) \in Nat /\ DOMAIN l = 1 .. Len(l) /\ \A n \in 1 .. Len(l) : l[n] \in D
  BY <1>1
<1>3. \A n \in 1 .. Len(l) : l[n][1] \in Kinds
  BY <1>1, <1>2
<1>. QED
  BY <1>2, <1>3, KernelAssumption DEF LineWidth

LEMMA RemainingOf ==
  ASSUME NEW line, line[1] \in Kinds, NEW c \in Nat, c <= Width[line[1]]
  PROVE  /\ Remaining(line, c) \in Seq(Chars)
         /\ c < Width[line[1]] =>
              Remaining(line, c) = <<line[1]>> \o Remaining(line, c + 1)
         /\ c = Width[line[1]] => Remaining(line, c) = <<"\n">>
         /\ Remaining(line, 0) = Text(line) /\ Text(line) \in Seq(Chars)
<1> DEFINE W == Width[line[1]]
           ch == line[1]
           R(m) == [j \in 1 .. m |-> ch]
<1>1. W \in Nat /\ ch \in Chars /\ "\n" \in Chars
  BY KernelAssumption DEF Chars
<1>2. \A m \in Nat : R(m) \in Seq(Chars)
  BY <1>1
<1>3. <<"\n">> \in Seq(Chars) /\ <<ch>> \in Seq(Chars)
  BY <1>1
<1>4. \A m \in Nat : R(m + 1) = <<ch>> \o R(m)
  <2> SUFFICES ASSUME NEW m \in Nat PROVE R(m + 1) = <<ch>> \o R(m)
    OBVIOUS
  <2> DEFINE r == R(m)
             q == R(m + 1)
             h == <<ch>>
  <2>1. /\ r \in Seq(Chars) /\ Len(r) = m /\ q \in Seq(Chars) /\ Len(q) = m + 1
        /\ \A j \in 1 .. m : r[j] = ch
        /\ \A j \in 1 .. (m + 1) : q[j] = ch
    BY <1>1
  <2>2. h \in Seq(Chars) /\ Len(h) = 1 /\ h[1] = ch
    BY <1>1
  <2> HIDE DEF r, q, h
  <2>3. /\ h \o r \in Seq(Chars) /\ Len(h \o r) = m + 1
        /\ \A j \in 1 .. (m + 1) : (h \o r)[j] = IF j <= 1 THEN h[j] ELSE r[j - 1]
    <3>1. /\ h \o r \in Seq(Chars) /\ Len(h \o r) = Len(h) + Len(r)
          /\ \A j \in 1 .. (Len(h) + Len(r)) :
               (h \o r)[j] = IF j <= Len(h) THEN h[j] ELSE r[j - Len(h)]
      BY <2>1, <2>2, ConcatProperties
    <3>2. 1 + m = m + 1
      OBVIOUS
    <3>. QED
      BY <3>1, <3>2, <2>1, <2>2
  <2>4. ASSUME NEW j \in 1 .. (m + 1) PROVE (h \o r)[j] = q[j]
    <3>1. CASE j = 1
      BY <3>1, <2>1, <2>2, <2>3
    <3>2. CASE j # 1
      <4>1. j - 1 \in 1 .. m /\ ~(j <= 1)
        BY <3>2
      <4>. QED
        BY <4>1, <2>1, <2>3
    <3>. QED
      BY <3>1, <3>2
  <2>5. q = h \o r
    BY <2>1, <2>3, <2>4, SeqEqual
  <2>. QED
    BY <2>5 DEF q, h, r
<1> HIDE DEF R, W, ch
<1>5. Remaining(line, c) = R(W - c) \o <<"\n">> /\ Text(line) = R(W) \o <<"\n">>
      /\ Remaining(line, 0) = R(W - 0) \o <<"\n">>
      /\ Remaining(line, c + 1) = R(W - (c + 1)) \o <<"\n">>
  BY DEF Remaining, Text, R, W, ch
<1>6. W - c \in Nat /\ W - 0 = W
  BY <1>1 DEF W
<1>7. Remaining(line, c) \in Seq(Chars) /\ Text(line) \in Seq(Chars)
      /\ Remaining(line, 0) = Text(line)
  BY <1>1, <1>2, <1>3, <1>5, <1>6, ConcatProperties
<1>8. ASSUME c < W PROVE Remaining(line, c) = <<ch>> \o Remaining(line, c + 1)
  <2>1. PICK m \in Nat : W - c = m + 1 /\ W - (c + 1) = m
    <3>1. W - (c + 1) \in Nat /\ W - c = (W - (c + 1)) + 1
      BY <1>8, <1>1
    <3>. QED
      BY <3>1
  <2>2. (<<ch>> \o R(m)) \o <<"\n">> = <<ch>> \o (R(m) \o <<"\n">>)
    <3>1. R(m) \in Seq(Chars)
      BY <1>2
    <3>. QED
      BY <3>1, <1>3, ConcatAssociative
  <2>. QED
    BY <1>4, <1>5, <2>1, <2>2
<1>9. ASSUME c = W PROVE Remaining(line, c) = <<"\n">>
  <2>1. R(0) = <<>>
    BY DEF R
  <2>2. W - c = 0
    BY <1>9, <1>1
  <2>3. <<>> \o <<"\n">> = <<"\n">>
    BY <1>3, ConcatEmptySeq
  <2>. QED
    BY <1>5, <2>1, <2>2, <2>3
<1>. QED
  BY <1>7, <1>8, <1>9 DEF W, ch

LEMMA PendingText ==
  ASSUME NEW l, AreLines(l), NEW n \in 0 .. Len(l)
  PROVE  /\ Pending(l, n) \in Seq(Chars)
         /\ n = Len(l) => Pending(l, n) = <<>>
         /\ n < Len(l) => Pending(l, n) = Text(l[n + 1]) \o Pending(l, n + 1)
<1>1. \A m \in 1 .. Len(l) : Text(l[m]) \in Seq(Chars)
  <2> SUFFICES ASSUME NEW m \in 1 .. Len(l) PROVE Text(l[m]) \in Seq(Chars)
    OBVIOUS
  <2>1. l[m][1] \in Kinds /\ 0 <= Width[l[m][1]]
    BY KindOfLine, KernelAssumption
  <2>. QED
    BY <2>1, RemainingOf
<1>2. ASSUME NEW m \in 0 .. Len(l) PROVE Texts(l, m) \in Seq(Seq(Chars))
  <2>1. Len(l) - m \in Nat /\ \A j \in 1 .. (Len(l) - m) : m + j \in 1 .. Len(l)
    BY KindOfLine
  <2>. QED
    BY <2>1, <1>1 DEF Texts
<1>3. Pending(l, n) \in Seq(Chars)
  <2>1. Texts(l, n) \in Seq(Seq(Chars)) /\ <<>> \in Seq(Chars)
    BY <1>2
  <2>. QED
    BY <2>1, FlattenAppend DEF Pending
<1>4. ASSUME n = Len(l) PROVE Pending(l, n) = <<>>
  <2>1. Texts(l, n) = <<>>
    <3>1. Len(l) - n = 0
      BY <1>4, KindOfLine
    <3>. QED
      BY <3>1 DEF Texts
  <2>. QED
    BY <2>1, FlattenNothing DEF Pending
<1>5. ASSUME n < Len(l) PROVE Pending(l, n) = Text(l[n + 1]) \o Pending(l, n + 1)
  <2> DEFINE h == Text(l[n + 1])
             t == Texts(l, n + 1)
             u == Texts(l, n)
             N == Len(l) - n
  <2>1. /\ N \in Nat \ {0} /\ Len(l) - (n + 1) = N - 1 /\ n + 1 \in 0 .. Len(l)
        /\ n + 1 \in 1 .. Len(l) /\ n \in Nat /\ Len(l) \in Nat
    BY <1>5, KindOfLine
  <2>2. h \in Seq(Chars) /\ t \in Seq(Seq(Chars)) /\ u \in Seq(Seq(Chars))
    BY <1>1, <1>2, <2>1
  <2>3. /\ Len(t) = N - 1 /\ \A j \in 1 .. (N - 1) : t[j] = Text(l[(n + 1) + j])
        /\ Len(u) = N /\ \A j \in 1 .. N : u[j] = Text(l[n + j])
    <3>1. t = [j \in 1 .. (N - 1) |-> Text(l[(n + 1) + j])]
      BY <2>1 DEF Texts
    <3>2. u = [j \in 1 .. N |-> Text(l[n + j])]
      BY DEF Texts
    <3> HIDE DEF t, u, N
    <3>. QED
      BY <2>1, <3>1, <3>2
  <2> DEFINE g == <<h>>
  <2>4. g \in Seq(Seq(Chars)) /\ Len(g) = 1 /\ g[1] = h
    BY <2>2
  <2>5. u[1] = h
    <3> HIDE DEF u, N
    <3>1. 1 \in 1 .. N
      BY <2>1
    <3>. QED
      BY <3>1, <2>3
  <2>6. \A j \in 2 .. N : u[j] = t[j - 1]
    <3> SUFFICES ASSUME NEW j \in 2 .. N PROVE u[j] = t[j - 1]
      OBVIOUS
    <3> HIDE DEF u, t, N
    <3>1. j \in 1 .. N /\ j - 1 \in 1 .. (N - 1) /\ (n + 1) + (j - 1) = n + j
      BY <2>1
    <3>. QED
      BY <2>3, <3>1
  <2> HIDE DEF h, t, u, N, g
  <2>7. /\ g \o t \in Seq(Seq(Chars)) /\ Len(g \o t) = N
        /\ \A j \in 1 .. N : (g \o t)[j] = IF j <= 1 THEN g[j] ELSE t[j - 1]
    <3>1. /\ g \o t \in Seq(Seq(Chars)) /\ Len(g \o t) = Len(g) + Len(t)
          /\ \A j \in 1 .. (Len(g) + Len(t)) :
               (g \o t)[j] = IF j <= Len(g) THEN g[j] ELSE t[j - Len(g)]
      BY <2>2, <2>4, ConcatProperties
    <3>2. 1 + (N - 1) = N
      BY <2>1
    <3>. QED
      BY <3>1, <3>2, <2>3, <2>4
  <2>8. \A j \in 1 .. N : (g \o t)[j] = u[j]
    BY <2>1, <2>4, <2>5, <2>6, <2>7
  <2>9. u = g \o t
    BY <2>2, <2>3, <2>7, <2>8, SeqEqual
  <2>10. FlattenSeq(<<h>> \o t) = h \o FlattenSeq(t)
    BY <2>2, FlattenCons
  <2>. QED
    BY <2>9, <2>10 DEF Pending, u, t, h, g
<1>. QED
  BY <1>3, <1>4, <1>5

LEMMA FirstCharacter ==
  ASSUME NEW a \in Chars, NEW s \in Seq(Chars)
  PROVE  /\ <<a>> \o s # <<>> /\ Head(<<a>> \o s) = a /\ Tail(<<a>> \o s) = s
<1> DEFINE g == <<a>>
           t == g \o s
<1>1. g \in Seq(Chars) /\ Len(g) = 1 /\ g[1] = a
  OBVIOUS
<1> HIDE DEF g
<1>2. /\ t \in Seq(Chars) /\ Len(t) = Len(g) + Len(s)
      /\ \A j \in 1 .. (Len(g) + Len(s)) :
           t[j] = IF j <= Len(g) THEN g[j] ELSE s[j - Len(g)]
  BY <1>1, ConcatProperties
<1>3. Len(t) = 1 + Len(s) /\ Len(s) \in Nat /\ t[1] = a
      /\ \A j \in 1 .. Len(s) : t[j + 1] = s[j]
  <2>1. Len(t) = 1 + Len(s) /\ Len(s) \in Nat /\ t[1] = a
    BY <1>1, <1>2
  <2>2. ASSUME NEW j \in 1 .. Len(s) PROVE t[j + 1] = s[j]
    <3>1. j + 1 \in 1 .. (1 + Len(s)) /\ ~(j + 1 <= 1) /\ (j + 1) - 1 = j
      BY <2>1
    <3>. QED
      BY <3>1, <1>1, <1>2
  <2>. QED
    BY <2>1, <2>2
<1> HIDE DEF t
<1>4. t # <<>> /\ Head(t) = a
  BY <1>2, <1>3
<1>5. Tail(t) \in Seq(Chars) /\ Len(Tail(t)) = Len(s)
      /\ \A j \in 1 .. Len(s) : Tail(t)[j] = s[j]
  <2>1. /\ Tail(t) \in Seq(Chars) /\ Len(Tail(t)) = Len(t) - 1
        /\ \A j \in 1 .. Len(Tail(t)) : Tail(t)[j] = t[j + 1]
    BY <1>2, <1>4, HeadTailProperties
  <2>2. Len(t) - 1 = Len(s)
    BY <1>3
  <2>. QED
    BY <2>1, <2>2, <1>3
<1>6. Tail(t) = s
  BY <1>5, SeqEqual
<1>. QED
  BY <1>4, <1>6 DEF t, g

-----------------------------------------------------------------------------
(* How far the first n lines have scrolled the screen. *)

ScrollsAfter(l, n) == Scrolls(SubSeq(l, 1, n))

AddsUp(F, l) ==
  /\ F[0] = 0
  /\ \A n \in 1 .. Len(l) : F[n] = F[n - 1] + ScrolledBy(l, n)

LEMMA ScrolledByIsNatural ==
  ASSUME NEW l, AreLines(l), NEW n \in 1 .. Len(l)
  PROVE  ScrolledBy(l, n) \in Nat
<1>1. LineWidth(l, n) \in Nat
  BY KindOfLine, KernelAssumption
<1>. QED
  BY <1>1 DEF ScrolledBy, LineWidth

LEMMA ScrollsRuns ==
  ASSUME NEW l, AreLines(l), NEW F \in [Nat -> Nat], AddsUp(F, l)
  PROVE  Scrolls(l) = F[Len(l)]
<1> DEFINE N == Len(l)
           Body(g) == [n \in 0 .. Len(l) |->
                         IF n = 0 THEN 0 ELSE g[n - 1] + ScrolledBy(l, n)]
           whole == CHOOSE g : g = Body(g)
           T == {n \in Nat : n <= N => whole[n] = F[n]}
<1>0. Len(l) \in Nat
  BY KindOfLine
<1>1. \E g : g = Body(g)
  <2> DEFINE g == [n \in 0 .. Len(l) |-> F[n]]
  <2>1. ASSUME NEW n \in 0 .. Len(l) PROVE g[n] = Body(g)[n]
    <3>1. CASE n = 0
      BY <3>1 DEF AddsUp
    <3>2. CASE n # 0
      <4>1. n \in 1 .. Len(l) /\ n - 1 \in 0 .. Len(l)
        BY <3>2, <1>0
      <4>2. g[n] = F[n] /\ g[n - 1] = F[n - 1]
        BY <4>1
      <4>3. F[n] = F[n - 1] + ScrolledBy(l, n)
        BY <4>1 DEF AddsUp
      <4> HIDE DEF g
      <4>. QED
        BY <3>2, <4>2, <4>3
    <3>. QED
      BY <3>1, <3>2
  <2>2. g = Body(g)
    BY <2>1
  <2>. QED
    BY <2>2
<1>2. whole = Body(whole)
  BY <1>1, Zenon
<1>3. Scrolls(l) = whole[N]
  BY DEF Scrolls
<1> HIDE DEF whole
<1>4. \A n \in 0 .. Len(l) :
        whole[n] = IF n = 0 THEN 0 ELSE whole[n - 1] + ScrolledBy(l, n)
  BY <1>2
<1>5. 0 \in T
  BY <1>0, <1>4 DEF AddsUp
<1>6. ASSUME NEW j \in Nat, j \in T PROVE j + 1 \in T
  <2> SUFFICES ASSUME j + 1 <= N PROVE whole[j + 1] = F[j + 1]
    OBVIOUS
  <2>1. PICK n \in 1 .. Len(l) : n = j + 1 /\ n - 1 = j /\ n \in 0 .. Len(l) /\ n # 0
    BY <1>0
  <2>2. whole[j] = F[j]
    BY <1>6, <1>0
  <2>3. whole[n] = whole[n - 1] + ScrolledBy(l, n)
    BY <1>4, <2>1
  <2>4. F[n] = F[n - 1] + ScrolledBy(l, n)
    BY DEF AddsUp
  <2>. QED
    BY <2>1, <2>2, <2>3, <2>4
<1> HIDE DEF T
<1>7. Nat \subseteq T
  BY <1>5, <1>6, AllNaturals
<1>. QED
  BY <1>0, <1>3, <1>7 DEF T

LEMMA ScrollsSoFar ==
  ASSUME NEW l, AreLines(l)
  PROVE  \E F \in [Nat -> Nat] : AddsUp(F, l)
<1> DEFINE step == [j \in Nat |-> [d \in Nat |->
                     IF j + 1 \in 1 .. Len(l) THEN d + ScrolledBy(l, j + 1) ELSE d]]
           a == 0
<1>1. Len(l) \in Nat /\ \A j \in 1 .. Len(l) : ScrolledBy(l, j) \in Nat
  BY KindOfLine, ScrolledByIsNatural
<1>2. step \in [Nat -> [Nat -> Nat]]
  BY <1>1
<1>3. ASSUME NEW j \in 1 .. Len(l), NEW d \in Nat
      PROVE  step[j - 1][d] = d + ScrolledBy(l, j)
  BY <1>1
<1>4. a \in Nat
  OBVIOUS
<1> HIDE DEF step, a
<1>5. PICK F \in [Nat -> Nat] : AllGoesOn(F, a, step)
  BY <1>4, <1>2, Recursion
<1>6. ASSUME NEW j \in 1 .. Len(l) PROVE F[j] = F[j - 1] + ScrolledBy(l, j)
  <2>1. PICK n \in Nat : n = j - 1 /\ n + 1 = j
    BY <1>1
  <2>2. F[n + 1] = step[n][F[n]] /\ F[n] \in Nat
    BY <1>5 DEF AllGoesOn
  <2>. QED
    BY <2>1, <2>2, <1>3
<1>. QED
  BY <1>5, <1>6 DEF a, AddsUp, AllGoesOn

LEMMA FirstLines ==
  ASSUME NEW l, AreLines(l), NEW n \in 0 .. Len(l)
  PROVE  /\ AreLines(SubSeq(l, 1, n)) /\ Len(SubSeq(l, 1, n)) = n
         /\ \A m \in 1 .. n : /\ SubSeq(l, 1, n)[m] = l[m]
                              /\ ScrolledBy(SubSeq(l, 1, n), m) = ScrolledBy(l, m)
<1>1. PICK D : l \in Seq(D) /\ \A d \in D : d[1] \in Kinds
  BY DEF AreLines
<1>2. Len(l) \in Nat /\ n \in Nat
  BY KindOfLine
<1>3. \A m \in 1 .. n : l[m] \in D
  BY <1>1, <1>2
<1>4. /\ SubSeq(l, 1, n) \in Seq(D)
      /\ Len(SubSeq(l, 1, n)) = IF 1 <= n THEN n - 1 + 1 ELSE 0
      /\ \A m \in 1 .. (n - 1 + 1) : SubSeq(l, 1, n)[m] = l[1 + m - 1]
  BY <1>2, <1>3, SubSeqProperties
<1>5. Len(SubSeq(l, 1, n)) = n /\ \A m \in 1 .. n : SubSeq(l, 1, n)[m] = l[m]
  <2>1. n - 1 + 1 = n /\ \A m \in 1 .. n : 1 + m - 1 = m
    BY <1>2
  <2>. QED
    BY <1>2, <1>4, <2>1
<1>6. AreLines(SubSeq(l, 1, n))
  BY <1>1, <1>4 DEF AreLines
<1>. QED
  BY <1>5, <1>6 DEF ScrolledBy

LEMMA ScrollsLineByLine ==
  ASSUME NEW l, AreLines(l)
  PROVE  /\ \A n \in 0 .. Len(l) : ScrollsAfter(l, n) \in Nat
         /\ \A n \in 0 .. Len(l) : n < Rows => ScrollsAfter(l, n) = 0
         /\ ScrollsAfter(l, Len(l)) = Scrolls(l)
         /\ \A n \in 1 .. Len(l) :
              ScrollsAfter(l, n) = ScrollsAfter(l, n - 1) + ScrolledBy(l, n)
<1>0. Len(l) \in Nat
  BY KindOfLine
<1>1. PICK F \in [Nat -> Nat] : AddsUp(F, l)
  BY ScrollsSoFar
<1>2. ASSUME NEW n \in 0 .. Len(l) PROVE ScrollsAfter(l, n) = F[n]
  <2> DEFINE p == SubSeq(l, 1, n)
  <2>1. /\ AreLines(p) /\ Len(p) = n
        /\ \A m \in 1 .. n : ScrolledBy(p, m) = ScrolledBy(l, m)
    BY FirstLines
  <2>2. \A m \in 1 .. n : m \in 1 .. Len(l)
    BY <1>0
  <2> HIDE DEF p
  <2>3. AddsUp(F, p)
    BY <1>1, <2>1, <2>2 DEF AddsUp
  <2>4. Scrolls(p) = F[n]
    BY <2>1, <2>3, ScrollsRuns
  <2>. QED
    BY <2>4 DEF ScrollsAfter, p
<1>3. ASSUME NEW n \in 1 .. Len(l)
      PROVE  ScrollsAfter(l, n) = ScrollsAfter(l, n - 1) + ScrolledBy(l, n)
  <2>1. n - 1 \in 0 .. Len(l) /\ n \in 0 .. Len(l)
    BY <1>0
  <2>. QED
    BY <1>1, <1>2, <2>1 DEF AddsUp
<1>4. ScrollsAfter(l, Len(l)) = Scrolls(l)
  <2>1. Scrolls(l) = F[Len(l)]
    BY <1>1, ScrollsRuns
  <2>2. Len(l) \in 0 .. Len(l)
    BY <1>0
  <2>. QED
    BY <1>2, <2>1, <2>2
<1>5. \A n \in 0 .. Len(l) : ScrollsAfter(l, n) \in Nat
  BY <1>0, <1>2
<1>6. \A n \in 0 .. Len(l) : n < Rows => ScrollsAfter(l, n) = 0
  <2> DEFINE T == {n \in Nat : n <= Len(l) /\ n < Rows => F[n] = 0}
  <2>1. 0 \in T
    BY <1>1 DEF AddsUp
  <2>2. ASSUME NEW j \in Nat, j \in T PROVE j + 1 \in T
    <3> SUFFICES ASSUME j + 1 <= Len(l), j + 1 < Rows PROVE F[j + 1] = 0
      OBVIOUS
    <3>1. F[j] = 0
      BY <2>2, <1>0, KernelAssumption
    <3>2. PICK n \in 1 .. Len(l) : n = j + 1 /\ n - 1 = j
      BY <1>0
    <3>3. F[n] = F[n - 1] + ScrolledBy(l, n)
      BY <1>1 DEF AddsUp
    <3>4. ScrolledBy(l, n) = 0
      BY <3>2 DEF ScrolledBy
    <3>. QED
      BY <3>1, <3>2, <3>3, <3>4
  <2> HIDE DEF T
  <2>3. Nat \subseteq T
    BY <2>1, <2>2, AllNaturals
  <2>4. ASSUME NEW n \in 0 .. Len(l), n < Rows PROVE F[n] = 0
    <3>1. n \in T
      BY <2>3, <1>0
    <3>. QED
      BY <3>1, <2>4, <1>0 DEF T
  <2>. QED
    BY <1>2, <2>4
<1>. QED
  BY <1>3, <1>4, <1>5, <1>6

-----------------------------------------------------------------------------
(* The screen on which n lines and c characters of the next one have been  *)
(* printed, s rows up.                                                     *)

Inked(l, n, c, x, m) ==
  m <= Rows /\ ((m <= n /\ x < LineWidth(l, m)) \/ (m = n + 1 /\ x < c))

Cell(l, n, c, x, m) == IF Inked(l, n, c, x, m) THEN {l[m][1]} ELSE {}

Display(l, n, c, s) ==
  [y \in 0 .. (Rows - 1) |-> [x \in 0 .. (Cols - 1) |->
     Cell(l, n, c, x, y + s + 1)]]

Shift(l, n, c) == ScrollsAfter(l, n) + (IF n >= Rows THEN c ELSE 0)

(* What has scrolled in from below is blank. *)
LEMMA DisplayScrolls ==
  ASSUME NEW l, NEW n \in Nat, NEW c \in Nat, NEW s \in Nat
  PROVE  Screen!ScrolledUp(Display(l, n, c, s)) = Display(l, n, c, s + 1)
<1>1. Rows \in Nat \ {0}
  BY KernelAssumption
<1> DEFINE D == Display(l, n, c, s)
           E == Display(l, n, c, s + 1)
<1>2. ASSUME NEW y \in 0 .. (Rows - 1)
      PROVE  (IF y < Rows - 1 THEN D[y + 1] ELSE Screen!BlankRow) = E[y]
  <2>1. CASE y < Rows - 1
    <3>1. y + 1 \in 0 .. (Rows - 1)
      BY <1>1, <2>1
    <3>2. D[y + 1] = [x \in 0 .. (Cols - 1) |-> Cell(l, n, c, x, (y + 1) + s + 1)]
      BY <3>1 DEF Display
    <3>3. E[y] = [x \in 0 .. (Cols - 1) |-> Cell(l, n, c, x, y + (s + 1) + 1)]
      BY DEF Display
    <3>4. (y + 1) + s + 1 = y + (s + 1) + 1
      BY <1>1
    <3>. QED
      BY <2>1, <3>2, <3>3, <3>4
  <2>2. CASE ~(y < Rows - 1)
    <3>1. ~(y + (s + 1) + 1 <= Rows)
      BY <1>1, <2>2
    <3>2. \A x : Cell(l, n, c, x, y + (s + 1) + 1) = {}
      BY <3>1 DEF Cell, Inked
    <3>3. E[y] = [x \in 0 .. (Cols - 1) |-> Cell(l, n, c, x, y + (s + 1) + 1)]
      BY DEF Display
    <3>4. E[y] = [x \in 0 .. (Cols - 1) |-> {}]
      BY <3>2, <3>3
    <3>. QED
      BY <2>2, <3>4 DEF Screen!BlankRow
  <2>. QED
    BY <2>1, <2>2
<1>3. E = [y \in 0 .. (Rows - 1) |-> E[y]]
  BY DEF Display
<1> HIDE DEF D, E
<1>4. Screen!ScrolledUp(D) = E
  BY <1>2, <1>3 DEF Screen!ScrolledUp
<1>. QED
  BY <1>4 DEF D, E

LEMMA SameDisplay ==
  ASSUME NEW l, NEW n, NEW c, NEW k2, NEW n2, NEW c2, NEW s \in Nat,
         \A x \in 0 .. (Cols - 1), m \in Nat \ {0} :
           m <= Rows => Cell(l, n, c, x, m) = Cell(k2, n2, c2, x, m)
  PROVE  Display(l, n, c, s) = Display(k2, n2, c2, s)
<1>1. Rows \in Nat \ {0}
  BY KernelAssumption
<1>2. ASSUME NEW y \in 0 .. (Rows - 1), NEW x \in 0 .. (Cols - 1)
      PROVE  Cell(l, n, c, x, y + s + 1) = Cell(k2, n2, c2, x, y + s + 1)
  <2>1. PICK m \in Nat \ {0} : m = y + s + 1
    BY <1>1
  <2>2. CASE m <= Rows
    BY <2>1, <2>2
  <2>3. CASE ~(m <= Rows)
    BY <2>1, <2>3 DEF Cell, Inked
  <2>. QED
    BY <2>2, <2>3
<1>. QED
  BY <1>2, Zenon DEF Display

(* A whole line and its newline. *)
LEMMA DisplayNewLine ==
  ASSUME NEW l, AreLines(l), NEW n \in Nat, n < Len(l), NEW s \in Nat
  PROVE  Display(l, n, LineWidth(l, n + 1), s) = Display(l, n + 1, 0, s)
<1>1. Cols \in Nat \ {0} /\ Rows \in Nat \ {0}
  BY KernelAssumption
<1>2. ASSUME NEW x \in 0 .. (Cols - 1), NEW m \in Nat \ {0}
      PROVE  Inked(l, n, LineWidth(l, n + 1), x, m) <=> Inked(l, n + 1, 0, x, m)
  <2>0. LineWidth(l, n + 1) \in Nat
    BY KindOfLine, KernelAssumption
  <2>1. CASE m = n + 1
    BY <2>0, <2>1, <1>1 DEF Inked
  <2>2. CASE m # n + 1
    BY <2>2, <1>1 DEF Inked
  <2>. QED
    BY <2>1, <2>2
<1>3. \A x \in 0 .. (Cols - 1), m \in Nat \ {0} :
        Cell(l, n, LineWidth(l, n + 1), x, m) = Cell(l, n + 1, 0, x, m)
  BY <1>2 DEF Cell
<1>. QED
  BY <1>3, SameDisplay

(* Below the screen a character leaves nothing. *)
LEMMA DisplayBelow ==
  ASSUME NEW l, NEW n \in Nat, n >= Rows, NEW c \in Nat, NEW s \in Nat
  PROVE  Display(l, n, c, s) = Display(l, n, c + 1, s)
<1>1. Rows \in Nat \ {0}
  BY KernelAssumption
<1>2. ASSUME NEW x, NEW m \in Nat \ {0}
      PROVE  Inked(l, n, c, x, m) <=> Inked(l, n, c + 1, x, m)
  BY <1>1 DEF Inked
<1>3. \A x \in 0 .. (Cols - 1), m \in Nat \ {0} :
        Cell(l, n, c, x, m) = Cell(l, n, c + 1, x, m)
  BY <1>2 DEF Cell
<1>. QED
  BY <1>3, SameDisplay

(* On it, it leaves its glyph. *)
LEMMA DisplayPrint ==
  ASSUME NEW l, NEW n \in Nat, n < Rows, NEW c \in Nat, c + 1 < Cols
  PROVE  [Display(l, n, c, 0) EXCEPT ![n][c] =
            Display(l, n, c, 0)[n][c] \cup {l[n + 1][1]}] = Display(l, n, c + 1, 0)
<1>1. Rows \in Nat \ {0} /\ Cols \in Nat \ {0}
  BY KernelAssumption
<1> DEFINE D == Display(l, n, c, 0)
           E == Display(l, n, c + 1, 0)
           Y == 0 .. (Rows - 1)
           X == 0 .. (Cols - 1)
           ch == {l[n + 1][1]}
<1>2. n \in Y /\ c \in X
  BY <1>1
<1>3. \A y \in Y : /\ D[y] = [x \in X |-> Cell(l, n, c, x, y + 0 + 1)]
                   /\ E[y] = [x \in X |-> Cell(l, n, c + 1, x, y + 0 + 1)]
  BY DEF Display
<1>4. D = [y \in Y |-> D[y]] /\ E = [y \in Y |-> E[y]]
  BY DEF Display
<1>5. ASSUME NEW y \in Y, y # n PROVE D[y] = E[y]
  <2>1. ASSUME NEW x \in X
        PROVE  Inked(l, n, c, x, y + 0 + 1) <=> Inked(l, n, c + 1, x, y + 0 + 1)
    BY <1>1, <1>5 DEF Inked
  <2>2. \A x \in X : Cell(l, n, c, x, y + 0 + 1) = Cell(l, n, c + 1, x, y + 0 + 1)
    BY <2>1 DEF Cell
  <2>. QED
    BY <1>3, <2>2
<1>6. [D[n] EXCEPT ![c] = D[n][c] \cup ch] = E[n]
  <2>1. n + 0 + 1 = n + 1
    OBVIOUS
  <2>2. /\ D[n] = [x \in X |-> Cell(l, n, c, x, n + 1)]
        /\ E[n] = [x \in X |-> Cell(l, n, c + 1, x, n + 1)]
    BY <1>2, <1>3, <2>1
  <2>3. ASSUME NEW x \in X, x # c
        PROVE  Inked(l, n, c, x, n + 1) <=> Inked(l, n, c + 1, x, n + 1)
    BY <1>1, <2>3 DEF Inked
  <2>4. \A x \in X : x # c => Cell(l, n, c, x, n + 1) = Cell(l, n, c + 1, x, n + 1)
    BY <2>3 DEF Cell
  <2>5. ~Inked(l, n, c, c, n + 1) /\ Inked(l, n, c + 1, c, n + 1)
    BY <1>1 DEF Inked
  <2>6. Cell(l, n, c, c, n + 1) = {} /\ Cell(l, n, c + 1, c, n + 1) = ch
    BY <2>5 DEF Cell
  <2> DEFINE d == D[n]
             e == E[n]
  <2>7. /\ d = [x \in X |-> d[x]] /\ e = [x \in X |-> e[x]]
        /\ \A x \in X : x # c => d[x] = e[x]
        /\ d[c] = {} /\ e[c] = ch
    <3> HIDE DEF X, ch
    <3>1. d = [x \in X |-> d[x]] /\ e = [x \in X |-> e[x]]
      BY <2>2
    <3>2. \A x \in X : d[x] = Cell(l, n, c, x, n + 1) /\ e[x] = Cell(l, n, c + 1, x, n + 1)
      BY <2>2
    <3> HIDE DEF d, e
    <3>. QED
      BY <1>2, <3>1, <3>2, <2>4, <2>6
  <2> HIDE DEF d, e, ch
  <2>8. [d EXCEPT ![c] = d[c] \cup ch] = e
    BY <1>2, <2>7
  <2>. QED
    BY <2>8 DEF d, e
<1> HIDE DEF D, E, ch, X, Y
<1>7. [D EXCEPT ![n][c] = D[n][c] \cup ch] = [D EXCEPT ![n] = E[n]]
  BY <1>6, <1>2, <1>4
<1>8. [D EXCEPT ![n] = E[n]] = E
  BY <1>2, <1>4, <1>5
<1>. QED
  BY <1>7, <1>8 DEF D, E, ch

(* Printing more lines changes nothing of those before.                    *)
LEMMA MoreLines ==
  ASSUME NEW l, AreLines(l), NEW more, AreLines(more)
  PROVE  /\ AreLines(l \o more)
         /\ Len(l \o more) = Len(l) + Len(more)
         /\ \A n \in 1 .. Len(l) : (l \o more)[n] = l[n]
         /\ \A n \in 1 .. Len(more) : (l \o more)[Len(l) + n] = more[n]
<1>1. PICK D : l \in Seq(D) /\ \A d \in D : d[1] \in Kinds
  BY DEF AreLines
<1>2. PICK E : more \in Seq(E) /\ \A d \in E : d[1] \in Kinds
  BY DEF AreLines
<1> DEFINE U == D \cup E
<1>3. l \in Seq(U) /\ more \in Seq(U) /\ \A d \in U : d[1] \in Kinds
  BY <1>1, <1>2, SeqMonotonic
<1> HIDE DEF U
<1>4. /\ l \o more \in Seq(U) /\ Len(l \o more) = Len(l) + Len(more)
      /\ \A j \in 1 .. (Len(l) + Len(more)) :
           (l \o more)[j] = IF j <= Len(l) THEN l[j] ELSE more[j - Len(l)]
  BY <1>3, ConcatProperties
<1>5. Len(l) \in Nat /\ Len(more) \in Nat
  BY KindOfLine
<1>6. \A n \in 1 .. Len(l) : (l \o more)[n] = l[n]
  BY <1>4, <1>5
<1>7. ASSUME NEW n \in 1 .. Len(more) PROVE (l \o more)[Len(l) + n] = more[n]
  <2>1. /\ Len(l) + n \in 1 .. (Len(l) + Len(more)) /\ ~(Len(l) + n <= Len(l))
        /\ (Len(l) + n) - Len(l) = n
    BY <1>5
  <2>. QED
    BY <1>4, <2>1
<1>. QED
  BY <1>3, <1>4, <1>6, <1>7, Zenon DEF AreLines

LEMMA DisplayGrows ==
  ASSUME NEW l, AreLines(l), NEW more, AreLines(more)
  PROVE  /\ ScrollsAfter(l \o more, Len(l)) = ScrollsAfter(l, Len(l))
         /\ \A s \in Nat : Display(l \o more, Len(l), 0, s) = Display(l, Len(l), 0, s)
         /\ Pending(l \o more, Len(l))
              = FlattenSeq([j \in DOMAIN more |-> Text(more[j])])
<1> DEFINE w == l \o more
           N == Len(l)
<1>1. /\ AreLines(w) /\ Len(w) = N + Len(more) /\ N \in Nat /\ Len(more) \in Nat
      /\ \A n \in 1 .. N : w[n] = l[n]
      /\ \A n \in 1 .. Len(more) : w[N + n] = more[n]
      /\ DOMAIN more = 1 .. Len(more)
  BY MoreLines, KindOfLine
<1> HIDE DEF w
<1>2. SubSeq(w, 1, N) = SubSeq(l, 1, N)
  <2> DEFINE p == SubSeq(w, 1, N)
             q == SubSeq(l, 1, N)
  <2>1. N \in 0 .. Len(w) /\ N \in 0 .. Len(l)
    BY <1>1
  <2>2. /\ AreLines(p) /\ Len(p) = N /\ \A n \in 1 .. N : p[n] = w[n]
        /\ AreLines(q) /\ Len(q) = N /\ \A n \in 1 .. N : q[n] = l[n]
    BY <1>1, <2>1, FirstLines
  <2> HIDE DEF p, q, N
  <2>3. \A n \in 1 .. N : p[n] = q[n]
    BY <1>1, <2>2
  <2>4. PICK D : p \in Seq(D)
    BY <2>2 DEF AreLines
  <2>5. PICK E : q \in Seq(E)
    BY <2>2 DEF AreLines
  <2>6. p \in Seq(D \cup E) /\ q \in Seq(D \cup E)
    BY <2>4, <2>5, SeqMonotonic
  <2>7. p = q
    BY <2>2, <2>3, <2>6, SeqEqual
  <2>. QED
    BY <2>7 DEF p, q
<1>3. ScrollsAfter(w, N) = ScrollsAfter(l, N)
  BY <1>2 DEF ScrollsAfter
<1>4. ASSUME NEW s \in Nat PROVE Display(w, N, 0, s) = Display(l, N, 0, s)
  <2>1. ASSUME NEW x \in 0 .. (Cols - 1), NEW m \in Nat \ {0}
        PROVE  Cell(w, N, 0, x, m) = Cell(l, N, 0, x, m)
    <3>0. Cols \in Nat
      BY KernelAssumption
    <3>1. CASE m \in 1 .. N
      <4>1. w[m] = l[m]
        BY <1>1, <3>1
      <4>. QED
        BY <4>1 DEF Cell, Inked, LineWidth
    <3>2. CASE m \notin 1 .. N
      <4>1. ~(m <= N) /\ ~(x < 0)
        BY <1>1, <3>0, <3>2
      <4>. QED
        BY <4>1 DEF Cell, Inked
    <3>. QED
      BY <3>1, <3>2
  <2>. QED
    BY <2>1, SameDisplay
<1>5. Pending(w, N) = FlattenSeq([j \in DOMAIN more |-> Text(more[j])])
  <2>1. Len(w) - N = Len(more)
    BY <1>1
  <2>2. Texts(w, N) = [j \in 1 .. Len(more) |-> Text(w[N + j])]
    BY <2>1 DEF Texts
  <2>3. Texts(w, N) = [j \in DOMAIN more |-> Text(more[j])]
    BY <1>1, <2>2
  <2>. QED
    BY <2>3 DEF Pending
<1>. QED
  BY <1>3, <1>4, <1>5 DEF w

(* What is on the screen when every line has been printed. *)
LEMMA DisplayOfAll ==
  ASSUME NEW l, AreLines(l)
  PROVE  Display(l, Len(l), 0, Shift(l, Len(l), 0)) = Shown(l)
<1> DEFINE S == Scrolls(l)
           N == Len(l)
<1>1. /\ N \in Nat /\ Cols \in Nat \ {0} /\ Rows \in Nat \ {0}
      /\ \A n \in 1 .. N : LineWidth(l, n) \in Nat
  BY KindOfLine, KernelAssumption
<1>2. S \in Nat /\ Shift(l, N, 0) = S
  <2>1. N \in 0 .. N
    BY <1>1
  <2>2. ScrollsAfter(l, N) \in Nat /\ ScrollsAfter(l, N) = S
    BY <2>1, ScrollsLineByLine
  <2>. QED
    BY <2>2 DEF Shift
<1> HIDE DEF S, N
<1>3. ASSUME NEW y \in 0 .. (Rows - 1), NEW x \in 0 .. (Cols - 1)
      PROVE  Cell(l, N, 0, x, y + S + 1)
               = IF y + S + 1 <= Rows /\ y + S + 1 <= N
                   THEN IF x < Width[l[y + S + 1][1]] THEN {l[y + S + 1][1]} ELSE {}
                   ELSE {}
  <2>1. PICK m \in Nat : m = y + S + 1
    BY <1>1, <1>2
  <2>2. ~(x < 0)
    BY <1>1
  <2>3. Inked(l, N, 0, x, m) <=> m <= Rows /\ m <= N /\ x < Width[l[m][1]]
    BY <2>2 DEF Inked, LineWidth
  <2>. QED
    BY <2>1, <2>3 DEF Cell
<1>4. Display(l, N, 0, S) = Shown(l)
  BY <1>3 DEF Display, Shown, S, N
<1>. QED
  BY <1>2, <1>4 DEF N

-----------------------------------------------------------------------------
(* What the screen shows while the log is printed.                         *)

Before == {"console_init", "console_clear"}

(* row lines of the log and col characters of the next one are printed;    *)
(* out is the rest.                                                        *)
OnScreen ==
  /\ row \in 0 .. Len(log)
  /\ row = Len(log) => col = 0 /\ out = <<>>
  /\ row < Len(log) => /\ col \in 0 .. LineWidth(log, row + 1)
                       /\ out = Remaining(log[row + 1], col) \o Pending(log, row + 1)
  /\ cells = Display(log, row, col, Shift(log, row, col))

ScreenInv ==
  /\ AreLines(log)
  /\ kpc \in Before => log = <<>> /\ out = <<>> /\ cells = FirmwareScreen
  /\ drv = IF kpc = "console_init" \/ boot.fb = 0 THEN "noop" ELSE "rgb"
  /\ drv = "noop" => out = <<>> /\ cells = FirmwareScreen
  /\ kpc \notin Before /\ drv = "rgb" /\ Len(log) < RowMod => OnScreen

LEMMA ShiftIsNatural ==
  ASSUME NEW l, AreLines(l), NEW n \in 0 .. Len(l), NEW c \in Nat
  PROVE  /\ Shift(l, n, c) \in Nat
         /\ n < Rows => Shift(l, n, c) = 0
         /\ n >= Rows => Shift(l, n, c + 1) = Shift(l, n, c) + 1
<1>1. n \in Nat /\ Rows \in Nat
  BY KindOfLine, KernelAssumption
<1>2. ScrollsAfter(l, n) \in Nat /\ (n < Rows => ScrollsAfter(l, n) = 0)
  BY ScrollsLineByLine
<1>. QED
  BY <1>1, <1>2 DEF Shift

(* A newline scrolls the screen by what is left of the line's scrolls. *)
LEMMA ShiftNewLine ==
  ASSUME NEW l, AreLines(l), NEW n \in 0 .. (Len(l) - 1)
  PROVE  /\ n + 1 < Rows => /\ Shift(l, n, LineWidth(l, n + 1)) = 0
                            /\ Shift(l, n + 1, 0) = 0
         /\ n + 1 >= Rows =>
              Shift(l, n + 1, 0) = Shift(l, n, LineWidth(l, n + 1)) + 1
<1>1. /\ Len(l) \in Nat /\ Rows \in Nat \ {0} /\ n \in Nat
      /\ n + 1 \in 1 .. Len(l) /\ n \in 0 .. Len(l) /\ n + 1 \in 0 .. Len(l)
  BY KindOfLine, KernelAssumption
<1>2. LineWidth(l, n + 1) \in Nat
  BY <1>1, KindOfLine, KernelAssumption
<1>3. /\ ScrollsAfter(l, n) \in Nat /\ (n < Rows => ScrollsAfter(l, n) = 0)
      /\ ScrollsAfter(l, n + 1) \in Nat
      /\ (n + 1 < Rows => ScrollsAfter(l, n + 1) = 0)
  BY <1>1, ScrollsLineByLine
<1>4. ScrollsAfter(l, n + 1) = ScrollsAfter(l, n) + ScrolledBy(l, n + 1)
  <2>1. PICK m \in 1 .. Len(l) : m = n + 1 /\ m - 1 = n
    BY <1>1
  <2>2. ScrollsAfter(l, m) = ScrollsAfter(l, m - 1) + ScrolledBy(l, m)
    BY ScrollsLineByLine
  <2>. QED
    BY <2>1, <2>2
<1>5. ScrolledBy(l, n + 1) = IF n + 1 < Rows THEN 0 ELSE
        IF n + 1 = Rows THEN 1 ELSE 1 + LineWidth(l, n + 1)
  BY DEF ScrolledBy, LineWidth
<1>. QED
  BY <1>1, <1>2, <1>3, <1>4, <1>5 DEF Shift

(* At the start of a line the rest is that line and the next ones. *)
LEMMA StartOfLine ==
  ASSUME NEW l, AreLines(l), NEW n \in 0 .. Len(l)
  PROVE  /\ n = Len(l) => Pending(l, n) = <<>>
         /\ n < Len(l) => /\ Pending(l, n) = Remaining(l[n + 1], 0) \o Pending(l, n + 1)
                          /\ 0 \in 0 .. LineWidth(l, n + 1)
<1>1. n = Len(l) => Pending(l, n) = <<>>
  BY PendingText
<1>2. ASSUME n < Len(l)
      PROVE  /\ Pending(l, n) = Remaining(l[n + 1], 0) \o Pending(l, n + 1)
             /\ 0 \in 0 .. LineWidth(l, n + 1)
  <2>1. n + 1 \in 1 .. Len(l)
    BY <1>2, KindOfLine
  <2>2. l[n + 1][1] \in Kinds /\ LineWidth(l, n + 1) \in 1 .. (Cols - 1)
    BY <2>1, KindOfLine
  <2>3. 0 <= Width[l[n + 1][1]] /\ 0 \in 0 .. LineWidth(l, n + 1)
    BY <2>2, KernelAssumption DEF LineWidth
  <2>4. Remaining(l[n + 1], 0) = Text(l[n + 1])
    BY <2>2, <2>3, RemainingOf
  <2>. QED
    BY <1>2, <2>3, <2>4, PendingText
<1>. QED
  BY <1>1, <1>2

(* What the screen is given next. *)
LEMMA NextCharacter ==
  ASSUME NEW l, AreLines(l), NEW n \in 0 .. (Len(l) - 1),
         NEW c \in 0 .. LineWidth(l, n + 1)
  PROVE  LET rest == Remaining(l[n + 1], c) \o Pending(l, n + 1)
         IN  /\ rest # <<>>
             /\ c < LineWidth(l, n + 1) =>
                  /\ Head(rest) = l[n + 1][1] /\ l[n + 1][1] \in Kinds
                  /\ Tail(rest) = Remaining(l[n + 1], c + 1) \o Pending(l, n + 1)
             /\ c = LineWidth(l, n + 1) =>
                  Head(rest) = "\n" /\ Tail(rest) = Pending(l, n + 1)
<1> DEFINE line == l[n + 1]
           more == Pending(l, n + 1)
           W == LineWidth(l, n + 1)
<1>1. n + 1 \in 1 .. Len(l) /\ n + 1 \in 0 .. Len(l)
  BY KindOfLine
<1>2. line[1] \in Kinds /\ W = Width[line[1]] /\ W \in Nat /\ c \in Nat /\ c <= W
  <2>1. W \in 1 .. (Cols - 1) /\ line[1] \in Kinds
    BY <1>1, KindOfLine
  <2>. QED
    BY <2>1, KernelAssumption DEF LineWidth
<1>3. more \in Seq(Chars) /\ line[1] \in Chars /\ "\n" \in Chars
  BY <1>1, <1>2, PendingText DEF Chars
<1> HIDE DEF line, more, W
<1> DEFINE rest == Remaining(line, c) \o more
<1>4. ASSUME c < W
      PROVE  /\ rest # <<>> /\ Head(rest) = line[1]
             /\ Tail(rest) = Remaining(line, c + 1) \o more
  <2>1. /\ Remaining(line, c) = <<line[1]>> \o Remaining(line, c + 1)
        /\ Remaining(line, c + 1) \in Seq(Chars)
    <3>1. c + 1 \in Nat /\ c + 1 <= W
      BY <1>2, <1>4
    <3>. QED
      BY <3>1, <1>2, <1>4, RemainingOf
  <2> DEFINE r == Remaining(line, c + 1)
             g == <<line[1]>>
  <2>2. g \in Seq(Chars)
    BY <1>3
  <2> HIDE DEF r, g
  <2>3. (g \o r) \o more = g \o (r \o more) /\ r \o more \in Seq(Chars)
    <3>1. r \in Seq(Chars)
      BY <2>1 DEF r
    <3>2. (g \o r) \o more = g \o (r \o more)
      BY <1>3, <2>2, <3>1, ConcatAssociative
    <3>3. r \o more \in Seq(Chars)
      BY <1>3, <3>1, ConcatProperties
    <3>. QED
      BY <3>2, <3>3
  <2>4. /\ g \o (r \o more) # <<>> /\ Head(g \o (r \o more)) = line[1]
        /\ Tail(g \o (r \o more)) = r \o more
    BY <1>3, <2>3, FirstCharacter DEF g
  <2>5. Remaining(line, c) \o more = g \o (r \o more)
    BY <2>1, <2>3 DEF g, r
  <2>. QED
    BY <2>4, <2>5 DEF r
<1>5. ASSUME c = W
      PROVE  rest # <<>> /\ Head(rest) = "\n" /\ Tail(rest) = more
  <2>1. Remaining(line, c) = <<"\n">>
    BY <1>2, <1>5, RemainingOf
  <2>2. /\ <<"\n">> \o more # <<>> /\ Head(<<"\n">> \o more) = "\n"
        /\ Tail(<<"\n">> \o more) = more
    BY <1>3, FirstCharacter
  <2>. QED
    BY <2>1, <2>2
<1>6. c < W \/ c = W
  BY <1>2
<1> HIDE DEF rest
<1>7. /\ rest # <<>>
      /\ c < W => /\ Head(rest) = line[1] /\ line[1] \in Kinds
                  /\ Tail(rest) = Remaining(line, c + 1) \o more
      /\ c = W => Head(rest) = "\n" /\ Tail(rest) = more
  BY <1>2, <1>4, <1>5, <1>6, Zenon
<1>. QED
  BY <1>7, Zenon DEF rest, line, more, W

(* console_printf gives a character to the terminal. *)
LEMMA PrintsOnScreen ==
  ASSUME AreLines(log), Len(log) < RowMod, OnScreen, PutChar
  PROVE  OnScreen'
<1>1. /\ Len(log) \in Nat /\ Rows \in Nat \ {0} /\ Cols \in Nat \ {0}
      /\ RowMod \in Nat \ {0}
  BY KindOfLine, KernelAssumption
<1>2. out # <<>> /\ out' = Tail(out) /\ log' = log
  BY DEF PutChar
<1>3. row \in 0 .. (Len(log) - 1) /\ row \in 0 .. Len(log) /\ row \in Nat
  BY <1>1, <1>2 DEF OnScreen
<1> DEFINE W == LineWidth(log, row + 1)
           ch == log[row + 1][1]
<1>4. row < Len(log) /\ row + 1 \in 1 .. Len(log) /\ row + 1 \in 0 .. Len(log)
  BY <1>1, <1>3
<1>5. /\ col \in 0 .. W /\ out = Remaining(log[row + 1], col) \o Pending(log, row + 1)
      /\ W \in Nat /\ W < Cols /\ col \in Nat
  <2>1. W \in 1 .. (Cols - 1)
    BY <1>4, KindOfLine
  <2>2. /\ col \in 0 .. W
        /\ out = Remaining(log[row + 1], col) \o Pending(log, row + 1)
    BY <1>4 DEF OnScreen
  <2>. QED
    BY <1>1, <2>1, <2>2
<1>6. cells = Display(log, row, col, Shift(log, row, col))
  BY DEF OnScreen
<1>7. /\ Shift(log, row, col) \in Nat
      /\ row < Rows => Shift(log, row, col) = 0
      /\ row >= Rows => Shift(log, row, col + 1) = Shift(log, row, col) + 1
  BY <1>3, <1>5, ShiftIsNatural
<1>8. row % RowMod = row /\ (row + 1) % RowMod = row + 1
  BY <1>1, <1>3
<1> HIDE DEF W
<1>9. CASE col < W
  <2>1. /\ Head(out) = ch /\ ch \in Kinds
        /\ Tail(out) = Remaining(log[row + 1], col + 1) \o Pending(log, row + 1)
    BY <1>3, <1>5, <1>9, NextCharacter DEF W
  <2>2. Head(out) # "\n"
    BY <2>1 DEF Kinds
  <2>3. Screen!PrintChar(ch)
    BY <2>1, <2>2 DEF PutChar
  <2>4. /\ Screen!MoveTo(Screen!Printed(ch), col + 1, row)
        /\ col + 1 \in 0 .. W /\ ~(col + 1 >= Cols)
    <3>1. ~(col + 1 >= Cols) /\ col + 1 \in 0 .. W
      BY <1>1, <1>5, <1>9
    <3>. QED
      BY <2>3, <3>1 DEF Screen!PrintChar
  <2>5. col' = col + 1 /\ row' = row
    BY <2>4 DEF Screen!MoveTo
  <2>6. cells' = Display(log, row, col + 1, Shift(log, row, col + 1))
    <3>1. CASE row < Rows
      <4>1. cells' = Screen!Printed(ch)
        BY <1>1, <1>3, <2>4, <3>1 DEF Screen!MoveTo
      <4>2. Screen!Printed(ch)
              = [cells EXCEPT ![row][col] = cells[row][col] \cup {ch}]
        <5>1. Screen!Place(row) = row /\ Screen!Shown(row)
          BY <1>8, <3>1 DEF Screen!Place, Screen!Shown
        <5>2. [kind \in Kinds |-> {kind}][ch] = {ch}
          BY <2>1
        <5>. QED
          BY <5>1, <5>2 DEF Screen!Printed, Screen!Written
      <4>3. Shift(log, row, col) = 0 /\ Shift(log, row, col + 1) = 0
        <5>1. col + 1 \in Nat
          BY <1>5
        <5>. QED
          BY <1>3, <1>7, <3>1, <5>1, ShiftIsNatural
      <4>4. cells = Display(log, row, col, 0)
        BY <1>6, <4>3
      <4>5. [cells EXCEPT ![row][col] = cells[row][col] \cup {ch}]
              = Display(log, row, col + 1, 0)
        <5>1. col + 1 < Cols
          BY <1>1, <1>5, <2>4
        <5>. QED
          BY <1>3, <1>5, <3>1, <4>4, <5>1, DisplayPrint
      <4>. QED
        BY <4>1, <4>2, <4>3, <4>5
    <3>2. CASE row >= Rows
      <4>1. cells' = Screen!ScrolledUp(Screen!Printed(ch))
        BY <1>1, <1>3, <2>4, <3>2 DEF Screen!MoveTo
      <4>2. Screen!Printed(ch) = cells
        <5>1. ~Screen!Shown(row)
          BY <1>1, <1>3, <1>8, <3>2 DEF Screen!Place, Screen!Shown
        <5>. QED
          BY <5>1 DEF Screen!Printed, Screen!Written
      <4>3. cells = Display(log, row, col + 1, Shift(log, row, col))
        BY <1>3, <1>5, <1>6, <1>7, <3>2, DisplayBelow
      <4>4. col + 1 \in Nat
        BY <1>5
      <4>5. Screen!ScrolledUp(cells)
              = Display(log, row, col + 1, Shift(log, row, col) + 1)
        BY <1>3, <1>7, <4>3, <4>4, DisplayScrolls
      <4>. QED
        BY <1>7, <3>2, <4>1, <4>2, <4>5
    <3>. QED
      BY <1>1, <1>3, <3>1, <3>2
  <2>. QED
    BY <1>2, <1>3, <1>4, <2>1, <2>4, <2>5, <2>6 DEF OnScreen, W
<1>10. CASE col = W
  <2>1. Head(out) = "\n" /\ Tail(out) = Pending(log, row + 1)
    BY <1>3, <1>5, <1>10, NextCharacter DEF W
  <2>2. Head(out) \notin Kinds
    BY <2>1 DEF Kinds
  <2>3. Screen!NewLine
    BY <2>2 DEF PutChar
  <2>4. Screen!MoveTo(cells, 0, row + 1)
    BY <1>8, <2>3 DEF Screen!NewLine
  <2>5. col' = 0 /\ row' = row + 1
    BY <2>4 DEF Screen!MoveTo
  <2>6. /\ row + 1 < Rows => /\ Shift(log, row, col) = 0
                             /\ Shift(log, row + 1, 0) = 0
        /\ row + 1 >= Rows => Shift(log, row + 1, 0) = Shift(log, row, col) + 1
    BY <1>3, <1>10, ShiftNewLine DEF W
  <2>7. cells = Display(log, row + 1, 0, Shift(log, row, col))
    BY <1>3, <1>4, <1>6, <1>7, <1>10, DisplayNewLine DEF W
  <2>8. cells' = Display(log, row + 1, 0, Shift(log, row + 1, 0))
    <3>1. CASE row + 1 < Rows
      <4>1. cells' = cells
        BY <1>1, <1>3, <2>4, <3>1 DEF Screen!MoveTo
      <4>. QED
        BY <2>6, <2>7, <3>1, <4>1
    <3>2. CASE row + 1 >= Rows
      <4>1. cells' = Screen!ScrolledUp(cells)
        BY <1>1, <1>3, <2>4, <3>2 DEF Screen!MoveTo
      <4>2. row + 1 \in Nat /\ 0 \in Nat
        BY <1>3
      <4>3. Screen!ScrolledUp(cells)
              = Display(log, row + 1, 0, Shift(log, row, col) + 1)
        BY <1>7, <2>7, <4>2, DisplayScrolls
      <4>. QED
        BY <2>6, <3>2, <4>1, <4>3
    <3>. QED
      BY <1>1, <1>3, <3>1, <3>2
  <2>9. /\ row + 1 = Len(log) => Pending(log, row + 1) = <<>>
        /\ row + 1 < Len(log) =>
             /\ Pending(log, row + 1)
                  = Remaining(log[(row + 1) + 1], 0) \o Pending(log, (row + 1) + 1)
             /\ 0 \in 0 .. LineWidth(log, (row + 1) + 1)
    BY <1>4, StartOfLine
  <2>. QED
    BY <1>2, <1>4, <2>1, <2>5, <2>8, <2>9 DEF OnScreen
<1>. QED
  BY <1>5, <1>9, <1>10

LEMMA AllPrinted ==
  ASSUME AreLines(log), OnScreen, out = <<>>
  PROVE  row = Len(log) /\ col = 0
<1>1. Len(log) \in Nat
  BY KindOfLine
<1>2. CASE row < Len(log)
  <2>1. row \in 0 .. (Len(log) - 1) /\ col \in 0 .. LineWidth(log, row + 1)
    BY <1>1, <1>2 DEF OnScreen
  <2>2. out = Remaining(log[row + 1], col) \o Pending(log, row + 1)
    BY <1>2 DEF OnScreen
  <2>3. out # <<>>
    BY <2>1, <2>2, NextCharacter
  <2>. QED
    BY <2>3
<1>. QED
  BY <1>1, <1>2 DEF OnScreen

LEMMA LinesOfAStep == AreLines(AcpiLines)
<1>1. AreLines(StatusLines)
  <2> DEFINE a == IF info.has_apic
                    THEN ApicLine(TRUE) \o EnabledLine(info.apic_enabled)
                    ELSE ApicLine(FALSE)
             b == OtherLines(info.has_vga, info.has_i8042, info.has_8259, info.numCores)
  <2>1. /\ AreLines(ApicLine(TRUE)) /\ AreLines(ApicLine(FALSE))
        /\ AreLines(EnabledLine(info.apic_enabled)) /\ AreLines(b)
    BY LinesOfStatus, Zenon
  <2>2. AreLines(a)
    BY <2>1, LinesTogether
  <2>3. StatusLines = a \o b
    BY DEF StatusLines, ApicLine, EnabledLine, OtherLines
  <2> HIDE DEF a, b
  <2>. QED
    BY <2>1, <2>2, <2>3, LinesTogether
<1> DEFINE v == <<"version", info.rsdp.revision>>
           t == <<"table", Last(listed')>>
<1>2. v[1] \in Kinds /\ t[1] \in Kinds
  BY DEF Kinds
<1>3. AcpiLines \in {<<v>>, <<t>>, StatusLines, <<>>}
  BY DEF AcpiLines
<1> HIDE DEF v, t
<1>4. AreLines(<<v>>) /\ AreLines(<<t>>) /\ AreLines(<<>>)
  BY <1>2, TheseAreLines
<1>. QED
  BY <1>1, <1>3, <1>4

(* kernel_main has a few lines printed: they are on their way.             *)
LEMMA SaysOnScreen ==
  ASSUME NEW lines, AreLines(lines), ScreenInv, kpc \notin Before, out = <<>>,
         Say(lines), UNCHANGED <<boot, drv, screen>>, kpc' \notin Before
  PROVE  ScreenInv'
<1>1. /\ AreLines(log) /\ log' = log \o lines /\ AreLines(log')
      /\ Len(log') = Len(log) + Len(lines)
      /\ Len(log) \in Nat /\ Len(lines) \in Nat /\ Len(log') \in Nat
      /\ RowMod \in Nat
  <2>1. AreLines(log) /\ log' = log \o lines
    BY DEF ScreenInv, Say
  <2>2. AreLines(log \o lines) /\ Len(log \o lines) = Len(log) + Len(lines)
    BY <2>1, MoreLines
  <2>. QED
    BY <2>1, <2>2, KindOfLine, KernelAssumption
<1>2. UNCHANGED <<boot, drv, cells, col, row>>
  BY DEF screen
<1>3. drv' = IF kpc' = "console_init" \/ boot'.fb = 0 THEN "noop" ELSE "rgb"
  BY <1>2 DEF ScreenInv, Before
<1>4. drv' = "noop" => out' = <<>> /\ cells' = FirmwareScreen
  BY <1>2 DEF ScreenInv, Say
<1>5. ASSUME drv' = "rgb", Len(log') < RowMod PROVE OnScreen'
  <2>1. drv = "rgb" /\ Len(log) < RowMod
    BY <1>1, <1>2, <1>5
  <2>2. OnScreen
    BY <2>1 DEF ScreenInv
  <2>3. row = Len(log) /\ col = 0
    BY <1>1, <2>2, AllPrinted
  <2>4. out' = FlattenSeq([j \in DOMAIN lines |-> Text(lines[j])])
    BY <2>1 DEF Say
  <2>5. /\ ScrollsAfter(log', Len(log)) = ScrollsAfter(log, Len(log))
        /\ \A s \in Nat : Display(log', Len(log), 0, s) = Display(log, Len(log), 0, s)
        /\ Pending(log', Len(log)) = out'
    BY <1>1, <2>4, DisplayGrows
  <2>6. Len(log) \in 0 .. Len(log) /\ Len(log) \in 0 .. Len(log')
    BY <1>1
  <2>7. Shift(log, Len(log), 0) \in Nat
        /\ Shift(log', Len(log), 0) = Shift(log, Len(log), 0)
    BY <1>1, <2>5, <2>6, ShiftIsNatural DEF Shift
  <2>8. cells = Display(log, Len(log), 0, Shift(log, Len(log), 0))
    BY <2>2, <2>3 DEF OnScreen
  <2>9. cells' = Display(log', Len(log), 0, Shift(log', Len(log), 0))
    BY <1>2, <2>5, <2>7, <2>8
  <2>10. /\ Len(log) = Len(log') => out' = <<>>
         /\ Len(log) < Len(log') =>
              /\ out' = Remaining(log'[Len(log) + 1], 0) \o Pending(log', Len(log) + 1)
              /\ 0 \in 0 .. LineWidth(log', Len(log) + 1)
    BY <1>1, <2>5, <2>6, StartOfLine
  <2>11. row' = Len(log) /\ col' = 0
    BY <1>2, <2>3
  <2>. QED
    BY <2>6, <2>9, <2>10, <2>11 DEF OnScreen
<1>6. kpc' \in Before => log' = <<>> /\ out' = <<>> /\ cells' = FirmwareScreen
  OBVIOUS
<1>. QED
  BY <1>1, <1>3, <1>4, <1>5, <1>6 DEF ScreenInv

LEMMA ClearOnScreen ==
  ASSUME AreLines(log), log = <<>>, out = <<>>, Screen!Clear, UNCHANGED <<log, out>>
  PROVE  OnScreen'
<1>1. cells' = Screen!BlankScreen /\ col' = 0 /\ row' = 0
  BY DEF Screen!Clear
<1>2. Len(log') = 0 /\ log' = <<>> /\ out' = <<>> /\ AreLines(log')
  OBVIOUS
<1>3. Rows \in Nat /\ Cols \in Nat
  BY KernelAssumption
<1> DEFINE s == Shift(<<>>, 0, 0)
<1>4. s \in Nat
  <2>1. Len(<<>>) = 0 /\ 0 \in 0 .. Len(<<>>) /\ AreLines(<<>>) /\ 0 \in Nat
    BY <1>2
  <2>. QED
    BY <2>1, ShiftIsNatural
<1> HIDE DEF s
<1>5. \A y \in 0 .. (Rows - 1), x \in 0 .. (Cols - 1) :
        Cell(<<>>, 0, 0, x, y + s + 1) = {}
  <2>1. ASSUME NEW y \in 0 .. (Rows - 1), NEW x \in 0 .. (Cols - 1)
        PROVE  ~(y + s + 1 <= 0) /\ ~(x < 0)
    BY <1>3, <1>4
  <2>. QED
    BY <2>1 DEF Cell, Inked
<1>6. Display(<<>>, 0, 0, s) = Screen!BlankScreen
  BY <1>5 DEF Display, Screen!BlankScreen, Screen!BlankRow
<1>7. cells' = Display(log', row', col', Shift(log', row', col'))
  BY <1>1, <1>2, <1>6 DEF s
<1>. QED
  BY <1>1, <1>2, <1>7 DEF OnScreen

LEMMA ScreenInit == Init => ScreenInv
<1> SUFFICES ASSUME Init PROVE ScreenInv
  OBVIOUS
<1>1. AreLines(<<>>)
  <2>1. "found" \in Kinds
    BY DEF Kinds
  <2>2. <<"found">>[1] \in Kinds
    BY <2>1
  <2>. QED
    BY <2>2, TheseAreLines
<1>. QED
  BY <1>1 DEF Init, ScreenInv, Before

LEMMA ScreenStep == ScreenInv /\ [Next]_vars => ScreenInv'
<1> SUFFICES ASSUME ScreenInv, [Next]_vars PROVE ScreenInv'
  OBVIOUS
<1>1. CASE ConsoleInit
  <2>1. /\ kpc = "console_init" /\ kpc' = "console_clear" /\ UNCHANGED <<boot, out, log>>
        /\ cells' = cells
        /\ drv' = IF boot.fb = 0 THEN drv ELSE "rgb"
    BY <1>1 DEF ConsoleInit, screen
  <2>2. AreLines(log) /\ log = <<>> /\ out = <<>> /\ cells = FirmwareScreen /\ drv = "noop"
    BY <2>1 DEF ScreenInv, Before
  <2>3. AreLines(log')
    BY <2>1, <2>2
  <2>. QED
    BY <2>1, <2>2, <2>3 DEF ScreenInv, Before
<1>2. CASE ConsoleClear
  <2>1. /\ kpc = "console_clear" /\ kpc' = "acpi" /\ UNCHANGED <<boot, drv, out, log>>
        /\ IF drv = "noop" THEN UNCHANGED screen ELSE Screen!Clear
    BY <1>2 DEF ConsoleClear
  <2>2. /\ AreLines(log) /\ log = <<>> /\ out = <<>> /\ cells = FirmwareScreen
        /\ drv = IF boot.fb = 0 THEN "noop" ELSE "rgb"
    BY <2>1 DEF ScreenInv, Before
  <2>3. AreLines(log')
    BY <2>1, <2>2
  <2>4. drv = "noop" => cells' = cells
    BY <2>1 DEF screen
  <2>5. drv = "rgb" => OnScreen'
    BY <2>1, <2>2, ClearOnScreen
  <2>. QED
    BY <2>1, <2>2, <2>3, <2>4, <2>5 DEF ScreenInv, Before
<1>3. CASE PutChar
  <2>1. UNCHANGED <<boot, kpc, drv, log>> /\ out # <<>>
    BY <1>3 DEF PutChar
  <2>2. kpc \notin Before /\ drv # "noop" /\ AreLines(log) /\ AreLines(log')
    BY <2>1 DEF ScreenInv
  <2>3. drv = "rgb" /\ Len(log) < RowMod => OnScreen'
    BY <1>3, <2>2, PrintsOnScreen DEF ScreenInv
  <2>. QED
    BY <2>1, <2>2, <2>3 DEF ScreenInv
<1>4. CASE AcpiStep
  <2>1. /\ kpc = "acpi" /\ out = <<>> /\ Say(AcpiLines) /\ UNCHANGED <<boot, drv, screen>>
        /\ kpc' \in {"config", "wild", "acpi"}
    BY <1>4 DEF AcpiStep
  <2>2. kpc \notin Before /\ kpc' \notin Before
    BY <2>1 DEF Before
  <2>. QED
    BY <2>1, <2>2, LinesOfAStep, SaysOnScreen
<1>5. CASE ReadConfig
  <2>1. /\ kpc = "config" /\ out = <<>> /\ Say(ConfigLines(fw.config[k + 1]))
        /\ UNCHANGED <<boot, kpc, drv, screen>>
    BY <1>5 DEF ReadConfig
  <2>2. kpc \notin Before /\ kpc' \notin Before
    BY <2>1 DEF Before
  <2>3. AreLines(ConfigLines(fw.config[k + 1]))
    BY LinesOfConfig
  <2>. QED
    BY <2>1, <2>2, <2>3, SaysOnScreen
<1>6. CASE ReadDescriptor
  <2>1. /\ kpc = "map" /\ out = <<>> /\ Say(RegionLines(boot.at[Descriptor]))
        /\ UNCHANGED <<boot, kpc, drv, screen>>
    BY <1>6 DEF ReadDescriptor
  <2>2. kpc \notin Before /\ kpc' \notin Before
    BY <2>1 DEF Before
  <2>3. AreLines(RegionLines(boot.at[Descriptor]))
    BY LinesOfRegion
  <2>. QED
    BY <2>1, <2>2, <2>3, SaysOnScreen
<1>7. CASE ConfigOver \/ Idle
  <2>1. /\ kpc \in {"config", "map"} /\ kpc' \in {"map", "fault", "idle"}
        /\ UNCHANGED <<boot, drv, out, log, cells, col, row>>
    BY <1>7 DEF ConfigOver, Idle, screen
  <2>2. kpc \notin Before /\ kpc' \notin Before /\ kpc' # "console_init" /\ kpc # "console_init"
    BY <2>1 DEF Before
  <2>3. (drv = "rgb" /\ Len(log) < RowMod => OnScreen) /\ AreLines(log)
    BY <2>2 DEF ScreenInv
  <2>4. (drv' = "rgb" /\ Len(log') < RowMod => OnScreen') /\ AreLines(log')
    BY <2>1, <2>3 DEF OnScreen
  <2>. QED
    BY <2>1, <2>2, <2>4 DEF ScreenInv
<1>8. CASE UNCHANGED vars
  <2>1. UNCHANGED <<boot, kpc, drv, out, log, cells, col, row>>
    BY <1>8 DEF vars, screen
  <2>2. OnScreen' <=> OnScreen
    BY <2>1 DEF OnScreen
  <2>. QED
    BY <2>1, <2>2 DEF ScreenInv
<1>. QED
  BY <1>1, <1>2, <1>3, <1>4, <1>5, <1>6, <1>7, <1>8 DEF Next

(* The screen shows the log: as much of it as has not been scrolled away,  *)
(* and nothing of the lines that came when the screen was full, as long as *)
(* the cursor's row does not come round.  Without a frame buffer it stays  *)
(* as the firmware has left it (main.c:20, rgb.c:213).                     *)
THEOREM ScreenIsTheLog == Spec => [](Len(log) < RowMod => ScreenShowsLog)
<1>1. ScreenInv /\ Len(log) < RowMod => ScreenShowsLog
  <2> SUFFICES ASSUME ScreenInv, Len(log) < RowMod, out = <<>>,
                      kpc \notin Before
               PROVE  cells = IF boot.fb = 0 THEN FirmwareScreen ELSE Shown(log)
    BY DEF ScreenShowsLog, Before
  <2>1. CASE boot.fb = 0
    BY <2>1 DEF ScreenInv
  <2>2. CASE boot.fb # 0
    <3>1. drv = "rgb"
      BY <2>2 DEF ScreenInv, Before
    <3>2. OnScreen /\ AreLines(log) /\ Len(log) \in Nat
      BY <3>1, KindOfLine DEF ScreenInv
    <3>3. row = Len(log) /\ col = 0
      BY <3>2, AllPrinted
    <3>4. cells = Display(log, Len(log), 0, Shift(log, Len(log), 0))
      BY <3>2, <3>3 DEF OnScreen
    <3>. QED
      BY <2>2, <3>2, <3>4, DisplayOfAll
  <2>. QED
    BY <2>1, <2>2
<1>. QED
  BY <1>1, ScreenInit, ScreenStep, PTL DEF Spec

-----------------------------------------------------------------------------
(* Type correctness. *)

CursorOK ==
  /\ kpc \in {"console_init", "console_clear", "acpi", "config", "map",
              "idle", "fault", "wild"}
  /\ col \in 0 .. (Cols - 1) /\ row \in 0 .. (RowMod - 1)

LEMMA CursorInvariance == Spec => []CursorOK
<1>1. /\ Cols \in Nat \ {0} /\ Rows \in Nat \ {0} /\ RowMod \in Nat \ {0}
      /\ \A r \in Nat : r % RowMod \in 0 .. (RowMod - 1)
  BY KernelAssumption
<1>2. Init => CursorOK
  BY <1>1 DEF Init, CursorOK
<1>3. CursorOK /\ [Next]_vars => CursorOK'
  <2> SUFFICES ASSUME CursorOK, [Next]_vars PROVE CursorOK'
    OBVIOUS
  <2>1. CASE ConsoleInit \/ ConfigOver \/ Idle \/ ReadConfig \/ ReadDescriptor
    BY <2>1 DEF ConsoleInit, ConfigOver, Idle, ReadConfig, ReadDescriptor, CursorOK,
                screen
  <2>2. CASE ConsoleClear
    BY <2>2, <1>1 DEF ConsoleClear, Screen!Clear, CursorOK, screen
  <2>3. CASE PutChar
    <3>1. kpc' = kpc
      BY <2>3 DEF PutChar
    <3>2. /\ 0 \in 0 .. (Cols - 1) /\ (row + 1) % RowMod \in 0 .. (RowMod - 1)
          /\ ~(col + 1 >= Cols) => col + 1 \in 0 .. (Cols - 1)
          /\ row \in 0 .. (RowMod - 1)
      BY <1>1 DEF CursorOK
    <3>3. CASE Screen!NewLine
      <4>1. col' = 0 /\ row' = (row + 1) % RowMod
        BY <3>3 DEF Screen!NewLine, Screen!MoveTo
      <4>. QED
        BY <3>1, <3>2, <4>1 DEF CursorOK
    <3>4. CASE Screen!PrintChar(Head(out))
      <4>1. \/ col' = 0 /\ row' = (row + 1) % RowMod
            \/ ~(col + 1 >= Cols) /\ col' = col + 1 /\ row' = row
        BY <3>4 DEF Screen!PrintChar, Screen!MoveTo
      <4>. QED
        BY <3>1, <3>2, <4>1 DEF CursorOK
    <3>. QED
      BY <2>3, <3>3, <3>4 DEF PutChar
  <2>4. CASE AcpiStep
    <3>1. kpc' \in {"config", "wild", "acpi"} /\ UNCHANGED <<col, row>>
      BY <2>4 DEF AcpiStep, screen
    <3>. QED
      BY <3>1 DEF CursorOK
  <2>5. CASE UNCHANGED vars
    BY <2>5 DEF vars, screen, CursorOK
  <2>. QED
    BY <2>1, <2>2, <2>3, <2>4, <2>5 DEF Next
<1>. QED
  BY <1>2, <1>3, PTL DEF Spec

(* The kernel is where it can be, its counter in the loop it is in, its     *)
(* cursor on a column of the screen, and acpi_init keeps its own types.    *)
THEOREM TypeCorrect ==
  ASSUME NEW Tables, P!WellFormed(Tables), P!Sound(Tables)
  PROVE  Spec => []TypeOK
<1>1. WalkOK /\ LogInv /\ ScreenInv /\ CursorOK /\ P!TypeOK => TypeOK
  <2>1. P!TypeOK => Acpi!TypeOK
    BY DEF P!TypeOK, Acpi!TypeOK
  <2>2. ScreenInv => drv \in {"noop", "rgb"}
    BY DEF ScreenInv
  <2>3. LogInv => /\ kpc = "config" => k <= Len(fw.config)
                  /\ kpc = "map" => k <= boot.size \div boot.stride
    BY DEF LogInv, Entries
  <2>. QED
    BY <2>1, <2>2, <2>3 DEF WalkOK, CursorOK, TypeOK
<1>2. Spec => [](P!Told(Tables) /\ P!TypeOK)
  BY AcpiTold
<1>. QED
  BY <1>1, <1>2, WalkOKInductive, LogInvariance, ScreenInit, ScreenStep,
     CursorInvariance, PTL DEF Spec
=============================================================================
