------------------------------- MODULE Kernel -------------------------------
(***************************************************************************)
(* src/src/kernel/main.c: kernel_main, which composes the console, the     *)
(* frame buffer terminal and ACPI discovery: what the loader hands over,   *)
(* the log the kernel prints about it, and what of the log is on the       *)
(* screen.  acpi_init is Acpi.tla, run while kpc is "acpi"; the terminal   *)
(* is TextScreen.tla as Rgb.tla implements it.                             *)
(*                                                                         *)
(* boot, the boot_info_t, is a record: fb, the address of the frame buffer *)
(* or 0; size and stride, MemoryMapSize and DescriptorSize; and at, the    *)
(* memory descriptor read at each offset from MemoryMap.  Offsets count    *)
(* units of which an EFI_MEMORY_DESCRIPTOR takes DescSize.                 *)
(*                                                                         *)
(* A printed line is a tuple, its kind and what it tells; on the screen it *)
(* is Width[kind] characters and a newline.                                *)
(***************************************************************************)
EXTENDS Integers, SequencesExt

CONSTANTS
  Firmware, NULL, MadtHeader, IntMod,   (* as in Acpi                      *)
  BootInfos,     (* what the loader hands over, records as above           *)
  DescSize,      (* sizeof(EFI_MEMORY_DESCRIPTOR)                          *)
  Cols, Rows, RowMod,                   (* as in TextScreen                *)
  Width,         (* the length of the lines of each kind                   *)
  FirmwareScreen (* the cells the firmware has left on the screen          *)

Kinds == {"version", "table", "status", "found", "revision", "region"}

(* The lines of the boot log fit on a row of any display mode, and the     *)
(* loader's map is the firmware's: its descriptors may have grown.         *)
ASSUME KernelAssumption ==
  /\ MadtHeader \in Nat /\ IntMod \in Nat \ {0} /\ DescSize \in Nat \ {0}
  /\ Cols \in Nat \ {0} /\ Rows \in Nat \ {0} /\ RowMod \in Nat \ {0}
  /\ \A b \in BootInfos : /\ b.size \in Nat /\ b.stride \in Nat
                          /\ b.stride = 0 \/ b.stride >= DescSize
  /\ \A kind \in Kinds : Width[kind] \in 1 .. (Cols - 1)

VARIABLES
  boot,                             (* boot_info; never written            *)
  kpc,                              (* where kernel_main is                *)
  k,                                (* the counter of its loops, from 0    *)
  drv,                              (* console_drv                         *)
  out,                              (* characters console_printf has left  *)
  log,                              (* the lines printed; for the          *)
                                    (* properties                          *)
  fw, pc, i, ptr, info, listed,     (* acpi_init                           *)
  cells, col, row                   (* the screen                          *)

acpi == <<fw, pc, i, ptr, info, listed>>
screen == <<cells, col, row>>
vars == <<boot, kpc, k, drv, out, log, acpi, screen>>

Acpi == INSTANCE Acpi

Screen == INSTANCE TextScreen WITH
  Char <- Kinds, Glyph <- [kind \in Kinds |-> {kind}],
  RowPeriod <- RowMod, SnapBack <- FALSE, Overstrike <- TRUE,
  ClearHomes <- TRUE

Init ==
  /\ boot \in BootInfos
  /\ kpc = "console_init" /\ k = 0 /\ drv = "noop"
  /\ out = <<>> /\ log = <<>>
  /\ Acpi!Init
  /\ cells = FirmwareScreen /\ col = 0 /\ row = 0

(* The characters of a line. *)
Text(line) == [j \in 1 .. Width[line[1]] |-> line[1]] \o <<"\n">>

(* console_printf, once per line: the driver gets the characters one by    *)
(* one, the noop driver none.                                              *)
Say(lines) ==
  /\ log' = log \o lines
  /\ out' = IF drv = "noop" THEN <<>>
            ELSE FlattenSeq([j \in DOMAIN lines |-> Text(lines[j])])

PutChar ==
  /\ out # <<>> /\ out' = Tail(out)
  /\ \/ Head(out) = "\n" /\ Screen!NewLine
     \/ Head(out) \in Kinds /\ Screen!PrintChar(Head(out))
  /\ UNCHANGED <<boot, kpc, k, drv, log, acpi>>

ConsoleInit ==
  /\ kpc = "console_init"
  /\ drv' = IF boot.fb = 0 THEN drv ELSE "rgb"
  /\ kpc' = "console_clear"
  /\ UNCHANGED <<boot, k, out, log, acpi, screen>>

(* A plausible bug: the call is left out. *)
MutConsoleClear ==
  /\ kpc = "console_clear" /\ kpc' = "acpi"
  /\ UNCHANGED <<boot, k, drv, out, log, acpi, screen>>

ConsoleClear ==
  /\ kpc = "console_clear" /\ kpc' = "acpi"
  /\ IF drv = "noop" THEN UNCHANGED screen ELSE Screen!Clear
  /\ UNCHANGED <<boot, k, drv, out, log, acpi>>

-----------------------------------------------------------------------------
(* acpi_init and what it prints. *)

StatusLines ==
  (IF info.has_apic
     THEN <<<<"status", "apic", TRUE>>>> \o
          (IF info.apic_enabled THEN <<<<"status", "enabled", TRUE>>>> ELSE <<>>)
     ELSE <<<<"status", "apic", FALSE>>>>) \o
  <<<<"status", "vga", info.has_vga>>, <<"status", "i8042", info.has_i8042>>,
    <<"status", "8259", info.has_8259>>, <<"status", "cores", info.numCores>>>>

(* The version is printed before the root table is looked at. *)
AcpiLines ==
  CASE pc = "walk" /\ pc' # "walk" -> <<<<"version", info.rsdp.revision>>>>
    [] pc = "list" /\ pc' = "list" -> <<<<"table", Last(listed')>>>>
    [] pc = "list" /\ pc' = "done" -> StatusLines
    [] OTHER -> <<>>

AcpiStep ==
  /\ kpc = "acpi" /\ out = <<>>
  /\ Acpi!Next
  /\ Say(AcpiLines)
  /\ kpc' = CASE pc' = "done" -> "config" [] pc' = "wild" -> "wild"
              [] OTHER -> kpc
  /\ UNCHANGED <<boot, k, drv, screen>>

-----------------------------------------------------------------------------
(* The rest of kernel_main. *)

(* Both GUIDs are looked for, whether or not the RSDP is sound. *)
ConfigLines(entry) ==
  IF entry.guid \in {"acpi10", "acpi20"}
    THEN <<<<"found", entry.guid>>, <<"revision", entry.rsdp.revision>>>>
    ELSE <<>>

ReadConfig ==
  /\ kpc = "config" /\ out = <<>> /\ k < Len(fw.config)
  /\ Say(ConfigLines(fw.config[k + 1]))
  /\ k' = k + 1
  /\ UNCHANGED <<boot, kpc, drv, acpi, screen>>

(* A plausible bug: the second loop goes on from the counter of the first. *)
MutConfigOver ==
  /\ kpc = "config" /\ out = <<>> /\ k >= Len(fw.config)
  /\ kpc' = IF boot.stride = 0 THEN "fault" ELSE "map"
  /\ UNCHANGED <<boot, k, drv, out, log, acpi, screen>>

(* MemoryMapSize / DescriptorSize: by 0, an exception nobody handles. *)
ConfigOver ==
  /\ kpc = "config" /\ out = <<>> /\ k >= Len(fw.config)
  /\ kpc' = IF boot.stride = 0 THEN "fault" ELSE "map"
  /\ k' = 0
  /\ UNCHANGED <<boot, drv, out, log, acpi, screen>>

(* A plausible bug: a descriptor that is cut off counts. *)
MutEntries == (boot.size + boot.stride - 1) \div boot.stride

Entries == boot.size \div boot.stride

(* A plausible bug: the descriptors are an array of the struct. *)
MutDescriptor == k * DescSize

(* ptr + i * DescriptorSize *)
Descriptor == k * boot.stride

Usable == {"EfiConventionalMemory", "EfiLoaderCode", "EfiLoaderData"}

RegionLines(desc) ==
  IF desc.type \in Usable THEN <<<<"region", desc.type, desc.start>>>> ELSE <<>>

(* A plausible bug: a descriptor of another type is not stepped over. *)
MutReadDescriptor ==
  /\ kpc = "map" /\ out = <<>> /\ k < Entries
  /\ Say(RegionLines(boot.at[Descriptor]))
  /\ k' = IF boot.at[Descriptor].type \in Usable THEN k + 1 ELSE k
  /\ UNCHANGED <<boot, kpc, drv, acpi, screen>>

ReadDescriptor ==
  /\ kpc = "map" /\ out = <<>> /\ k < Entries
  /\ Say(RegionLines(boot.at[Descriptor]))
  /\ k' = k + 1
  /\ UNCHANGED <<boot, kpc, drv, acpi, screen>>

(* while (1); *)
Idle ==
  /\ kpc = "map" /\ out = <<>> /\ k >= Entries
  /\ kpc' = "idle"
  /\ UNCHANGED <<boot, k, drv, out, log, acpi, screen>>

Next ==
  \/ ConsoleInit \/ ConsoleClear \/ PutChar
  \/ AcpiStep \/ ReadConfig \/ ConfigOver \/ ReadDescriptor \/ Idle

Spec == Init /\ [][Next]_vars

(* There is one processor, and nothing interrupts it. *)
FairSpec == Spec /\ WF_vars(Next)

-----------------------------------------------------------------------------
(* What the log and the screen ought to be, from the firmware alone. *)

BootLog(f, b) ==
  LET r == Acpi!BootRsdp(f)
      entries == (IF r.revision < 2 THEN r.rsdt ELSE r.xsdt).entries
      fadt == Acpi!TableIn(entries, "FACP")
      madt == Acpi!TableIn(entries, "APIC")
      apic == f.cpu.cpuid /\ f.cpu.apic
      cores == Acpi!EnabledAt(madt, Acpi!Visited(madt, madt.length))
  IN  <<<<"version", r.revision>>>> \o
      [j \in DOMAIN entries |-> <<"table", entries[j]>>] \o
      <<<<"status", "apic", apic>>>> \o
      (IF apic /\ f.cpu.enabled THEN <<<<"status", "enabled", TRUE>>>> ELSE <<>>) \o
      <<<<"status", "vga", ~fadt.no_vga>>, <<"status", "i8042", fadt.i8042>>,
        <<"status", "8259", madt.pcat>>, <<"status", "cores", cores>>>> \o
      FlattenSeq([j \in DOMAIN f.config |-> ConfigLines(f.config[j])]) \o
      FlattenSeq([j \in 1 .. (b.size \div b.stride) |->
                    RegionLines(b.at[(j - 1) * b.stride])])

(* A line scrolls the screen up: by a row for the newline of the line on   *)
(* the last row, and from there on for every single character.             *)
ScrolledBy(lines, n) ==
  IF n < Rows THEN 0 ELSE IF n = Rows THEN 1 ELSE 1 + Width[lines[n][1]]

Scrolls(lines) ==
  LET upTo[n \in 0 .. Len(lines)] ==
        IF n = 0 THEN 0 ELSE upTo[n - 1] + ScrolledBy(lines, n)
  IN  upTo[Len(lines)]

(* The lines that began on the screen, each as far up as the scrolls have  *)
(* taken it; those that came later are nowhere.                            *)
Shown(lines) ==
  LET n(y) == y + Scrolls(lines) + 1
  IN  [y \in 0 .. (Rows - 1) |-> [x \in 0 .. (Cols - 1) |->
         IF n(y) <= Rows /\ n(y) <= Len(lines)
           THEN IF x < Width[lines[n(y)][1]] THEN {lines[n(y)][1]} ELSE {}
           ELSE {}]]

-----------------------------------------------------------------------------
(* Properties. *)

TypeOK ==
  /\ kpc \in {"console_init", "console_clear", "acpi", "config", "map",
              "idle", "fault", "wild"}
  /\ k \in Nat /\ drv \in {"noop", "rgb"}
  /\ kpc = "config" => k <= Len(fw.config)
  /\ kpc = "map" => k <= boot.size \div boot.stride
  /\ Acpi!TypeOK
  /\ col \in 0 .. (Cols - 1) /\ row \in 0 .. (RowMod - 1)

(* When the kernel idles it has told, in this order, every ACPI table of   *)
(* the root table, what was detected, every RSDP, and every usable memory  *)
(* region once, whatever the size of the firmware's descriptors            *)
(* (main.c:24-65).                                                         *)
LogIsBootLog == kpc = "idle" => log = BootLog(fw, boot)

(* No descriptor is read that does not lie in the memory map (main.c:51),  *)
(* with a map that is not a whole number of descriptors too.               *)
ReadsInsideMap ==
  kpc = "map" /\ k < Entries => Descriptor + DescSize <= boot.size

(* The screen shows the log from its first line on until it is full; then  *)
(* every character scrolls it (rgb.c:213), so that a log a few lines       *)
(* longer leaves nothing.  Without a frame buffer the screen stays as it   *)
(* was (main.c:20 ignores that console_init has failed).                   *)
ScreenShowsLog ==
  out = <<>> /\ kpc \notin {"console_init", "console_clear"} =>
    cells = IF boot.fb = 0 THEN FirmwareScreen ELSE Shown(log)

(* On a firmware that has what acpi_init relies on, and with a descriptor  *)
(* size, the kernel comes to its final loop, with a screen or without.     *)
BootCompletes ==
  (Acpi!Complete(fw) /\ boot.stride > 0) ~> kpc = "idle"
=============================================================================
