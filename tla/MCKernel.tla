------------------------------ MODULE MCKernel ------------------------------
(***************************************************************************)
(* Boots of the kernel: a few firmwares, sound ones and others, and memory *)
(* maps of up to three descriptors.                                        *)
(***************************************************************************)
EXTENDS Kernel

LOCAL Tables == INSTANCE MCAcpi

Root(ok, entries) == [ok |-> ok, entries |-> entries]

Rsdp(revision, okLength, rsdt, xsdt) ==
  [revision |-> revision, ok20 |-> TRUE, okLength |-> okLength,
   rsdt |-> rsdt, xsdt |-> xsdt]

Entry(guid, rsdp) == [guid |-> guid, rsdp |-> rsdp]

Short == Root(TRUE, <<Tables!Fadt(TRUE, 3), Tables!PlainMadt(TRUE)>>)
Long == Root(TRUE, <<Tables!Other, Tables!Fadt(FALSE, 3), Tables!PlainMadt(TRUE),
                     Tables!Fadt(TRUE, 1), Tables!Other>>)

MCFirmware ==
  LET On(config, apic, enabled) ==
        Tables!System(config, Tables!Cpu(TRUE, apic, enabled))
      old == Entry("acpi10", Rsdp(0, FALSE, Short, NULL))
      new == Entry("acpi20", Rsdp(2, TRUE, Short, Long))
      damaged == Entry("acpi20", Rsdp(2, FALSE, Short, Long))
      other == Entry("other", Rsdp(2, TRUE, Short, Short))
  IN  {On(<<old>>, TRUE, TRUE), On(<<damaged, other, old>>, TRUE, FALSE),
       On(<<new, old>>, FALSE, TRUE), On(<<other, damaged>>, TRUE, TRUE),
       On(<<Entry("acpi20", Rsdp(2, TRUE, Short, NULL))>>, TRUE, TRUE)}

Desc(type, start) == [type |-> type, start |-> start]

Types == {"EfiConventionalMemory", "EfiLoaderData", "EfiReservedMemoryType"}

(* n descriptors of the given types, with a gap behind each that reads as  *)
(* usable memory, and so does what follows the map.                        *)
Map(fb, stride, types, tail) ==
  LET size == Len(types) * stride + tail
  IN  [fb |-> fb, stride |-> stride, size |-> size,
       at |-> [o \in 0 .. (size + 2 * DescSize) |->
         IF stride > 0 /\ o % stride = 0 /\ o \div stride < Len(types)
           THEN Desc(types[o \div stride + 1], o)
           ELSE Desc("EfiLoaderCode", o)]]

MCBootInfos ==
  {Map(fb, stride, types, tail) :
     fb \in {0, 1}, stride \in {0, 2, 3}, tail \in {0, 1},
     types \in {<<>>} \cup UNION {[1 .. n -> Types] : n \in {1, 3}}}

MCWidth ==
  [kind \in Kinds |-> IF kind \in {"table", "region"} THEN 2 ELSE 1]

MCFirmwareScreen ==
  [y \in 0 .. (Rows - 1) |-> [x \in 0 .. (Cols - 1) |-> {"logo"}]]
=============================================================================
