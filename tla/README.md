# GRIDx64 in TLA+

GRIDx64 is a hobby operating system for x86-64. The UEFI loader `Grid.efi` (not in
the repository) starts `kernel_main` in long mode with a `boot_info_t`: a frame
buffer, the EFI system table and the memory map. The kernel clears the screen,
finds and lists the ACPI tables, prints the configuration table and the memory map,
and spins. All code paths below are under `src/` of the repository; `src/src/...` is
the kernel source itself.

This directory models that code in TLA+, checks the models with TLC on small
instances, and proves the most important facts with TLAPS for all sizes.

Everything runs from this directory:

    tlc -config MCMem.cfg MCMem.tla       # likewise for every MC*.cfg
    tlapm Mem_proofs.tla                  # likewise for every *_proofs.tla

## 1. Inventory: the system and what makes it correct

One processor runs and interrupts are never enabled (`src/src/interrupts/` is
commented out line by line). So today's hard behaviours are not races between threads;
the one place where something runs between two steps is the driver of the interrupt
controllers, once interrupts are enabled. The rest are loops over memory whose order
matters, long sequences of legal calls that lead to a state nobody tried, sizes that are not multiples of the character size,
arithmetic that wraps, firmware tables of which one is missing or damaged, and the
devices that work beside the processor.

| component | state | operations | used by | what makes it correct |
|---|---|---|---|---|
| `lib/mem.c` | none but the memory of the caller | `memset`, `memmove`, `memcmp` | rgb, acpi, main, the compiler | loops stay in the spans, `memmove` reads each byte before it overwrites it, each call has its whole effect |
| `lib/string.c` | none | `itoa`, `strlen` | console | buffers of 33 characters suffice, the text is the number |
| `drivers/console/rgb.c` | frame buffer, `cursor_x`, `cursor_y` | `rgb_putc*`, `rgb_clear*`, `rgb_scroll` | console | no store outside the frame buffer, the pixels are those of a character terminal |
| `drivers/console/vga.c` | text buffer, cursor, CRT controller's cursor | `vga_putc`, `vga_clear`, `vga_scroll` | nothing today | the same, and the cursor that is shown follows |
| `drivers/console/console.c` | `console_drv`, `fb` | `console_init`, `console_clear`, `console_scroll`, `console_putc`, `console_puts`, `console_printf` | acpi, main | what is printed is what the format and the arguments mean, the parser stays in the format, no driver without a frame buffer |
| `acpi/acpi.c` | `acpi_info` | `acpi_init` (`find_rsdp`, `find_acpi_table`) | main | the first valid tables are chosen, it ends on every firmware that has what it needs, the cores are counted once each |
| `drivers/i8259/i8259.c` | masks, requests and services of two chips | `pic_remap`, `pic_set_mask`, `pic_clear_mask`, `pic_send_eoi`, `pic_disable`, `pic_get_isr`, `pic_get_irr` | nothing today | with interrupts between any two port accesses: masks survive a remap, no interrupt comes through an old vector or from a masked line, both chips end what they serve, a request waits for nothing but higher priorities |
| `kernel/main.c` | none | `kernel_main` | the loader | a complete firmware leads to the final loop, the log is what the firmware and the map say, the walk stays in the map, the log gets to the screen |

How they interact: `kernel_main` calls `console_init` (whose failure it ignores), then
`console_clear`, then `acpi_init`, and prints. `console.c` calls the driver through
three function pointers. `rgb_scroll` and `rgb_clear*` are calls of `memmove` and
`memset` on the whole frame buffer; `find_rsdp` and `find_acpi_table` compare GUIDs and
signatures with `memcmp`; `print_number` calls `itoa` and `strlen`. There is no other
shared state.

The hazards of each component, with their lines, are the list `hazards` of
`PROJECT.json`; each names the properties aimed at it.

## 2. The modules

| module | models | role |
|---|---|---|
| `MemOps` | `mem.c` | the effect of each function on a memory, as operators; used by `Mem`, `Rgb` and `Vga` |
| `MemApi` | `mem.c` | abstract: a call takes effect in one step, when it returns |
| `Mem`, `MCMem`, `Mem_proofs` | `mem.c` | the loops, one byte at a time; refines `MemApi` |
| `TextScreen` | `rgb.c`, `vga.c` | abstract: a terminal of cells, with three constants for the ways the two drivers differ |
| `Rgb`, `RgbHistory`, `MCRgb`, `Rgb_proofs` | `rgb.c` | pixels in a frame buffer; refines `TextScreen`; `RgbHistory` adds history variables |
| `Vga`, `VgaHistory`, `MCVga`, `Vga_proofs` | `vga.c` | characters in a text buffer; refines `TextScreen`; `VgaHistory` adds a history variable |
| `Numerals` | `string.c`, `print_number` | the text of a number by place values |
| `Itoa`, `MCItoa`, `Console_proofs` | `itoa` | the loops of `itoa`; returns what `Numerals` says |
| `Console`, `MCConsole`, `Console_proofs` | `console.c` | choice of a driver, `console_printf` iteration by iteration, on `Numerals` |
| `Acpi`, `MCAcpi`, `Acpi_proofs` | `acpi.c` | `acpi_init`, statement by statement, on any firmware |
| `Chips8259` | the two 8259A | external: what the driver relies on of the chips, as operators |
| `Pic`, `MCPic`, `Pic_proofs` | `i8259.c` | the driver one port access at a time, beside devices and interrupts |
| `Kernel`, `MCKernel`, `Kernel_proofs` | `main.c` | `kernel_main`; composes `Acpi` and `TextScreen` |
| `DataLemmas` | - | induction over the naturals, recursive functions, flattened sequences: what the proofs need of the data |

### mem.c

A memory is a function from addresses to bytes. `Mem` has one call at a time: `fn` says
which loop runs, `dst`, `src`, `n`, `c` are its parameters and `i` its counter.
`MoveNothing` is the early return of `memmove` (mem.c:16), `ChooseDirection` the test of
line 18, `SetByte`, `MoveUpByte`, `MoveDownByte` and `CompareByte` one iteration each.
`entry` is a history variable, the memory at the time of the call. The caller passes
spans it owns, including empty ones at the end of memory and overlapping ones.
A store outside the domain of the memory is not lost: it makes the domain grow,
which `TypeOK` notices. Frame buffer and text buffer are memories of the same kind.

Because `Mem` implements `MemApi`, the other modules use the operators of `MemOps`
for whole calls.

### rgb.c and vga.c

One action per call of a driver function, by class of character: `PrintChar`,
`NewLine`, `CarriageReturn`, `Backspace`, `OtherChar` (all of `*_putc`), `Clear`,
`Scroll`. Each action is the whole function, with its trailing scroll; the early
returns of a backspace are the disjuncts of `Backspace`.

In `Rgb` a pixel is black or lit and an address counts pixels; a scan line has `Pitch`
of them, of which `Width` are displayed. `Painted` draws a set of dots through the
clipping test of `rgb_putpixel`; the cursor and the lines and columns computed from it are `uint32_t`, modulo `UintMod`. The
byte counts `fb.height * fb.pitch` and the like (rgb.c:41, 72, 73) are `uint32_t` too and are not wrapped in the model: that is right for
every frame buffer of less than 4 GiB, and nothing is said of larger ones. The 16,
24 and 32 bit variants differ in the layout of a pixel, which is abstracted, and in
that only `rgb_clear32` moves the cursor (`Bpp`).

`TextScreen` is the promise: cells, a column and a row. `SnapBack` is TRUE for vga.c,
whose scroll puts the cursor at the start of the last row, and FALSE for rgb.c, whose scroll
leaves it where it is. **rgb.c never brings the cursor back**: once the screen has
filled, every character is clipped and scrolls the screen until it is empty. The
repository says nothing about that, so it is stated as a property of the code
(`TextIsLostBelow`) and not as a finding.

`VgaHistory` and `RgbHistory` let history variables watch the same steps: `unprinted`, what a
backspace after the character just printed should leave, and `below`, how often the screen
has scrolled since the cursor last was on it. The runs and the proofs use them.

### console.c and string.c

A call of `console_printf` is given by what its author means: a sequence of items
(a literal character, a conversion with its width, or a conversion cut off by the end
of the format) and arguments. `Spelling` turns items into the characters of the
format, which lie in `fmt` with their terminator and whatever comes behind it; the
actions read them as the code does. `Rendering` says what ought to be printed from
the items alone: that the parser finds them again is what the run checks. Characters
are values such as `"a"`; only the percent sign, digits and specifiers matter.

`width` is an int. A width that an int cannot hold is undefined in C; `Widened` wraps it, as the build
does, and what is then printed is no longer what the format says: the properties ask for nothing but
that the parser stays in the format (`WidthsFit`). For the others `Padded` of `Numerals` is the specification
of a number with a width, by place values; the code's own layout is `Number` of `Console`, a
translation of `print_number`. The minus goes in front of the zeros in both. Whether it counts in the width
`Padded` takes as a parameter, since the repository does not settle it: `src/README.md:15` has
"FIX PRINT_NUMBER TO ACCOUNT FOR NEGATIVES" on its list of things to do, and the branch for
negatives in `print_number` (console.c:57-62) prints the minus outside the width. `FormattedAsWritten` accepts either,
as long as it is the same in all of a text, so that it keeps holding whichever way the line is settled; today `%02d` of -1 gives
`-01`. If that branch was all the line asked for, the line is stale; if the minus should count, the line still stands and the
code is wrong by one zero. The line does not say which, so this is no finding. `src/README.md:13` wants unsigned integers; there is no
conversion for them, so no statement about one: `%u` is printed as it stands, `%d` takes an int, and `%x` prints the
bits of an int, which `Unsigned` says.

`console_init` is called once, and first, as `kernel_main` does. It never takes a driver out again: after a call that
installed one, a second call that fails would leave it painting at address 0 (console.c:19, 25). Nothing in the repository makes
such a call, and `NeverPaintsAtNull` says nothing of it.

`itoa` runs one character at a time in `Itoa`; `-value` of the smallest int is undefined
in C, and the build the Makefile describes (gcc -O2) negates with wrap-around, which is
what the model does. The doubt noted at the end of the file, "Might not work for a very large negative value?"
(string.c:43), is about that negation: with the wrap the number is right, without it nothing is said. `Console` then takes `Shown` of `Numerals` for a call of `itoa`.
An argument passed to `%d` or `%x` keeps its low 32 bits, which is what `va_arg(args, int)`
gets from a 64-bit argument on x86-64.

### acpi.c

The firmware's tables are a constant record `fw` chosen in `Init`; pointers are the
tables they point to, checksums Booleans. `pc` is the place in `acpi_init`, and the
loops of `find_rsdp`, `find_acpi_table` (run for the FADT, then for the MADT), the walk
over the MADT and the listing take one step per iteration. Going through a NULL
pointer leads to `"wild"`, from where the model takes no step: the source does not
determine what happens. `fw.madt.at` gives an entry header for every offset the walk
can get to, behind the end of the table too.

### i8259.c

A function of the driver is the sequence of its port accesses, and `ProgramStep` carries
out the next one; between any two of them a device may request an interrupt (`Raise`) and
the processor may take one (`Accept`). Its handler is the accesses of `pic_send_eoi`
(`HandlerStep`). That handler, and that a call of the driver is never made from one, is
taken from the commented out `interrupts/idt.c`; interrupt gates keep other interrupts
out of it. Nothing calls the driver today, so any sequence of calls is allowed. Bytes are
sets of bit numbers, which turns `|` and `& ~` into union and difference; `Bit` and
`LineOf` are the shift of line 47 and its cut to a byte. `irq` is not checked by the code:
16 to 39 shift the bit out of the byte and touch nothing, from 40 on the shift is
undefined and `PicAssumption` leaves it out.

`Chips8259` is the data sheet as far as the driver relies on it: four initialization words in
their order, the mask, requests, services, fully nested priorities, unspecific end of
interrupt, the cascade on line 2, and the register a read shows. A chip in the middle of
its initialization accepts nothing. Requests that vanish before they are taken (spurious
interrupts) are left out: neither the driver nor the commented handler knows of them.
`asked`, `offsets` and `seen` are history variables.

### main.c

`Kernel` has the program counter `kpc` of `kernel_main` and takes the steps of `acpi_init`
as those of `Acpi`, by INSTANCE on the same variables, and each character printed as a
step of `TextScreen`, the terminal that `Rgb` is shown to implement. `AcpiStep` adds to
a step of `Acpi` what it prints. A line is a tuple of its kind and what it tells, and as
wide as `Width` says; how `console_printf` gets from a format to the characters is
`Console`. `boot.at` has a descriptor for every offset of the memory map, so that a
walk with the wrong stride reads something, as it would.

What the kernel prints ought to be (`BootLog`) and what of it is on the screen (`Shown`) are
defined from the firmware, the map and the log alone. Two things they say are worth
knowing: without a frame buffer the kernel boots and shows nothing, and **a boot log
a few lines longer than the screen leaves the screen blank**, since from the last row on
each single character scrolls a row away (rgb.c:213). A `DescriptorSize` of 0 is a division
exception; an unsound firmware ends in `"wild"` before the memory map is told.

## 3. What the runs show

| run | properties | shows |
|---|---|---|
| `mem` | `TypeOK`, `PartialEffect`, `ImplementsApi`, `EveryCallReturns` | on all pairs of spans of 4 bytes: no byte outside is stored, none is overwritten before it is read, each call has the effect of the atomic function and returns |
| `rgb_exact` | `TextIsLostBelow`, `ImplementsScreen`, `BackspaceUnprints` | on whole rows: the pixels are a `TextScreen`; what becomes of text below the screen; a backspace takes back the character before it unless that scrolled |
| `rgb_cut` | `TypeOK`, `MarginBlank`, `StripBlank` | on a cut screen, 24 bit: no store outside the frame buffer; margin and strip stay black |
| `vga` | `TypeOK`, `HwCursorNotBehind`, `ImplementsScreen`, `BackspaceUnprints` | the text buffer is a `TextScreen` that snaps back; a backspace always takes back exactly the last character |
| `itoa` | `ItoaTypeOK`, `ReturnsNumeral` | all ints of 6 bits in ten bases: buffers suffice, the result is the numeral |
| `console` | `TypeOK`, `NeverPaintsAtNull`, `FormattedAsWritten`, `StaysInFormat`, `EveryCallReturns` | over all formats of one or two items: output is what is meant, where the widths fit an int; the parser leaves the format exactly if that ends inside a conversion |
| `acpi` | `TypeOK`, `ChosenAreFirst`, `UsedAreListed`, `CoresCounted`, `EndTellsComplete`, `LoopsRunDown`, `CompleteIsDone` | over 11 572 firmwares, among them every small MADT and what lies behind it: the first valid table is chosen, cores are counted once, `acpi_init` ends if and only if the firmware has what it relies on, no NULL pointer is gone through then, and each pass of a loop leaves fewer |
| `pic` | `TypeOK`, `MasksAsAsked`, `ServiceEnds`, `HalvesWereTrue`, `MaskedOnlyInWindow`, `NoStaleVector`, `PriorityAloneDelays` | any calls with interrupts at any time: masks are what the calls say; each half of a two-chip read was true; a masked line gets through in one window of `pic_remap` only; vectors are always the new ones; of each line, a request that nothing masks waits only while interrupts of higher priority are handled again and again |
| `kernel` | `TypeOK`, `LogIsBootLog`, `ReadsInsideMap`, `ScreenShowsLog`, `BootCompletes` | whole boots: the log is complete and in order, no descriptor is read beyond the map, the screen shows the log until it is full, a complete firmware leads to the final loop |

Three runs expect a violation; each is a finding, a place where the code does
something other than the repository says:

- `acpi_prefers20`: `find_rsdp` takes an ACPI 1.0 RSDP though a valid 2.0 one follows
  (`src/README.md:14`).
- `acpi_cores`: the walk over the MADT adds the whole table length to the address of
  the first entry and reads 44 bytes behind the table, where an enabled
  local APIC, or what looks like one, is counted as a core (acpi.c:114, 162).
- `console_address`: `%08x` of a 64-bit address loses its upper half (`src/README.md:15`,
  main.c:60).

### Bounds

- `mem`: 4 bytes of 2 values. Overlap by 1, 2 and 3 bytes in both directions, spans
  that touch, empty spans at both ends. Fill values 0, 1, 3 and -1: two of them are no bytes.
- `rgb_*`: 2 by 2 cells of 2 by 2 dots; `rgb_exact` has 3 rows. A cut column in both, a cut row
  in `rgb_cut`, one undisplayed pixel per line, two glyphs that overlap and a space.
  `UintMod` is 16 or 12, so that the cursor row wraps after 8 or 6 rows and text
  comes back on the screen; in the code that takes 2^32 rows.
- `vga`: 2 by 3 cells, two characters and a space: the scroll moves two rows of text.
- `itoa`: 6 bits, hence buffers of 7; bases -1 to 3, 10, 16, 35 to 37.
- `console`: ints of 5 bits, arguments of twice that; widths none, `02` and `12`, and `20` and `34`, which an int of 5 bits cannot hold; three
  kinds of memory behind a cut format.
- `acpi`: at most 2 entries in the configuration table and 4 in a root table, at most 2 units of MADT
  entries, headers of 2 units. Every loop has a first, a middle and a last
  iteration. `IntMod`, the wrap of the core count, is never reached.
- `pic`: devices on lines 1, 8 and 9: one of the master and two of the slave, its line 0
  among them, which is where `pic_send_eoi` and the shift have their edge. Arguments 1, 2
  (the cascade), 8 and 16 (beyond the chips) of the mask functions, two pairs of offsets,
  both other than the firmware's; at the start everything is masked or nothing.
- `kernel`: five firmwares with and without all that is relied on, frame buffer or none, maps of
  0, 1 and 3 descriptors with strides of 0, exactly a descriptor and more, whole and with
  a cut one at the end. 12 rows: some logs fit, some are partly shown, some leave a blank screen, all of which occur.

`CHECK_DEADLOCK FALSE` is set where the system stops: `acpi_init` and `itoa` return to a
caller outside the model, and after an undefined access (`"wild"`) there is no step.

### Fairness

Safety properties need none. `Mem` and `Console` assume weak fairness of `Run`, the steps of the
function that has been entered: there is one processor and nothing preempts it. No fairness is
assumed of the callers. `Acpi` assumes weak fairness of `Next`, since the boot processor
does nothing else until `acpi_init` returns, and `Kernel` for the same reason.

`Pic` assumes weak fairness of the program's and the handler's steps (the processor goes on
executing) and of `Accept`: the processor looks for interrupts before every instruction, and takes one
that is there and stays. Priorities are fixed, so no fairness makes a request come through while one of higher priority is
raised again and again, and `PriorityAloneDelays` does not say so: it says that nothing else holds a request up. A
program that calls `pic_remap` over and over may shut the chips before the processor looks; but that
forgets the request. The devices and the callers need not do anything.

## 4. What is proved

`Mem_proofs`, for every memory size, byte range and set of fill values (`MemAssumption`):

- `TypeCorrect`, `LoopsKeepPartialEffect`: `Spec => []TypeOK`, `Spec => []PartialEffect`.
  The inductive invariant is `IInv == TypeOK /\ ArgsOK /\ PartialEffect`. `ArgsOK` is
  needed because the effect of an iteration depends on the direction chosen: upwards
  the next source byte is still the original because the destination lies below it,
  downwards because it lies above. The lemmas `MovedUpStep` and `MovedDownStep` say that.
- `MemImplementsApi`: `Spec => Api!Spec`. Every loop iteration is a stutter of the
  abstract specification, whose memory is `entry`, and every return is the atomic
  effect; `PartialEffect` at the end of a loop is that effect.

`Rgb_proofs`, for every geometry, font and variant allowed by `RgbAssumption`:

- `TypeCorrect` (no store leaves the frame buffer), `MarginStaysBlank`,
  `StripStaysBlank`. The inductive invariant is `IInv == TypeOK /\ MarginBlank /\ StripBlank`.
  Neither of the last two holds alone: a scroll moves whole scan lines, margin
  included, by `CharH` lines, and the strip is blank after a scroll because the
  last `CharH` lines are cleared and the strip is lower than that. The geometry lemmas
  (`AddressInside`, `AddressUnique`, `DotsOfCell`) hold the nonlinear arithmetic.
- `RgbAssumption`: the screen holds at least one character; `Width <= Pitch`;
  `UintMod` is a multiple of `CharH` (2^32 is one of 16), and the screen plus one
  character is at most `UintMod`. Without the last two the wrap of `cursor_y * 16`
  could put part of a glyph on the top lines.

and for the same geometries and fonts where the height is a whole number of
rows (`WholeRows`; on a cut screen the last row is part of no cell, which is what `rgb_cut` is about):

- `RgbImplementsScreen`: `Spec => ImplementsScreen`. The screen of a state is the set of dots
  painted in each cell. `PaintedPixel` says which pixels a call of `rgb_putpixel` for each dot of a
  glyph lights, `RowOfDot` that the wrap of `cursor_y * 16` in `uint32_t` takes a row either back to its
  own lines or off the screen; so painting changes one cell (`PaintedCells`), a scroll moves
  each row of cells up (`ScrolledCells`), and each call is the terminal's.
- `TextStaysLost`: `HistorySpec => []TextIsLostBelow`. `Lost` is inductive with `IInv`: while the cursor
  is off the screen the last `below` rows are blank. Nothing is painted there
  (`PaintedNowhere`), every call that settles scrolls because a row off the screen is never above
  `max_rows` (`OffscreenScrolls`), and a scroll blanks one row more (`ScrolledBlank`).
- `BackspaceTakesBack`: `HistorySpec => BackspaceUnprints`, where a `uint32_t` counts at least twice the rows of
  the screen (`Wide`; with 16 lines a row, a screen of up to 2^31 lines). That is what makes the screen empty by the time
  the cursor, its row having wrapped, comes back on it at the top; on a smaller counter old text would
  still be there, and a scroll would put it into the cell the backspace then erases.
  The invariant `Behind` says, for a cursor below the first screenful, from which row on the screen is
  blank (`Threshold`) and that the cursor's own row is blank to its right; without the second part it would not survive a
  backspace to the row above. Hence the cell behind the cursor is blank after a character that scrolls
  (`PrintAndScroll`), while after any other (`PrintInPlace`) erasing forgets what was in the cell (`ErasedTwice`).
  `Lost` and `Behind` hold in all states of the run `rgb_exact`, which is also `Wide`.

`Vga_proofs`, for every width and height of the text screen (`VgaAssumption`):

- `TypeCorrect` and `CursorNotBehind`: `Spec => []TypeOK`, `Spec => []HwCursorNotBehind`. The
  invariant is both together: the positions are ordered only while the cursor is in the screen.
- `VgaImplementsScreen`: `Spec => ImplementsScreen`, by the same argument as for rgb.c: a position
  belongs to one cell (`PositionUnique`), a store changes that cell, `memmove` and `memset` of a
  scroll move the rows up and blank the last.
- `BackspaceTakesBack`: `HistorySpec => BackspaceUnprints`. The invariant is that a backspace now would leave
  `unprinted` (`UnprintOK`); `PrintIsUnprinted` shows it of each character printed, in the middle of a row, at its end, and
  when it scrolls: there the character moves up with the cursor (`StoredAbove`).

`Acpi_proofs`, for every set of firmwares whose RSDPs, where they name root tables, name lists of
tables (`WellFormed`), of any number, order, checksum and revision:

- `FirstTablesAreChosen`: `Spec => []ChosenAreFirst`. The invariant says of the loop that is running
  that the entries it has passed did not match (`RsdpOK`, `Passed`); `FirstRsdp` and `FirstTable`
  turn the first match after that into what `BootRsdp` and `TableIn` define.
- `UsedTablesAreListed`: `Spec => []UsedAreListed`. `Chosen` remembers that a table found is in the root
  table searched, `ListOK` that what is listed so far is the beginning of `ListedRoot`, and
  `ListedRootIsRoot` shows that the tests of acpi.c:55, 88 and 127 take the same root table whenever
  the listing begins.
- `CoresAreCounted`: `Spec => []CoresCounted`, for tables that are there, and MADTs whose lengths are unsigned
  and fit (`Sound`; the length of an entry may be 0 and the table anything). The walk skips by the lengths it reads, so the
  invariant `CountInv` says that the offsets visited are those below `ptr` that `Visited` has, that each of them ends at
  or before `ptr`, and that `numCores` is the number of enabled local APICs among them.
- `EndTellsTheFirmware`: `Spec => []EndTellsComplete`. That nothing is missing at the end (`DoneMeansComplete`) is `Told`,
  which collects what each statement behind has established of the firmware, field by field. The other half is
  `CompleteRunsTame`: a NULL pointer is gone through because a search before it has found nothing, so the invariant `Lacking`
  says of the searches that are over that what they have not found the firmware does not have: the loops have passed
  every entry (`Passed`), and where none matches there is no first one (`NoneFound`, `SearchOver`). `SearchedLength` is why
  the search for a table of a complete firmware does not go wild itself: the root table it searches is the one that
  is there (`CompleteRoot`).
- `AcpiRunsDown`: `Spec => LoopsRunDown`, for tables that are `Sound`. `NextPlaces` says that a step stays at its place or
  goes on to a later one, `StepRunsDown` that where it stays `Left`, a natural number, becomes smaller. Only the walk may
  stay where it is, over an entry of length 0. So `acpi_init` takes finitely many steps on any other firmware.
- `TypeCorrect`: `Spec => []TypeOK`.

`Pic_proofs`, for every set of devices, masks, arguments and vectors (`PicAssumption`):

- `InterruptsAreEnded`: `Spec => []ServiceEnds`: when a handler returns nothing is in
  service. This is not inductive: the end of interrupt is unspecific and takes the highest
  priority in service, so what it ends depends on what is in service while the
  handler runs. `HandlerOK` says that for each place in the handler: exactly the lines of
  the interrupt being handled, line 2 of the master with it if it is one of the slave. It needs the
  typing of the chips, that the master never has a request of its own on line 2, and
  that no access of the program between two interrupts puts anything into service.

and on top of that invariant:

- `MasksReturn`, `MaskedInOneWindow` and `VectorsAreNew`: `MasksAsAsked`, `MaskedOnlyInWindow` and
  `NoStaleVector` for every state and step. Between calls the masks are as asked (`Idle`), but during
  a call they are not, so the invariant `MaskInv` says for each function how far each chip has got.
  `Stage` does so for the six accesses `pic_remap` makes to a chip: the phase of its initialization,
  whether the mask asked for is in the chip or in the variable it was saved in, and from when on
  the offset is the new one; the master is level with the slave or one access ahead. Interrupts
  change neither mask, phase nor offset (`SameSetup`), so they keep all of it at any place.
  `MaskOfOne` has the arithmetic of the shift, for any `irq` below 40.
- `HalvesAreTrue`: `Spec => HalvesWereTrue`, with `Reading`, which says for each of the four
  accesses of `pic_get_isr` and `pic_get_irr` which chip already shows the register asked
  for, and that the half read is among the values seen.
- `TypeCorrect`: `Spec => []TypeOK`.

`Kernel_proofs`, for every memory map, size and stride (`KernelAssumption`: a stride is 0 or at
least the size of the struct), every screen, and every length of the lines that fits on a row of it:

- `WalkStaysInMap`: `Spec => []ReadsInsideMap`. The invariant is that the walk begins with
  a stride that is not 0 (`WalkOK`); the lemma `DescriptorFits` has the arithmetic of the
  division.
- `LogIsTheBootLog`: `Spec => []LogIsBootLog`, on firmwares as in `Acpi_proofs`. `AcpiRuns` shows
  that the kernel's steps are steps of `acpi_init` or leave it alone, so that what is proved of
  `Acpi` holds inside the kernel (`AcpiTold`): when `pc` is `"done"` the fields of `acpi_info` and the list are what
  the firmware says. `LogInv` has for each place in `kernel_main` the part of the log that is
  printed: `AcpiLog`, then `k` rounds of the configuration table, then `k` of the memory map.
- `ScreenIsTheLog`: `Spec => [](Len(log) < RowMod => ScreenShowsLog)`, on any firmware; in the code `RowMod`
  is 2^32 \div 16 rows. While a line is being printed the screen is `Display(log, row, col, s)`: `row` lines and `col`
  characters, `s` rows up, and the rest of that line and of the ones behind it is what the driver has still
  to be given (`OnScreen`). `Shift` counts the scrolls: none while the line is on the screen, one for each
  character below it. `DisplayPrint`, `DisplayBelow`, `DisplayNewLine` and `DisplayScrolls` say what
  each character does to it, `DisplayGrows` that a new line changes nothing of the earlier ones, `DisplayOfAll`
  that with all printed it is what `Shown` says.
- `CompleteBootsAreSafe`: `Spec => []CompleteNeverFails`, for root tables that are `WellFormed` and any memory map: with a complete
  firmware and a stride that is not 0 the kernel is not stopped before its final loop. What can stop it is an undefined
  access inside `acpi_init` or the division of main.c:47 and nothing else (`StopReasons`); `CompleteRunsTame`, of the
  module INSTANCEd for acpi.c, excludes the one. On the run `kernel` this is part of what `BootCompletes` says.
- `TypeCorrect`: `Spec => []TypeOK`, with the counter of both loops: `k` starts over between them and passes the end of neither.

`Console_proofs`, about `Itoa` and about `Console`. For every width of an int of at least 2 bits
(`IntBitsAssumption`; with a sign alone the text of -1 would be too long for `itoa`'s buffer), every set
of ints and every set of bases:

- `ItoaFitsItsBuffers`, `NoDigitIsLost`, `ItoaReturnsTheNumeral`: `ItoaTypeOK`, `DigitsSoFar` (stated beside its
  proof) and `ReturnsNumeral` are invariants of `ItoaSpec`. `ItoaInv` says of the first loop that `temp` has the
  last digits of the magnitude and `uval` what is left of it, `U \div Power(base, Len(temp))`, and that there
  are no more of them than `NumeralFits` allows for; of the second that `str` is the end of `temp` turned
  round. `PowerRuns` shows that the recursive function behind `Power` has the values its
  equation says, `PowerOfMore` and `PowerOfTen` that the text of an int, with its sign and terminator,
  fits: in base 2 a numeral has at most as many digits as an int has bits, and in base 10 it leaves room for the sign.
  `PlacesIs` pins the `CHOOSE` in `Numerals`.

and for every set of calls of `console_printf` (`IsCall`: items, arguments and memory behind the
format are any; only the last item may be cut off), with as many characters as the formats need (`CharsSuffice`):

- `PrintsWhatItsFormatSays`, `OnlyCutFormatsArePassed` and `TypeCorrect`: `Spec => []FormattedAsWritten`,
  `Spec => []StaysInFormat`, `Spec => []TypeOK`. `ConsoleInv` says where the parser is: before the item after
  the first `j` (`AtItem`) or behind `d` digits of its width (`AtDigit`), with the text of those `j` items printed
  and their arguments taken (`Reading`), or behind a cut format (`Past`), where only the memory is
  known to be there. `FormatIs` says where each item's spelling lies in the format,
  `PlaceInText` and `PlaceInConversion` what the character at `p` therefore is, `WidthNext` what one
  more digit makes of the number spelled, and `Wraps` that wrapping `width` at each digit leaves what one wrap at the end would. So a width
  that fits is the one meant (`WidthsFit`), and with it `PrintedAs` has the text, the minus outside the width. `ConsoleAssumption` (the terminator is no digit, percent sign or specifier)
  is what makes the parser stop.
- `NothingAtNull`: `Spec => []NeverPaintsAtNull`, for any set of calls whatsoever after the one `console_init`.

The hypotheses about calls are true of the calls of the run `console`, and `ConsoleInv` holds in all of its states.

`DataLemmas` has what these proofs need of data. The library's induction theorems take an operator as
a parameter, which no prover here can instantiate, but induction over a set is a statement without
one: `AllNaturals` says that a set with 0 and with the successor of each of its numbers has all of them, from
`LeastNatural`, well-foundedness of a set. `Recursion` gives the function a step function generates, so that a
recursive definition (`[n \in 0 .. N |-> ...]` in terms of itself) can be shown to have a solution, and its solutions to agree;
`FlattenRuns`, `FlattenAppend` and `FlattenCons` are so proved of the library's `FlattenSeq`, and `PartNext` and
`PartInPlace` of the first `n` of the sequences it puts together.

Model-checked only: the liveness properties `EveryCallReturns` (of `Mem` and of `Console`), `CompleteIsDone`, `BootCompletes`
and `PriorityAloneDelays`, since fairness and ENABLED are out of reach of the prover. Of `CompleteIsDone` everything is proved but that
a step is taken as long as there is one to take: `acpi_init` does not go wild on a complete firmware, and each step takes it
nearer to its end. Of `BootCompletes` it is proved that a complete boot is not stopped by an undefined access or a division by 0.

## 5. Not modelled, and why

- `interrupts/`: all three files are commented out line by line. `Pic` takes from them only how
  its driver is meant to be used.
- `archive/boot.S`: not built. `Makefile`, `linker.ld`, `tools/tmp.py`: no run-time behaviour.
- `serial_print` of `main.c`: never called. `io_wait`: a write to an unused port.
- `include/efi` (gnu-efi, 14 465 of the repository's 16 873 lines of C), `tetos/multiboot*.h`,
  `acpi.h`, `font8x16.h`: declarations and data. They declare services of the firmware of
  which the kernel calls none, so no state of this program is in them. The font is the constant `Glyph`.
  All of the code that runs, some 900 lines, is modelled; it is a small share of the lines
  in the repository.
- `checksum_valid`: a checksum is a Boolean of its table; the sum itself is data.
- The reserved flags of an ACPI 1.0 FADT (acpi.c:105) are taken as they are: the kernel only prints them.
- Colours (constant in both drivers), the bytes of a pixel, the text of status lines,
  physical addresses, and the bits of a checksum.

## 6. Plan

Done: every component that has code that runs, as modules of its own; their composition in
`Kernel`; proofs for `Mem`, `Rgb`, `Vga`, `Itoa`, `Console`, `Acpi`, `Pic` and `Kernel`, the refinements of
`MemApi` and `TextScreen` among them.

Nothing is left to model, and every property that a passing run checks has its theorem, the liveness properties excepted.
