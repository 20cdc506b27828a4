# Verification of unix-p6

This directory models the parts of the unix-p6 kernel that keep state and make
decisions, checks the models with TLC and proves the central ones with TLAPS.
Every definition is a translation of a piece of the source; `PROJECT.json`
names the lines for each (`map`).  Paths below are relative to the root of the
repository.

## 1. The system

The kernel boots by multiboot 2, sets up segments and interrupts, reads the
boot loader's tags, and looks a file up in a tar archive.  One processor, no
processes: the only concurrency is that of interrupts and exceptions with the
code they interrupt.

| Component | Source | State | Operations |
| --- | --- | --- | --- |
| page-frame allocator | `src/kernel/arch/pmm.c` 182-302, `include/kernel/mem.h` | per region: bitmap, search hint; the chain of regions | `frame_alloc`, `frame_free` |
| memory-map setup | `src/kernel/arch/pmm.c` 36-180, 304-323 | the map, `bitmap_stack`, `firstblock`, `m_dyn_*` | `mm_init` (once) |
| kernel heap | `src/kernel/arch/dmm.c` | list of blocks inside the heap | `kmalloc`, `kaligned_alloc`, `kfree` |
| text console | `src/kernel/drivers/tvga.c` | cells, cursor, attribute, CRT registers | `tvga_init`, `tvga_write`, `tvga_command` |
| interrupts | `src/kernel/arch/idt.c`, `irq.c`, `int_handlers.asm` | IDT, table of handlers, masks of two 8259 | `idt_init`, `idt_setirqhandler`, `irq_setmask`, `irq_clearmask`, service of a request, `handle_exception` |
| segments | `src/kernel/arch/seg.c`, `gdtflush.asm` | GDT | `seg_init` (once) |
| boot | `kernel.asm`, `kernel.c`, `sysinit.c` | `sys_config` | `kmain`, `sys_init` |
| module list | `modules.c` | 256 pointers, a count | `module_add_to_list`, `module_get` |
| tar archive | `fs/tar.c` | none | `tar_init`, `tar_get_file` |
| log | `log.c`, `tools/t_doprnt.c`, numbers of `t_sai.c` | `__log_out` | `LOG`, `log_set_output` |
| serial port | `arch/com.c` | the transmitter | `com_write` |
| VBE frame buffer | `drivers/vbe.c` | geometry | `vbe_init`, `vbe_sendcmd`, `vbe_set_px` |
| tools | `tools/t_sai.c`, `t_mem.c` | none | strings, numbers, memory |

How they meet:

* `mm_init` turns the memory map into regions for the frame allocator and takes
  the heap out of the first entry that is long enough.  (Nothing calls
  `mm_init` at this commit; `kmalloc` then answers every request with NULL.)
* `handle_exception` may come between any two instructions, prints by `LOG`,
  which may go to the text console, and never returns.
* a request of a device interrupts the kernel while interrupts are on; the
  kernel installs handlers and changes masks at the same time.
* `sys_init` lists modules; `kmain` takes the first one for an archive and logs
  a file of it.
* `LOG` hands each character to the serial port, where the transmitter works at
  its own pace, or to the text console.
* the type of the boot loader's frame buffer decides which display driver is
  initialised, the text console or the VBE frame buffer.

What is hard here, and where (`hazards` in `PROJECT.json` lists each with its
line): the bit arithmetic of the frame allocator, in which a bit belongs to a
caller the code knows nothing of, and in which `frame_free` mistakes one frame
for another in a long region; the search hint, which is stale as soon as a
frame below it is freed; the cuts of `mm_initmemblock`, each of which works on
what the one before it left; the heap, whose sizes are counted in two units;
an exception in the middle of an update of the screen; the order of `idt_init`;
requests that come in while a handler is installed; the pairing of services and
EOIs at two controllers; characters written to a transmitter that has no room;
conversions at the ends of a machine word; sizes that fill their last block.

## 2. Modules

```
FrameAllocator  <--implements--  PlainFrames  --extends-->  PhysFrames
                                 MCFrames     --extends-------^
MemInit (builds the regions)
Arena           <--implements--  Heap    <--extends--  SmallHeap

Terminal        <--implements--  TextConsole  <--extends-- Display
Canvas          <--implements--  Vbe          <--instance--'

Interrupts      Boot      Log
```

The theorems about a module `M` are in `M_proofs`, which extends `M`: there is
one for each of `PlainFrames`, `MemInit`, `Interrupts`, `Log` and `Boot`, one
for `Display`, which holds those about the text console too, and `Heap_proofs`
for `SmallHeap`.  They share `NatLemmas`: least numbers, induction over a set of numbers, functions
defined by recursion, and a little about division.

### PhysFrames, PlainFrames, FrameAllocator

`bitmap[r]` is the set of frames of region r whose bit is set,
`search_next_startblock[r]` the hint, `owns[c]` what a caller was handed and
has not given back: the only variable that the code does not have, and the one
the properties are about.  The chain and the geometry of the regions are
constants.  `frame_alloc` is one action with its three outcomes; the loop over
a word is `Fits`, which follows the code also where the `continue` of
`pmm.c:213` skips the shift of the mask (`Skipped`, `TestedBit`).
`frame_free` is guarded by what its caller holds, in pieces if he likes.

`PlainFrames` is the use for which the code keeps a promise: alignment 0 or 1
(`NoAlignment`), and regions that do not overlap (`RegionsApart`).  The second
includes the surplus bits of the last word of a bitmap: the search covers
`blocks_count / 32 + 1` words, so that the code does hand out "frames" past the
end of a region, where the region keeps its bitmap and what lies behind it.
`PastEndOnlyWhenFull` says when those are reached.

Regions may have any size.  `frame_free` takes the number of a frame modulo 31
for its bit (`FreedSlot`), which is right for the frames 0 to 30 only; in a
region of `31 * 4096` frames (about 496 MB) or more its range check lets later
ones through, so that it clears bits of other frames (`frames_wrong_bit`).
`Mistaken` are the frames of a region for which that happens, `Muddled` the
words in which it then clears bits, and the frames of all other words are
`Sound`.  In a shorter region all are sound (`SmallAllSound`); in one of fewer
than `2 * 31 * 4096` frames, as on the 512 MB machine of the Makefile, all
behind the first word are (`FirstWordOnly`).  The properties are about the
sound frames and hold whatever the callers do to the others:
`NoSoundFrameShared`, `SoundBitsHeld`, `ClearedWereReleased`, and the
refinement.  `HintPassesWordEndsOnly` is about the hint, which never goes back:
a search for n frames leaves a word at `pmm.c:208` when no run of n can start
any more, and puts the free frames at its end, fewer than n, out of reach when
the hint moves on.  A search for a single frame passes no free frame.

`FrameAllocator` is the abstract specification: a run is taken from frames that
nobody holds, what is given back is free again or lost.  "Lost" is needed:
`frame_free` drops most addresses (finding `frames_release`).  `PlainFrames`
maps its sound frames to it (`FreeFrames`, `SoundOwns`); an action on muddled
ones alone is a step that changes nothing there.

### MemInit

One turn of the loop of `mm_init` is the action `mm_init`; `mm_initmemblock`
is a chain of operators, one for each cut, in the order of the code, and an
alternative for each early return.  All arithmetic is modulo `ADDR_MOD`.
`cleared` records what `tmemset` was called for; `given` is the map before the
code changes it.  The code is read with `m_dyn_first_block` NULL as `NoHeap`.
`LayoutAssumption` states what the linker script and the constants of `mem.h`
give: the kernel at 1 MB, its end and all sizes multiples of a bitmap word and
so small that no distance by which an entry is cut looks negative.
`MapAssumption` is what the boot loader owes: available memory above 1 MB in
whole bitmap words, and no entry that wraps around so far that it ends above
1 MB again.  With `BitmapAssumption`, which holds by a factor of eight on a PC,
the loop of `calc_blocks` comes to an end for every region.
The clearing of a kernel or a map is not played through: the model goes on as
if the code still ran, and the properties report it.  What `Heap` and
`PhysFrames` assume is stated here as properties of the end of `mm_init`: memory
of the heap and of the regions apart (`KernelAndHeapKept`), and a chain that is
not empty (`FrameAllocatorReady`, which says exactly when).
`ChainComplete` says which regions the frame allocator gets to at all, along
`next` from `firstblock` (`Reachable`): those of the entries `mm_init` has kept,
up to the first entry that is rejected once there is a region.  The region
after that one is hooked to nothing, and those behind it hang on a lost one.  An
entry that finds `bitmap_stack` used up gets no region either.  Two properties
say for any map what becomes of the kernel image and of the entries.
`KernelKept`: below the end of the image `mm_init` clears or hands out only what
lies above 1 MB and in an available entry that ends inside the image, or with it;
such an entry takes neither branch of the cut, while every other one loses what
it has of the image.
`RegionsPlaced`: a region begins at a page border and lies in the memory of its entry (an entry above 4 GB
counts as one 4 GB lower, because the code never reads `addr_high`), unless the
entry starts above the kernel.  Such an entry has no conflict, but takes the same
branch: its start moves down, and the region starts at the first page border
behind the kernel or, if the entry has given the heap, behind that.  Two such
entries then lie on each other.

### Heap, SmallHeap, Arena

`heap` is the list of blocks in its order, with addresses in bytes from
`m_dyn_base` (on a PC the end of the kernel
image, a page border, so that alignments carry over) and sizes as the
code keeps them; `held` is what callers hold.  Headers are 16 and pointers 4
bytes, as on the target: `data` is an array of pointers, so that a block of
`size` takes `4 * size` bytes.  `kaligned_alloc` cuts a block into the hole in
front of the aligned one (`InFront`), the one in use and the rest; `kmalloc` is
the case of alignment 1, in which there is no hole.  `kfree` frees the block
and then merges along the whole list, as the code does.

A merge adds bytes to a number of pointers, and so does the hole in front;
`merges` counts how often that has happened to a block and exists only for the
bounds.  Once in a hole the guard still leaves room for the next header, twice
it does not (`heap_merge`).  After an overwritten header the list in memory is
no longer the list of the model; every run stops there.

`SmallHeap` is the use for which the code keeps its promise.

* `OneMiscount`: a hole between two blocks in use counts bytes for pointers once
  at most.
* `SmallAlignments`: the hole in front of an aligned block miscounts too, and
  by more the larger the alignment is.  With 16 and 4 bytes alignment 8 is the
  only one (besides 1) that neither lays headers over headers nor miscounts
  more than a merge does.  The code itself asks for alignment 1 only.
* `RoomAssumption`: the heap has room for every piece with a hole in front of it
  that is too small for a request, each counted in pointers as the code lays it
  out (`Piece`, `Hole`).  Nothing in the code keeps callers to that; see
  `InsideHeap` in section 5.

`Arena` is the abstract specification: bytes that nobody holds are handed out,
at a multiple of the alignment, and stay with the caller until he gives them
back.  Its constants and its only variable are those of `Heap`.

### TextConsole, Terminal

One action for each statement of `tvga_putch`, the scrolling row by row, the
cursor registers byte by byte.  `Exception` may happen before any of them; it
drops the call under way and prints what `handle_exception` prints, by the same
statements: a line feed, `FirstLine`, a line feed, `SecondLine` and another
line feed.  The second line has the number, the name and the error code, and so
depends on the exception (`ctx`, out of `Contexts`).  Another exception (an NMI
inside `handle_exception`) may do the same again.  The output of `LOG` is taken
to be the console (`log_set_output(1)`).  Three parts of `ConsoleAssumption` are
about the numbers and the texts: a position fits in the two cursor registers
(80 * 25 cells do), what is printed as a character is none of the four that
`tvga_putch` handles apart, and both lines are shorter than a row (22
characters, and 59 with the longest name and error code).  `MessageShown` is
about both lines of the last exception.  `Terminal`
is a screen of rows and columns; the refinement mapping shows the screen as it
will be once the call under way has finished.

### Vbe, Canvas, Display

`Vbe` keeps what `vbe_init` keeps and writes video memory as 32-bit words, as
the driver does in any mode.  `Canvas` is a picture of rows and columns; `Vbe`
implements it in the modes whose pixels are words and whose lines have no gap
(`Packed`), and promises nothing in the others.  `VBE_FILL_LINE` reads both
arguments in one call, in an order that C leaves open: `FillLine` is the order
in which gcc for the 32-bit target reads them, the last one first.  `Display`
puts both drivers together: one of them is initialised, by the frame buffer the
boot loader reports, and none for an indexed one.  Its `ModesAssumption` says
that the lines of a mode fit in video memory, which is where a mode comes from.

### Log

`__doprnt` is one action for each turn of its loop, which leaves a string of
characters; these go one by one to `__tvga_putch` or to `com_write`, and the
latter is a wait, a return in front of a line feed, and the character.  The
transmitter has room for one character or more (`depth`: the firmware may have
turned a queue on) and takes and sends them whenever it likes; what is written
to a full one replaces the last.  `Exception` may come between any two steps,
drops the call under way and logs by the same steps.  `meant` is the text a
reader of the calls expects, written down apart from the code in `MCLog`.  The
conversions are functions on words of `BITS` bits with the division of C.
`TextAssumption` keeps the return out of the texts: a return is what `com_write`
adds, and no format of the kernel has one.

### Interrupts

`imr`, `irr` and `isr` are the registers of both controllers as sets of lines;
a request of a slave line goes through the cascade line of the master.
`idt_init` is the sequence of its statements; `idt_setirqhandler` stores the
handler and then reads and writes the masks in two steps, between which
requests are accepted; a service is the call of the handler, the EOI, `iret`.
Devices raise requests at any time and may withdraw them when the processor
asks (spurious interrupts).  Handlers return and leave controllers and the
interrupt flag alone, which holds for want of any handler in the repository.

### Boot

The steps of `sys_init` from tag to tag and of `tar_get_file` from member to
member, with the addresses the code computes; where tags and headers lie is
defined apart from it, by the border each has to start at.  A file name is a
sequence of characters, a size is parsed from its octal digits.  `pc =
"astray"` ends a run in which `module_get(0)` or the file is NULL: the code then
reads through it.  `NulAt` says where the archive has zeroes; `LogFile` prints up
to the first: the byte behind the data, or, when these fill their last block,
the one behind the name in the next header, which the mode follows if the name
has the full length (`TextEnd`).  The NULL that `kmalloc` gives `tar_init` on every boot is no such
end, since the kernel runs on flat segments without paging and keeps the
`tar_t` at address 0.  A module too many goes behind `__modules`, where gcc
puts `__modules_count`; the model leaves the count either way.
The memory map is a loop within a tag (`MmapTag`, `MmapEntry`, `MmapEnd`), by
the `entry_size` the tag has; what it stores nobody reads.
`BootAssumption` describes a list of tags and an archive as boot loader and
`tar` write them: names and sizes that fit their fields, entries of a memory map
that take room (the loop over them would never end with an `entry_size` of 0),
and types of tags and of frame buffers that the tables `__mb2_htags_str` and
`__mb2_htag_fb_str` have, which `sys_init` indexes without a test to log them.
The sum of `tar_get_size` is one of machine words (`WORD`); addresses lie below
4 GB, where tags and archive are, so that the steps of the walks do not wrap
around.

## 3. Runs

| Run | Shows | Bounds |
| --- | --- | --- |
| `plain_frames` | no shared frame and no lost bit among the sound ones; the hint passes ends of words only; the end of a region when it is full only; refinement of FrameAllocator | two callers; words of 3 bits; a region with 4 frames in two words, of which `frame_free` muddles the first, and one with 2 frames in one sound word; counts 0 to 4, so that 0 and 33 of the code are there |
| `meminit` | with one entry above 1 MB, which holds the kernel and goes on behind it: the heap lies in available memory, regions and heap lie apart from the kernel and from each other, and there is a region exactly if a page is left and memory ends below the last address; in all maps: nothing under 1 MB, as many frames as fit, what is lost of the kernel image, where regions lie, and which of them the chain reaches | pages of 4 bytes, 64 addresses; one to four available entries in any order, with rejected ones between others, low and reserved entries before and after the kernel, entries that end at the last address or behind it, the kernel image across two entries, entries above it and above 4 GB, four entries for the three places of `bitmap_stack` |
| `heap` | no overwritten header or piece, holes merged, refinement of Arena with its alignments | up to four pieces of 15 or 20 bytes, alignments 1 and 8, in 1136 bytes, the shortest heap `RoomAssumption` allows for them; one miscount in a hole between pieces, two at the end |
| `console` | a terminal until an exception; then at most one row behind the screen for each, and both lines of the message are shown; the other driver draws the picture asked for | 4 x 3 cells, tab stop 2, four calls, two exceptions, with a second line of one and of three characters; pictures of 2 x 2 and 3 x 2 pixels, with narrow pixels and with a gap behind a line too |
| `interrupts` | table, masks and handlers in order, services closed, requests accepted | four lines per controller, devices on lines 1, 3 and 4 (the first of the slave), two requests each |
| `boot` | the walks stay on headers and end; modules in order; NULL followed only without a module or a file; the first file of the name is found and printed to its end, and further only if its last block is full | up to three tags of seven kinds, a memory map whose entries do not fill it among them, one module more than there is room for; archives of up to three members with sizes around one and two blocks of 8 bytes and with two octal digits; names that are a prefix of each other |
| `log` | each output gets its text in order and complete; a return is lost only by a transmitter of one place; numbers read as written but for the smallest; everything goes out | two calls out of four with all kinds of conversions, two exceptions of two or three calls; words of 8 bits; transmitters of one and two places |
| `frames_wrong_bit`, `frames_release`, `frames_align`, `heap_merge`, `irq_slave` | each refutes one property; see the findings | as small as the behaviour allows |

Why the bounds are enough.  In `plain_frames` a word, a region of more than one
word, a muddled word and sound ones, a word with surplus bits and a chain of
two are the cases the code distinguishes; the proof covers all others.  `MemInit` scales addresses,
pages and bitmap words down by common factors; its cuts compare addresses with three
borders, and the maps place entries on every side of them.  The bounds on
merging in `heap` are a border of the code, not of the model: behind it the
heap breaks (`heap_merge`, which is run on `Heap` itself), and with more than a
quarter of it in use it hands out memory behind its end, from which
`RoomAssumption` keeps away; the proof covers every other number of pieces.
Four calls in `console` reach every cell by SETCURSOR, and two exceptions are
what the processor allows: one exception of the code and one NMI, which blocks
further NMIs until an `iret` that never comes.  Three devices give two priorities at the master, one at the
slave, and lines on both sides of the cascade.  In `log` a transmitter with more
than two places differs from one with two in nothing `com_write` sees: it writes
two characters after a wait at most.  `NumbersReadBack` covers every word of the
8 bits, both bases and the digits above 9.

Deadlock is not checked where the system may stop: a processor that has
executed `hlt` with interrupts off, and the bound on calls.

Fairness.  `Interrupts`, `Boot` and `Log` have liveness properties.  `Boot` assumes
that the processor takes the next step of a sequential program with all
interrupts masked (`WF(Next)`).  In `Interrupts` the processor asks for
requests between any two instructions while the interrupt flag is set
(`WF(Accept)`) and goes on executing the service routine (`WF(Service)`).
Nothing is assumed of the kernel, which may call or return at any time, nor of
the devices.  `MaxRaises` matters: a device of high priority that never stops
starves the lower ones, as the fixed priorities of the 8259 do.  `Log` assumes
that the processor goes on with a call it has begun (`WF(Kernel)`) and that the
transmitter sends what it holds (`WF(Transmit)`); nobody has to log anything.

## 4. What is proved

Each theorem holds for all values of the constants that the assumptions of its
module allow; TLC evaluates the assumptions in the runs.  `PROJECT.json` lists
the theorems with the property each one states.  For each component there is
one inductive invariant, `IInv`, checked by TLC before it was proved; below,
what it adds to the properties and why.

**PlainFrames** (`TypeCorrect`, `SmallAllSound`, `FirstWordOnly`, `NeverShared`,
`BitsHeld`, `OnlyReleasedCleared`, `EndOnlyWhenFull`, `HintKeepsWithin`,
`Implements`), for regions of every size.  `IInv` is `TypeOK /\
NoSoundFrameShared /\ SoundBitsHeld`.  `NoSoundFrameShared` alone is not
inductive: a frame in use whose bit is clear would be handed out again.
`SoundBitsHeld` closes the gap: a run is taken from clear bits, a clear bit of a
sound frame is a frame nobody holds, different bits have different addresses
(`AddrInjective`, from `RegionsApart`), so that a new run meets nobody's sound
frames.  A run lies in one word (`RunInOneWord`), so it is sound or muddled as a
whole, and `frame_free` either clears exactly the bits of the addresses it is
given, or bits of a muddled word only (`FreedExactly`).  How far the trouble
reaches is arithmetic: `FreedSlotIs` computes the bit that the modulo and the
division lead to, and `SmallAllSound` and `FirstWordOnly` follow from it and
from the range check of `pmm.c:272`.  `NothingSkipped` says that with alignment 1
the scan tests the bit it is at; `EndOnlyWhenFull` rests on it and on the order
of the search, word by word and region by region, and `HintKeepsWithin` on what
a scan has seen of the words it leaves (`HintPasses`).

**MemInit** (`TypeCorrect`, `ChainKept`, `CountedRight`,
`RegionsFit`, `ImageKept`, `NothingOverwritten`, `ReadyForFrames`).  `IInv` adds

* `MapInv`: the entries not looked at yet are as the boot loader made them;
* `RegionInv`: a region starts at a page border above 1 MB, ends below the last
  address, has room for a bitmap word and the count of `calc_blocks`;
* `LowInv`: what is cleared and the heap lie above 1 MB;
* `KernelInv` and `PlacedInv`: what is cleared and the heap lie behind the
  kernel, or in an available entry that ends inside it (`Behind`), and a region
  where `RegionsPlaced` wants it (`PlacedIn`).  Both follow from what the cuts
  leave of one entry (`CutsAre`, `TurnPlaces`);
* `ChainInv`: which region `next` of each one is, NULL if an entry between the
  two was rejected (`LinkInv`); what `newblock` says about the last available
  entry (`LastInv`); and that regions are the entries kept, in their order, as
  far as `bitmap_stack` goes (`CountInv`).  `ChainComplete` speaks of what is
  reachable from `firstblock`: a region is if all those before it are linked to
  the next (`ReachableIs`);
* `HighInv`: in the map of a PC, one available entry above 1 MB with the kernel
  in it, everything is untouched before that entry and settled after it: the
  heap directly behind the kernel, the region at the first page border behind
  the heap.  `KernelAndHeapKept` and
  `FrameAllocatorReady` speak of such maps.

`LowIs`, `KernelIs`, `HeapIs` and `PageIs` compute the cuts of `mm_initmemblock`
on machine words; `CountIs` shows by the least number of steps its loop takes
that `calc_blocks` counts the most frames without wrapping around.

**Heap** (`TypeCorrect`, `NotClobbered`, `StaysInside`, `HolesMerged`,
`Implements`), under the assumptions of `SmallHeap`.  `IInv` adds to `TypeOK`

* `LaidInv`: the blocks lie one behind the other from the beginning of the heap.
  A block in use claims exactly the room up to the next; a free one may claim
  more, but no more than `POINTER - 1` headers for each miscount (`Reaches`);
* `HeldInv`: blocks in use are what callers hold, with the sizes they asked for;
* `Alternating`: no two free blocks side by side;
* `TailInv`: the last header lies in the heap.

With one miscount a free block claims three headers too many (of 16 bytes with
pointers of 4), and the guard asks for one header, counted in pointers: four.
This is why the third block still fits in front of the next one
(`ThirdInside`), and why two miscounts are too many.  `TailInv` is not a matter
of the guard, which compares with a size that is too large from the start.  It
rests on the search: when a request reaches the last block, every hole before
it was too small (`NearAll`), holes and pieces alternate, and `RoomAssumption`
has counted both for every piece.  `Merging` unfolds the recursion of
`MergeAll`: of blocks that lie in a row it leaves blocks that lie in a row, of
which no two free ones are side by side, and the blocks in use as they were.  The refinement follows
from `LaidInv` and `HeldInv`: a new piece lies inside one free block, and all
others lie inside blocks in use.

**TextConsole** (`TypeCorrect`, `Bounded`, `Shown`, `CursorVisible`,
`Implements`).  `TodoInv` says which part of the message is still to come,
`CursorInv` that without an exception the cursor leaves the screen only until
it has scrolled, `ReportInv` where the lines of the message and the cursor are
after each printed character, `ForeignInv` what is untouched behind the screen,
`RegisterInv` that the low register has been written before the high one.
`ReportInv` is what makes `MessageShown` inductive.  While the first line is
printed the cursor may still be behind the screen, by as many rows as there were
exceptions (`PrintsAt`); from the line feed in the middle on it is not
(`SecondInv`).  From then on the lines move up together when a line feed scrolls
the screen, row by row, so that the invariant has to say in which row each of
them is in the middle of the scrolling (`Place`, `Under`).

**Display** (`CanvasImplemented`, `ConsoleUndisturbed`).  `VbeInv` says that the
driver keeps the size of its mode and that a picture without gaps fits in video
memory; the steps of `Vbe` then are steps of `Canvas`.  With
`ConsoleUndisturbed` the theorems about the console, which are in the same
module, hold for both drivers together, which is what the run checks.

**Interrupts** (`TypeCorrect`, `NeverReset`, `ServicesEnd`, `HandlerFound`).
`BootInv` counts the statements of `idt_init` that are done, `FlagInv` says
that interrupts are on only between services, `ServiceInv` that what is in
service is what the service under way began, with the cascade line of a line of
the slave, and `MaskInv` that a line that is not masked has a handler, also in
the middle of a change of masks: the masks read are still the masks of the
controller, because a service changes none.

**Log** (`TypeCorrect`, `Ordered`, `ReturnsInPlace`, `NumbersRead`).  `TextInv`
says that an output has got what was meant for it but for the rest of the call:
what `__doprnt` has yet to put and what the rest of the format gives with the
rest of the arguments.  `ReturnInv` adds where a return waits for its line feed.
The theorems have a hypothesis, `CallsKnown`: the text of each call in the
constants is the one its format and its arguments give (`Renders`, which goes
through the format as the code does), and the report of an exception starts
with a line feed.  `EveryFormatKnown` proves that every format has such
arguments and such a text, so that the hypothesis excludes no call that is made
with the arguments its format asks for.  What is proved with it is the order
and the completeness of the output.

That the digits are the right ones is `NumbersRead`, for every width of a word
and without that hypothesis.  A number of more than one digit is a smaller
number with a digit behind it, for the loop of the conversions
(`DigitsAreNumeral`), for the numeral (`NumeralGrows`, which also says that the
numeral of a word has no more than `BITS` places) and for `str_to_uint`
(`NumeralRead`), and each of the three is proved from the least number for
which it would fail.  The smallest number prints no digit because half of a
power of two is no multiple of ten (`WordSize`).

**Boot** (`SizeReadsBack`, `ComparesNames`, `TypesHold`, `WalksStayOnHeaders`,
`ModulesAreInOrder`, `FileIsShown`).  Two theorems are about
the code alone: `tar_get_size` reads back what was written in octal as long as it is a
`uint32_t`, because no partial sum is more than the whole, and `strncmp`
tells names apart.  `NextTagBorder` and `NextHeaderBorder` say that the sums of
the code lead to the next border, so that the walk stays where `TagLayout` and
`HeaderLayout` put tags and headers; the loop over a memory map leaves the tag
where it is.  `TagInv` adds to `ModulesInOrder` that a
list which has overflowed never looks as if it had not: what lands in
`__modules_count` is an address behind as many tags of 8 bytes as there are
modules.  `FileInv` adds that the search is at a header behind members of other
names.  `FirstZero` finds the end of the file as `LOG` finds it.

The provers cannot use an induction theorem with an operator as a parameter.
The proofs go around it: induction is over a set of numbers (`Induction` in
`NatLemmas`, from the least number outside it), and a recursive function is
unfolded by `Recursion`, which takes the step as a function.

Only model-checked are the liveness properties `RequestsServed`, `BootEnds` and
`AllGoesOut`, which are out of the prover's reach.

## 5. Findings

Five places where the code does something else than its comments, constants,
guards or declarations say; `PROJECT.json` quotes them.  In short: freed frames
are lost beyond the first bytes of a region (`frames_release`), in a long
region a freed frame clears the bit of another one (`frames_wrong_bit`),
alignments hand out frames twice (`frames_align`), merged blocks claim room they
do not have (`heap_merge`), and no line of the slave is ever served
(`irq_slave`).

The same unit that is at fault in `heap_merge` makes the heap end early: the
first block has its size in bytes, requests use it up in pointers.  `RoomAssumption`
stays below that border; with more pieces than it allows `InsideHeap` does not
hold.

Some properties state a limit of the code rather than a promise: the frames the
hint passes (`HintPassesWordEndsOnly`), the regions that are lost behind a
rejected entry (`ChainComplete`), a kernel that lies across two entries and is
cleared in part (`KernelKept`), entries above the kernel that are moved down to
it (`RegionsPlaced`), the lost return (`ReturnsKept`), the smallest
number (`NumbersReadBack`), the file that fills its last block
(`ShowsTheFile`), memory up to the last address
(`FrameAllocatorReady`).  No test says otherwise, so they are not listed as
findings.  The comment "Cut conflict between kernel memory and block memmory"
(`pmm.c:125`) promises more than the cut does, in both directions; the two
properties say exactly what it does, which is proved, and what is left to the
boot loader: one entry that holds the whole image, as on a PC.

## 6. Plan

Done: all modules of section 2, their runs, and the proofs of section 4.

What would come next depends on the kernel: `irq_clearmask` against handlers
that change masks, once there is such a handler, and one state for `mm_init`, the
frame allocator and the heap, once something calls `mm_init`.

## 7. Not modelled

* Segments (`seg.c`, `gdtflush.asm`): five constant descriptors, loaded once
  with interrupts off, and no state afterwards.
* The tty header: it declares functions nobody implements.
* The multiboot header, a third-party file; the linker script and the
  Makefile, whose results are constants of the models.
* The `%l` conversions of `__doprnt`: their conversions are commented out, what
  they print is left from an earlier one or uninitialised, and no call uses
  them (`LogAssumption`).
* Alignments 2 and 4 of `kaligned_alloc`: the header of the aligned block then
  lies on the header it is cut from (`AlignmentAssumption`); no call asks for
  one.
* Tools that nothing calls and that keep nothing: `tmemcpy`, `tmemcpyd`,
  `tmemcpyd_inv`, `tfastcpy`, `tmemcmp`, `strlen`, `strcpy`, `findch`,
  `check_eq_of_strings`, the change of case, `tflip_uint16`, `_cpuid`.
* `irq_clearmask` against handlers that change a mask of the same controller
  between its read and its write: there is no handler in the repository.
* A composition of MemInit with PhysFrames and Heap in one state: the
  geometry is constant once `mm_init` is over, and nothing in the repository
  runs `mm_init`.  Their assumptions are properties of MemInit instead.
