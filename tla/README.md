# DeerOS: a TLA+ verification project

DeerOS (`src/`) is a small x86-64 kernel started by the Limine boot loader. It
prints through a vendored terminal (flanterm), keeps a free list of page
frames, has page-table code that is not called yet, and sets up a GDT and an
IDT before it hangs. There is one processor and no scheduler: what happens
"at the same time" are interrupts and exceptions, the queue of the terminal
that is drawn later than it is filled, and the page tables that are walked
while they are built.

The project states what these parts promise, checks it with TLC on small
instances, and proves with TLAPS, for every value of the constants, nearly all
it states: about the two memory managers, the framebuffer (its queue, picture and
initialisation, and that it implements a plain screen), the parser, the terminal's
functions (that they do what console_codes(4) says) and colours, the nesting of
interrupts, the console that handlers print to, and `printf`.

    tlc -workers 2 -config MCPmm.cfg MCPmm     # any run: see "Runs"
    tlapm PmmProofs.tla                        # any module of proofs

## 1. Inventory

| part | source | state | operations | talks to |
|---|---|---|---|---|
| Physical memory manager | `kernel/mm/pmm.c` | `free_regions`, `num_free_regions` | `FreelistPMMInit`, `add_free_region`, `allocate`, `deallocate` | memory map (Limine); called by `vmm.c` |
| Virtual memory manager | `kernel/mm/vmm.c` | `pml4` and the tables it leads to | `VMMInit`, `VMMMapPage`, `VMMUnmapPage` | `allocate(1)`; `_start` has the call commented out |
| Framebuffer backend | `kernel/flanterm/backends/fb.c` | grid, queue, map, cursor, colours, framebuffer; the pool of `bump_alloc` | the backend calls of `flanterm_context`, flush, refresh, init, deinit | called by `flanterm.c` |
| Terminal | `kernel/flanterm/flanterm.c` | a dozen flags, `esc_values`, character sets, margins, saved cursors, attributes | `flanterm_write`, `flanterm_putchar`, the parsers below it and the functions they call | calls the backend |
| Interrupts and boot | `kernel/sys/idt.c`, `_asm_idt.asm`, `kernel.c` | stack, registers, interrupt flag, IDT | `_start`, gates, stubs, `isrHandler`, `handleIrq`, `iretq` | prints; paints the framebuffer |
| Console | `kernel/sys/print.c` | the one terminal context, made at first use | `print` | terminal; called by `_start`, `printf` and handlers |
| Formatted output | `kernel/printf/printf.c` | buffers on the stack | `printf`, `int2str`, `uintptr2str` | `print` |
| Memory helpers | `kernel/kernel.c` | none | `memcpy`, `memset`, `memmove`, `memcmp`, `strlen` | everyone |
| GDT | `kernel/sys/gdt.c` | descriptor tables | `gdt_init` | processor |
| Timer and sleep | `kernel/time/` | `__kernel_ticks`, never changed | `timer_install`, `sleep` | no caller |
| Error screen variant | `kernel/sys/rsod.c` | none | `rsodInit` | no caller |

What is hard in each, and what makes it correct:

* **Physical memory manager.** Split, merge, shift and insert on an array that
  keeps used-up regions and is not kept sorted by anything but luck. Correct:
  every usable frame has one owner; no page is created or lost; what is
  returned can be handed out again; the unsigned `num_free_regions - 1` never
  wraps; the list stays in its array. The last is not so (section 4).
* **Virtual memory manager.** Tables are written in memory that was something
  else before, memory may run out in the middle of a walk, and `VMMInit` maps
  the frames it is taking for its tables. Correct: the tables are a tree of
  frames nobody else has, what the code reads in them is a plain map, and a
  processor that reads them finds the same. The last is not so (section 4).
* **Framebuffer backend.** A change is queued, found again through `map`,
  drawn by a loop that skips slots whose map entry was cleared, and drawn by
  differences from what the screen is believed to show; the cursor is painted
  over all of it. Correct: calls act like writes to plain cells, the queue
  fits its array, and the framebuffer is dot for dot what the grid says. Its
  initialisation makes seven allocations of which any may fail. Correct:
  nothing is lost, freed twice, or handed out twice.
* **Terminal.** Bytes come in any order; a cancel, a lead byte or another
  introducer may come anywhere. Correct: flags that exclude each other do,
  a function gets the numbers written and nothing left over, and characters
  are recognised exactly when they are complete. The functions are loops of
  backend calls with the scroll region moved or scrolling switched off for a
  while. Correct: they do what console_codes(4), the standard flanterm names,
  says. Colours are remembered twice, in the context and swapped in the
  backend. Correct: characters have the colours last asked for.
* **Interrupts.** Exceptions come inside stubs and handlers. Correct: the
  handler sees the frame of its own interruption, `iretq` resumes exactly what
  was interrupted, device interrupts do not nest, fatal ones do not return,
  and the machine comes to rest.
* **Console.** Handlers print to the terminal they may have interrupted in the
  middle of a character. Correct: outside named windows neither the queue nor
  the text on the screen suffers.
* **Formatted output.** Buffers with not one character to spare, negation of
  the least int, a format read past its end. Correct: what is printed reads
  back as the arguments.

The hazards, each at its line, are listed in `PROJECT.json`.

## 2. Modules

| module | what it is |
|---|---|
| `PageAllocator` | abstract: a set of free frames, and what each client owns |
| `Pmm`, `PmmProofs` | `pmm.c`, which implements `PageAllocator`; its theorems |
| `PageMap` | abstract: a map from pages to frames, as the code keeps it |
| `Vmm`, `VmmProofs` | `vmm.c`, which implements `PageMap`; its theorems |
| `Backend` | what a call of the backend does to cells, as operators |
| `Screen` | abstract: a machine of `Backend`'s calls that act at once |
| `FlantermFb`, `FlantermFbProofs` | `fb.c`, which implements `Screen`; its theorems |
| `FbInit`, `FbInitProofs` | `flanterm_fb_init`, `bump_alloc`, `flanterm_fb_deinit`; its theorems |
| `EscapeParser`, `EscapeProofs` | `flanterm.c` up to the choice of a function; its theorems |
| `ConsoleCodes` | abstract: what console_codes(4) says of each function |
| `Terminal` | the functions, made of `Backend`'s calls; implements `ConsoleCodes` |
| `Sgr` | `sgr` and everything else that changes colours |
| `FlantermProofs` | the theorems of `Terminal` and of `Sgr` |
| `Interrupts`, `InterruptsProofs` | `_start`, the stubs, the gates, `isrHandler`; its theorems |
| `Console` | `print`, scroll, queue and flush, with handlers that print in between |
| `Printf` | `printf.c` |
| `PrintProofs` | the theorems of `Console` and of `Printf` |
| `MCPmm`, `MCVmm`, `MCFlantermFb`, `MCTerminal`, `MCSgr`, `MCConsole`, `MCFbInit`, `MCPrintf` | small instances |

How they compose:

* `EscapeParser`'s variable `out` is a request of `Terminal` (or, for `m`, a
  list of parameters of `Sgr`).
* `Terminal` performs a request with the operators of `Backend`, the very ones
  `Screen` is made of, and `FlantermFb` is shown to implement `Screen`. So a
  function of `Terminal` is what the queue and the flush put on the screen.
* `Console` joins a short form of `FlantermFb` (line feeds and characters,
  cursor off) with the exceptions of `Interrupts`, each step of either between
  any two of the other.

Definitions whose name has an underscore suffix and whose comment begins with
"Seeded fault" are wrong variants of an operation. No specification uses them.
Each is a plausible slip in the code; with it in place of the operation, one
of the properties fails, which is how the properties were tried.

### Pmm

`free_regions` and its count are one sequence; addresses are frame numbers,
since everything the code computes is a multiple of `PAGE_SIZE`. `InitEntry`
is a turn of the loop of `FreelistPMMInit` with `add_free_region`, `Allocate`
and `AllocateHalts` are `allocate`, and `Deallocate` is `deallocate` with its
search (`RegionIndex`) and its three branches (`GrowPrevious`, `JoinNext`,
`InsertRegion`). An operation is one step: the code is not re-entered, since no
interrupt handler allocates. Clients own at most one block and return it
with its size; `deallocate` believes whatever it is told, so a caller
who lies is out of scope. `status` says whether the machine has
halted or has written past the array ("overrun", where a behaviour ends, with
the list one region longer than the array; what the write destroys is not
modelled).
`misjoined` is a history variable: it remembers that the second branch of
`deallocate` grew a region that does not end at the block.

Frames above `FrameLimit` are never handed out. A corrupt region may claim
memory without end; the bound keeps behaviours finite after the corruption
and does not matter before it (`MemmapAssumption` puts usable memory below).

### Vmm

A frame is a table of entries or whatever it held before (`Junk`); a page
number is cut into four indices by `Indices`. `VMMMapPage` is a
walk, one step per level (`Descend`), so that running out of frames
(`OutOfFrames`) may leave it half done, then `StoreLeaf`. `VMMInit` is
`InitRoot` and one `InitCall` per usable page. The allocator is reduced to the
set of frames left and to `Offered`, the frames it may choose.

An entry (`Slots`) is the frame of its address and the present bit. What
`VMMMapPage` stores above the last level is the bare result of `allocate`
(`Link`, bit clear); the last entry is `paddr | 0x03` (`Leaf`, bit set, so not
null even for frame 0). Other bits are left out. There are two walks. The
code's (`Child`, `TableFor`) follows what is not null, and what it finds in the last entry
is `Recorded`: the refinement of `PageMap`, `IdentityRecorded` and the tree are
about that. The processor's (`Follow`, `Translated`) stops at an entry that is
not present, and with these tables stops in the root (`NothingTranslated`, section 4).
The code uses addresses of frames as pointers, so the model supposes, as the code
does, that the tables the loader left in CR3 map them to themselves.

### FlantermFb and Backend

A call of the backend sets `work` to the pushes of its loop, and `Push` runs
them one at a time as `push_to_queue` does, reading cells (`Copy`) when their
turn comes. `Flush`, `FlushSlot` and `FlushEnd` are the parts of
`double_buffer_flush`. Glyphs are sets of dots and `framebuffer` has a colour
per dot, so that `plot_char_fast` means something. Wide glyph tables, bold
colours and the canvas image are reduced to a few colours, one of them the
transparent one. `SetMargins` and `SetModes` stand for the places
where `flanterm.c` changes the fields of the context the backend reads.
`full_refresh` is modelled when nothing is pending and the cursor has not
moved: its only call is at the end of `flanterm_fb_init`.

`Backend` says of each call what the cells, cursor, colours and margins are
after it, on a record, without queue and map. `Screen` is the machine of these
calls. A call acts at once there, while its pushes here take steps: the
refinement makes the pushes still to come (`Pushed`, one `Apply` after the
other) on the cells as they are, where a cell is read from the queue if it waits
there, else from the grid.

### FbInit

A call allocates the seven `Blocks` in the order of the code, one a step, from
the pool (`AllocateFromPool`) or from the caller's `_malloc`
(`AllocateFromHeap`), either of which may fail at any of them. The label
`fail` and `flanterm_fb_deinit` free one block a step, in their own orders; the
label's tests for NULL make freeing a block that was never allocated a step
that does nothing.
Sizes are those of the code as functions of the framebuffer, the size of a
cell and of the fixed tables being constants. A behaviour ends where the label
`fail` reads through a context that was never allocated.

### EscapeParser

`ctx` is the record of the parser's fields, `out` what the last byte made the
terminal do, `text` and `utf8` histories of what was written. The actions
follow the order of tests in `flanterm_putchar` and `escape_parse`; their
guards make that order explicit (`Cancels`, `Continues`, `Leads`, `Plain`,
`InEscape`, `InOsc`, `InControl`, `AfterCsi`, `AfterEsc`). A byte is its
character or its class. Values are computed modulo `Width` as `uint32_t` is.
`escape_offset` is counted to three, since only "is it 2" is ever asked.

### Terminal and ConsoleCodes

`Ask` makes a request the parser could make; the step after it obeys: it
prints (`PutGlyph`, with insert mode's `MakeRoom`; `PutCharacter` for UTF-8, where
`Box` stands for a character without a glyph and blanks fill its width), moves (`Move`), runs an
escape sequence (`Escape`) or a control sequence (`ControlSequence`).
`Function` maps the final letter to the operator that performs it, and each is
written with the loop of the code: `Loop(n, Body, s)` is `n` turns of `Body`, so
`Blanks(s, n)` types `n` blanks, `InsertLines` raises the region's top, scrolls, and puts it back,
`DeleteCharacters` falls through into `EraseCharacters`. `Controlled` switches
`autoscroll` off around every function, as the code does.

`ConsoleCodes` says what the manual says, as sets of cells that become blank,
slide or shift, and is nondeterministic where the manual is silent. Requests
in `Exempt` may do anything to glyphs, but leave region and saved cursors
alone. `Diverges` is the list of requests, by cursor and region, for which the
code does something else; it is the content of "Seen while modelling" below.

The screen may be wider than it is high, as the kernel's is. A wrap then
leads below the last line when the region ends above it (`fb_line`), and the cursor
may be anywhere up to line `Cols - 1` (`Lines`). `GetCursorPos` reads such a cursor
as one on the last line, and so does `Y` of `ConsoleCodes`; what is typed there
appears nowhere. `MaxDrawn` bounds how many cells show a letter when something is
asked to be printed: it makes wide screens small enough to explore and is no
part of what the theorems assume.

### Sgr

One turn of the loop of `sgr` is one step. `ctx` has the fields the code keeps
(`bold`, `bg_bold`, `reverse_video`, `current_primary`, `current_bg`), `text`
the backend's two colours. A plane is what the program means by foreground and
background; `Side` is where it is while colours are swapped. `chosen` is a
history of the last wish for each plane, `off` the planes whose colour was lost
in one of the ways the action that loses it names; a new choice takes the
plane out of it. `taken` records which parameters were treated as attributes.
`SaveBound` is a constant: the run saves one kind of state, the theorem is about
any.

### Interrupts

The stack is a sequence of words with the names of what was pushed, and
`Frame` is `struct registers` laid over its top, so a stub that pushes the
wrong number of words is seen as the handler sees it. `origin` is a history of
what was really interrupted. Exceptions (the NMI among them) may come at any
step, device interrupts when the flag allows it; `MaxDepth` and `MaxRaised`
bound them. `handleIrq` reads through `irqs`, which nothing sets, and faults:
a device interrupt ends in the error screen.

### Console

An activity (`_start`, or a handler) is a list of operations still to run,
`todo`, and `frames` is the stack of activities. An operation is replaced by
those it is made of: `FlantermWrite` becomes characters and a flush,
`TypeLineFeed` at the end of the screen becomes the copies of a scroll, `Push`
becomes `TakeSlot` when it has counted `queue_i` but not yet filled the slot.
The cuts are where something read earlier is used later. `paper` is a history
of what was printed, and `hits` of the windows exceptions fell into: "push"
(slot counted, not filled), "flush" (loop running), "place" (cursor read,
character not put), "cursor" (line feed has its line). `_exception` paints the
framebuffer without telling the terminal, then prints.

### Printf

The format lies in `memory` with its NUL and with what follows it. One
character, one directive, one digit (`WriteFigure`), the sign and the final
reversal are steps; `%` and `/` round towards zero as C does, and the negation
of the least int is either of the two values compilers produce. What a format
means is defined apart from the loop that reads it: where a directive begins
(`Begins`), which places print (`Prints`) and which take an argument
(`ArgumentOf`), and what a text of figures reads as (`Reading`).

## 3. Runs

| run | configuration | properties | question |
|---|---|---|---|
| `pmm` | `MCPmm.cfg` | `TypeOK`, `Partition`, `PagesConserved`, `CountNeverWraps`, `ImplementsAllocator`, `FreedBlockIsReusable` | Until a merge goes wrong, has each frame one owner, and is the free list the abstract allocator? Always: are pages conserved, is the count above zero while a block is out, is a returned block usable again? |
| `pmm_usable` | `MCPmmUsable.cfg` | `OnlyUsableMemory` | Does the list stay within usable memory? It does not. |
| `vmm` | `MCVmm.cfg` | `TypeOK`, `TreeShaped`, `TablesAllocated`, `WalkOnPath`, `ImplementsPageMap`, `IdentityRecorded`, `NothingTranslated`, `CallsEnd` | Are the tables a tree, of frames of their own, walked on the right path, and does the code's own walk read a map in them? Does `VMMInit` record every page, and do calls end? What does a processor find in the tables? Nothing (section 4). |
| `fb` | `MCFb.cfg` | `TypeOK`, `SlotsExact`, `FrameShowsGrid`, `ImplementsScreen` | Do queue, map, copying loops and flush act as plain cells, does the queue fit, and is the framebuffer right, dot for dot? |
| `fb_line` | `MCFbLine.cfg` | `CursorLineOnScreen` | Does the cursor stay on a line of the screen? It does not. |
| `fbinit` | `MCFbInit.cfg` | `FreesExact`, `NothingLeaked`, `PoolExact` | Whichever allocation fails: is everything given back, once? (If the context's own fails: section 4.) |
| `escape` | `MCEscape.cfg` | `TypeOK`, `ParametersRead`, `ModesExclude`, `CharactersWellFormed` | Bytes in any order: are numbers read as written, do flags exclude each other, are characters recognised when complete? |
| `terminal` | `MCTerminal.cfg` | `TypeOK`, `ImplementsConsoleCodes` | Outside `Diverges`, does each function do what console_codes(4) says, from every screen? |
| `sgr` | `MCSgr.cfg` | `ColoursAsAsked`, `OperandsAreNotAttributes` | Are characters typed in the colours asked for, and is no operand taken for an attribute? |
| `interrupts` | `MCInterrupts.cfg` | `TypeOK`, `HandlerSeesFrame`, `DevicesNeverNest`, `ResumesExactly`, `NeverBackFromFatal`, `ComesToRest` | With nested exceptions and a device: frames, resumption, rest. |
| `console` | `MCConsole.cfg` | `QueueSound`, `PaperShown`, `ErrorShown` | Where may an exception come without harm to what is printed? |
| `printf` | `MCPrintf.cfg` | `BuffersHold`, `PrintsAsMeant` | Do the buffers hold every number, and does the output read back as the arguments? |

Bounds, and why they are enough:

* `pmm`: three memory maps (touching and separate regions with a reserved
  entry between; one region; more regions than the list holds), three
  interchangeable clients (symmetry), requests of one and two pages, a list of
  four. All three branches of `deallocate`, both ends of its search, used-up
  regions, the full list, both ways to halt, the overrun and the wrong merge
  occur. `pmm_usable` is the same instance.
* `vmm`: three entries per table, six usable frames. Identity mapping needs
  two page tables and takes five of the frames; one is left, so a caller's
  walk succeeds with no, one or not enough new tables. The call pages share
  no, some and all of their path with mapped ones. Memory never cleared reads
  as a present entry.
* `fb`: three lines of two cells, so that a scroll region can be smaller than
  the screen and has a line between; five calls of any kind in any order (1.3
  million states): a region, a cursor, two changes and a flush between them,
  or a cell drawn, covered by the cursor, changed and drawn again. Two glyphs that
  differ in one of two dots, three colours. `fb_line` has more columns than
  lines, the case it is about.
* `fbinit`: a pool with room for one or two terminals but not three, up to three
  terminals at once, two framebuffers, one with a margin that leaves a
  remainder; a caller with both functions, without `_free`, or with neither;
  each of the seven allocations fails in turn.
* `escape`: twenty bytes, one of every class the parser tells apart, in every
  state they lead to; two values of three parameter bytes, computed modulo 8, so
  that values overflow and surplus ones are dropped.
* `terminal`: three lines of four columns, so that a wrap can leave the screen;
  every function from every content that requests lead to, printing only while
  at most two cells show a letter (`MaxDrawn`), with every region, and
  arguments of zero, one, within and beyond the screen. Tab stops every two
  columns. Two letters to be kept apart and a third typed between them are what
  the loops can confuse. Where letters name one function (`B` and `e`, `G` and
  the backquote, called `"HPA"` here, and others) one of them is asked for. 5.0
  million states, about 110 seconds.
* `sgr`: single attributes of each branch and lists with complete, unknown and
  truncated colours, whose operands are numbers of attributes; one colour of the
  eight and one index, since the code treats all alike (1.2 million states).
  States are saved in bold reverse video, where saved and current differ most.
* `interrupts`: three levels (and a fourth for the fault in `handleIrq`), four
  interruptions; vectors with and without an error code, the NMI, the page
  fault and a device.
* `console`: three lines of four cells; two messages, of which the second
  scrolls, two exceptions at any step, one of which may be the page fault.
* `printf`: ints of 8 bits, all their values, with buffers as tight as the
  code's are for 32 and 64; ten formats with each directive alone, repeated,
  between characters, behind `%`, and a `%` at the end.

`CHECK_DEADLOCK FALSE` is set where the system really stops: a halted machine
(`pmm`, `vmm`), `hlt` and the error screen (`interrupts`, `console`), the read
through NULL at the label `fail` (`fbinit`), the end of `printf`, and where the
bound on calls ends a behaviour (`fb`, `fb_line`).

### Fairness

`Vmm`: the processor goes on with `VMMInit` and with a `VMMMapPage` it is
running, which contain no waiting (weak fairness of those steps; nobody has to
call). `Interrupts`: the processor executes instructions (weak fairness
of `Instruction`); interruptions are not fair. Their number is bounded, so an exception
whose instruction faults again for ever is not in the model, and
`ComesToRest` says nothing about it. The other modules claim no liveness.

## 4. What the violated runs show

1. `pmm_usable`: the second branch of `deallocate` (`pmm.c:83-84`) does not
   test that the region it grows ends at the block. The list then offers
   memory that is not usable, or offers a frame twice. `Partition` and
   `ImplementsAllocator` hold up to that step, and pages still add up after it.
2. `fb_line`: `raw_putchar` limits a row by the number of columns
   (`fb.c:787-789`), where every other place limits it by rows.

Seen while modelling, and not the subject of a run of their own:

* **The page tables are of no use to a processor.** `VMMMapPage` sets the present
  bit in the last entry only (`vmm.c:89`: `paddr | 0x03`); the entries above it are bare results
  of `allocate` (`vmm.c:69, 76, 83`). `VMMInit` asks for every usable page to be
  mapped to itself (`vmm.c:45`), and a processor with its tables would find none:
  `NothingTranslated` holds in the run `vmm`, and `ProcessorSeesNothing` proves it
  for tables of every size. The code's own walk looks for null, not for the bit,
  and so `PageMap` and `IdentityRecorded` are true all the same.
  The kernel does not notice: nothing loads `pml4` into CR3, and the call of
  `VMMInit` is commented out (`kernel.c:189`).
* `deallocate` inserts without looking at `MAX_FREE_REGIONS` (`pmm.c:90-97`),
  though `add_free_region` halts on a full list (19-26). Used-up regions stay in
  the list, so it does fill up, and `free_regions[256]` is written and counted.
  The run `pmm` reaches this and ends such behaviours in status "overrun".
* The stubs of vectors 17, 21, 29 and 30 push a zero on top of the error code
  the processor pushed (`_asm_idt.asm:44,48,56,57`). With one of them in
  `Faults`, `HandlerSeesFrame` fails; the theorems exclude them by name.
* After the single byte 0x9b the next byte is swallowed (`flanterm.c:814`), and
  a cancelled `ESC [ ?` leaves `dec_private` set (`flanterm.c:1202-1211`), so
  the next sequence is treated as private.
* `ESC [ M` deletes lines at the top of the scroll region wherever the cursor
  is (`flanterm.c:619-632`); the line just below the region counts as inside it
  (560-575); erasing types blanks, which wrap or stop at the wrong place when
  the cursor is past the last column or the region ends above; `d` and `G` take
  zero for the last line or column. A character of UTF-8 overwrites in insert
  mode, which is not looked at (1214-1240), and one of width two in the last
  column is torn between two lines. `ESC M`, the reverse line feed, puts the
  cursor in the first column (861-869), where the manual has it move up only.
  `Terminal!Diverges` is the full list.
* On a screen with more columns than lines (any real one), a wrap below the scroll
  region takes the cursor below the last line, up to line `Cols - 1`
  (`fb.c:784-789`); what is typed there is dropped until something sets the
  cursor. With fewer columns than lines the wrap goes to the line of the last
  column's number instead of the next.
* Direct colours set in reverse video go to the wrong side, bold loses a direct
  colour, and `ESC c` resets attributes but not colours: the actions of `Sgr`
  that add a plane to `off` are the full list.
* `38;5;n` and `48;5;n` with n of 256 or more read `col256[n - 16]`
  (`flanterm.c:371`) beyond its 240 entries, for n up to the largest 32-bit
  number. In `Sgr` such an n chooses any colour; that the read may as well fault
  is not modelled.
* When the very first allocation of `flanterm_fb_init` fails, the label `fail`
  reads `ctx->canvas` through NULL (`fb.c:1086-1099`). `FbInit` ends such a
  behaviour in op "fault", and `FreesExact` says nothing of it.
* An exception inside `push_to_queue`, between `queue_i++` and the map entry,
  or inside a flush leaves the queue unsound; one between a reading of the
  cursor and its use misplaces text (`Console!Window`). A failed
  initialisation makes `print` write through NULL (`print.c:26`).
* The least int has no negation in `int2str` (`printf.c:24`), and a `%` at the
  end of a format is stepped over together with its NUL (`printf.c:62`).

## 5. Proofs

Eight modules hold 37 theorems, for every value of the constants; each is stated
on the specification and rests on an inductive invariant.

**`PmmProofs`**, for every set of memory maps, clients, request sizes and every
capacity: `TypeCorrect` (`TypeOK`, by which the free list is longer than its array
in status "overrun" only, where just `deallocate`'s insertion into a full list
leads, and then by one region), `CountSafe` (`CountNeverWraps`),
`PartitionHolds` (`Partition`), `AllocatorImplemented` (`ImplementsAllocator`).
Assumptions: usable entries lie below `FrameLimit` and do not overlap (what
Limine guarantees), the array has room for something, nobody asks for zero
pages. `TypeOK` and, given it, `CountNeverWraps` are inductive. `Partition` is
conditional: it says something only while `misjoined` is false, and
`NeverUndone` shows that neither `misjoined` nor the overrun is ever taken
back, so that a good state after a step was a good state before it. What
remains is set algebra on frames: `ApartIsDisjoint` turns the arithmetic of
regions into disjointness of intervals, `JoinedRegion` says that regions that
touch join to the union of their frames, and `AllocateFrames`,
`DeallocateFrames` and `InitEntryFrames` say what each operation does to
`FreePages` and to the blocks held. That the position the search finds
(`RegionIndexRange`) need only lie in the list is part of the result: the list
need not be sorted for the partition.

`PagesNeverLost` (`PagesConserved`) says that pages add up, the wrong merge
included. The sum over a list is a fold over its positions; `Total` is a function
of the set it ranges over, and its laws (`Sums`, `AddsUp`) are proved by
induction on the number of elements, as a set of counterexamples would have a
least number. Each operation is then an equation between sums: a region grows by
what the block has, or is inserted, which renames the positions above it
(`Inserts`). The clients are finite in number (`ClientsAssumption`), since their
blocks are summed. `FreedBlocksServe` (`FreedBlockIsReusable`) is about a step:
after each of the branches of `deallocate` some region is as long as the block.

**`VmmProofs`**, for every number of entries in a table, every set of usable
frames, every content of a fresh frame and every order the allocator offers
frames in: `TypeCorrect`, `TreeCorrect` (`TreeShaped`), `TablesNotFree`
(`TablesAllocated`), `WalkCorrect` (`WalkOnPath`), `MapImplemented`
(`ImplementsPageMap`), `IdentityCorrect` (`IdentityRecorded`). The three safety
invariants need each other and three facts the runs do not state:
`CallOnPath` and `CallAtLevel`, that a walk in progress stands in a table of
the level it is at, on the way to its page, and `RootKnown`. Together they are
`IInv`. That each table is entered once, from one place, is why storing an entry
changes what is recorded of one page only (`MapImplemented`); `IdentityCorrect`
adds that what is already recorded stays so, and that page numbers below the
limit have different indices. Both are about the code's own walk.
`ProcessorSeesNothing` is about the processor's: no entry of the root is ever
present (`BareStep`: the root is cleared when it is made, and walks store only
bare addresses in it, since last entries go to tables of level 1), so that
`NothingTranslated` always holds, and `IdentityNeverTranslated` that `VMMInit`
therefore never returns with usable memory mapped to itself.

**`FlantermFbProofs`**, for every size of screen, font and set of colours:
`TypeCorrect`, `SlotsCorrect` (`SlotsExact`), `FrameCorrect`
(`FrameShowsGrid`). `Queued` is the inductive invariant of the queue:
pushes are done before a flush (`OneAtATime`), a running flush has taken off
the map all it has passed (`PassedOffMap`), the map leads to slots of its cells
(`Pointing`), no cell has two slots (`NoCellTwice`), and between flushes every
slot is led to (`Owed`). The queue fits since its slots inject into the cells
(`QueueBounded`). For the picture the invariant also says what each dot shows
during a flush: what the grid says, but for the cursor's cell.

`ScreenImplemented` (`ImplementsScreen`) needs what the loops of the code
leave, for regions of any size. A function over the turns that starts with the cells
and follows the pushes (`Follows`) ends with `Pushed` (`PushedIs`); for the copies of
`scroll` that function is `MovedUp`, after n turns, for `revscroll` `MovedDown`,
for the loops that blank `Filled`, and each is shown to follow its pushes, which
is where a loop in the other direction would read a cell it has written. What is
left is that every call begins as the call of `Screen` acts, that `Push` makes
the first push of `Pushed`, and that a flush changes nothing `Pending` reads.

**`FbInitProofs`**, for every set of framebuffers and all sizes of glyphs, cells
and pool: `FreesCorrect` (`FreesExact`), `LeaksCorrect` (`NothingLeaked`),
`PoolCorrect` (`PoolExact`). `FreesCorrect` is about calls whose first allocation
succeeded: without a context the label `fail` reads through NULL, and the behaviour
ends before anything is freed. The invariants speak of the time between two calls;
what is inductive is an account that also holds during one. The heap is the
disjoint union of what was lost, the terminals' blocks and what the running
call has allocated or has still to free (`HeapExact`), and the pool is tiled up to
`orig_bump_alloc_ptr` by the terminals and from there to `bump_alloc_ptr` by
the running call (`PoolInv`). `Outstanding` says that the context comes last in
what is to be freed. The allocator gives out a name not in use since there are
more names than blocks (`NewNameNew`, a pigeonhole).

**`EscapeProofs`**, for every alphabet, number of values, width of a value (at
least two) and length of a parameter: `TypeCorrect` (`TypeOK`), `ModesCorrect`
(`ModesExclude`), `CharactersCorrect` (`CharactersWellFormed`). `Good` is what is
always true of the context's fields, and `Reading` that the bytes read of a
character and those awaited add up to what its lead byte calls for.

`ParametersCorrect` (`ParametersRead`) compares `esc_values`, filled as bytes
come, with the numbers the text reads as once it is there, for sequences of any
length. What a text means is a fold over it (`Fields`, and `Number` of each
field), so first the folds are shown to grow by their last element
(`FieldsGrow`, `NumberGrows`). The invariant `PInv` says that in a control
sequence the values taken are those of the fields that are complete, the value
being read that of the last, and all others zero (`ValuesRead`).

**`FlantermProofs`** on `Terminal`, for every size of screen, every tab stop and
all arguments: `TypeCorrect` (`TypeOK`) and `CodesImplemented`
(`ImplementsConsoleCodes`). The inductive invariant `Inv` is `TypeOK`
with two facts more: the whole record of the screen is one of `Screens`, and the
cursor ESC [ s saves was read with `GetCursorPos` and so is on the screen
(`Places`).

The work is in the loops, which have as many turns as an argument or a line says.
The states a loop passes through are a function of the turn (`ScrollingTurns` and its
like); that one solves the recursion of `Loop` is `MadeExists`, by the
library's theorem of least elements. From it follows, by induction on the turn,
what each kind of loop leaves: blanks typed from the cursor on fill an interval of
cells, counted line by line (`Blanked`), scrolls roll the rows of the region by
their number (`Rolled`), and the loops that move characters slide a line or open
a place in it (`Opened`), which is where a loop in the other direction would
read a cell it has written. A lemma per function then compares the sets
of cells with those `ConsoleCodes` names, under the negation of its line of
`Diverges` (`LineErased`, `DisplayErased`, `LinesInserted`, `CharactersDeleted`, `PrintedMeans`
and others); `ControlMeans`, `EscapesMean` and `MovesMean` put them together, and
`FunctionRemains` says that requests left open keep the region. Outside
`Diverges` no hypothesis is made: a function is right from every content, cursor
and region the invariant allows.

**`FlantermProofs`** on `Sgr`, for every list of parameters: `ColoursCorrect`
(`ColoursAsAsked`). The invariant says of the present context and of the saved
one that the colour remembered for a later bold or normal intensity is the one
asked for (`Recalls`), and that the colours shown match (`Matches`).
`ParametersToldApart` (`OperandsAreNotAttributes`) needs that before each turn
`taken` has decided every parameter passed as the property wants it (`Told`);
a turn decides one parameter, or a colour with all its operands.

**`InterruptsProofs`**, for every set of vectors, depth and number of
interruptions: `TypeCorrect`, `HandlerCorrect` (`HandlerSeesFrame`),
`DevicesCorrect` (`DevicesNeverNest`), `ResumeCorrect` (`ResumesExactly`),
`FatalCorrect` (`NeverBackFromFatal`), each under `StubsAgree`: processor and
stub agree on the error code of every vector in use, which is false of the four
vectors of section 4. The invariant is that every interruption, not just the
innermost, has its frame on the stack (`Framed`), that frames lie above each
other (`Rising`), and that the flag is off while handlers run (`Masked`, with
`Booting` for `_start`).

**`PrintProofs`** on `Console`, for every size of screen, all messages and any
number of exceptions: `QueueStaysSound` (`QueueSound`) and `PaperCorrect` (`PaperShown`). The
messages are sequences of strings (`MessagesAssumption`); what the terminal is
given are these and the characters the module names (`Chars`).

The queue first. `QueueSound` is silent once an exception has come inside
`push_to_queue` or a running flush, and there the invariant is lost too
(`IInv`). Until then only the innermost activity is inside one (`OneInside`), and
its next operation tells how far it is, so that `Queue` and `Mapped` can say for
every moment which slots are led to: all, all but the one just counted, or those
the flush has yet to pass.

For the paper the invariant is `PInv`: as long as no exception came between a
reading and its use and no error screen is ahead (`Lost`: then `_start` never
comes to rest, and nothing need be shown), `PaperKept` holds. It says what the
cells will show when the queue has been flushed (`Visible`): the paper, or, after a
character was noted on paper but before it is pushed, the paper but for its cell
(`Placing`), or, before turn n of a scroll, the new paper up to there and the old
one, a line further up, beyond (`Moved`). Activities that were interrupted are
between characters, so that they hold no place that could have moved (`Plain`).
And whoever pushes flushes later (`Closed`), so that a queue that is not empty has
a flush to come (`TurnAhead`); at rest there is none, and the cells show `Visible`.
Lines longer than the screen are cut in the model, which leaves out the
wrap of `raw_putchar`, and so they are on the screen the theorem speaks about.

**`PrintProofs`** on `Printf`, for all formats, whatever lies behind them, all
arguments and all widths: `BuffersSuffice` (`BuffersHold`) and `OutputCorrect`
(`PrintsAsMeant`). `BuffersAssumption` says what the sizes of the code say: the
largest int has no more figures than the buffer has room for beside sign and
NUL, the largest pointer beside NUL.

The buffers need the invariant that what is left of the value has no more
figures than there is room left (`Fits`), for the least int whichever way its
negation went. The output needs two. Of the number in the making (`Converts`):
the figures written so far, read backwards behind what is left of the value, are
the argument, none is missing and none stands in front as a zero. Of the rest
(`Meant`): all before `pos` is printed as it was meant, as many strings as places
that print, as many arguments as places that take one. Powers, places and
readings are recursive functions; that their recursion has a solution, from which
their equations follow, is `MadeExists`, by the library's theorem of least
elements. A `%` right before the NUL and the least int are left out, as in the
property.

TLC evaluates the assumptions of a module in every run of it.

Only model-checked:

* Liveness (`CallsEnd`, `ComesToRest`), out of the prover's
  reach.
* `ErrorShown`, which is not true of any number of exceptions: the message of the
  error screen scrolls away when enough of them print after it. The run has two.

## 6. Not modelled

* `irq_install` and with it `pit.c`; `time.c`, `rsod.c`, `ports.h`,
  `VMMUnmapPage`'s absence of a TLB flush: code without a caller, or effects
  below the model.
* The glyph and canvas contents `flanterm_fb_init` computes, `mk_wcwidth`,
  `unicode_to_cp437`, the character-set and colour tables: constant data. What
  follows from their answers, a glyph or a width of zero to two, is in
  `Terminal`.
* The callback of `flanterm_context`: the kernel never sets it.
* `gdt.c`: constant tables and one `lgdt`, a step of `_start` in `Interrupts`.
* The helpers of `kernel.c`: loops over one array. `memmove` picks its
  direction as the standard says.
* Build files, linker script, `limine.h`.

## 7. Plan

Done: all modules above, and the theorems of section 5.

Left: `irq_install` and the acknowledgement of device interrupts, when `_start`
comes to call `timer_install`, and the glyphs of a wide font, should the kernel
use one.
