# Tux64 in TLA+

TLA+ models of [Tux64](https://github.com/bradleycha/tux64), a Linux boot loader
and ROM builder for the Nintendo 64: the modules, the TLC runs that check them on
small instances, and the TLAPS proofs of what holds for every instance.

    tlc -config arena.cfg MCArenaAllocator.tla      # model-check one run
    tlapm ArenaAllocatorProofs.tla                  # check the proofs of one module

Paths below are relative to `src/`; `boot/` stands for `boot/src/tux64-boot/`.

## The system

A ROM made by `tux64-mkrom` holds three boot stages and up to three boot files
(kernel, initramfs, command line). On the console:

1. **Stage 0** (`boot/stage0/stage0.S`) initialises the hardware and copies stage 1
   from the cartridge to RDRAM.
2. **Stage 1** (`boot/stage1/`) is the interactive part. A frame loop
   (`stage1.c:137-164`) executes a state machine (`fsm.c`), draws the console and
   the logo with RSP DMA, waits for the vertical blank and swaps two framebuffers.
   The state machine gives each boot file an address, loads by PI DMA, block by
   block, the files that lie clear of stage 1, and starts the kernel, or stage 2
   when files are left.
3. **Stage 2** (`boot/stage2/`) is small and silent, so more RDRAM is free: it
   loads the files that are left and starts the kernel.

| Component | State | Operations | Talks to |
|---|---|---|---|
| Arena allocator (`boot/stage1/arena-allocator.c`) | array of blocks | `alloc_inplace`, `alloc` | called by boot memory |
| Boot memory (`boot/stage1/memory.c`) | a heap for stage 1, one for stage 2, free counter | the same, twice | called by the state machine |
| State machine (`fsm.c`, `file.c`) | state function, union of the states' memory, load status, allocations | `execute`: delay, halt, load a block, boot | PI DMA, boot memory, console; preempted by the vertical blank |
| Video (`video.c`, `rsp.c`, `fbcon.c`, `logo.c`) | displayed framebuffer, fence, IMEM, two framebuffers | clear, print, draw, wait, swap | RSP DMA engine, VI |
| Interrupts (`interrupt.c`), fences (`sync.c`) | fence flag, masks | vertical blank handler | state machine (`preempt.c`), video |
| Stage 2 (`boot/stage2/`) | none of its own | load on demand, exec | allocations left by stage 1 |
| Caches, idling, halting, leaving (`cache.c`, `idle.c`, `halt.c`, `exec.c`) | cached lines, CPU state | invalidate, flush | all stages |
| `tux64-mkrom` (`mkrom/`) | the loaded files, the flags of its cleanup, the ROM image in memory | parse, read files, measure, construct, write, clean up | the library |
| Library (`lib/`) | none | arguments, ELF kernel, checksum, integers, strings, memory, files | tools and boot stages |
| Text compiler (`rescompiler/textcompiler/`) | the lexer's iterator, state and digests, a growing array of strings that are slices of the file | load, lex a character, format, save | its output is part of stage 1 |
| Image and font compilers (`rescompiler/`) | the loaded picture, the table of colours, the compressed bytes | load, encode, compress, format, save | stage 1's logo and console decompress their output |
| SRAM dumper (`sramdumper/`) | the loaded dump | load, parse, format, save | reads what stage 0 dumped |

What is hard about it: the boot loader runs three agents at once (CPU, DMA
engines, vertical blank interrupt) with one flag between them; the frame loop
preempts the loading of files at every block; the state machine's states share a
union; every transfer of a frame goes through the one buffer in RSP IMEM and
none waits for the one before to end; two heaps with different bounds place the
same files; and everything is 32-bit arithmetic on addresses at the edges of
memory. `PROJECT.json` lists the hazards at their lines.

What makes each part correct:

- allocator: blocks are disjoint and in range, a request is refused only when no
  free region holds it, and calls end;
- boot memory and placement: nothing is loaded over a running loader, and the
  kernel finds every file whole where it was told;
- state machine: only what was loaded and verified is started, in order, errors
  and messages reach the screen, and the boot ends;
- video: no tearing, whole frames, no lost transfer, and frames go on;
- `tux64-mkrom`: whichever step fails, memory is freed exactly once and nothing is used
  after it; the kernel is taken from inside its file; the boot header describes the
  image that is written;
- compilers and dumper: they end on every file, use their memory soundly, write as much
  as they measured, and what they write means to its reader what the file said.

## Modules

### Heap, ArenaAllocator

`Heap` is the abstract specification: a set of blocks, and two atomic requests,
one at a fixed address, one best-fit with an alignment. `ArenaAllocator` is the
code: `blocks` is the array up to `blocks_allocated`, `free_region_start`,
`alloc_start` and `alloc_end` are the locals of `alloc`, and `pc` says which of its
nested loops is next. One step is one turn of the inner loop (`FreeSpaceStart`:
align forward, and jump over a block it landed in), or the rest of one turn of the
outer loop (`ConsiderRegion`: find the end of the region, keep it if it is
smaller), or the end of the call (`Push`). `AllocInplace` has no search and is
one step. A debug build halts when the array is full; a release build relies on its
callers (`MayCall`, as the comment at `arena-allocator.c:18-24` asks).

`ImplementsHeap` says that this search is an atomic best fit for its callers: the
mapping takes the array to the set of its blocks, steps of the search stutter, and
`Push` is the abstract request.

### BootFiles

Two instances of `Heap`'s operators with different starts, fed the same requests, as
`memory.c` does: the kernel in place in both, the optional files wherever each heap
likes, with the address of stage 1 preferred. `status` is `load_info.status`,
`address` the allocations handed to the kernel. Then the two stages load, and
`rdram` records whose byte each address holds: that is what the properties are
about. A file loads in one step, since how it loads is `Stage1Fsm`'s subject.

### Stage1Fsm

The state machine in its frame loop. `pc` is where the CPU is: the state function
(`execute`, `dma` while it waits for a block), `render`, `vblank_wait`,
`vblank_end`. Transitions call one another in C; they are operators here, from
the last to the first, so that one step executes the whole chain as the code
does. `memory` is the union: a record whose `kind` says which member was written
last, so a state that reads another one's member is seen. The vertical blank
interrupt and the PI engine are processes of their own. A block may arrive
corrupt; the checksum is the set of images with a corrupt block. `seen` is a ghost:
messages that were on the screen at a vertical blank.

### Interrupts, Stage1

`Interrupts` has the mask of the MIPS interface with the bits of `mi.h`: it is read as one
bit per source and written as two, and `vi_enable` and `vi_disable` write back what they have
read. `Stage1` is the main function: `main` is its next call, then the frame loop of
`Stage1Fsm`. The CPU goes on only while it is not `Interrupted`; `ServiceRoutine` is the
vertical blank of `Stage1Fsm` when the video interface raised the interrupt, and for other
sources it returns with nothing done, which is no step: such an interrupt is there again
at once, and the CPU never goes on. `cleared` remembers whether every source was masked at
the start. `ImplementsFsm` says that each step is one of `Stage1Fsm` or leaves it alone, so
that what is proved of `Stage1Fsm` holds of its composition. Idling (`idle.c`) halves the
clock around a loop that polls, so waits are guards.

### VideoLoop, VideoInit, Video

`VideoLoop` has the CPU starting the transfers of a frame in their order, each with
the wait that precedes it (`MayStart`), a DMA engine with one active and one queued
transfer that reads and writes IMEM and the framebuffers when the transfer ends,
and the vertical blank. A framebuffer is a sequence of blocks, each with cells of
text and a part of the logo. `doubleBuffering` and `logo` are the build options.
`VideoInit` is the initialisation of the video context store by store, because its
fill loop leaves its buffer. `Video` composes the two as `main` does: while the context
is filled the video interrupt is masked, the fence it initialises is the one the frames
wait for, and its last transfers clear the framebuffer behind the first frame.

### Cache

What the CPU reads after DMA. Memory is cut in cells of 8 bytes, the unit of DMA; a
data line has two in the code's units, an instruction line four. The caches are
functions from a line's first cell to its contents, filled by any read or fetch of
stage 1 and evicted at any time. Stage 1 loads in blocks and invalidates the lines of
each (`Operated` is the arithmetic of `cache.c`), stage 2 loads in one transfer and
invalidates nothing. `written` is a ghost: what stage 1 wrote last to its own data.

### Arguments, KernelElf, RomBuilder, Mkrom

`Mkrom` composes three modules without state. `Arguments` is the library's parser: a
list of options, required or not, and a sequence of tokens; `Parse` is the recursion of
its loop, with an option that takes the next argument for its missing parameter and the
bits of the required storage. `KernelElf` is the chain of checks of the kernel's file,
fields widened to 64 bits. `RomBuilder` has the builder's three sums of lengths, which
must agree without sharing any code: the check for overflows, the boot header
(`Described`) and the size of the image (`Measured`), and then the copies, of which
`Image` is the result byte by byte.

In `Mkrom` one step is one call of `tux64_mkrom_run_parsed_cmdline`, with the ways it can
fail. `level` is how many of the files are loaded, which is the label a failure jumps
to; `Cleanup` is one label. `heap` is the state of each allocation, and `misuse` a ghost
that remembers a use or free of one that is not there; a parsed option that is read
must have been given (`Use`). `config_file_loaded` and `stage1_bss_file_loaded` begin with
any value, as locals do. What the file system answers, whether there is memory, and
whether the text of the BSS length parses are left to choice.

### Tool, TextCompiler, ImageCompiler, FontCompiler, SramDumper, Compilers

The main functions of the four programs are copies of each other that differ in what each
step frees. `Tool` has what they share: the parse of the command line (`Arguments`), the
load, the save with its parameters for what differs, and the message. `heap` and `misuse`
are as in `Mkrom`; reading beyond the file and reaching code marked unreachable are misuses
too (`Readable` is what the formatter of the texts needs for neither). `Compilers` is the
choice of one program, its `tool`, and has the properties.

- `TextLexer` is one step per character: `LexerStep` is the state function of the
  character under the iterator, with the transitions it calls, which may exit. `fsm` is
  the machine's memory, with the digests of identifiers (`HashDigest` is the exact XOR
  hash); values are slices (`ptr`, `characters`) into the file. `string_array` grows as
  the code does it, may fail to, and is then `Damaged`. `TextFormatter` has the
  functions that measure the output and those that write it, which repeat each other.
  `TextCompiler` is the program.
- `ImageCodec` is the encoder (quantising, the table of colours, tuples of two pixels),
  the compressor with its two kinds of commands, the formatter, and stage 1's
  decompressor of the logo. `ImageCompiler` is the program, and `Logo` what the console
  shows of its output.
- `FontCompiler` has the generator and the console's decompressor of the font.
- `SramDumper` begins with stage 0: `DumpToSram` is the order in which `stage0.S` pushes
  the registers, from the status code down; then the tool's parser and formatter, with
  rows of register names and values for text.

`CSource` is the layout of C source both formatters share, as lengths and values;
`Characters` the library's classes of characters.

Definitions named `Faulty...` (and `LeakingFreedAt`,
`WorstFit`) are variants of the definition after them with a
plausible bug; no specification uses them. Substituting one must break the property
`PROJECT.json` pairs it with, which shows that the property depends on the code.

## Runs

| Run | Instance | What it shows |
|---|---|---|
| `arena` | 14 addresses, alignments 1 and 4, at most 3 blocks, debug | disjointness, bounds, termination, refinement of `Heap` (so best fit) |
| `bootfiles` | 24 addresses, pages of 4, kernels inside, across and outside stage 1, files absent, small, or too large for one or both heaps | loaders are never overwritten; files whole whenever the heaps agree; the free counter |
| `bootfiles_bss` | the same | **violation**: only the kernel's file length is reserved, not the memory it declares |
| `stage1` | every combination of the flags that change control, files of 0 to 2 blocks, delays of 2 frames, resets that leave no, one or other sources unmasked | only verified images start, states own their memory, messages and errors are displayed, interrupts are handled and stop nothing, the boot ends |
| `stage1_io_error` | `Stage1Fsm` alone, the same files | **violation**: an I/O error leaves `wait_idle` spinning, although `pi.h:67-68` says it ends |
| `video` | the initialisation of the context with a buffer of 16 words, then frames of 2 blocks with a cell and a logo part each, both builds of the queue, with and without logo | the context is ready in spite of the overrun; no tearing, whole frames, no overrun of the queue, progress, no deadlock |
| `videoinit_overrun` | `VideoInit` alone | **violation**: the fill loop writes eight times its buffer (`video.c:187`) |
| `cache` | 12 cells in lines of 2 and 4, files that share lines with each other and lie next to stage 1 | the kernel reads and executes what was loaded, good files are accepted, stage 1 loses nothing it wrote |
| `cache_stage2` | a file loaded by stage 2 over what stage 1 had cached | **violation**: stage 2 loads without invalidating (`boot/stage2/file.c:61`), and the kernel can see old bytes |
| `mkrom` | every command line of up to 4 of 9 arguments, 16 configurations, 23 kernel files, lengths that fill, fit and exceed the ROM | cleanup and lifetimes under every failure, the kernel inside its file, a header that describes the image |
| `mkrom_fit` | the same | **violation**: the NUL of an empty command line is copied (`builder.c:398`) but not measured (`builder.c:262`) |
| `compilers` | the four programs on right and wrong command lines; text files one character from a good one and with a length given twice, whose slice ends behind the file, pictures of 12 pixels, fonts of 4 characters, dumps of several lengths; any step failing | memory, measured lengths, the meaning of the output, termination |

Why the bounds are enough. In `arena`, three blocks in 14 addresses make neighbours,
gaps smaller than an alignment, gaps an alignment jumps over, full arrays and full
heaps; what holds beyond that is proved. In `bootfiles` the sizes are chosen so that
each heap can have room when the other has none and best fit disagrees between them. In
`stage1` two blocks are the least at which a load can be preempted half way and resumed,
and two ticks the least delay that is resumed; one reset masks everything, one leaves the
video interface unmasked, and one two other sources, so that the CPU is caught for ever both before
and in the frame loop. In `video` two blocks are the least with
both a full block and a remainder; the queue holds two transfers, so a third shows every
wait. In `cache` stage 1 ends in the middle of a data line and of an instruction line,
with a cell it only reads; files begin in the rest of that line or behind it and share a
line with each other; a block is half an instruction line. In `mkrom` words have 6 bits
(7 for the ELF file's), a byte of the required storage 2, so that the list of 7 required
options ends in the middle of a byte; the boundary of files is 2, that of the ROM 4; a
ROM has at most 28 bytes, which some inputs fill, and other inputs are too long for it
or overflow 32 bits. Of the nine arguments one is of each kind the parser tells apart,
and three are the most the program accepts.

In `compilers` a text file is a good one with every character replaced, with every
character inserted, or cut anywhere, or has up to six entries, so that the array of
strings grows several times; the characters are one or two of each kind the lexer tells
apart, the names of the fields a letter each (the hash is exact, so two fields differ),
and a text has at most 2 characters, which the good file's has not and others exceed. A
picture has 12 pixels of 5 colours, two of which are one when quantised, with a table of
2 and runs of at most 2: the table overflows, runs of both kinds end at the limit, and the
output comes near the size of its array. The font has 2 by 2 characters of 4 by 4 pixels. Dumps
have the real 32 registers and come shorter and longer than the parser wants, with status
codes that differ between the dump and the last one, and without any.

`CHECK_DEADLOCK FALSE` is used where the system really stops: a halted debug build, a
boot that has handed over, a program that has exited.
`video` runs for ever and is checked for deadlock.

Fairness. It is weak but for one. The CPU executes as long as it can (`WF_vars(Search)`,
`WF_vars(Cpu)`; in `Stage1`, where interrupts take it away again and again, it is strong:
the service routine is much shorter than a field, so the CPU gets on between two of
them); a PI transfer ends one way or the other (`WF_vars(Pi)`: completed or error, never
promised to succeed); the RSP engine completes what it was given
(`WF_vars(Dma)`); the video interface raises its interrupt every field
(`WF_vars(VBlank)`); the compilers are sequential programs (`WF_vars(Next)`), of which no step
waits for anything. `mkrom` needs none: it has no loop that a property is about. No fairness says
when: a vertical blank may come in the middle of anything, and several may be merged in
one flag.

## Proofs

Assumptions are those of the modules: `AddressSpaceAssumption` (the heap is a non-empty
range above 0 and below 2^32), `RequestAssumption` (requests are not empty, alignments
divide the end of the address space, in-place requests do not wrap), the
`LayoutAssumption` of the memory map and of the framebuffer, the `ConfigAssumption`s of
the build options, `MemoryAssumption` (lines, blocks and files are whole cells),
`ResetAssumption` (masks are sets of sources), and those of the tools: the limits of the ROM
and of an ELF file's fields (`RomAssumption`, `ElfAssumption`), files and command lines of
less than 2^32 bytes (`MkromAssumption`), text files that are sequences of characters
(`TextCompilerAssumption`), pictures that are sequences of pixels and names on a command
line that have a length (`ImageCompilerAssumption`, `FontCompilerAssumption`,
`ToolAssumption`), dumps as stage 0 writes them, over whatever the SRAM held, and a buffer
for their text of no less than the code's 2048 bytes (`SramDumperAssumption`). TLC evaluates them in every run of the module. Where a theorem
needs more than they say, the hypothesis is in its statement.

- `ArenaAllocatorProofs`: `Spec => []TypeOK`, `[]BlocksDisjoint`,
  `[]BlocksInAddressSpace`. Disjointness alone is not inductive: `Push` records a
  block the search found many steps before. `IInv` adds what the search knows on its
  way: the candidate lies in the heap, is aligned and clear of every block
  (`CandidateIsFree`), the search position never passes the end of the heap
  (`SearchInv`), and before a region is measured its start is in no block
  (`RegionStartInv`). The position stays in range because a position below a
  multiple of the alignment is aligned to no more than that multiple
  (`AlignForwardProperties`), and `AddressSpaceEnd` is one.
  For the refinement, `Spec => []BestFitInv` and `Spec => ImplementsHeap`:
  `BestFitInv` says that no usable address before the position leads to a region
  still to come, that the candidate is one of the abstract free regions and that it is
  no larger than any region already passed that holds the request. `NothingSkipped` is
  the heart: between a position and the next usable address there is no other
  usable address, whether it was reached by aligning or by jumping over a block.
- `BootFilesProofs`: `Spec => []TypeOK`, `[]FilesIntactWhenSynchronised`,
  `[]LoaderNotOverwritten`, `[]Stage2NotOverwritten`, `[]FreeIsCounted`. What is in memory
  at the end follows from where the files were put many steps before, so `IInv` carries
  the heaps along: their blocks are in range (`InRange`); every file that had its turn has
  the block of its address in the first heap if stage 1 loads it, in the second one if not
  or if it is the kernel, and two files in one heap do not meet (`Placed`); and what has
  been loaded is still there (`Whole`). `BestFitFits` and `GivenKeeps` are about a request.
- `Stage1Proofs`, the frame loop: `Spec => []TypeOK`, `[]MemoryMatchesState`,
  `[]BootsWhatWasLoaded`. The type of the union depends on the state, so types alone are
  not inductive. `MachineInv` says, for each state, which member is live, which files are
  loaded and checked, and, in a delay, the same of the state behind it (`Reached`,
  `Loading`, `Consistent`); `PiInv`, how far the transfer under way is. Then
  `Spec => []ErrorIsDisplayed`, `[]BootMessageIsSeen`. A message takes three steps to be
  seen: printed, drawn to the back buffer, swapped. `DInv` says where it is at each point
  of the frame loop (`Announced`, `Displayed`, `Shown`); that a delay lasts a frame and that
  a kernel has a block, so that no first frame boots, are what it rests on.
- `Stage1Proofs`, the whole of stage 1: `Stage1Spec => []OnlyAwaitedInterrupts`,
  `Stage1Spec => ImplementsFsm`, and the properties of the frame loop again, now of the
  program that is interrupted. `StartInv` says that the machine is not initialised before
  its turn in `main`, and which sources the mask can hold by then: if all were masked at
  the start, none before `vi_enable` and only the video interface after it. That needs the
  two codings of the mask bit by bit (`BitsAre`, `ViDisableMasks`, `ViEnableUnmasks`). The
  refinement gives the frame loop no signal before the fence is made, and maps every step
  of `main` but the initialisation of the machine to a stutter (`CpuIsFsms`,
  `HardwareIsFsms`, `NextRefines`). It is about steps: the liveness of the loop is not
  carried over, and that of stage 1 is checked by itself.
- `VideoProofs`: under the hypothesis `InitOutlastsDma`, `Spec => []TypeOK`, `[]NoTearing`,
  `[]ScreenIsWhole`, `[]NeverOverrun`, and `[]ContextReady`. A transfer is right only if its
  source still holds what was put there when it ends. `FrameInProgress` therefore says
  what the image will be once the engine has ended what it was given, and that every
  step of the CPU or of the engine leads to the same image (`FrameLeadsToImage`) is the heart of the
  proof; `QueueIsAwaited` and `EngineRests` say when the queue has room. `ContextIsReady` needs no
  hypothesis: what the runaway fill leaves is initialised behind it (`FilledSoFar`).
- `LibraryProofs`: a parse that succeeds has a value for every required option
  (`RequiredIsGiven`). The parser knows that from a bit per option, compared a byte at a
  time and the last byte bit by bit, so the lemma under it is about quotients and
  remainders (`BitIsCompared`). The proofs of all five programs use it. The module also has
  what the compilers' proofs need of recursive functions and sequences. The induction
  theorems of the library take an operator, which the provers cannot instantiate;
  here an induction is over a set of numbers (`Induction`). `Recursion` and `RankedInduction`
  say that an equation in which every call is of a lower rank has a function, and what
  holds of it; from them follow the equations of flattening a sequence of sequences and of
  a sum (`FlattenUnfolds`, `TotalUnfolds`).
- `MkromProofs`, memory: `Spec => []NothingMisused`, `[]NothingLeaks`, for every list of
  options, every command line and every call failing. `IInv` says that exactly what the
  flags, the level and `pc` say is held is held (`HeapMatches`, `LevelMatches`,
  `SliceMatches`), and that what is read of a parse is given (`OptionsGiven`).
- `MkromProofs`, the image: `Spec => []TypeOK`, `[]KernelIsInFile`, `[]RomIsReadable`.
  `RomInv` carries the kernel as it was found in its file, and then the lengths and the header
  they give, to the save; the rest is arithmetic. Each file starts where the padded lengths
  before it end (`StartsAre`), a sum that the measurement found to fit has not wrapped
  (`MeasuredFits`), no two files share a byte (`FilesAreApart`), and so the last copy that
  reaches a byte of the image (`CopiesAre`, `LastCopyIsImage`) is that of the file the
  header has there (`FilesAreThere`). Sums that wrap are excluded by `SumFits` for the image
  and in the statement of `KernelIsInFile` for the kernel.
- `CompilersProofs`, memory: `Spec => []HeapIsSound`, for all four programs. `HeapInv` says
  what is live at each `pc`, what an error leaves and which programs leak (`HeapMatches`,
  `Leaks`); and, while the lexer runs, that the iterator stays in the file (`LexerTypes`)
  and that the array is only ever lost between two entries (`ArrayMatches`), which is why
  nothing is written through its null pointer but the next new string. What the formatter
  reads depends on the slices: where no newline is inside a value and no field is given
  twice they are inside the file, and every character of a text is one the lexer took, all
  of which have a code (`RegularIsReadable`, `CharacterIsConverted`). So `HeapInv` and
  `TextInv` are proved together (`InvariantsHold`).
- `CompilersProofs`, texts: `Spec => []TextIsAsWritten`. A value is cut out of the file
  over many steps, and comments come between them. `SlicesInv` says that the strings
  that are closed have three values in their place behind the iterator, in the order of
  the file, and that in the open one each field has its value, none yet, or the one
  being read, which ends where the iterator is (`StringInv`, `OrderInv`, `ReadingInv`);
  `TextInv` carries that to the save, where no entry is open.
- `CompilersProofs`, dumps: `Spec => []DumpIsRead`, from `DumpInv` (what is shown is what
  was parsed of a dump that is long enough). The rest is about sequences: the place of
  each register in what stage 0 pushed (`StackIs`, `WordsOfDump`), in what is parsed
  (`RegistersOfDump`) and in the rows (`RowsAre`).
- `CompilersProofs`, the output: `Spec => []OutputFits` and `Spec => []SourcesAreAsRead`.
  `OutputInv` carries what the input was and what was made of it to the save; with it go
  `CountsInv`, that no text that is written is empty, whether the lexer was misled or not,
  and `TextInv`. The rest is about the functions, for every input. The compressor is followed by
  rank, from each place where it can be: it writes at most three bytes for two tuples, rounded up
  (`CompressedLength`), and the decompressor restores them (`TuplesAreRestored`,
  `LogoIsDecompressed`), a command at a time. The encoder's color table only gains
  colors (`Grown`), so an index still shows its color in the table that is written at
  the end (`EncoderShows`, `PictureIsShown`). An output is as long as its parts, and has their
  values (`IsOutput`, `PieceFlatten`, `EntriesAre`), which gives the two lengths of
  each formatter (`PictureIsWritten`, `TextIsWritten`, `FontIsWritten`, `DumpFits`). Each
  pixel of the font has its place and its bit (`PlaceIs`, `FontIsShown`).
- `CacheProofs`: `Spec => []TypeOK`; under `DataApart`, `Spec => []OwnDataIsKept`; under
  `DataApart` and `AllByStage1`, `Spec => []KernelSeesFiles` and `[]GoodFilesAreAccepted`.
  `DataApart` says that no line of a file stage 1 loads holds data stage 1 writes;
  `AllByStage1` that nothing is left to stage 2, and the run `cache_stage2` shows why it is
  needed. `IInv` says that a dirty line is one of stage 1's data, and that a cell of a
  file is either still to be invalidated or, in RDRAM and in both caches, as it was
  loaded. `OperatedAreLines` is the arithmetic of `cache.c`: the loop reaches the lines
  that meet the range, and no other.

Only model-checked are the liveness properties (`CallsEnd`, `BootEndsIfMasked`,
`FramesGoOn`, `Exits`) and that `video` never deadlocks, since the prover has neither fairness
nor `ENABLED`.

## Assumptions about the hardware and the build

- A store of the CPU and a transfer are atomic at the granularity of the model.
- The transfers started by the video initialisation have ended when the first frame
  begins (`InitOutlastsDma`): the first clear of a frame does not wait for them
  (`video.c:257`), while the initialisation in between takes longer than they do.
- Files do not change while `mkrom` reads them. The padded lengths of an image add up in 32
  bits (`SumFits`; a length within the alignment of 2^32 would be padded to nothing), and so
  do offset and length of a kernel segment in 64; no check of the code ensures either.
- What `mkrom` has on the disk after a failed save, or after a close whose result it
  ignores (`fs.c:251`), is left open.
- The lexer's array of strings has fewer than 2^31 entries: its capacity does not wrap in the
  model, as `realloc` fails long before.
- Every interrupt is masked when stage 1 starts: of a boot after which another program left
  some unmasked, `OnlyAwaitedInterrupts` and `BootEndsIfMasked` say nothing. Nothing in stage 0
  clears the mask, and with the video interface unmasked `vi_disable` (`interrupt.c:252`)
  unmasks SI, for which the service routine never ends; `cleared` is the condition.
- A delay lasts at least one frame: `CONFIG_DELAY_TICKS` of 0 would wrap at
  `fsm.c:111`, and nothing checks the option.
- No line of a file that stage 1 loads holds data it writes (`DataApart`). The linker
  script of stage 1 puts its heap right behind its `.bss` and not at a line, so the build
  does not ensure it; the run `cache` has files in the rest of such a line, whose data
  stage 1 only reads.
- An in-place request does not wrap the address space (`arena-allocator.c:165`).

## What the properties of the compilers leave out

The code of the four tools has flaws that the properties name and allow, so that they catch
every other one. `HeapIsSound` allows:

- the use of the lexer's array after it could not grow (`lexer.c:38-59`: it doubles for
  nearly every string, and the error is not looked at);
- the report of a failed save as success, in the text and image compilers and in the dumper,
  which show the status of the load; not in the font compiler;
- in the formatter of a text file with a newline inside a value or with a field given twice
  (`irregular`), the code marked unreachable for a character without a code, the newline
  (`formatter.c:183-184`), and reading beyond the file a slice that was counted on from the
  field's first value (`lexer.c:530`, `982`, `formatter.c:229-233`, `298-317`);
- the leaks of the image compiler without memory for its path and of the font compiler
  after a failed save.

`TextIsAsWritten` is about files in which no newline is inside a value
and no field is given twice: a slice counts what the iterator skips, and goes
on from where it was. It also takes a quote before an identifier: `lexer.c:556-560` means to
refuse one, and the value then begins behind it. `DumpIsRead` leaves out `lo` and `hi`, which are shown under each
other's names (`format.c:197` against `stage0.S`). `SourcesAreAsRead`, which compares the
output with the texts and the pictures it was made of, is about the same text files as
`TextIsAsWritten`, and about fonts in black and white: the generator adds up two of a
pixel's three channels. That two pixels of the logo are in their order is checked by
decompressing what was compressed: the comment at `logo.c:50-52` says it the other way round
than the example that follows it, with which the code agrees.

## Not modelled

- Stage 0 beyond the dump of its registers, the start code and the exception vectors:
  sequences of register writes with one order and no decision a property could be about.
- Register accessors (one instruction each) and constant tables: headers, strings, register
  values of the video modes.
- The console's cursor (`fbcon.c`): the model takes the set of cells that hold a character,
  and the limits of lines are checked in debug builds only (`fbcon.c:146`).
- The code of the exception vector, which is written through an uncached address.
- The conversion of integers, the copying and comparing of memory, the checksum's sum: their
  results are inputs of the models that use them.
- The tokenizer of the argument parser: what follows it takes tokens.
- The mapping of `errno`, wording, lines and columns of messages, build scripts, patches.

## If the code grows

Modules join the run of the system they belong to, so that a run stays one question about
one system. What would add most: the cursor of the console, and the arithmetic of the
checksum against a reference.
