------------------------------- MODULE Cache -------------------------------
(***************************************************************************)
(* What the CPU reads after a file was loaded behind its back.             *)
(*                                                                         *)
(* PI DMA writes to RDRAM; the CPU reads and fetches through its data and  *)
(* instruction caches, which know nothing of it.  Stage 1 invalidates what *)
(* it has loaded, block by block (stage1/file.c:36-79); stage 2 does not   *)
(* (stage2/file.c:49-74).  Memory is cut in cells of 8 bytes, the unit of  *)
(* DMA: a data line has two, an instruction line four.                     *)
(***************************************************************************)
EXTENDS Naturals, Sequences, Functions

CONSTANTS
    MemoryCells,    \* cells of RDRAM
    DataLine,       \* cells of a line of each cache
    InstructionLine,
    Block,          \* cells of a block of stage 1, 4 KiB
    Code, Data,     \* cells of stage 1: what it executes or reads, and what it writes
    Boots           \* the files stage 1 and then stage 2 load

Cells == 0 .. MemoryCells - 1
Own == Code \cup Data
FileRecords == [start : Nat, cells : Nat \ {0}]

(* The kernel and the files are disjoint (BootFiles); those of stage 1 lie
   clear of it. *)
ASSUME MemoryAssumption ==
    /\ DataLine \in Nat \ {0} /\ InstructionLine \in Nat \ {0} /\ Block \in Nat \ {0}
    /\ MemoryCells \in Nat
    /\ MemoryCells % DataLine = 0 /\ MemoryCells % InstructionLine = 0
    /\ Own \subseteq Cells /\ Code \cap Data = {}
    /\ \A b \in Boots :
          /\ {b.stage1, b.stage2} \subseteq Seq(FileRecords)
          /\ \A f \in Range(b.stage1) \cup Range(b.stage2) : f.start + f.cells <= MemoryCells

VARIABLES
    boot,       \* the files of this boot
    checksum,   \* tux64_boot_flag_checksum
    stage,      \* the stage that runs
    pc,         \* "load", "dma", "invalidate", "digest", "kernel" or "halted"
    todo,       \* files this stage has still to load
    position,   \* cells of the first of them that are loaded
    rdram,
    dcache,     \* cached lines, by first cell: their cells, and are they dirty?
    icache,
    written     \* what stage 1 wrote last to each cell of its data

caches == <<dcache, icache>>
program == <<boot, checksum, stage, todo, position>>
vars == <<program, pc, rdram, caches, written>>

LineOf(c, n) == c - (c % n)
Line(l, n) == l .. l + n - 1

(* What the CPU reads from, and executes at, a cell. *)
Read(c) ==
    LET l == LineOf(c, DataLine)
    IN  IF l \in DOMAIN dcache THEN dcache[l].cells[c] ELSE rdram[c]
Fetched(c) ==
    LET l == LineOf(c, InstructionLine)
    IN  IF l \in DOMAIN icache THEN icache[l][c] ELSE rdram[c]

(* The definitions named Faulty... are variants with a plausible bug, which the
   properties of this module must tell from the code. *)

FaultyOperated(address, length, n) ==
    {LineOf(address, n) + i * n : i \in 0 .. (length - 1) \div n}

(* The lines tux64_boot_cache_operation applies an operation to. *)
Operated(address, length, n) ==
    LET delta == address % n
        whole == (length + delta) \div n
        rest == (length + delta) % n
    IN  {address - delta + i * n : i \in 0 .. (IF rest # 0 THEN whole ELSE whole - 1)}

(* A read that misses fills its line from RDRAM. *)
FilledData(lines) ==
    [l \in DOMAIN dcache \cup lines |->
        IF l \in DOMAIN dcache THEN dcache[l]
        ELSE [dirty |-> FALSE, cells |-> [c \in Line(l, DataLine) |-> rdram[c]]]]
-----------------------------------------------------------------------------
(* Stage 0 has left the caches empty.  Nothing but stage 1 is in memory. *)
Init ==
    /\ boot \in Boots /\ checksum \in BOOLEAN
    /\ stage = 1 /\ pc = "load" /\ todo = boot.stage1 /\ position = 0
    /\ rdram = [c \in Cells |-> IF c \in Code THEN "code" ELSE "old"]
    /\ dcache = << >> /\ icache = << >>
    /\ written = [c \in Data |-> "old"]

(* Stage 1, its interrupt handler included, uses its own memory at any time. *)
ReadOwn ==
    /\ stage = 1 /\ pc \notin {"kernel", "halted"}
    /\ \E c \in Own : dcache' = FilledData({LineOf(c, DataLine)})
    /\ UNCHANGED <<program, pc, rdram, icache, written>>

WriteOwn ==
    /\ stage = 1 /\ pc \notin {"kernel", "halted"}
    /\ \E c \in Data :
          LET l == LineOf(c, DataLine)
          IN  /\ dcache' = [FilledData({l}) EXCEPT ![l].dirty = TRUE, ![l].cells[c] = "new"]
              /\ written' = [written EXCEPT ![c] = "new"]
    /\ UNCHANGED <<program, pc, rdram, icache>>

Fetch ==
    /\ stage = 1 /\ pc \notin {"kernel", "halted"}
    /\ \E l \in {LineOf(c, InstructionLine) : c \in Code} \ DOMAIN icache :
          icache' = [k \in DOMAIN icache \cup {l} |->
                        IF k = l THEN [c \in Line(l, InstructionLine) |-> rdram[c]]
                        ELSE icache[k]]
    /\ UNCHANGED <<program, pc, rdram, dcache, written>>

(* Another address takes the place of a line. *)
EvictData ==
    \E l \in DOMAIN dcache :
        /\ rdram' = IF dcache[l].dirty
                    THEN [c \in Cells |-> IF c \in Line(l, DataLine) THEN dcache[l].cells[c]
                                          ELSE rdram[c]]
                    ELSE rdram
        /\ dcache' = Restrict(dcache, DOMAIN dcache \ {l})
        /\ UNCHANGED <<program, pc, icache, written>>

EvictInstruction ==
    /\ \E l \in DOMAIN icache : icache' = Restrict(icache, DOMAIN icache \ {l})
    /\ UNCHANGED <<program, pc, rdram, dcache, written>>
-----------------------------------------------------------------------------
File == Head(todo)

(* Stage 1 loads in blocks, stage 2 in one transfer. *)
BlockStart == File.start + position
BlockCells ==
    IF stage = 1 /\ File.cells - position > Block THEN Block ELSE File.cells - position
BlockRange == BlockStart .. BlockStart + BlockCells - 1

StartDma ==
    /\ pc = "load" /\ todo # << >>
    /\ pc' = "dma"
    /\ UNCHANGED <<program, rdram, caches, written>>

(* The engine writes to RDRAM; the CPU waits for it to be idle. *)
Transfer ==
    /\ pc = "dma"
    /\ rdram' = [c \in Cells |-> IF c \in BlockRange THEN "file" ELSE rdram[c]]
    /\ pc' = IF stage = 1 THEN "invalidate" ELSE "digest"
    /\ UNCHANGED <<program, caches, written>>

FaultyInvalidateLines ==
    /\ pc = "invalidate"
    /\ icache' = Restrict(icache,
           DOMAIN icache \ Operated(BlockStart, BlockCells, DataLine))
    /\ dcache' = Restrict(dcache,
           DOMAIN dcache \ Operated(BlockStart, BlockCells, InstructionLine))
    /\ pc' = "digest"
    /\ UNCHANGED <<program, rdram, written>>

FaultyInvalidate ==
    /\ pc = "invalidate"
    /\ icache' = Restrict(icache,
           DOMAIN icache \ Operated(BlockStart, BlockCells, InstructionLine))
    /\ pc' = "digest"
    /\ UNCHANGED <<program, rdram, dcache, written>>

(* tux64_boot_cache_invalidate: a data line is dropped with what the CPU has
   written to it. *)
Invalidate ==
    /\ pc = "invalidate"
    /\ icache' = Restrict(icache,
           DOMAIN icache \ Operated(BlockStart, BlockCells, InstructionLine))
    /\ dcache' = Restrict(dcache,
           DOMAIN dcache \ Operated(BlockStart, BlockCells, DataLine))
    /\ pc' = "digest"
    /\ UNCHANGED <<program, rdram, written>>

FaultyNextBlock ==
    IF position + Block = File.cells
    THEN position' = 0 /\ todo' = Tail(todo)
    ELSE position' = position + BlockCells /\ UNCHANGED todo

NextBlock ==
    IF position + BlockCells = File.cells
    THEN position' = 0 /\ todo' = Tail(todo)
    ELSE position' = position + BlockCells /\ UNCHANGED todo

(* The checksum is digested through the data cache.  The code compares it after
   the last block: a block that read wrong will make it halt. *)
Digest ==
    /\ pc = "digest"
    /\ dcache' = IF checksum THEN FilledData({LineOf(c, DataLine) : c \in BlockRange})
                 ELSE dcache
    /\ IF checksum /\ \E c \in BlockRange : Read(c) # "file"
       THEN pc' = "halted" /\ UNCHANGED <<todo, position>>
       ELSE pc' = "load" /\ NextBlock
    /\ UNCHANGED <<boot, checksum, stage, rdram, icache, written>>

ExecStage2 ==
    /\ pc = "load" /\ todo = << >>
    /\ stage = 1 /\ boot.stage2 # << >>
    /\ stage' = 2 /\ todo' = boot.stage2
    /\ UNCHANGED <<boot, checksum, pc, position, rdram, caches, written>>

ExecKernel ==
    /\ pc = "load" /\ todo = << >>
    /\ stage = 2 \/ boot.stage2 = << >>
    /\ pc' = "kernel"
    /\ UNCHANGED <<program, rdram, caches, written>>

Next ==
    \/ ReadOwn \/ WriteOwn \/ Fetch \/ EvictData \/ EvictInstruction
    \/ StartDma \/ Transfer \/ Invalidate \/ Digest \/ ExecStage2 \/ ExecKernel

Spec == Init /\ [][Next]_vars
-----------------------------------------------------------------------------
Values == {"code", "old", "new", "file"}

(* Every variable has its type; a line is cached from its first cell, and the
   file that is loaded has blocks left. *)
TypeOK ==
    /\ boot \in Boots /\ checksum \in BOOLEAN /\ stage \in {1, 2}
    /\ pc \in {"load", "dma", "invalidate", "digest", "kernel", "halted"}
    /\ position \in Nat
    /\ IF todo = << >> THEN position = 0 ELSE position < File.cells
    /\ rdram \in [Cells -> Values]
    /\ \A l \in DOMAIN dcache :
          /\ l \in Cells /\ l % DataLine = 0
          /\ dcache[l] \in [dirty : BOOLEAN, cells : [Line(l, DataLine) -> Values]]
    /\ \A l \in DOMAIN icache :
          /\ l \in Cells /\ l % InstructionLine = 0
          /\ icache[l] \in [Line(l, InstructionLine) -> Values]
    /\ written \in [Data -> Values]

FileCells ==
    {c \in Cells : \E f \in Range(boot.stage1) \cup Range(boot.stage2) :
                       f.start <= c /\ c < f.start + f.cells}

(* The kernel is started on the bytes that were loaded, both for what it reads
   and for what it executes, however the files share lines with each other
   and whatever was cached before ("to prevent unrelated caches to load
   garbage", stage1/file.c:57). *)
KernelSeesFiles ==
    pc = "kernel" => \A c \in FileCells : Read(c) = "file" /\ Fetched(c) = "file"

(* Every transfer of this model is good, so no checksum fails: what is digested
   is what was transferred. *)
GoodFilesAreAccepted == pc # "halted"

(* Loading files loses nothing that stage 1 has written to its own memory: the
   caches are invalidated "in the range specified" (cache.h:24-26). *)
OwnDataIsKept == stage = 1 => \A c \in Data : Read(c) = written[c]
=============================================================================
