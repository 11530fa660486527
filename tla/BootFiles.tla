----------------------------- MODULE BootFiles -----------------------------
(***************************************************************************)
(* Where the boot files go, from the first allocation to the kernel.       *)
(*                                                                         *)
(* Stage 1 gives every boot file an address (fsm.c:160-312), loads the     *)
(* files that lie clear of itself, and leaves the others to stage 2, which *)
(* needs less memory (stage2/file.c:123-147).  It keeps one heap for each  *)
(* stage (stage1/memory.c); both are instances of module Heap, which       *)
(* ArenaAllocator implements.                                              *)
(*                                                                         *)
(* A file is loaded in one step here: Stage1Fsm has the blocks, the DMA    *)
(* and the errors.  RDRAM is a function from addresses to whose bytes they *)
(* hold: "loader" is what stage 1 and stage 2 are made of, the header, the   *)
(* allocations and the stacks included (layout.h:18-128).                  *)
(***************************************************************************)
EXTENDS Integers, FiniteSets

CONSTANTS
    Stage2Start,    \* TUX64_BOOT_LAYOUT_STAGE2_MEMORY_RESERVED
    Stage1Start,    \* tux64_boot_stage1_memory_heap_start, by the linker
    MemoryEnd,      \* RDRAM base plus memory_total
    Page,           \* alignment of the initramfs, 4096
    DmaAlign,       \* alignment of the command line, 8
    Headers         \* boot headers: lengths of the files, place of the kernel

Optional == {"initramfs", "command_line"}
Files == {"kernel"} \cup Optional

(* Stage 2 is loaded below stage 1 (layout.h:88-124), so its heap starts
   lower; alignments divide the size of RDRAM.  The kernel is never empty
   (load.h:60-64) and no longer in the file than in memory (kernel.h). *)
ASSUME LayoutAssumption ==
    /\ Stage2Start \in Nat \ {0} /\ Stage1Start \in Nat /\ MemoryEnd \in Nat
    /\ Stage2Start < Stage1Start /\ Stage1Start < MemoryEnd
    /\ Page \in Nat \ {0} /\ DmaAlign \in Nat \ {0}
    /\ Headers \subseteq [addr_load : Nat, memory : Nat, length : [Files -> Nat]]
    /\ \A h \in Headers : /\ h.length["kernel"] > 0
                          /\ h.length["kernel"] <= h.memory

VARIABLES
    header,     \* the boot header of this ROM
    heap1,      \* blocks of the stage 1 heap
    heap2,      \* blocks of the stage 2 heap
    free,       \* free memory that stage 1 counts
    status,     \* load_info.status, the files stage 1 loads
    address,    \* tux64_boot_load_allocations
    phase,      \* "allocate", "stage1", "stage2", "kernel" or "halted"
    file,       \* the file it is the turn of
    rdram       \* whose bytes each address holds

vars == <<header, heap1, heap2, free, status, address, phase, file, rdram>>

Heap == INSTANCE Heap WITH
            HeapStart <- Stage1Start, HeapEnd <- MemoryEnd,
            InplaceRequests <- {}, AllocRequests <- {},
            blocks <- heap1, result <- 0

Length(f) == header.length[f]
Alignment(f) == IF f = "initramfs" THEN Page ELSE DmaAlign

(* The bytes a file occupies once it is loaded. *)
Region(f) == address[f] .. address[f] + Length(f) - 1

After(f) == IF f = "kernel" THEN "initramfs" ELSE "command_line"

(* What the rest of the boot does not change. *)
allocations == <<heap1, heap2, free, status, address>>

-----------------------------------------------------------------------------

Init ==
    /\ header \in Headers
    /\ heap1 = {} /\ heap2 = {}
    /\ free = MemoryEnd - Stage1Start
    /\ status = {}
    /\ address = [f \in Files |-> 0]
    /\ phase = "allocate" /\ file = "kernel"
    /\ rdram = [a \in 0 .. MemoryEnd - 1 |->
                   IF a < Stage1Start THEN "loader" ELSE "free"]

(* tux64_boot_stage1_fsm_allocate_boot_files goes on with the next file, then
   stage 1 starts to load; it halts when there is no memory for a file. *)
Allocated(f) ==
    IF f = "command_line"
    THEN phase' = "stage1" /\ file' = "kernel"
    ELSE phase' = phase /\ file' = After(f)

OutOfMemory == phase' = "halted" /\ UNCHANGED file

(* The definitions named Faulty... are variants with a plausible bug, which the
   properties of this module must tell from the code. *)

FaultyAllocateKernel ==
    LET block == Heap!Block(header.addr_load, Length("kernel"))
        ok == Heap!Fits(block, heap1, Stage1Start, MemoryEnd)
    IN  /\ phase = "allocate" /\ file = "kernel"
        /\ heap1' = IF ok THEN heap1 \cup {block} ELSE heap1
        /\ heap2' = heap2 \cup {block}
        /\ free' = IF ok THEN free - Length("kernel") ELSE free
        /\ status' = IF ok THEN status \cup {"kernel"} ELSE status
        /\ address' = [address EXCEPT !["kernel"] = header.addr_load]
        /\ Allocated("kernel")
        /\ UNCHANGED <<header, rdram>>

(* The kernel has a fixed place, asked for in both heaps. *)
AllocateKernel ==
    LET block == Heap!Block(header.addr_load, Length("kernel"))
        ok1 == Heap!Fits(block, heap1, Stage1Start, MemoryEnd)
        ok2 == Heap!Fits(block, heap2, Stage2Start, MemoryEnd)
    IN  /\ phase = "allocate" /\ file = "kernel"
        /\ heap1' = IF ok1 THEN heap1 \cup {block} ELSE heap1
        /\ heap2' = IF ok2 THEN heap2 \cup {block} ELSE heap2
        /\ free' = IF ok1 THEN free - Length("kernel") ELSE free
        /\ status' = IF ok1 THEN status \cup {"kernel"} ELSE status
        /\ address' = [address EXCEPT !["kernel"] = header.addr_load]
        /\ IF ok1 \/ ok2 THEN Allocated("kernel") ELSE OutOfMemory
        /\ UNCHANGED <<header, rdram>>

(* An empty file needs no memory and counts as loaded by stage 1. *)
SkipEmpty(f) ==
    /\ phase = "allocate" /\ file = f
    /\ Length(f) = 0
    /\ status' = status \cup {f}
    /\ Allocated(f)
    /\ UNCHANGED <<header, heap1, heap2, free, address, rdram>>

(* The places a heap may give a file, or 0 when it has none. *)
Places(f, heap, start) ==
    LET B == Heap!BestFit(Length(f), Alignment(f), heap, start, MemoryEnd)
    IN  IF B = {} THEN {0} ELSE {q.start : q \in B}

FaultyTaken(f, heap, a) == heap

Taken(f, heap, a) ==
    IF a = 0 THEN heap ELSE heap \cup {Heap!Block(a, Length(f))}

FaultyAllocateOptional(f) ==
    /\ phase = "allocate" /\ file = f
    /\ Length(f) > 0
    /\ \E a1 \in Places(f, heap1, Stage1Start), a2 \in Places(f, heap2, Stage2Start) :
          /\ heap1' = Taken(f, heap1, a1)
          /\ heap2' = Taken(f, heap2, a2)
          /\ free' = free - Length(f)
          /\ status' = IF a1 # 0 THEN status \cup {f} ELSE status
          /\ address' = [address EXCEPT ![f] = IF a1 # 0 THEN a1 ELSE a2]
          /\ IF a1 # 0 \/ a2 # 0 THEN Allocated(f) ELSE OutOfMemory
    /\ UNCHANGED <<header, rdram>>

(* An optional file is given a block of both heaps, each of which chooses for
   itself; the block of stage 1 is the one used when there is one. *)
AllocateOptional(f) ==
    /\ phase = "allocate" /\ file = f
    /\ Length(f) > 0
    /\ \E a1 \in Places(f, heap1, Stage1Start), a2 \in Places(f, heap2, Stage2Start) :
          /\ heap1' = Taken(f, heap1, a1)
          /\ heap2' = Taken(f, heap2, a2)
          /\ free' = IF a1 # 0 THEN free - Length(f) ELSE free
          /\ status' = IF a1 # 0 THEN status \cup {f} ELSE status
          /\ address' = [address EXCEPT ![f] = IF a1 # 0 THEN a1 ELSE a2]
          /\ IF a1 # 0 \/ a2 # 0 THEN Allocated(f) ELSE OutOfMemory
    /\ UNCHANGED <<header, rdram>>

-----------------------------------------------------------------------------

FaultyLoad(f) ==
    LET end == address[f] + ((Length(f) + Page - 1) \div Page) * Page
    IN  rdram' = [a \in DOMAIN rdram \cup (address[f] .. end - 1) |->
                      IF address[f] <= a /\ a < end THEN f ELSE rdram[a]]

Load(f) == rdram' = [a \in DOMAIN rdram |-> IF a \in Region(f) THEN f ELSE rdram[a]]

(* Stage 1 hands over to the kernel when it has loaded every file, otherwise
   to stage 2 (fsm.c:449-453). *)
Stage1Loaded(f) ==
    IF f # "command_line"
    THEN phase' = phase /\ file' = After(f)
    ELSE IF status = Files
         THEN phase' = "kernel" /\ UNCHANGED file
         ELSE phase' = "stage2" /\ file' = "kernel"

FaultyStage1Load ==
    /\ phase = "stage1"
    /\ IF address[file] # 0 THEN Load(file) ELSE UNCHANGED rdram
    /\ Stage1Loaded(file)
    /\ UNCHANGED <<header, allocations>>

Stage1Load ==
    /\ phase = "stage1"
    /\ IF address[file] # 0 /\ file \in status THEN Load(file) ELSE UNCHANGED rdram
    /\ Stage1Loaded(file)
    /\ UNCHANGED <<header, allocations>>

(* Stage 2 loads what stage 1 did not, then starts the kernel. *)
Stage2Load ==
    /\ phase = "stage2"
    /\ IF file \notin status /\ Length(file) > 0 THEN Load(file) ELSE UNCHANGED rdram
    /\ IF file = "command_line"
       THEN phase' = "kernel" /\ UNCHANGED file
       ELSE phase' = phase /\ file' = After(file)
    /\ UNCHANGED <<header, allocations>>

Next ==
    \/ AllocateKernel
    \/ \E f \in Optional : SkipEmpty(f) \/ AllocateOptional(f)
    \/ Stage1Load
    \/ Stage2Load

Spec == Init /\ [][Next]_vars

-----------------------------------------------------------------------------

TypeOK ==
    /\ header \in Headers
    /\ \A b \in heap1 \cup heap2 : b \in [start : Nat, end : Nat]
    /\ free \in Int
    /\ status \subseteq Files
    /\ address \in [Files -> Nat]
    /\ phase \in {"allocate", "stage1", "stage2", "kernel", "halted"}
    /\ file \in Files
    /\ rdram \in [0 .. MemoryEnd - 1 -> Files \cup {"loader", "free"}]

Intact(f) == \A a \in Region(f) : a \in DOMAIN rdram /\ rdram[a] = f

Present == {f \in Files : Length(f) > 0}

(* The two heaps agree on where the files are: stage 1 loads them all, or it
   loads none but, perhaps, the kernel. *)
Synchronised == Present \subseteq status \/ Present \cap Optional \cap status = {}

(* A kernel that is started finds every boot file where it was told, whole,
   whenever the two heaps agree. *)
FilesIntactWhenSynchronised ==
    phase = "kernel" /\ Synchronised => \A f \in Present : Intact(f)

(* Stage 1 never loads a file over itself or over the place of stage 2. *)
LoaderNotOverwritten ==
    phase \in {"allocate", "stage1"} =>
        \A a \in 0 .. Stage1Start - 1 : rdram[a] = "loader"

(* What stage 2 runs on, below its heap, survives to the kernel: the header, the
   allocations and the arguments of the kernel are among it. *)
Stage2NotOverwritten ==
    \A a \in 0 .. Stage2Start - 1 : rdram[a] = "loader"

(* The memory counted as free is never less than none, and is what the blocks
   of the stage 1 heap leave of it. *)
FreeIsCounted ==
    /\ free >= 0
    /\ free = MemoryEnd - Stage1Start
                - Cardinality(UNION {b.start .. b.end - 1 : b \in heap1})

(* "The amount of memory required by the kernel to execute" (kernel.h) is its
   own: no file is put where the kernel will have its memory. *)
KernelMemoryIsFree ==
    phase = "kernel" /\ Synchronised =>
        \A f \in Present \cap Optional :
            Region(f) \cap (header.addr_load .. header.addr_load + header.memory - 1) = {}
=============================================================================
