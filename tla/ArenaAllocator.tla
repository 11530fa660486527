--------------------------- MODULE ArenaAllocator ---------------------------
(***************************************************************************)
(* The arena allocator of boot/stage1/arena-allocator.c, loop by loop.     *)
(*                                                                         *)
(* tux64_boot_stage1_arena_allocator_alloc searches the address space for  *)
(* the smallest free region; its two nested loops are steps here:          *)
(*   "free_space_start"  one turn of the do loop of ..._free_space_start   *)
(*   "free_space_end"    the rest of one turn of the do loop of ..._alloc  *)
(*   "push"              what follows that loop                            *)
(*   "halted"            tux64_boot_halt(), debug builds only              *)
(* alloc_inplace has no search and is one step.                            *)
(***************************************************************************)
EXTENDS Integers, Sequences, FiniteSetsExt

CONSTANTS
    AddressSpaceStart,  \* bounds given to ..._initialize
    AddressSpaceEnd,
    MaxAllocations,     \* TUX64_BOOT_STAGE1_ARENA_ALLOCATOR_MAX_ALLOCATIONS
    Debug,              \* TUX64_BOOT_CONFIG_DEBUG
    WordSize,           \* 2^32: addresses and sizes are Tux64UInt32
    InplaceRequests,    \* the [address, bytes] callers ask for
    AllocRequests       \* the [bytes, alignment] callers ask for

(* The heaps start above address 0, end at the end of RDRAM (a multiple of
   every alignment the bootloader uses) and lie below the end of the address
   space. *)
ASSUME AddressSpaceAssumption ==
    /\ AddressSpaceStart \in Nat \ {0}
    /\ AddressSpaceEnd \in Nat
    /\ AddressSpaceStart < AddressSpaceEnd
    /\ WordSize \in Nat
    /\ AddressSpaceEnd < WordSize

(* Empty files are not allocated (fsm.c:235).  An in-place request names a
   range of addresses (arena-allocator.h:48): the end it computes, start plus
   bytes, must not wrap, which alloc_inplace does not check. *)
ASSUME RequestAssumption ==
    /\ InplaceRequests \subseteq
           [address : 0 .. WordSize - 1, bytes : 1 .. WordSize - 1]
    /\ AllocRequests \subseteq
           [bytes : 1 .. WordSize - 1, alignment : 1 .. WordSize - 1]
    /\ \A r \in AllocRequests : AddressSpaceEnd % r.alignment = 0
    /\ \A r \in InplaceRequests : r.address + r.bytes < WordSize

ASSUME ConfigAssumption ==
    /\ MaxAllocations \in Nat
    /\ Debug \in BOOLEAN

VARIABLES
    blocks,             \* blocks[1 .. blocks_allocated]
    pc,                 \* where the allocator is, "idle" between two calls
    bytes,              \* arguments of the alloc call in progress
    alignment,
    free_region_start,  \* locals of ..._alloc
    alloc_start,
    alloc_end,
    result              \* address returned by the last call, 0 for a refusal

args == <<bytes, alignment>>
locals == <<free_region_start, alloc_start, alloc_end>>
vars == <<blocks, pc, args, locals, result>>

(* A caller of a release build makes no request once the array is full
   (arena-allocator.c:21-23); a debug build checks. *)
MayCall == pc = "idle" /\ (Debug \/ Len(blocks) < MaxAllocations)

-----------------------------------------------------------------------------

(* Addition of two Tux64UInt32. *)
Plus(a, b) == IF a + b < WordSize THEN a + b ELSE a + b - WordSize

(* tux64_math_align_forward_uint32 *)
CeilDivide(n, d) == IF n = 0 THEN 0 ELSE 1 + (n - 1) \div d
AlignForward(value, align) == CeilDivide(value, align) * align

(* The definitions named Faulty... are variants with a plausible bug, which the
   properties of this module must tell from the code. *)

(* The blocks in use that hold address a. *)
FaultyBlocksAt(a) ==
    {i \in DOMAIN blocks : a >= blocks[i].start /\ a <= blocks[i].end}

BlocksAt(a) ==
    {i \in DOMAIN blocks : a >= blocks[i].start /\ a < blocks[i].end}

FreeSpaceEnd(a) ==
    Min({AddressSpaceEnd} \cup
        {blocks[i].start : i \in {j \in DOMAIN blocks : blocks[j].start > a}})

(* The code calls the test regions_overlap; it is true when the second region
   begins no earlier than the first one ends. *)
FaultyExcludes(lhs_end, rhs_start) == rhs_start >= lhs_end - 1

Excludes(lhs_end, rhs_start) == rhs_start >= lhs_end

RegionExcludesBlock(block, start, end) ==
    IF start < block.start
    THEN Excludes(end, block.start)
    ELSE Excludes(block.end, start)

RegionIsFree(start, end) ==
    \A i \in DOMAIN blocks : RegionExcludesBlock(blocks[i], start, end)

FaultyRegionIsWithinAddressSpace(start, end) == start >= AddressSpaceStart

RegionIsWithinAddressSpace(start, end) ==
    start >= AddressSpaceStart /\ end <= AddressSpaceEnd

FaultyPushBlock(start, end) ==
    /\ blocks' = Append(blocks, [start |-> start, end |-> end])
    /\ result' = start
    /\ pc' = "idle"

(* Records a block and returns its start to the caller. *)
PushBlock(start, end) ==
    IF Debug /\ Len(blocks) = MaxAllocations
    THEN pc' = "halted" /\ UNCHANGED <<blocks, result>>
    ELSE /\ blocks' = Append(blocks, [start |-> start, end |-> end])
         /\ result' = start
         /\ pc' = "idle"

Refuse == result' = 0 /\ pc' = "idle" /\ UNCHANGED blocks

-----------------------------------------------------------------------------

Init ==
    /\ blocks = << >>
    /\ pc = "idle"
    /\ bytes = 0 /\ alignment = 1
    /\ free_region_start = 0 /\ alloc_start = 0 /\ alloc_end = 0
    /\ result = 0

AllocInplace(r) ==
    LET end == Plus(r.address, r.bytes)
    IN  /\ MayCall
        /\ IF RegionIsWithinAddressSpace(r.address, end) /\ RegionIsFree(r.address, end)
           THEN PushBlock(r.address, end)
           ELSE Refuse
        /\ UNCHANGED <<args, locals>>

Alloc(r) ==
    /\ MayCall
    /\ bytes' = r.bytes
    /\ alignment' = r.alignment
    /\ free_region_start' = AddressSpaceStart
    /\ alloc_start' = 0
    /\ alloc_end' = 0
    /\ pc' = "free_space_start"
    /\ UNCHANGED <<blocks, result>>

(* Aligning forward may land inside a block: start again from its end. *)
FreeSpaceStart ==
    LET a == AlignForward(free_region_start, alignment)
    IN  /\ pc = "free_space_start"
        /\ IF BlocksAt(a) = {}
           THEN /\ free_region_start' = a
                /\ pc' = "free_space_end"
           ELSE LET block == blocks[Min(BlocksAt(a))]
                IN  /\ free_region_start' = block.end
                    /\ pc' = IF block.end = AddressSpaceEnd
                             THEN "free_space_end" ELSE "free_space_start"
        /\ UNCHANGED <<blocks, args, alloc_start, alloc_end, result>>

(* Best fit: keep the first of the smallest regions that are large enough. *)
WorstFit(size) ==
    size >= bytes /\ (alloc_start = 0 \/ size > alloc_end - alloc_start)

Better(size) ==
    size >= bytes /\ (alloc_start = 0 \/ size < alloc_end - alloc_start)

ConsiderRegion ==
    LET end == FreeSpaceEnd(free_region_start)
        better == Better(end - free_region_start)
    IN  /\ pc = "free_space_end"
        /\ alloc_start' = IF better THEN free_region_start ELSE alloc_start
        /\ alloc_end' = IF better THEN end ELSE alloc_end
        /\ free_region_start' = end
        /\ pc' = IF end = AddressSpaceEnd THEN "push" ELSE "free_space_start"
        /\ UNCHANGED <<blocks, args, result>>

(* The arguments and locals of a call end with it. *)
Return ==
    /\ bytes' = 0 /\ alignment' = 1
    /\ free_region_start' = 0 /\ alloc_start' = 0 /\ alloc_end' = 0

Push ==
    /\ pc = "push"
    /\ IF alloc_start = 0
       THEN Refuse
       ELSE PushBlock(alloc_start, Plus(alloc_start, bytes))
    /\ Return

(* The steps of a call in progress. *)
Search == FreeSpaceStart \/ ConsiderRegion \/ Push

Next ==
    \/ \E r \in InplaceRequests : AllocInplace(r)
    \/ \E r \in AllocRequests : Alloc(r)
    \/ Search

(* A call runs to its end: nothing preempts the allocator for good. *)
Fairness == WF_vars(Search)

Spec == Init /\ [][Next]_vars /\ Fairness

-----------------------------------------------------------------------------

TypeOK ==
    /\ blocks \in Seq([start : Nat, end : Nat])
    /\ Len(blocks) <= MaxAllocations
    /\ pc \in {"idle", "free_space_start", "free_space_end", "push", "halted"}
    /\ bytes \in Nat /\ alignment \in Nat \ {0}
    /\ free_region_start \in Nat /\ alloc_start \in Nat /\ alloc_end \in Nat
    /\ result \in Nat

(* No two blocks share an address: region_is_free, and the search for free
   space with its jumps over blocks, never hand out memory twice. *)
BlocksDisjoint ==
    \A i, j \in DOMAIN blocks :
        i # j => \/ blocks[i].end <= blocks[j].start
                 \/ blocks[j].end <= blocks[i].start

(* "All allocations will return addresses in the range" of the address space
   (arena-allocator.h:36-37), to their last byte. *)
BlocksInAddressSpace ==
    \A i \in DOMAIN blocks :
        /\ AddressSpaceStart <= blocks[i].start
        /\ blocks[i].start < blocks[i].end
        /\ blocks[i].end <= AddressSpaceEnd

(* Every call ends: neither loop of the search runs for ever, whatever the
   blocks and the alignment. *)
CallsEnd == [](pc # "idle" => <>(pc \in {"idle", "halted"}))

-----------------------------------------------------------------------------

BlockSet == {blocks[i] : i \in DOMAIN blocks}

(* The allocator implements the heap of module Heap: a search of many steps is
   one atomic best-fit allocation to its caller, which is refused only when
   no free region holds it. *)
H == INSTANCE Heap WITH
        HeapStart <- AddressSpaceStart,
        HeapEnd <- AddressSpaceEnd,
        blocks <- BlockSet

ImplementsHeap == H!Spec

-----------------------------------------------------------------------------

(* What the search has established, as an invariant that is inductive. *)

InBlock(a, i) == blocks[i].start <= a /\ a < blocks[i].end

(* The candidate kept so far is room for the request: inside the heap, aligned
   and clear of every block. *)
CandidateIsFree ==
    alloc_start # 0 =>
        /\ AddressSpaceStart <= alloc_start
        /\ alloc_start + bytes <= alloc_end
        /\ alloc_end <= AddressSpaceEnd
        /\ alloc_start % alignment = 0
        /\ \A i \in DOMAIN blocks :
               blocks[i].end <= alloc_start \/ alloc_end <= blocks[i].start

SearchInv ==
    pc \in {"free_space_start", "free_space_end", "push"} =>
        /\ Debug \/ Len(blocks) < MaxAllocations
        /\ bytes > 0
        /\ AddressSpaceEnd % alignment = 0
        /\ AddressSpaceStart <= free_region_start
        /\ free_region_start <= AddressSpaceEnd
        /\ CandidateIsFree

(* When the search looks for the end of a region, its start is usable, or the
   address space is exhausted. *)
RegionStartInv ==
    pc = "free_space_end" =>
        \/ free_region_start = AddressSpaceEnd
        \/ /\ free_region_start % alignment = 0
           /\ \A i \in DOMAIN blocks : ~InBlock(free_region_start, i)

IInv ==
    /\ TypeOK
    /\ BlocksDisjoint
    /\ BlocksInAddressSpace
    /\ SearchInv
    /\ RegionStartInv

(* Why the search is best fit: it has left no region behind, and the candidate
   is a region no larger than any it has left behind that holds the request. *)
UsableSet == H!Usable(alignment, BlockSet, AddressSpaceStart, AddressSpaceEnd)
RegionSet == H!FreeRegions(alignment, BlockSet, AddressSpaceStart, AddressSpaceEnd)

BestFitInv ==
    pc \in {"free_space_start", "free_space_end", "push"} =>
        /\ [bytes |-> bytes, alignment |-> alignment] \in AllocRequests
        /\ pc = "push" => free_region_start = AddressSpaceEnd
        /\ \A t \in UsableSet :
               t < free_region_start => FreeSpaceEnd(t) <= free_region_start
        /\ alloc_start # 0 =>
               [start |-> alloc_start, end |-> alloc_end] \in RegionSet
        /\ \A q \in RegionSet :
               q.start < free_region_start /\ H!Size(q) >= bytes =>
                   alloc_start # 0 /\ alloc_end - alloc_start <= H!Size(q)
=============================================================================
