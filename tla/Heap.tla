-------------------------------- MODULE Heap --------------------------------
(***************************************************************************)
(* What a boot heap promises its callers, whatever way it is implemented   *)
(* (boot/stage1/arena-allocator.h).  A heap hands out blocks of the        *)
(* address range Start .. End-1 and never takes one back.  A block is      *)
(* asked for either at a fixed address or anywhere with an alignment; each *)
(* request is one atomic step.                                             *)
(*                                                                         *)
(* The operators are also used by BootFiles, which keeps two heaps.       *)
(***************************************************************************)
EXTENDS Integers, FiniteSets, FiniteSetsExt

CONSTANTS
    HeapStart,          \* first address of the heap
    HeapEnd,            \* first address after the heap
    InplaceRequests,    \* requests [address, bytes] a caller may make
    AllocRequests       \* requests [bytes, alignment] a caller may make

VARIABLES
    blocks,             \* the set of blocks granted, [start, end)
    result              \* address granted to the last request, 0 if refused

vars == <<blocks, result>>

(* A block of n bytes at address a. *)
Block(a, n) == [start |-> a, end |-> a + n]

(* Two blocks share no address. *)
Disjoint(b, c) == b.end <= c.start \/ c.end <= b.start

(* Address a belongs to none of the blocks bs. *)
Outside(a, bs) == \A b \in bs : ~(b.start <= a /\ a < b.end)

(* Where the free space that begins at a stops: the next block, or the end
   of the heap. *)
NextStart(a, bs, end) == Min({end} \cup {b.start : b \in {c \in bs : c.start > a}})

-----------------------------------------------------------------------------

(* The free regions of a heap for one alignment: between two blocks, the
   space from the lowest aligned free address to the next block. *)
Usable(align, bs, start, end) ==
    {a \in start .. end - 1 : a % align = 0 /\ Outside(a, bs)}

FreeRegions(align, bs, start, end) ==
    LET U == Usable(align, bs, start, end)
    IN  {[start |-> a, end |-> NextStart(a, bs, end)] :
            a \in {u \in U : \A t \in U : t < u =>
                      NextStart(t, bs, end) # NextStart(u, bs, end)}}

Size(r) == r.end - r.start

(* The regions best fit may choose from: the smallest that hold n bytes. *)
BestFit(n, align, bs, start, end) ==
    LET Enough == {r \in FreeRegions(align, bs, start, end) : Size(r) >= n}
    IN  {r \in Enough : \A q \in Enough : Size(r) <= Size(q)}

(* A block may be placed in the heap without touching another one. *)
Fits(b, bs, start, end) ==
    /\ start <= b.start /\ b.end <= end
    /\ \A c \in bs : Disjoint(b, c)

-----------------------------------------------------------------------------

Init == blocks = {} /\ result = 0

Refuse == result' = 0 /\ UNCHANGED blocks

Grant(a, n) == result' = a /\ blocks' = blocks \cup {Block(a, n)}

(* A request at a fixed address is granted exactly when the place is free. *)
AllocInplace(r) ==
    IF Fits(Block(r.address, r.bytes), blocks, HeapStart, HeapEnd)
    THEN Grant(r.address, r.bytes)
    ELSE Refuse

(* A request anywhere is granted at the start of a smallest region that holds
   it, and refused only when no region does. *)
Alloc(r) ==
    LET B == BestFit(r.bytes, r.alignment, blocks, HeapStart, HeapEnd)
    IN  \/ B = {} /\ Refuse
        \/ \E q \in B : Grant(q.start, r.bytes)

Next ==
    \/ \E r \in InplaceRequests : AllocInplace(r)
    \/ \E r \in AllocRequests : Alloc(r)

Spec == Init /\ [][Next]_vars
=============================================================================
