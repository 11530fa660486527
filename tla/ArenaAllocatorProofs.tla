------------------------ MODULE ArenaAllocatorProofs ------------------------
(***************************************************************************)
(* The safety of the arena allocator, for every address space, every set   *)
(* of requests and every number of blocks.                                 *)
(***************************************************************************)
EXTENDS ArenaAllocator, TLAPS, WellFoundedInduction

(* A set of naturals that is not empty has a least element, which is Min. *)
LEMMA MinIsLeast ==
    ASSUME NEW S, S \subseteq Nat, S # {}
    PROVE  Min(S) \in S /\ \A x \in S : Min(S) <= x
<1>1. PICK m \in S : \A y \in S : ~ (<<y, m>> \in OpToRel(<, Nat))
  BY WFMin, NatLessThanWellFounded, Zenon
<1>2. \A y \in S : y \in Nat /\ m \in Nat /\ ~ (y < m)
  BY <1>1, Zenon DEF OpToRel
<1>3. \A y \in S : m <= y
  BY <1>2
<1>. QED
  BY <1>3, Zenon DEF Min

(* Quotient and remainder. *)
LEMMA DivMod ==
    ASSUME NEW x \in Int, NEW a \in Nat \ {0}
    PROVE  /\ x \div a \in Int
           /\ x % a \in 0 .. a - 1
           /\ x = a * (x \div a) + (x % a)
<1>1. x \div a \in Int
  OBVIOUS
<1>2. x % a \in 0 .. a - 1
  OBVIOUS
<1>3. x = a * (x \div a) + (x % a)
  OBVIOUS
<1>. QED
  BY <1>1, <1>2, <1>3

(* Multiplication by a positive number keeps the order. *)
LEMMA TimesMonotonic ==
    ASSUME NEW a \in Nat \ {0}, NEW p \in Int, NEW q \in Int, p < q
    PROVE  a * p + a <= a * q
<1>1. PICK d \in Nat : q = p + 1 + d
  <2>1. q - p - 1 \in Nat /\ q = p + 1 + (q - p - 1)
    OBVIOUS
  <2>. QED
    BY <2>1
<1>2. a * d \in Nat
  OBVIOUS
<1>3. a * (p + 1 + d) = a * p + a + a * d
  OBVIOUS
<1>4. a * p \in Int
  OBVIOUS
<1>. QED
  BY <1>1, <1>2, <1>3, <1>4

(* A multiple leaves no remainder. *)
LEMMA MultipleMod ==
    ASSUME NEW a \in Nat \ {0}, NEW q \in Int
    PROVE  (a * q) % a = 0
<1>. DEFINE x == a * q
            d == x \div a
            m == x % a
<1>. x \in Int
  OBVIOUS
<1>1. d \in Int /\ m \in 0 .. a - 1 /\ x = a * d + m
  <2>. HIDE DEF x
  <2>. QED
    BY DivMod
<1>2. a * d \in Int /\ a * q \in Int
  BY <1>1
<1>. HIDE DEF d, m
<1>3. q = d
  <2>1. CASE q < d
    BY <2>1, <1>1, <1>2, TimesMonotonic
  <2>2. CASE d < q
    BY <2>2, <1>1, <1>2, TimesMonotonic
  <2>. QED
    BY <1>1, <2>1, <2>2
<1>4. m = 0
  BY <1>1, <1>2, <1>3
<1>. QED
  BY <1>4 DEF m

(* Aligning forward reaches an aligned address, goes no lower, and never past
   an aligned address that lies ahead. *)
LEMMA AlignForwardProperties ==
    ASSUME NEW x \in Nat, NEW a \in Nat \ {0}
    PROVE  /\ AlignForward(x, a) \in Nat
           /\ AlignForward(x, a) >= x
           /\ AlignForward(x, a) % a = 0
           /\ \A y \in Nat : y >= x /\ y % a = 0 => AlignForward(x, a) <= y
<1>. DEFINE q == CeilDivide(x, a)
<1>1. q \in Nat /\ q * a >= x /\ (x > 0 => (q - 1) * a < x) /\ (x = 0 => q = 0)
  <2>1. CASE x = 0
    BY <2>1 DEF CeilDivide
  <2>2. CASE x # 0
    <3>. DEFINE d == (x - 1) \div a
                m == (x - 1) % a
    <3>1. d \in Nat /\ m \in 0 .. a - 1 /\ x - 1 = a * d + m
      BY <2>2, SMTT(20)
    <3>2. q = 1 + d
      BY <2>2 DEF CeilDivide
    <3>. HIDE DEF d, m, q
    <3>3. q * a = a * d + a /\ (q - 1) * a = a * d
      BY <3>1, <3>2, SMTT(20)
    <3>. QED
      BY <2>2, <3>1, <3>2, <3>3
  <2>. QED
    BY <2>1, <2>2
<1>2. (q * a) % a = 0
  <2>1. q * a = a * q
    BY <1>1
  <2>. QED
    BY <1>1, <2>1, MultipleMod
<1>3. ASSUME NEW y \in Nat, y >= x, y % a = 0
      PROVE  q * a <= y
  <2>. DEFINE k == y \div a
  <2>1. k \in Nat /\ y = a * k
    BY <1>3, SMTT(20)
  <2>. HIDE DEF k, q
  <2>2. q <= k
    BY <1>1, <1>3, <2>1, SMTT(20)
  <2>. QED
    BY <1>1, <2>1, <2>2, SMTT(20)
<1>. QED
  BY <1>1, <1>2, <1>3 DEF AlignForward

-----------------------------------------------------------------------------

(* The members of blocks are intervals of addresses. *)
LEMMA BlockType ==
    ASSUME TypeOK
    PROVE  /\ Len(blocks) \in Nat
           /\ DOMAIN blocks = 1 .. Len(blocks)
           /\ \A i \in DOMAIN blocks :
                  blocks[i].start \in Nat /\ blocks[i].end \in Nat
<1>. DEFINE R == [start : Nat, end : Nat]
<1>1. blocks \in Seq(R)
  BY DEF TypeOK
<1>2. \A r \in R : r.start \in Nat /\ r.end \in Nat
  OBVIOUS
<1>. HIDE DEF R
<1>3. /\ Len(blocks) \in Nat
      /\ DOMAIN blocks = 1 .. Len(blocks)
  BY <1>1
<1>4. \A i \in DOMAIN blocks : blocks[i] \in R
  BY <1>1
<1>. QED
  BY <1>2, <1>3, <1>4

(* The loop over the blocks finds the first one after a. *)
LEMMA FreeSpaceEndProperties ==
    ASSUME TypeOK, NEW a \in Nat, a <= AddressSpaceEnd
    PROVE  /\ FreeSpaceEnd(a) \in Nat
           /\ a <= FreeSpaceEnd(a) /\ FreeSpaceEnd(a) <= AddressSpaceEnd
           /\ a < AddressSpaceEnd => a < FreeSpaceEnd(a)
           /\ \A i \in DOMAIN blocks :
                  blocks[i].start > a => FreeSpaceEnd(a) <= blocks[i].start
<1>. DEFINE S == {AddressSpaceEnd} \cup
                   {blocks[i].start : i \in {j \in DOMAIN blocks : blocks[j].start > a}}
<1>1. S \subseteq Nat /\ S # {}
  BY AddressSpaceAssumption, BlockType
<1>2. \A x \in S : a <= x /\ (a < AddressSpaceEnd => a < x)
  BY <1>1
<1>3. AddressSpaceEnd \in S
  OBVIOUS
<1>4. \A i \in DOMAIN blocks : blocks[i].start > a => blocks[i].start \in S
  OBVIOUS
<1>5. FreeSpaceEnd(a) = Min(S)
  BY DEF FreeSpaceEnd
<1>. HIDE DEF S
<1>6. Min(S) \in S /\ \A x \in S : Min(S) <= x
  BY <1>1, MinIsLeast
<1>. QED
  BY <1>1, <1>2, <1>3, <1>4, <1>5, <1>6

(* A region that begins at a usable address and ends with the next block
   touches no block. *)
LEMMA RegionIsClear ==
    ASSUME TypeOK, BlocksInAddressSpace, RegionStartInv, SearchInv,
           pc = "free_space_end", free_region_start < AddressSpaceEnd,
           NEW i \in DOMAIN blocks
    PROVE  \/ blocks[i].end <= free_region_start
           \/ FreeSpaceEnd(free_region_start) <= blocks[i].start
<1>. DEFINE e == FreeSpaceEnd(free_region_start)
<1>1. free_region_start \in Nat /\ blocks[i].start \in Nat /\ blocks[i].end \in Nat
  BY BlockType DEF TypeOK
<1>2. blocks[i].start > free_region_start => e <= blocks[i].start
  BY <1>1, FreeSpaceEndProperties DEF SearchInv
<1>3. blocks[i].start < blocks[i].end
  BY DEF BlocksInAddressSpace
<1>4. ~InBlock(free_region_start, i)
  BY <1>1, AddressSpaceAssumption DEF RegionStartInv
<1>. QED
  BY <1>1, <1>2, <1>3, <1>4 DEF InBlock

(* Recording a block that is in range and clear of the others. *)
LEMMA PushKeepsBlocks ==
    ASSUME IInv,
           Debug \/ Len(blocks) < MaxAllocations,
           NEW start \in Nat, NEW end \in Nat,
           AddressSpaceStart <= start, start < end, end <= AddressSpaceEnd,
           \A i \in DOMAIN blocks :
               blocks[i].end <= start \/ end <= blocks[i].start,
           PushBlock(start, end)
    PROVE  /\ blocks' \in Seq([start : Nat, end : Nat])
           /\ Len(blocks') <= MaxAllocations
           /\ result' \in Nat
           /\ pc' \in {"idle", "halted"}
           /\ BlocksDisjoint'
           /\ BlocksInAddressSpace'
<1>. USE ConfigAssumption
<1>1. CASE Debug /\ Len(blocks) = MaxAllocations
  BY <1>1 DEF PushBlock, IInv, TypeOK, BlocksDisjoint, BlocksInAddressSpace
<1>2. CASE ~(Debug /\ Len(blocks) = MaxAllocations)
  <2>. DEFINE new == [start |-> start, end |-> end]
  <2>1. /\ blocks' = Append(blocks, new)
        /\ result' = start
        /\ pc' = "idle"
    BY <1>2 DEF PushBlock
  <2>2. new \in [start : Nat, end : Nat] /\ blocks \in Seq([start : Nat, end : Nat])
    BY DEF IInv, TypeOK
  <2>3. /\ blocks' \in Seq([start : Nat, end : Nat])
        /\ Len(blocks') = Len(blocks) + 1
        /\ DOMAIN blocks' = 1 .. Len(blocks) + 1
        /\ DOMAIN blocks = 1 .. Len(blocks)
        /\ Len(blocks) \in Nat
        /\ \A i \in DOMAIN blocks : blocks'[i] = blocks[i]
        /\ blocks'[Len(blocks) + 1] = new
    BY <2>1, <2>2
  <2>4. Len(blocks) < MaxAllocations
    BY <1>2, <2>3 DEF IInv, TypeOK
  <2>. HIDE DEF new
  <2>5. new.start = start /\ new.end = end
    BY DEF new
  <2>6. BlocksInAddressSpace'
    <3>. SUFFICES ASSUME NEW i \in DOMAIN blocks'
                  PROVE  /\ AddressSpaceStart <= blocks'[i].start
                         /\ blocks'[i].start < blocks'[i].end
                         /\ blocks'[i].end <= AddressSpaceEnd
      BY DEF BlocksInAddressSpace
    <3>1. CASE i \in DOMAIN blocks
      BY <3>1, <2>3 DEF IInv, BlocksInAddressSpace
    <3>2. CASE i = Len(blocks) + 1
      BY <3>2, <2>3, <2>5
    <3>. QED
      BY <2>3, <3>1, <3>2
  <2>7. BlocksDisjoint'
    <3>. SUFFICES ASSUME NEW i \in DOMAIN blocks', NEW j \in DOMAIN blocks', i # j
                  PROVE  \/ blocks'[i].end <= blocks'[j].start
                         \/ blocks'[j].end <= blocks'[i].start
      BY DEF BlocksDisjoint
    <3>1. CASE i \in DOMAIN blocks /\ j \in DOMAIN blocks
      BY <3>1, <2>3 DEF IInv, BlocksDisjoint
    <3>2. CASE i \in DOMAIN blocks /\ j = Len(blocks) + 1
      BY <3>2, <2>3, <2>5
    <3>3. CASE i = Len(blocks) + 1 /\ j \in DOMAIN blocks
      BY <3>3, <2>3, <2>5
    <3>. QED
      BY <2>3, <3>1, <3>2, <3>3
  <2>. QED
    BY <2>1, <2>3, <2>4, <2>6, <2>7
<1>. QED
  BY <1>1, <1>2

-----------------------------------------------------------------------------

(* tux64_boot_stage1_arena_allocator_initialize establishes the invariant. *)
LEMMA InitIInv == Init => IInv
<1>. SUFFICES ASSUME Init PROVE IInv
  OBVIOUS
<1>1. TypeOK
  BY ConfigAssumption DEF Init, TypeOK
<1>2. DOMAIN blocks = {}
  BY DEF Init
<1>3. BlocksDisjoint /\ BlocksInAddressSpace
  BY <1>2 DEF BlocksDisjoint, BlocksInAddressSpace
<1>4. SearchInv /\ RegionStartInv
  BY DEF Init, SearchInv, RegionStartInv
<1>. QED
  BY <1>1, <1>3, <1>4 DEF IInv

(* A request at a fixed address: region_is_free admits only clear regions. *)
LEMMA AllocInplaceIInv ==
    ASSUME IInv, NEW r \in InplaceRequests, AllocInplace(r)
    PROVE  IInv'
<1>. DEFINE end == Plus(r.address, r.bytes)
<1>1. /\ r.address \in Nat /\ r.bytes \in Nat /\ r.bytes > 0
      /\ r.address + r.bytes < WordSize
  BY RequestAssumption, AddressSpaceAssumption
<1>2. end = r.address + r.bytes
  BY <1>1 DEF Plus
<1>. HIDE DEF end
<1>3. MayCall /\ UNCHANGED <<args, locals>>
  BY DEF AllocInplace
<1>4. CASE RegionIsWithinAddressSpace(r.address, end) /\ RegionIsFree(r.address, end)
  <2>1. PushBlock(r.address, end)
    BY <1>4, Zenon DEF AllocInplace, end
  <2>2. \A i \in DOMAIN blocks :
           blocks[i].end <= r.address \/ end <= blocks[i].start
    BY <1>1, <1>2, <1>4, BlockType
       DEF RegionIsFree, RegionExcludesBlock, Excludes, IInv
  <2>3. Debug \/ Len(blocks) < MaxAllocations
    BY <1>3 DEF MayCall
  <2>4. /\ blocks' \in Seq([start : Nat, end : Nat])
        /\ Len(blocks') <= MaxAllocations
        /\ result' \in Nat
        /\ pc' \in {"idle", "halted"}
        /\ BlocksDisjoint'
        /\ BlocksInAddressSpace'
    BY <1>1, <1>2, <1>4, <2>1, <2>2, <2>3, PushKeepsBlocks
       DEF RegionIsWithinAddressSpace
  <2>. QED
    BY <1>3, <2>4 DEF IInv, TypeOK, SearchInv, RegionStartInv, args, locals
<1>5. CASE ~(RegionIsWithinAddressSpace(r.address, end) /\ RegionIsFree(r.address, end))
  <2>1. Refuse
    BY <1>5, Zenon DEF AllocInplace, end
  <2>. QED
    BY <1>3, <2>1 DEF Refuse, IInv, TypeOK, BlocksDisjoint, BlocksInAddressSpace,
       SearchInv, RegionStartInv, args, locals
<1>. QED
  BY <1>4, <1>5

(* Beginning a search: there is no candidate yet. *)
LEMMA AllocIInv ==
    ASSUME IInv, NEW r \in AllocRequests, Alloc(r)
    PROVE  IInv'
<1>1. /\ r.bytes \in Nat /\ r.bytes > 0
      /\ r.alignment \in Nat \ {0}
      /\ AddressSpaceEnd % r.alignment = 0
  BY RequestAssumption, AddressSpaceAssumption
<1>2. TypeOK' /\ BlocksDisjoint' /\ BlocksInAddressSpace'
  BY <1>1, AddressSpaceAssumption
     DEF Alloc, IInv, TypeOK, BlocksDisjoint, BlocksInAddressSpace
<1>3. SearchInv'
  BY <1>1, AddressSpaceAssumption DEF Alloc, MayCall, SearchInv, CandidateIsFree
<1>4. RegionStartInv'
  BY DEF Alloc, RegionStartInv
<1>. QED
  BY <1>2, <1>3, <1>4 DEF IInv

(* Aligning and jumping over blocks stays inside the address space. *)
LEMMA FreeSpaceStartIInv ==
    ASSUME IInv, FreeSpaceStart
    PROVE  IInv'
<1>. DEFINE a == AlignForward(free_region_start, alignment)
<1>1. /\ free_region_start \in Nat /\ alignment \in Nat \ {0} /\ bytes \in Nat
      /\ AddressSpaceStart \in Nat /\ AddressSpaceEnd \in Nat
      /\ pc = "free_space_start"
  BY AddressSpaceAssumption DEF IInv, TypeOK, FreeSpaceStart
<1>2. /\ Debug \/ Len(blocks) < MaxAllocations
      /\ bytes > 0
      /\ AddressSpaceEnd % alignment = 0
      /\ AddressSpaceStart <= free_region_start
      /\ free_region_start <= AddressSpaceEnd
      /\ CandidateIsFree
  BY <1>1 DEF IInv, SearchInv
<1>3. /\ a \in Nat /\ a >= free_region_start /\ a % alignment = 0
      /\ a <= AddressSpaceEnd
  BY <1>1, <1>2, AlignForwardProperties
<1>. HIDE DEF a
<1>4. UNCHANGED <<blocks, args, alloc_start, alloc_end, result>>
  BY DEF FreeSpaceStart
<1>5. CandidateIsFree'
  BY <1>2, <1>4 DEF CandidateIsFree, args
<1>6. BlocksDisjoint' /\ BlocksInAddressSpace'
  BY <1>4 DEF IInv, BlocksDisjoint, BlocksInAddressSpace
<1>7. CASE BlocksAt(a) = {}
  <2>1. free_region_start' = a /\ pc' = "free_space_end"
    BY <1>7, Zenon DEF FreeSpaceStart, a
  <2>2. \A i \in DOMAIN blocks : ~InBlock(a, i)
    BY <1>3, <1>7, BlockType DEF BlocksAt, InBlock, IInv
  <2>3. RegionStartInv'
    BY <1>3, <1>4, <2>1, <2>2 DEF RegionStartInv, InBlock, args
  <2>4. TypeOK'
    BY <1>3, <1>4, <2>1 DEF IInv, TypeOK, args
  <2>5. SearchInv'
    BY <1>1, <1>2, <1>3, <1>4, <1>5, <2>1 DEF SearchInv, args
  <2>. QED
    BY <1>6, <2>3, <2>4, <2>5 DEF IInv
<1>8. CASE BlocksAt(a) # {}
  <2>. DEFINE k == Min(BlocksAt(a))
  <2>1. k \in DOMAIN blocks
    <3>1. BlocksAt(a) \subseteq Nat
      BY BlockType DEF BlocksAt, IInv
    <3>2. k \in BlocksAt(a)
      BY <1>8, <3>1, MinIsLeast
    <3>. QED
      BY <3>2 DEF BlocksAt
  <2>2. /\ free_region_start' = blocks[k].end
        /\ pc' = IF blocks[k].end = AddressSpaceEnd
                 THEN "free_space_end" ELSE "free_space_start"
    BY <1>8, Zenon DEF FreeSpaceStart, a
  <2>. HIDE DEF k
  <2>3. /\ blocks[k].start \in Nat /\ blocks[k].end \in Nat
        /\ AddressSpaceStart <= blocks[k].start
        /\ blocks[k].start < blocks[k].end
        /\ blocks[k].end <= AddressSpaceEnd
    BY <2>1, BlockType DEF IInv, BlocksInAddressSpace
  <2>4. TypeOK'
    BY <1>4, <2>2, <2>3 DEF IInv, TypeOK, args
  <2>5. SearchInv'
    BY <1>1, <1>2, <1>4, <1>5, <2>2, <2>3 DEF SearchInv, args
  <2>6. RegionStartInv'
    BY <2>2 DEF RegionStartInv
  <2>. QED
    BY <1>6, <2>4, <2>5, <2>6 DEF IInv
<1>. QED
  BY <1>7, <1>8

(* The region considered is clear of every block, so the candidate stays so. *)
LEMMA ConsiderRegionIInv ==
    ASSUME IInv, ConsiderRegion
    PROVE  IInv'
<1>. DEFINE end == FreeSpaceEnd(free_region_start)
            better == /\ end - free_region_start >= bytes
                      /\ \/ alloc_start = 0
                         \/ end - free_region_start < alloc_end - alloc_start
<1>1. /\ free_region_start \in Nat /\ alignment \in Nat \ {0} /\ bytes \in Nat
      /\ AddressSpaceStart \in Nat /\ AddressSpaceEnd \in Nat
      /\ alloc_start \in Nat /\ alloc_end \in Nat
      /\ pc = "free_space_end"
  BY AddressSpaceAssumption DEF IInv, TypeOK, ConsiderRegion
<1>2. /\ Debug \/ Len(blocks) < MaxAllocations
      /\ bytes > 0
      /\ AddressSpaceEnd % alignment = 0
      /\ AddressSpaceStart <= free_region_start
      /\ free_region_start <= AddressSpaceEnd
      /\ CandidateIsFree
  BY <1>1 DEF IInv, SearchInv
<1>3. /\ end \in Nat
      /\ free_region_start <= end /\ end <= AddressSpaceEnd
  BY <1>1, <1>2, FreeSpaceEndProperties DEF IInv
<1>4. /\ alloc_start' = IF better THEN free_region_start ELSE alloc_start
      /\ alloc_end' = IF better THEN end ELSE alloc_end
      /\ free_region_start' = end
      /\ pc' = IF end = AddressSpaceEnd THEN "push" ELSE "free_space_start"
      /\ UNCHANGED <<blocks, bytes, alignment, result>>
  BY Zenon DEF ConsiderRegion, Better, args
<1>5. better => free_region_start < AddressSpaceEnd
  BY <1>1, <1>2, <1>3
<1>6. better => /\ free_region_start % alignment = 0
               /\ \A i \in DOMAIN blocks :
                      \/ blocks[i].end <= free_region_start
                      \/ end <= blocks[i].start
  BY <1>1, <1>5, RegionIsClear DEF IInv, RegionStartInv
<1>. HIDE DEF end
<1>7. CandidateIsFree'
  <2>1. CASE better
    BY <2>1, <1>1, <1>2, <1>3, <1>4, <1>6 DEF CandidateIsFree
  <2>2. CASE ~better
    BY <2>2, <1>2, <1>4 DEF CandidateIsFree
  <2>. QED
    BY <2>1, <2>2
<1>8. BlocksDisjoint' /\ BlocksInAddressSpace'
  BY <1>4 DEF IInv, BlocksDisjoint, BlocksInAddressSpace
<1>9. TypeOK'
  BY <1>1, <1>3, <1>4 DEF IInv, TypeOK
<1>10. SearchInv'
  BY <1>1, <1>2, <1>3, <1>4, <1>7 DEF SearchInv
<1>11. RegionStartInv'
  BY <1>4 DEF RegionStartInv
<1>. QED
  BY <1>8, <1>9, <1>10, <1>11 DEF IInv

(* The end of a search records the candidate, which is free, or refuses. *)
LEMMA PushIInv ==
    ASSUME IInv, Push
    PROVE  IInv'
<1>1. pc = "push" /\ Return
  BY DEF Push
<1>2. /\ Debug \/ Len(blocks) < MaxAllocations
      /\ bytes > 0 /\ bytes \in Nat /\ alloc_start \in Nat /\ alloc_end \in Nat
      /\ CandidateIsFree
  BY <1>1 DEF IInv, SearchInv, TypeOK
<1>3. CASE alloc_start = 0
  BY <1>1, <1>3 DEF Push, Return, Refuse, IInv, TypeOK, BlocksDisjoint,
     BlocksInAddressSpace, SearchInv, RegionStartInv
<1>4. CASE alloc_start # 0
  <2>. DEFINE end == alloc_start + bytes
  <2>1. Plus(alloc_start, bytes) = end
    BY <1>2, <1>4, AddressSpaceAssumption DEF CandidateIsFree, Plus
  <2>2. PushBlock(alloc_start, end)
    BY <1>4, <2>1 DEF Push
  <2>3. /\ end \in Nat /\ alloc_start < end /\ end <= AddressSpaceEnd
        /\ AddressSpaceStart <= alloc_start
        /\ \A i \in DOMAIN blocks :
               blocks[i].end <= alloc_start \/ end <= blocks[i].start
    BY <1>2, <1>4, BlockType, AddressSpaceAssumption DEF CandidateIsFree, IInv
  <2>. HIDE DEF end
  <2>4. /\ blocks' \in Seq([start : Nat, end : Nat])
        /\ Len(blocks') <= MaxAllocations
        /\ result' \in Nat
        /\ pc' \in {"idle", "halted"}
        /\ BlocksDisjoint'
        /\ BlocksInAddressSpace'
    BY <1>2, <2>2, <2>3, PushKeepsBlocks
  <2>. QED
    BY <1>1, <2>4 DEF Return, IInv, TypeOK, SearchInv, RegionStartInv
<1>. QED
  BY <1>3, <1>4

(* Every step of the allocator keeps the invariant. *)
LEMMA NextIInv == IInv /\ [Next]_vars => IInv'
<1>. SUFFICES ASSUME IInv, [Next]_vars PROVE IInv'
  OBVIOUS
<1>1. ASSUME NEW r \in InplaceRequests, AllocInplace(r) PROVE IInv'
  BY <1>1, AllocInplaceIInv
<1>2. ASSUME NEW r \in AllocRequests, Alloc(r) PROVE IInv'
  BY <1>2, AllocIInv
<1>3. CASE Search
  BY <1>3, FreeSpaceStartIInv, ConsiderRegionIInv, PushIInv DEF Search
<1>4. CASE UNCHANGED vars
  BY <1>4 DEF vars, args, locals, IInv, TypeOK, BlocksDisjoint, BlocksInAddressSpace,
     SearchInv, CandidateIsFree, RegionStartInv, InBlock
<1>. QED
  BY <1>1, <1>2, <1>3, <1>4 DEF Next

-----------------------------------------------------------------------------

(* The inductive invariant of the allocator: the variables keep their types,
   blocks stay apart and in range, and the search in progress only ever keeps
   a candidate that is free. *)
THEOREM Invariance == Spec => []IInv
<1>. QED
  BY InitIInv, NextIInv, PTL DEF Spec

(* Every variable keeps its type; in a debug build push_block never records
   more than TUX64_BOOT_STAGE1_ARENA_ALLOCATOR_MAX_ALLOCATIONS blocks. *)
THEOREM TypeCorrect == Spec => []TypeOK
<1>1. IInv => TypeOK
  BY DEF IInv
<1>. QED
  BY <1>1, Invariance, PTL

(* No two blocks the allocator hands out share an address. *)
THEOREM BlocksAlwaysDisjoint == Spec => []BlocksDisjoint
<1>1. IInv => BlocksDisjoint
  BY DEF IInv
<1>. QED
  BY <1>1, Invariance, PTL

(* Every block lies between address_space_start and address_space_end. *)
THEOREM BlocksAlwaysInAddressSpace == Spec => []BlocksInAddressSpace
<1>1. IInv => BlocksInAddressSpace
  BY DEF IInv
<1>. QED
  BY <1>1, Invariance, PTL
-----------------------------------------------------------------------------
(***************************************************************************)
(* The arena allocator implements the heap: its search of many steps is,   *)
(* for every address space and every sequence of requests, one atomic      *)
(* best-fit allocation.                                                    *)
(***************************************************************************)

(* The abstract operators, in the terms of the array of blocks. *)

(* ..._free_space_end finds what the heap calls the next start. *)
LEMMA NextStartIsFreeSpaceEnd ==
    \A a : H!NextStart(a, BlockSet, AddressSpaceEnd) = FreeSpaceEnd(a)
<1>. TAKE a
<1>. DEFINE S == {b.start : b \in {c \in BlockSet : c.start > a}}
            T == {blocks[i].start : i \in {j \in DOMAIN blocks : blocks[j].start > a}}
<1>1. S = T
  BY DEF BlockSet
<1>2. {AddressSpaceEnd} \cup S = {AddressSpaceEnd} \cup T
  BY <1>1
<1>. QED
  BY <1>2, Zenon DEF H!NextStart, FreeSpaceEnd, H!Min, Min

(* What it is to be a usable address: in the heap, aligned, in no block. *)
LEMMA UsableProperties ==
    \A a : a \in UsableSet <=>
        /\ a \in AddressSpaceStart .. AddressSpaceEnd - 1
        /\ a % alignment = 0
        /\ \A i \in DOMAIN blocks : ~InBlock(a, i)
BY Zenon DEF UsableSet, H!Usable, H!Outside, BlockSet, InBlock

(* A region runs from the lowest usable address before its end to its end. *)
LowestBefore(u) == \A t \in UsableSet : t < u => FreeSpaceEnd(t) # FreeSpaceEnd(u)

(* What it is to be a free region: it begins at the lowest usable address
   before its end. *)
LEMMA RegionProperties ==
    RegionSet = {[start |-> u, end |-> FreeSpaceEnd(u)] :
                    u \in {v \in UsableSet : LowestBefore(v)}}
<1>. DEFINE U == UsableSet
            N(u) == H!NextStart(u, BlockSet, AddressSpaceEnd)
            L == {u \in U : \A t \in U : t < u => N(t) # N(u)}
<1>1. \A a : N(a) = FreeSpaceEnd(a)
  BY NextStartIsFreeSpaceEnd
<1>2. RegionSet = {[start |-> u, end |-> N(u)] : u \in L}
  BY Zenon DEF RegionSet, H!FreeRegions, UsableSet
<1>. HIDE DEF N, U
<1>3. L = {u \in U : \A t \in U : t < u => FreeSpaceEnd(t) # FreeSpaceEnd(u)}
  BY <1>1
<1>4. L = {v \in UsableSet : LowestBefore(v)}
  BY <1>3, Zenon DEF LowestBefore, U
<1>5. RegionSet = {[start |-> u, end |-> FreeSpaceEnd(u)] : u \in L}
  <2>. HIDE DEF L
  <2>. QED
    BY <1>1, <1>2
<1>. QED
  BY <1>4, <1>5, Zenon

(* Between a and the next block, the next block stays the same. *)
LEMMA FreeSpaceEndConstant ==
    ASSUME TypeOK, NEW a \in Nat, a <= AddressSpaceEnd,
           NEW t \in Nat, a <= t, t < FreeSpaceEnd(a)
    PROVE  FreeSpaceEnd(t) = FreeSpaceEnd(a)
<1>1. \A i \in DOMAIN blocks : blocks[i].start > t <=> blocks[i].start > a
  BY FreeSpaceEndProperties, BlockType
<1>2. {j \in DOMAIN blocks : blocks[j].start > t} = {j \in DOMAIN blocks : blocks[j].start > a}
  BY <1>1
<1>. QED
  BY <1>2, Zenon DEF FreeSpaceEnd

-----------------------------------------------------------------------------

(* A step of the search that changes neither blocks nor alignment leaves the
   abstract regions as they are. *)
LEMMA SameRegions ==
    ASSUME UNCHANGED <<blocks, alignment>>
    PROVE  /\ UsableSet' = UsableSet
           /\ RegionSet' = RegionSet
           /\ \A t : FreeSpaceEnd(t)' = FreeSpaceEnd(t)
BY DEF UsableSet, RegionSet, BlockSet, FreeSpaceEnd, H!Usable, H!FreeRegions,
       H!Outside, H!NextStart

(* A jump over a block, or an alignment, passes no usable address. *)
LEMMA NothingSkipped ==
    ASSUME IInv, FreeSpaceStart, NEW u \in UsableSet, u < free_region_start'
    PROVE  u < free_region_start
<1>. DEFINE a == AlignForward(free_region_start, alignment)
<1>1. /\ free_region_start \in Nat /\ alignment \in Nat \ {0}
      /\ u \in Nat /\ u % alignment = 0
      /\ \A i \in DOMAIN blocks : ~InBlock(u, i)
  BY UsableProperties, AddressSpaceAssumption DEF IInv, TypeOK
<1>2. /\ a \in Nat
      /\ u >= free_region_start => a <= u
  BY <1>1, AlignForwardProperties
<1>. HIDE DEF a
<1>3. CASE BlocksAt(a) = {}
  <2>1. free_region_start' = a
    BY <1>3, Zenon DEF FreeSpaceStart, a
  <2>. QED
    BY <1>1, <1>2, <2>1
<1>4. CASE BlocksAt(a) # {}
  <2>. DEFINE k == Min(BlocksAt(a))
  <2>1. k \in BlocksAt(a)
    <3>1. BlocksAt(a) \subseteq Nat
      BY BlockType DEF BlocksAt, IInv
    <3>. QED
      BY <1>4, <3>1, MinIsLeast
  <2>2. free_region_start' = blocks[k].end
    BY <1>4, Zenon DEF FreeSpaceStart, a
  <2>. HIDE DEF k
  <2>3. k \in DOMAIN blocks /\ a >= blocks[k].start
    BY <2>1 DEF BlocksAt
  <2>4. blocks[k].start \in Nat /\ blocks[k].end \in Nat
    BY <2>3, BlockType DEF IInv
  <2>. QED
    BY <1>1, <1>2, <2>2, <2>3, <2>4 DEF InBlock
<1>. QED
  BY <1>3, <1>4

(* Looking for the next usable address leaves no region unconsidered. *)
LEMMA FreeSpaceStartBestFit ==
    ASSUME IInv, BestFitInv, FreeSpaceStart
    PROVE  BestFitInv'
<1>1. UNCHANGED <<blocks, bytes, alignment, alloc_start, alloc_end>>
  BY DEF FreeSpaceStart, args
<1>2. pc = "free_space_start" /\ pc' # "push"
  BY DEF FreeSpaceStart
<1>3. free_region_start \in Nat /\ free_region_start' \in Nat
      /\ free_region_start <= free_region_start'
  <2>1. IInv'
    BY FreeSpaceStartIInv
  <2>2. free_region_start' >= free_region_start
    <3>. DEFINE a == AlignForward(free_region_start, alignment)
    <3>1. a \in Nat /\ a >= free_region_start /\ free_region_start \in Nat
      BY AlignForwardProperties DEF IInv, TypeOK
    <3>2. CASE BlocksAt(a) = {}
      BY <3>1, <3>2, Zenon DEF FreeSpaceStart
    <3>3. CASE BlocksAt(a) # {}
      <4>. DEFINE k == Min(BlocksAt(a))
      <4>1. BlocksAt(a) \subseteq Nat
        BY BlockType DEF BlocksAt, IInv
      <4>2. k \in BlocksAt(a)
        BY <3>3, <4>1, MinIsLeast
      <4>3. free_region_start' = blocks[k].end
        BY <3>3, Zenon DEF FreeSpaceStart
      <4>. HIDE DEF k, a
      <4>4. k \in DOMAIN blocks /\ a < blocks[k].end
        BY <4>2 DEF BlocksAt
      <4>. QED
        BY <3>1, <4>3, <4>4, BlockType DEF IInv
    <3>. QED
      BY <3>2, <3>3
  <2>. QED
    BY <2>1, <2>2 DEF IInv, TypeOK
<1>4. \A u \in UsableSet : u \in Nat /\ (u < free_region_start' => u < free_region_start)
  BY NothingSkipped, UsableProperties, AddressSpaceAssumption
<1>5. \A t \in UsableSet : t < free_region_start' => FreeSpaceEnd(t) <= free_region_start'
  <2>. SUFFICES ASSUME NEW t \in UsableSet, t < free_region_start'
                PROVE  FreeSpaceEnd(t) <= free_region_start'
    OBVIOUS
  <2>1. FreeSpaceEnd(t) <= free_region_start
    BY <1>2, <1>4 DEF BestFitInv
  <2>2. t <= AddressSpaceEnd /\ t \in Nat
    BY UsableProperties, AddressSpaceAssumption
  <2>3. FreeSpaceEnd(t) \in Nat
    BY <2>2, FreeSpaceEndProperties DEF IInv
  <2>. QED
    BY <1>3, <2>1, <2>3
<1>6. \A q \in RegionSet : q.start \in UsableSet
  BY RegionProperties
<1>7. \A q \in RegionSet :
         q.start < free_region_start' /\ H!Size(q) >= bytes =>
             alloc_start # 0 /\ alloc_end - alloc_start <= H!Size(q)
  BY <1>2, <1>4, <1>6 DEF BestFitInv
<1>8. /\ UsableSet' = UsableSet
      /\ RegionSet' = RegionSet
      /\ \A t : FreeSpaceEnd(t)' = FreeSpaceEnd(t)
  BY <1>1, SameRegions
<1>9. /\ [bytes |-> bytes, alignment |-> alignment] \in AllocRequests
      /\ alloc_start # 0 => [start |-> alloc_start, end |-> alloc_end] \in RegionSet
  BY <1>2 DEF BestFitInv
<1>. QED
  BY <1>1, <1>2, <1>5, <1>7, <1>8, <1>9 DEF BestFitInv, H!Size

(* Of the usable addresses up to the next block only the first begins a
   region, and that region is compared with the candidate. *)
LEMMA ConsiderRegionBestFit ==
    ASSUME IInv, BestFitInv, ConsiderRegion
    PROVE  BestFitInv'
<1>. DEFINE f == free_region_start
            end == FreeSpaceEnd(f)
            better == /\ end - f >= bytes
                      /\ alloc_start = 0 \/ end - f < alloc_end - alloc_start
<1>1. /\ f \in Nat /\ bytes \in Nat /\ alloc_start \in Nat /\ alloc_end \in Nat
      /\ AddressSpaceEnd \in Nat
      /\ AddressSpaceStart \in Nat \ {0}
      /\ pc = "free_space_end"
  BY AddressSpaceAssumption DEF IInv, TypeOK, ConsiderRegion
<1>2. bytes > 0 /\ AddressSpaceStart <= f /\ f <= AddressSpaceEnd
  BY <1>1 DEF IInv, SearchInv
<1>3. end \in Nat /\ f <= end /\ end <= AddressSpaceEnd
  BY <1>1, <1>2, FreeSpaceEndProperties DEF IInv
<1>4. /\ alloc_start' = IF better THEN f ELSE alloc_start
      /\ alloc_end' = IF better THEN end ELSE alloc_end
      /\ free_region_start' = end
      /\ pc' = IF end = AddressSpaceEnd THEN "push" ELSE "free_space_start"
      /\ UNCHANGED <<blocks, bytes, alignment>>
  BY Zenon DEF ConsiderRegion, Better, args
<1>5. /\ UsableSet' = UsableSet
      /\ RegionSet' = RegionSet
      /\ \A t : FreeSpaceEnd(t)' = FreeSpaceEnd(t)
  BY <1>4, SameRegions
<1>6. /\ [bytes |-> bytes, alignment |-> alignment] \in AllocRequests
      /\ \A t \in UsableSet : t < f => FreeSpaceEnd(t) <= f
      /\ alloc_start # 0 => [start |-> alloc_start, end |-> alloc_end] \in RegionSet
      /\ \A q \in RegionSet :
             q.start < f /\ q.end - q.start >= bytes =>
                 alloc_start # 0 /\ alloc_end - alloc_start <= q.end - q.start
  BY <1>1 DEF BestFitInv, H!Size
<1>7. \A t \in UsableSet :
         /\ t \in Nat
         /\ f <= t /\ t < end => FreeSpaceEnd(t) = end
  <2>. SUFFICES ASSUME NEW t \in UsableSet
                PROVE  t \in Nat /\ (f <= t /\ t < end => FreeSpaceEnd(t) = end)
    OBVIOUS
  <2>1. t \in Nat
    BY <1>1, UsableProperties
  <2>. QED
    BY <2>1, <1>1, <1>2, FreeSpaceEndConstant DEF IInv
<1>8. f < AddressSpaceEnd => f \in UsableSet
  BY <1>1, <1>2, UsableProperties DEF IInv, RegionStartInv
<1>9. f < AddressSpaceEnd => f < end
  BY <1>1, <1>2, FreeSpaceEndProperties DEF IInv
<1>10. \A q \in RegionSet : /\ q.start \in UsableSet
                             /\ q.end = FreeSpaceEnd(q.start)
                             /\ LowestBefore(q.start)
  BY RegionProperties
<1>11. f < AddressSpaceEnd => [start |-> f, end |-> end] \in RegionSet
  <2>. SUFFICES ASSUME f < AddressSpaceEnd PROVE [start |-> f, end |-> end] \in RegionSet
    OBVIOUS
  <2>1. LowestBefore(f)
    <3>. SUFFICES ASSUME NEW t \in UsableSet, t < f
                  PROVE  FreeSpaceEnd(t) # FreeSpaceEnd(f)
      BY DEF LowestBefore
    <3>1. FreeSpaceEnd(t) <= f /\ t \in Nat
      BY <1>6, <1>7
    <3>2. FreeSpaceEnd(t) \in Nat
      BY <3>1, <1>1, <1>2, FreeSpaceEndProperties DEF IInv
    <3>. QED
      BY <3>1, <3>2, <1>1, <1>3, <1>9
  <2>. QED
    BY <2>1, <1>8, RegionProperties
<1>. HIDE DEF end, f
<1>12. \A q \in RegionSet : q.start < end /\ ~(q.start < f) => q.start = f /\ q.end = end
  <2>. SUFFICES ASSUME NEW q \in RegionSet, q.start < end, ~(q.start < f)
                PROVE  q.start = f /\ q.end = end
    OBVIOUS
  <2>1. q.start \in Nat /\ FreeSpaceEnd(q.start) = end /\ q.end = end
    BY <1>1, <1>7, <1>10
  <2>2. f < AddressSpaceEnd
    BY <2>1, <1>1, <1>3
  <2>3. f \in UsableSet /\ FreeSpaceEnd(f) = end
    BY <2>2, <1>8 DEF end
  <2>4. ~(f < q.start)
    BY <2>1, <2>3, <1>10 DEF LowestBefore
  <2>. QED
    BY <2>1, <2>4, <1>1
<1>13. better => f < AddressSpaceEnd
  BY <1>1, <1>2, <1>3
<1>14. \A t \in UsableSet : t < end => FreeSpaceEnd(t) <= end
  <2>. SUFFICES ASSUME NEW t \in UsableSet, t < end PROVE FreeSpaceEnd(t) <= end
    OBVIOUS
  <2>1. CASE t < f
    <3>1. FreeSpaceEnd(t) <= f /\ t \in Nat /\ t <= AddressSpaceEnd
      BY <2>1, <1>1, <1>2, <1>6, <1>7
    <3>2. FreeSpaceEnd(t) \in Nat
      BY <3>1, FreeSpaceEndProperties DEF IInv
    <3>. QED
      BY <3>1, <3>2, <1>1, <1>3
  <2>2. CASE ~(t < f)
    BY <2>2, <1>1, <1>3, <1>7
  <2>. QED
    BY <2>1, <2>2
<1>15. alloc_start' # 0 => [start |-> alloc_start', end |-> alloc_end'] \in RegionSet
  BY <1>4, <1>6, <1>11, <1>13
<1>16. \A q \in RegionSet :
          q.start < end /\ q.end - q.start >= bytes =>
              alloc_start' # 0 /\ alloc_end' - alloc_start' <= q.end - q.start
  <2>. SUFFICES ASSUME NEW q \in RegionSet, q.start < end, q.end - q.start >= bytes
                PROVE  alloc_start' # 0 /\ alloc_end' - alloc_start' <= q.end - q.start
    OBVIOUS
  <2>1. q.start \in Nat /\ q.end \in Nat
    <3>1. q.start \in UsableSet /\ q.end = FreeSpaceEnd(q.start)
      BY <1>10
    <3>2. q.start \in Nat /\ q.start <= AddressSpaceEnd
      BY <3>1, <1>1, UsableProperties
    <3>. QED
      BY <3>1, <3>2, FreeSpaceEndProperties DEF IInv
  <2>2. CASE better
    <3>1. alloc_start' = f /\ alloc_end' = end /\ f # 0
      BY <2>2, <1>1, <1>2, <1>4
    <3>2. CASE q.start < f
      BY <3>1, <3>2, <2>1, <2>2, <1>1, <1>3, <1>6
    <3>3. CASE ~(q.start < f)
      BY <3>1, <3>3, <1>1, <1>3, <1>12
    <3>. QED
      BY <3>2, <3>3
  <2>3. CASE ~better
    <3>1. alloc_start' = alloc_start /\ alloc_end' = alloc_end
      BY <2>3, <1>4
    <3>2. CASE q.start < f
      BY <3>1, <3>2, <1>6
    <3>3. CASE ~(q.start < f)
      BY <3>1, <3>3, <2>3, <1>1, <1>3, <1>12
    <3>. QED
      BY <3>2, <3>3
  <2>. QED
    BY <2>2, <2>3
<1>. QED
  BY <1>4, <1>5, <1>6, <1>14, <1>15, <1>16 DEF BestFitInv, H!Size

(* Beginning a search: no region has been considered. *)
LEMMA AllocBestFit ==
    ASSUME IInv, NEW r \in AllocRequests, Alloc(r)
    PROVE  BestFitInv'
<1>1. /\ pc' = "free_space_start" /\ free_region_start' = AddressSpaceStart
      /\ bytes' = r.bytes /\ alignment' = r.alignment /\ alloc_start' = 0
  BY DEF Alloc
<1>2. [bytes |-> r.bytes, alignment |-> r.alignment] = r
  BY RequestAssumption
<1>3. \A t \in UsableSet' : ~(t < free_region_start')
  BY <1>1, AddressSpaceAssumption, Zenon, SMT DEF UsableSet, H!Usable
<1>4. \A q \in RegionSet' : q.start \in UsableSet'
  BY DEF RegionSet, UsableSet, H!FreeRegions
<1>. QED
  BY <1>1, <1>2, <1>3, <1>4 DEF BestFitInv

(* Every step of the search keeps the best candidate. *)
LEMMA NextBestFit == IInv /\ BestFitInv /\ [Next]_vars => BestFitInv'
<1>. SUFFICES ASSUME IInv, BestFitInv, [Next]_vars PROVE BestFitInv'
  OBVIOUS
<1>1. ASSUME NEW r \in InplaceRequests, AllocInplace(r) PROVE BestFitInv'
  <2>1. pc' \in {"idle", "halted"}
    BY <1>1 DEF AllocInplace, PushBlock, Refuse
  <2>. QED
    BY <2>1 DEF BestFitInv
<1>2. ASSUME NEW r \in AllocRequests, Alloc(r) PROVE BestFitInv'
  BY <1>2, AllocBestFit
<1>3. CASE FreeSpaceStart
  BY <1>3, FreeSpaceStartBestFit
<1>4. CASE ConsiderRegion
  BY <1>4, ConsiderRegionBestFit
<1>5. CASE Push
  <2>1. pc' \in {"idle", "halted"}
    BY <1>5 DEF Push, PushBlock, Refuse
  <2>. QED
    BY <2>1 DEF BestFitInv
<1>6. CASE UNCHANGED vars
  <2>1. UNCHANGED <<blocks, alignment, bytes, pc, free_region_start, alloc_start, alloc_end>>
    BY <1>6 DEF vars, args, locals
  <2>. QED
    BY <2>1, SameRegions DEF BestFitInv, H!Size
<1>. QED
  BY <1>1, <1>2, <1>3, <1>4, <1>5, <1>6 DEF Next, Search

(* The search is best fit: at every moment the candidate is the smallest
   region, among those left behind, that holds the request. *)
THEOREM SearchIsBestFit == Spec => []BestFitInv
<1>1. Init => BestFitInv
  BY DEF Init, BestFitInv
<1>. QED
  BY <1>1, NextBestFit, Invariance, PTL DEF Spec

-----------------------------------------------------------------------------

(* Recording a block adds it to the abstract set, or halts and adds nothing. *)
LEMMA PushBlockRefines ==
    ASSUME TypeOK, NEW start \in Nat, NEW n \in Nat, PushBlock(start, start + n)
    PROVE  \/ H!Grant(start, n)
           \/ UNCHANGED <<BlockSet, result>>
<1>1. CASE Debug /\ Len(blocks) = MaxAllocations
  BY <1>1 DEF PushBlock, BlockSet
<1>2. CASE ~(Debug /\ Len(blocks) = MaxAllocations)
  <2>. DEFINE new == [start |-> start, end |-> start + n]
              R == [start : Nat, end : Nat]
  <2>1. blocks' = Append(blocks, new) /\ result' = start
    BY <1>2 DEF PushBlock
  <2>2. blocks \in Seq(R) /\ new \in R
    BY DEF TypeOK
  <2>3. new = H!Block(start, n)
    BY DEF H!Block
  <2>. HIDE DEF new, R
  <2>4. /\ Len(blocks) \in Nat
        /\ DOMAIN blocks = 1 .. Len(blocks)
        /\ DOMAIN blocks' = 1 .. Len(blocks) + 1
        /\ \A i \in 1 .. Len(blocks) : blocks'[i] = blocks[i]
        /\ blocks'[Len(blocks) + 1] = new
    BY <2>1, <2>2
  <2>5. BlockSet' = BlockSet \cup {new}
    <3>1. \A b \in BlockSet' : b \in BlockSet \cup {new}
      <4>. SUFFICES ASSUME NEW i \in DOMAIN blocks' PROVE blocks'[i] \in BlockSet \cup {new}
        BY DEF BlockSet
      <4>1. CASE i \in DOMAIN blocks
        BY <4>1, <2>4 DEF BlockSet
      <4>2. CASE i = Len(blocks) + 1
        BY <4>2, <2>4
      <4>. QED
        BY <4>1, <4>2, <2>4
    <3>2. \A b \in BlockSet \cup {new} : b \in BlockSet'
      <4>1. Len(blocks) + 1 \in DOMAIN blocks'
        BY <2>4
      <4>2. \A i \in DOMAIN blocks : i \in DOMAIN blocks' /\ blocks'[i] = blocks[i]
        BY <2>4
      <4>. QED
        BY <4>1, <4>2, <2>4 DEF BlockSet
    <3>. QED
      BY <3>1, <3>2
  <2>. QED
    BY <2>1, <2>3, <2>5 DEF H!Grant
<1>. QED
  BY <1>1, <1>2

(* A refusal is a refusal of the heap. *)
LEMMA RefuseRefines == Refuse => H!Refuse
BY DEF Refuse, H!Refuse, BlockSet

(* The two tests of alloc_inplace are the condition of the heap. *)
LEMMA AllocInplaceRefines ==
    ASSUME IInv, NEW r \in InplaceRequests, AllocInplace(r)
    PROVE  H!AllocInplace(r) \/ UNCHANGED <<BlockSet, result>>
<1>. DEFINE end == Plus(r.address, r.bytes)
            Free == RegionIsWithinAddressSpace(r.address, end) /\ RegionIsFree(r.address, end)
            Ok == H!Fits(H!Block(r.address, r.bytes), BlockSet,
                         AddressSpaceStart, AddressSpaceEnd)
<1>1. /\ r.address \in Nat /\ r.bytes \in Nat /\ r.bytes > 0
      /\ end = r.address + r.bytes
  BY RequestAssumption, AddressSpaceAssumption DEF Plus
<1>2. Free <=> Ok
  <2>. DEFINE new == H!Block(r.address, r.bytes)
  <2>1. new.start = r.address /\ new.end = end
    BY <1>1 DEF H!Block
  <2>. HIDE DEF new, end
  <2>2. RegionIsFree(r.address, end) <=> \A c \in BlockSet : H!Disjoint(new, c)
    <3>1. ASSUME NEW i \in DOMAIN blocks
          PROVE  RegionExcludesBlock(blocks[i], r.address, end)
                     <=> H!Disjoint(new, blocks[i])
      <4>1. /\ blocks[i].start \in Nat /\ blocks[i].end \in Nat
            /\ blocks[i].start < blocks[i].end
        BY BlockType DEF IInv, BlocksInAddressSpace
      <4>. QED
        BY <4>1, <2>1, <1>1 DEF RegionExcludesBlock, Excludes, H!Disjoint
    <3>. QED
      BY <3>1 DEF RegionIsFree, BlockSet
  <2>3. RegionIsWithinAddressSpace(r.address, end)
            <=> AddressSpaceStart <= new.start /\ new.end <= AddressSpaceEnd
    BY <1>1, <2>1, AddressSpaceAssumption DEF RegionIsWithinAddressSpace
  <2>. QED
    BY <2>2, <2>3, Zenon DEF H!Fits, new
<1>. HIDE DEF Ok
<1>3. CASE Free
  <2>1. PushBlock(r.address, r.address + r.bytes)
    BY <1>1, <1>3, Zenon DEF AllocInplace
  <2>2. H!Grant(r.address, r.bytes) \/ UNCHANGED <<BlockSet, result>>
    BY <1>1, <2>1, PushBlockRefines DEF IInv
  <2>. QED
    BY <1>2, <1>3, <2>2, Zenon DEF H!AllocInplace, Ok
<1>4. CASE ~Free
  <2>1. Refuse
    BY <1>4, Zenon DEF AllocInplace
  <2>2. H!Refuse
    BY <2>1, RefuseRefines
  <2>. QED
    BY <1>2, <1>4, <2>2, Zenon DEF H!AllocInplace, Ok
<1>. QED
  BY <1>3, <1>4

(* The end of a search is the atomic allocation of the heap. *)
LEMMA PushRefines ==
    ASSUME IInv, BestFitInv, Push
    PROVE  \/ \E r \in AllocRequests : H!Alloc(r)
           \/ UNCHANGED <<BlockSet, result>>
<1>. DEFINE r == [bytes |-> bytes, alignment |-> alignment]
            B == H!BestFit(bytes, alignment, BlockSet, AddressSpaceStart, AddressSpaceEnd)
<1>1. /\ bytes \in Nat /\ bytes > 0 /\ alloc_start \in Nat /\ alloc_end \in Nat
      /\ AddressSpaceStart \in Nat /\ AddressSpaceEnd \in Nat
      /\ CandidateIsFree
      /\ pc = "push"
  BY AddressSpaceAssumption DEF Push, IInv, SearchInv, TypeOK
<1>2. /\ r \in AllocRequests
      /\ free_region_start = AddressSpaceEnd
      /\ alloc_start # 0 => [start |-> alloc_start, end |-> alloc_end] \in RegionSet
      /\ \A q \in RegionSet :
             q.start < free_region_start /\ q.end - q.start >= bytes =>
                 alloc_start # 0 /\ alloc_end - alloc_start <= q.end - q.start
  BY <1>1 DEF BestFitInv, H!Size
<1>3. \A q \in RegionSet : q.start < AddressSpaceEnd
  BY <1>1, UsableProperties, RegionProperties
<1>4. B = {q \in RegionSet : /\ q.end - q.start >= bytes
                             /\ \A p \in RegionSet : p.end - p.start >= bytes =>
                                    q.end - q.start <= p.end - p.start}
  BY DEF H!BestFit, H!Size, RegionSet
<1>. HIDE DEF B
<1>5. H!Alloc(r) <=> (B = {} /\ H!Refuse) \/ \E q \in B : H!Grant(q.start, bytes)
  BY DEF H!Alloc, B
<1>6. CASE alloc_start = 0
  <2>1. B = {}
    BY <1>2, <1>3, <1>4, <1>6
  <2>2. Refuse
    BY <1>6 DEF Push
  <2>. QED
    BY <1>2, <1>5, <2>1, <2>2, RefuseRefines
<1>7. CASE alloc_start # 0
  <2>. DEFINE q == [start |-> alloc_start, end |-> alloc_end]
  <2>1. q \in B
    <3>1. alloc_start + bytes <= alloc_end
      BY <1>1, <1>7 DEF CandidateIsFree
    <3>2. q \in RegionSet /\ q.start = alloc_start /\ q.end = alloc_end
      BY <1>2, <1>7
    <3>3. alloc_end - alloc_start >= bytes
      BY <1>1, <3>1
    <3>. HIDE DEF q
    <3>. QED
      BY <1>2, <1>3, <1>4, <3>2, <3>3
  <2>2. Plus(alloc_start, bytes) = alloc_start + bytes
    BY <1>1, <1>7, AddressSpaceAssumption DEF CandidateIsFree, Plus
  <2>3. PushBlock(alloc_start, alloc_start + bytes)
    BY <1>7, <2>2 DEF Push
  <2>4. H!Grant(alloc_start, bytes) \/ UNCHANGED <<BlockSet, result>>
    BY <1>1, <2>3, PushBlockRefines DEF IInv
  <2>5. H!Grant(alloc_start, bytes) => H!Alloc(r)
    BY <1>5, <2>1
  <2>. QED
    BY <1>2, <2>4, <2>5
<1>. QED
  BY <1>6, <1>7

(* Every step of the allocator is a step of the heap or changes nothing that
   its caller can see. *)
LEMMA NextRefines ==
    IInv /\ BestFitInv /\ [Next]_vars => [H!Next]_(H!vars)
<1>. SUFFICES ASSUME IInv, BestFitInv, [Next]_vars
              PROVE  H!Next \/ UNCHANGED <<BlockSet, result>>
  BY DEF H!vars
<1>1. ASSUME NEW r \in InplaceRequests, AllocInplace(r)
      PROVE  H!Next \/ UNCHANGED <<BlockSet, result>>
  BY <1>1, AllocInplaceRefines DEF H!Next
<1>2. ASSUME NEW r \in AllocRequests, Alloc(r) PROVE UNCHANGED <<BlockSet, result>>
  BY <1>2 DEF Alloc, BlockSet
<1>3. CASE FreeSpaceStart
  BY <1>3 DEF FreeSpaceStart, BlockSet
<1>4. CASE ConsiderRegion
  BY <1>4 DEF ConsiderRegion, BlockSet
<1>5. CASE Push
  BY <1>5, PushRefines DEF H!Next
<1>6. CASE UNCHANGED vars
  BY <1>6 DEF vars, BlockSet
<1>. QED
  BY <1>1, <1>2, <1>3, <1>4, <1>5, <1>6 DEF Next, Search

(* The arena allocator implements the heap: whatever its callers ask for, they
   cannot tell its search from an atomic best-fit allocation. *)
THEOREM AllocatorImplementsHeap == Spec => ImplementsHeap
<1>1. Init => H!Init
  BY DEF Init, H!Init, BlockSet
<1>. QED
  BY <1>1, NextRefines, Invariance, SearchIsBestFit, PTL DEF Spec, ImplementsHeap, H!Spec
=============================================================================
