--------------------------- MODULE BootFilesProofs ---------------------------
(***************************************************************************)
(* Where the boot files go, for every size of RDRAM, every layout of the   *)
(* loaders and every boot header.                                          *)
(***************************************************************************)
EXTENDS BootFiles, TLAPS, FiniteSetTheorems, WellFoundedInduction

(* The files that have had their turn before one. *)
Before(f) ==
    IF f = "kernel" THEN {} ELSE IF f = "initramfs" THEN {"kernel"} ELSE {"kernel", "initramfs"}

(* The files stage 1 is done with giving a place. *)
Settled == IF phase = "allocate" THEN Before(file) ELSE Files

FileBlock(f) == Heap!Block(address[f], Length(f))

(* A file has a place in the heap of stage 2 if stage 1 has none for it, and the
   kernel, whose place is fixed, always. *)
Second(f) == f \notin status \/ f = "kernel"

InRange(heap, begin) ==
    \A b \in heap : /\ b \in [start : Nat, end : Nat]
                    /\ begin <= b.start /\ b.start < b.end /\ b.end <= MemoryEnd

Placed ==
    /\ status \subseteq Settled
    /\ \A f \in Settled \cap Present :
          /\ f \in status => FileBlock(f) \in heap1
          /\ Second(f) => FileBlock(f) \in heap2
    /\ \A f, g \in Settled \cap Present :
          f # g /\ (({f, g} \subseteq status) \/ (Second(f) /\ Second(g)))
              => Heap!Disjoint(FileBlock(f), FileBlock(g))

(* What is loaded so far is whole. *)
Whole ==
    /\ phase = "stage1" => \A f \in Before(file) \cap Present \cap status : Intact(f)
    /\ phase = "stage2" /\ Synchronised =>
          \A f \in Present : f \in status \cup Before(file) => Intact(f)

IInv ==
    /\ TypeOK
    /\ InRange(heap1, Stage1Start) /\ InRange(heap2, Stage2Start)
    /\ phase = "allocate" /\ file = "kernel" => heap1 = {} /\ heap2 = {}
    /\ phase # "halted" => Placed
    /\ Whole
    /\ FilesIntactWhenSynchronised
    /\ LoaderNotOverwritten /\ Stage2NotOverwritten
    /\ FreeIsCounted
-----------------------------------------------------------------------------
(* Best fit. *)

LEMMA MinIsLeast ==
    ASSUME NEW S, S \subseteq Nat, S # {}
    PROVE  Heap!Min(S) \in S /\ \A x \in S : Heap!Min(S) <= x
<1>1. PICK m \in S : \A y \in S : ~ (<<y, m>> \in OpToRel(<, Nat))
  BY WFMin, NatLessThanWellFounded, Zenon
<1>2. \A y \in S : y \in Nat /\ m \in Nat /\ ~ (y < m)
  BY <1>1, Zenon DEF OpToRel
<1>3. \A y \in S : m <= y
  BY <1>2
<1>. QED
  BY <1>3, Zenon DEF Heap!Min

(* The place best fit chooses is clear of every block of the heap. *)
LEMMA BestFitFits ==
    ASSUME NEW n \in Nat, n > 0, NEW align, NEW heap, NEW begin \in Nat,
           InRange(heap, begin), NEW q \in Heap!BestFit(n, align, heap, begin, MemoryEnd)
    PROVE  /\ q.start \in Nat
           /\ Heap!Fits(Heap!Block(q.start, n), heap, begin, MemoryEnd)
<1>1. q \in Heap!FreeRegions(align, heap, begin, MemoryEnd) /\ Heap!Size(q) >= n
  BY DEF Heap!BestFit
<1>2. PICK u \in Heap!Usable(align, heap, begin, MemoryEnd) :
          q = [start |-> u, end |-> Heap!NextStart(u, heap, MemoryEnd)]
  BY <1>1 DEF Heap!FreeRegions
<1>3. u \in begin .. MemoryEnd - 1 /\ \A b \in heap : ~(b.start <= u /\ u < b.end)
  BY <1>2 DEF Heap!Usable, Heap!Outside
<1>4. u \in Nat /\ MemoryEnd \in Nat
  BY <1>3, LayoutAssumption
<1>. DEFINE S == {MemoryEnd} \cup {b.start : b \in {c \in heap : c.start > u}}
<1>5. S \subseteq Nat /\ S # {}
  BY <1>4 DEF InRange
<1>6. Heap!Min(S) \in S /\ \A x \in S : Heap!Min(S) <= x
  BY <1>5, MinIsLeast
<1>7. \A b \in heap : b.start > u => b.start \in S
  OBVIOUS
<1>8. MemoryEnd \in S
  OBVIOUS
<1>9. Heap!NextStart(u, heap, MemoryEnd) = Heap!Min(S)
  BY Zenon DEF Heap!NextStart
<1>. HIDE DEF S
<1>. DEFINE next == Heap!Min(S)
<1>10. /\ next \in Nat /\ next <= MemoryEnd
       /\ \A b \in heap : b.start > u => next <= b.start
  BY <1>5, <1>6, <1>7, <1>8
<1>11. q.start = u /\ q.end = next
  BY <1>2, <1>9
<1>. HIDE DEF next
<1>12. next - u >= n
  BY <1>1, <1>11 DEF Heap!Size
<1>13. \A b \in heap : u + n <= b.start \/ b.end <= u
  BY <1>3, <1>4, <1>10, <1>12 DEF InRange
<1>. QED
  BY <1>3, <1>4, <1>10, <1>11, <1>12, <1>13 DEF Heap!Fits, Heap!Block, Heap!Disjoint
-----------------------------------------------------------------------------
(* Counting. *)

Used(heap) == UNION {b.start .. b.end - 1 : b \in heap}

LEMMA UsedIsFinite ==
    ASSUME NEW heap, NEW begin \in Nat, InRange(heap, begin), begin <= MemoryEnd
    PROVE  /\ IsFiniteSet(Used(heap)) /\ Cardinality(Used(heap)) \in Nat
           /\ Cardinality(Used(heap)) <= MemoryEnd - begin
<1>1. MemoryEnd \in Nat
  BY LayoutAssumption
<1>2. Used(heap) \subseteq begin .. MemoryEnd - 1
  BY <1>1 DEF Used, InRange
<1>3. /\ IsFiniteSet(begin .. MemoryEnd - 1)
      /\ Cardinality(begin .. MemoryEnd - 1) = MemoryEnd - begin
  <2>1. begin \in Int /\ MemoryEnd - 1 \in Int
    BY <1>1
  <2>2. /\ IsFiniteSet(begin .. MemoryEnd - 1)
        /\ Cardinality(begin .. MemoryEnd - 1) =
              IF begin > MemoryEnd - 1 THEN 0 ELSE MemoryEnd - 1 - begin + 1
    BY <2>1, FS_Interval, Zenon
  <2>. QED
    BY <1>1, <2>2
<1>. QED
  BY <1>2, <1>3, FS_Subset, FS_CardinalityType

(* A block that is clear of the others takes its whole length. *)
LEMMA BlockTakesLength ==
    ASSUME NEW heap, NEW begin \in Nat, InRange(heap, begin), begin <= MemoryEnd,
           NEW a \in Nat, NEW n \in Nat, n > 0,
           Heap!Fits(Heap!Block(a, n), heap, begin, MemoryEnd)
    PROVE  /\ InRange(heap \cup {Heap!Block(a, n)}, begin)
           /\ Cardinality(Used(heap \cup {Heap!Block(a, n)})) = Cardinality(Used(heap)) + n
<1>. DEFINE block == Heap!Block(a, n)
<1>1. /\ block.start = a /\ block.end = a + n /\ block \in [start : Nat, end : Nat]
      /\ begin <= a /\ a + n <= MemoryEnd /\ MemoryEnd \in Nat
  BY LayoutAssumption DEF Heap!Block, Heap!Fits
<1>2. \A b \in heap : a + n <= b.start \/ b.end <= a
  BY <1>1 DEF Heap!Fits, Heap!Disjoint
<1>. HIDE DEF block
<1>3. InRange(heap \cup {block}, begin)
  BY <1>1 DEF InRange
<1>4. Used(heap \cup {block}) = Used(heap) \cup (a .. a + n - 1)
  BY <1>1 DEF Used
<1>5. Used(heap) \cap (a .. a + n - 1) = {}
  BY <1>2 DEF Used, InRange
<1>6. IsFiniteSet(Used(heap)) /\ Cardinality(Used(heap)) \in Nat
  BY UsedIsFinite
<1>7. IsFiniteSet(a .. a + n - 1) /\ Cardinality(a .. a + n - 1) = n
  BY FS_Interval
<1>8. Cardinality(Used(heap) \cup (a .. a + n - 1)) = Cardinality(Used(heap)) + n - Cardinality({})
  BY <1>5, <1>6, <1>7, FS_Union
<1>9. Cardinality({}) = 0
  BY FS_EmptySet
<1>10. Cardinality(Used(heap \cup {block})) = Cardinality(Used(heap)) + n - Cardinality({})
  BY <1>4, <1>8, Zenon
<1>11. Cardinality(Used(heap \cup {block})) = Cardinality(Used(heap)) + n
  <2>. DEFINE used == Cardinality(Used(heap)) none == Cardinality({}) all == Cardinality(Used(heap \cup {block}))
  <2>1. used \in Nat /\ none = 0 /\ all = used + n - none
    BY <1>6, <1>9, <1>10
  <2>. HIDE DEF used, none, all
  <2>2. all = used + n
    BY <2>1
  <2>. QED
    BY <2>2 DEF used, all
<1>. QED
  BY <1>3, <1>11 DEF block
-----------------------------------------------------------------------------
(* The allocation of one file, whichever it is: stage 1 has room for it or not,
   and so has stage 2. *)

Given(f, ok1, a, ok2, b) ==
    LET n == Length(f)
    IN  /\ phase = "allocate" /\ file = f /\ n > 0
        /\ heap1' = (IF ok1 THEN heap1 \cup {Heap!Block(a, n)} ELSE heap1)
        /\ heap2' = (IF ok2 THEN heap2 \cup {Heap!Block(b, n)} ELSE heap2)
        /\ free' = (IF ok1 THEN free - n ELSE free)
        /\ status' = (IF ok1 THEN status \cup {f} ELSE status)
        /\ address' = [address EXCEPT ![f] = IF ok1 \/ f = "kernel" THEN a ELSE b]
        /\ IF ok1 \/ ok2 THEN Allocated(f) ELSE OutOfMemory
        /\ UNCHANGED <<header, rdram>>
        /\ ok1 => Heap!Fits(Heap!Block(a, n), heap1, Stage1Start, MemoryEnd)
        /\ ok2 => Heap!Fits(Heap!Block(b, n), heap2, Stage2Start, MemoryEnd)
        /\ f = "kernel" => a = b /\ (ok1 => ok2)

(* After the turn of a file it is settled, with those before it. *)
LEMMA NextTurn ==
    ASSUME TypeOK, phase = "allocate", Allocated(file)
    PROVE  /\ Settled' = Settled \cup {file} /\ file \notin Settled
           /\ phase' \in {"allocate", "stage1"} /\ file' \in Files
           /\ ~(phase' = "allocate" /\ file' = "kernel")
           /\ Before(file)' = {} \/ phase' = "allocate"
<1>. Files = {"kernel", "initramfs", "command_line"}
  BY DEF Files, Optional
<1>. QED
  BY DEF TypeOK, Allocated, After, Settled, Before

LEMMA HeaderTypes ==
    ASSUME TypeOK
    PROVE  /\ \A f \in Files : Length(f) \in Nat
           /\ Length("kernel") > 0 /\ header.addr_load \in Nat
BY LayoutAssumption DEF TypeOK, Length, Files

(* In rdram nothing moves while places are given. *)
LEMMA GivenKeeps ==
    ASSUME IInv, NEW f \in Files, NEW ok1 \in BOOLEAN, NEW ok2 \in BOOLEAN,
           NEW a \in Nat, NEW b \in Nat, Given(f, ok1, a, ok2, b)
    PROVE  IInv'
<1>. DEFINE n == Length(f)
            here == IF ok1 \/ f = "kernel" THEN a ELSE b
<1>1. /\ phase = "allocate" /\ file = f /\ n \in Nat /\ n > 0 /\ header' = header
      /\ rdram' = rdram /\ header \in Headers
      /\ Stage1Start \in Nat /\ Stage2Start \in Nat /\ MemoryEnd \in Nat
      /\ Stage1Start <= MemoryEnd /\ Stage2Start <= MemoryEnd
  BY HeaderTypes, LayoutAssumption DEF Given, IInv, TypeOK
<1>2. \A g : Length(g)' = Length(g)
  BY <1>1 DEF Length
<1>3. /\ address' = [address EXCEPT ![f] = here] /\ address \in [Files -> Nat]
      /\ here \in Nat
  BY DEF Given, IInv, TypeOK
<1>4. /\ FileBlock(f)' = Heap!Block(here, n)
      /\ \A g \in Files \ {f} : FileBlock(g)' = FileBlock(g)
  BY <1>2, <1>3 DEF FileBlock, Heap!Block
<1>5. CASE ok1 \/ ok2
  <2>1. Allocated(f)
    BY <1>5 DEF Given
  <2>2. /\ Settled' = Settled \cup {f} /\ f \notin Settled /\ phase' \in {"allocate", "stage1"}
        /\ ~(phase' = "allocate" /\ file' = "kernel") /\ file' \in Files
        /\ Before(file)' = {} \/ phase' = "allocate"
    BY <1>1, <2>1, NextTurn DEF IInv
  <2>3. InRange(heap1, Stage1Start)' /\ FreeIsCounted'
    <3>1. /\ InRange(heap1, Stage1Start) /\ FreeIsCounted /\ free \in Int
      BY DEF IInv, TypeOK
    <3>2. CASE ok1
      <4>1. heap1' = heap1 \cup {Heap!Block(a, n)} /\ free' = free - n
        BY <3>2 DEF Given
      <4>2. /\ InRange(heap1', Stage1Start)
            /\ Cardinality(Used(heap1')) = Cardinality(Used(heap1)) + n
        BY <1>1, <3>1, <3>2, <4>1, BlockTakesLength DEF Given
      <4>3. /\ Cardinality(Used(heap1)) \in Nat /\ Cardinality(Used(heap1')) \in Nat
            /\ Cardinality(Used(heap1')) <= MemoryEnd - Stage1Start
        BY <1>1, <3>1, <4>2, UsedIsFinite
      <4>4. free = MemoryEnd - Stage1Start - Cardinality(Used(heap1))
        BY <3>1 DEF FreeIsCounted, Used
      <4>5. /\ free' = MemoryEnd - Stage1Start - Cardinality(Used(heap1'))
            /\ free' >= 0
        <5>. DEFINE u == Cardinality(Used(heap1)) v == Cardinality(Used(heap1'))
        <5>1. /\ u \in Nat /\ v \in Nat /\ v = u + n /\ v <= MemoryEnd - Stage1Start
              /\ free = MemoryEnd - Stage1Start - u
          BY <4>2, <4>3, <4>4
        <5>. HIDE DEF u, v
        <5>2. free' = MemoryEnd - Stage1Start - v /\ free' >= 0
          BY <1>1, <4>1, <5>1
        <5>. QED
          BY <5>2 DEF v
      <4>. QED
        BY <4>2, <4>5 DEF FreeIsCounted, Used, InRange
    <3>3. CASE ~ok1
      <4>1. heap1' = heap1 /\ free' = free
        BY <3>3 DEF Given
      <4>. QED
        BY <3>1, <4>1 DEF FreeIsCounted, InRange
    <3>. QED
      BY <3>2, <3>3
  <2>4. InRange(heap2, Stage2Start)'
    <3>1. InRange(heap2, Stage2Start)
      BY DEF IInv
    <3>2. CASE ok2
      <4>1. heap2' = heap2 \cup {Heap!Block(b, n)}
        BY <3>2 DEF Given
      <4>2. Heap!Fits(Heap!Block(b, n), heap2, Stage2Start, MemoryEnd)
        BY <3>2 DEF Given
      <4>3. InRange(heap2 \cup {Heap!Block(b, n)}, Stage2Start)
        BY <1>1, <3>1, <4>2, BlockTakesLength
      <4>. QED
        BY <4>1, <4>3 DEF InRange
    <3>3. CASE ~ok2
      <4>1. heap2' = heap2
        BY <3>3 DEF Given
      <4>. QED
        BY <3>1, <4>1 DEF InRange
    <3>. QED
      BY <3>2, <3>3
  <2>5. TypeOK'
    <3>1. \A c \in heap1' \cup heap2' : c \in [start : Nat, end : Nat]
      BY <2>3, <2>4 DEF InRange
    <3>2. status' \subseteq Files /\ free' \in Int
      BY <1>1 DEF Given, IInv, TypeOK
    <3>3. address' \in [Files -> Nat]
      BY <1>3
    <3>. QED
      BY <1>1, <2>2, <3>1, <3>2, <3>3 DEF IInv, TypeOK
  <2>6. Placed'
    <3>. DEFINE present == Present
    <3>1. /\ Placed /\ status' = (IF ok1 THEN status \cup {f} ELSE status)
          /\ heap1' = (IF ok1 THEN heap1 \cup {Heap!Block(a, n)} ELSE heap1)
          /\ heap2' = (IF ok2 THEN heap2 \cup {Heap!Block(b, n)} ELSE heap2)
          /\ f = "kernel" => a = b /\ (ok1 => ok2)
      BY <1>1 DEF Given, IInv
    <3>2. Present' = present /\ Settled \subseteq Files
      <4>1. Present' = Present
        BY <1>1 DEF Present, Length
      <4>. QED
        BY <4>1 DEF Settled, Before, Files, Optional
    <3>3. f \notin status /\ status \subseteq Settled
      BY <2>2, <3>1 DEF Placed
    <3>4. /\ \A g \in Settled : (g \in status' <=> g \in status) /\ (Second(g)' <=> Second(g))
          /\ f \in status' <=> ok1
          /\ Second(f)' <=> (~ok1 \/ f = "kernel")
      BY <2>2, <3>1, <3>3 DEF Second
    <3>5. status' \subseteq Settled'
      BY <2>2, <3>1, <3>3
    <3>6. /\ f \in status' => FileBlock(f)' \in heap1'
          /\ Second(f)' => FileBlock(f)' \in heap2'
      BY <1>4, <1>5, <3>1, <3>4
    <3>7. \A g \in Settled \cap present :
             /\ g \in status' => FileBlock(g)' \in heap1'
             /\ Second(g)' => FileBlock(g)' \in heap2'
             /\ FileBlock(g)' = FileBlock(g)
      BY <1>4, <2>2, <3>1, <3>2, <3>4 DEF Placed
    <3>8. \A g \in Settled \cap present :
             (({f, g} \subseteq status') \/ (Second(f)' /\ Second(g)')) =>
                 /\ Heap!Disjoint(FileBlock(f)', FileBlock(g)')
                 /\ Heap!Disjoint(FileBlock(g)', FileBlock(f)')
      <4>. TAKE g \in Settled \cap present
      <4>1. CASE {f, g} \subseteq status'
        <5>1. ok1 /\ FileBlock(g) \in heap1
          BY <3>1, <3>4, <4>1 DEF Placed
        <5>2. Heap!Disjoint(Heap!Block(a, n), FileBlock(g))
          BY <5>1 DEF Given, Heap!Fits
        <5>3. FileBlock(f)' = Heap!Block(a, n)
          BY <1>4, <5>1
        <5>. QED
          BY <3>7, <5>2, <5>3 DEF Heap!Disjoint
      <4>2. CASE Second(f)' /\ Second(g)'
        <5>1. ok2 /\ FileBlock(g) \in heap2
          BY <1>5, <3>1, <3>4, <4>2 DEF Placed
        <5>2. Heap!Disjoint(Heap!Block(b, n), FileBlock(g))
          BY <5>1 DEF Given, Heap!Fits
        <5>3. FileBlock(f)' = Heap!Block(b, n)
          BY <1>4, <3>1, <3>4, <4>2
        <5>. QED
          BY <3>7, <5>2, <5>3 DEF Heap!Disjoint
      <4>. QED
        BY <4>1, <4>2
    <3>9. \A g, h \in Settled \cap present :
             g # h /\ (({g, h} \subseteq status') \/ (Second(g)' /\ Second(h)'))
                 => Heap!Disjoint(FileBlock(g)', FileBlock(h)')
      <4>. TAKE g, h \in Settled \cap present
      <4>1. /\ {g, h} \subseteq status' => {g, h} \subseteq status
            /\ Second(g)' /\ Second(h)' => Second(g) /\ Second(h)
        BY <3>4
      <4>2. FileBlock(g)' = FileBlock(g) /\ FileBlock(h)' = FileBlock(h)
        BY <3>7
      <4>. QED
        BY <3>1, <4>1, <4>2 DEF Placed
    <3>10. \A g \in Settled' \cap Present' :
             /\ g \in status' => FileBlock(g)' \in heap1'
             /\ Second(g)' => FileBlock(g)' \in heap2'
      BY <2>2, <3>2, <3>6, <3>7
    <3>11. \A g, h \in Settled' \cap Present' :
             g # h /\ (({g, h} \subseteq status') \/ (Second(g)' /\ Second(h)'))
                 => Heap!Disjoint(FileBlock(g)', FileBlock(h)')
      BY <2>2, <3>2, <3>8, <3>9
    <3>. QED
      BY <3>5, <3>10, <3>11 DEF Placed
  <2>7. Whole' /\ FilesIntactWhenSynchronised'
    BY <2>2 DEF Whole, FilesIntactWhenSynchronised
  <2>8. LoaderNotOverwritten' /\ Stage2NotOverwritten'
    BY <1>1, <2>2 DEF IInv, LoaderNotOverwritten, Stage2NotOverwritten
  <2>. QED
    BY <2>2, <2>3, <2>4, <2>5, <2>6, <2>7, <2>8 DEF IInv
<1>6. CASE ~(ok1 \/ ok2)
  <2>1. /\ phase' = "halted" /\ file' = file /\ heap1' = heap1 /\ heap2' = heap2 /\ free' = free
        /\ status' = status /\ UNCHANGED <<header, rdram>>
    BY <1>6 DEF Given, OutOfMemory
  <2>2. address' \in [Files -> Nat]
    BY <1>3
  <2>3. TypeOK'
    BY <2>1, <2>2 DEF IInv, TypeOK
  <2>4. InRange(heap1, Stage1Start)' /\ InRange(heap2, Stage2Start)' /\ FreeIsCounted'
    BY <2>1 DEF IInv, InRange, FreeIsCounted
  <2>5. Whole' /\ FilesIntactWhenSynchronised' /\ LoaderNotOverwritten' /\ Stage2NotOverwritten'
    BY <2>1 DEF IInv, Whole, FilesIntactWhenSynchronised, LoaderNotOverwritten, Stage2NotOverwritten
  <2>. QED
    BY <2>1, <2>3, <2>4, <2>5 DEF IInv
<1>. QED
  BY <1>5, <1>6

LEMMA AllocateKernelKeeps == IInv /\ AllocateKernel => IInv'
<1>. SUFFICES ASSUME IInv, AllocateKernel PROVE IInv'
  OBVIOUS
<1>. DEFINE block == Heap!Block(header.addr_load, Length("kernel"))
            ok1 == Heap!Fits(block, heap1, Stage1Start, MemoryEnd)
            ok2 == Heap!Fits(block, heap2, Stage2Start, MemoryEnd)
            first == IF ok1 THEN TRUE ELSE FALSE
            second == IF ok2 THEN TRUE ELSE FALSE
<1>1. heap1 = {} /\ heap2 = {}
  BY DEF IInv, AllocateKernel
<1>2. ok1 => ok2
  BY <1>1, HeaderTypes, LayoutAssumption DEF IInv, Heap!Fits, Heap!Block
<1>3. Length("kernel") > 0 /\ header.addr_load \in Nat /\ "kernel" \in Files
  BY HeaderTypes DEF IInv, Files
<1>4. Given("kernel", first, header.addr_load, second, header.addr_load)
  BY <1>2, <1>3 DEF Given, AllocateKernel
<1>. HIDE DEF first, second
<1>5. first \in BOOLEAN /\ second \in BOOLEAN
  BY DEF first, second
<1>. QED
  BY <1>3, <1>4, <1>5, GivenKeeps

(* A heap gives a file a place that is clear, or none. *)
LEMMA PlacesFit ==
    ASSUME TypeOK, NEW f \in Files, Length(f) > 0, NEW heap, NEW begin \in Nat, begin > 0,
           InRange(heap, begin), NEW a \in Places(f, heap, begin)
    PROVE  /\ a \in Nat
           /\ a # 0 => Heap!Fits(Heap!Block(a, Length(f)), heap, begin, MemoryEnd)
<1>. DEFINE B == Heap!BestFit(Length(f), Alignment(f), heap, begin, MemoryEnd)
<1>1. Length(f) \in Nat
  BY HeaderTypes
<1>2. \A q \in B : q.start \in Nat /\ Heap!Fits(Heap!Block(q.start, Length(f)), heap, begin, MemoryEnd)
  BY <1>1, BestFitFits
<1>3. a \in (IF B = {} THEN {0} ELSE {q.start : q \in B})
  BY DEF Places
<1>. HIDE DEF B
<1>. QED
  BY <1>2, <1>3

LEMMA AllocateOptionalKeeps ==
    ASSUME IInv, NEW f \in Optional, AllocateOptional(f)
    PROVE  IInv'
<1>1. PICK a1 \in Places(f, heap1, Stage1Start), a2 \in Places(f, heap2, Stage2Start) :
          /\ heap1' = Taken(f, heap1, a1)
          /\ heap2' = Taken(f, heap2, a2)
          /\ free' = IF a1 # 0 THEN free - Length(f) ELSE free
          /\ status' = IF a1 # 0 THEN status \cup {f} ELSE status
          /\ address' = [address EXCEPT ![f] = IF a1 # 0 THEN a1 ELSE a2]
          /\ IF a1 # 0 \/ a2 # 0 THEN Allocated(f) ELSE OutOfMemory
  BY Zenon DEF AllocateOptional
<1>2. /\ phase = "allocate" /\ file = f /\ Length(f) > 0 /\ UNCHANGED <<header, rdram>>
      /\ f \in Files /\ f # "kernel" /\ TypeOK
      /\ InRange(heap1, Stage1Start) /\ InRange(heap2, Stage2Start)
  BY DEF AllocateOptional, IInv, Files, Optional
<1>3. Stage1Start \in Nat /\ Stage1Start > 0 /\ Stage2Start \in Nat /\ Stage2Start > 0
  BY LayoutAssumption
<1>4. /\ a1 \in Nat /\ a2 \in Nat
      /\ a1 # 0 => Heap!Fits(Heap!Block(a1, Length(f)), heap1, Stage1Start, MemoryEnd)
      /\ a2 # 0 => Heap!Fits(Heap!Block(a2, Length(f)), heap2, Stage2Start, MemoryEnd)
  BY <1>2, <1>3, PlacesFit
<1>5. Given(f, a1 # 0, a1, a2 # 0, a2)
  BY <1>1, <1>2, <1>4 DEF Given, Taken
<1>. QED
  BY <1>2, <1>4, <1>5, GivenKeeps

(* An empty file takes no place, and no one has to find it. *)
LEMMA SkipEmptyKeeps ==
    ASSUME IInv, NEW f \in Optional, SkipEmpty(f)
    PROVE  IInv'
<1>1. /\ phase = "allocate" /\ file = f /\ Length(f) = 0 /\ status' = status \cup {f}
      /\ Allocated(f) /\ UNCHANGED <<header, heap1, heap2, free, address, rdram>>
      /\ f \in Files
  BY DEF SkipEmpty, Files
<1>2. /\ Settled' = Settled \cup {f} /\ f \notin Settled /\ phase' \in {"allocate", "stage1"}
      /\ ~(phase' = "allocate" /\ file' = "kernel") /\ file' \in Files
      /\ Before(file)' = {} \/ phase' = "allocate"
  BY <1>1, NextTurn DEF IInv
<1>3. TypeOK'
  BY <1>1, <1>2 DEF IInv, TypeOK
<1>4. InRange(heap1, Stage1Start)' /\ InRange(heap2, Stage2Start)' /\ FreeIsCounted'
  BY <1>1 DEF IInv, InRange, FreeIsCounted
<1>5. Placed'
  <2>1. Present' = Present /\ f \notin Present
    BY <1>1 DEF Present, Length
  <2>2. Placed /\ status' \subseteq Settled'
    BY <1>1, <1>2 DEF IInv, Placed
  <2>3. \A g \in Present : /\ g \in status' <=> g \in status
                           /\ Second(g)' <=> Second(g)
                           /\ FileBlock(g)' = FileBlock(g)
    BY <1>1, <2>1 DEF Second, FileBlock, Length, Heap!Block
  <2>4. Settled' \cap Present' = Settled \cap Present
    BY <1>2, <2>1
  <2>5. \A g \in Settled \cap Present :
          /\ g \in status' => FileBlock(g)' \in heap1'
          /\ Second(g)' => FileBlock(g)' \in heap2'
    BY <1>1, <2>2, <2>3 DEF Placed
  <2>6. \A g, h \in Settled \cap Present :
          g # h /\ (({g, h} \subseteq status') \/ (Second(g)' /\ Second(h)'))
              => Heap!Disjoint(FileBlock(g)', FileBlock(h)')
    BY <2>2, <2>3 DEF Placed
  <2>. QED
    BY <2>2, <2>4, <2>5, <2>6 DEF Placed
<1>6. Whole' /\ FilesIntactWhenSynchronised'
  BY <1>2 DEF Whole, FilesIntactWhenSynchronised
<1>7. LoaderNotOverwritten' /\ Stage2NotOverwritten'
  BY <1>1, <1>2 DEF IInv, LoaderNotOverwritten, Stage2NotOverwritten
<1>. QED
  BY <1>2, <1>3, <1>4, <1>5, <1>6, <1>7 DEF IInv
-----------------------------------------------------------------------------
(* Loading. *)

(* A file that is loaded in its block is whole, and disturbs nothing outside. *)
LEMMA LoadWrites ==
    ASSUME TypeOK, NEW f \in Files, NEW begin \in Nat, Load(f), UNCHANGED <<header, address>>,
           Length(f) > 0 => begin <= address[f] /\ address[f] + Length(f) <= MemoryEnd
    PROVE  /\ rdram' \in [0 .. MemoryEnd - 1 -> Files \cup {"loader", "free"}]
           /\ \A a \in 0 .. MemoryEnd - 1 : a < begin => rdram'[a] = rdram[a]
           /\ Intact(f)'
           /\ \A g \in Present : Intact(g) /\ Heap!Disjoint(FileBlock(f), FileBlock(g)) => Intact(g)'
<1>1. /\ rdram \in [0 .. MemoryEnd - 1 -> Files \cup {"loader", "free"}]
      /\ \A g \in Files : address[g] \in Nat /\ Length(g) \in Nat
      /\ MemoryEnd \in Nat
  BY HeaderTypes, LayoutAssumption DEF TypeOK
<1>2. \A g : Region(g)' = Region(g) /\ Region(g) = address[g] .. address[g] + Length(g) - 1
  BY DEF Region, Length
<1>3. rdram' = [a \in 0 .. MemoryEnd - 1 |-> IF a \in Region(f) THEN f ELSE rdram[a]]
  BY <1>1 DEF Load
<1>4. Region(f) \subseteq begin .. MemoryEnd - 1
  BY <1>1, <1>2
<1>5. rdram' \in [0 .. MemoryEnd - 1 -> Files \cup {"loader", "free"}]
  BY <1>1, <1>3
<1>6. \A a \in 0 .. MemoryEnd - 1 : a < begin => rdram'[a] = rdram[a]
  BY <1>1, <1>3, <1>4
<1>7. Intact(f)'
  BY <1>1, <1>2, <1>3, <1>4 DEF Intact
<1>8. ASSUME NEW g \in Present, Intact(g), Heap!Disjoint(FileBlock(f), FileBlock(g))
      PROVE  Intact(g)'
  <2>1. /\ g \in Files /\ address[g] \in Nat /\ Length(g) \in Nat
        /\ address[f] \in Nat /\ Length(f) \in Nat
    BY <1>1, <1>8 DEF Present
  <2>2. \/ address[f] + Length(f) <= address[g]
        \/ address[g] + Length(g) <= address[f]
    BY <1>8 DEF Heap!Disjoint, FileBlock, Heap!Block
  <2>3. Region(f) \cap Region(g) = {}
    BY <1>2, <2>1, <2>2
  <2>4. \A a \in Region(g) : a \in 0 .. MemoryEnd - 1 /\ rdram[a] = g
    BY <1>1, <1>8 DEF Intact
  <2>5. \A a \in Region(g) : a \in DOMAIN rdram' /\ rdram'[a] = g
    BY <1>3, <2>3, <2>4
  <2>. QED
    BY <1>2, <2>5 DEF Intact
<1>. QED
  BY <1>5, <1>6, <1>7, <1>8

LEMMA NothingWritten ==
    ASSUME UNCHANGED <<header, address, rdram>>
    PROVE  \A g : Intact(g)' = Intact(g)
BY DEF Intact, Region, Length

LEMMA StageOneLoadKeeps == IInv /\ Stage1Load => IInv'
<1>. SUFFICES ASSUME IInv, Stage1Load PROVE IInv'
  OBVIOUS
<1>1. /\ phase = "stage1" /\ UNCHANGED <<header, heap1, heap2, free, status, address>>
      /\ Stage1Loaded(file) /\ file \in Files /\ TypeOK /\ Placed
      /\ InRange(heap1, Stage1Start)
  BY DEF Stage1Load, allocations, IInv, TypeOK
<1>2. /\ Stage1Start \in Nat /\ Stage1Start > 0 /\ MemoryEnd \in Nat
      /\ Stage2Start \in Nat /\ Stage2Start < Stage1Start /\ Stage1Start < MemoryEnd
      /\ \A f \in Files : address[f] \in Nat /\ Length(f) \in Nat
  BY <1>1, LayoutAssumption, HeaderTypes DEF TypeOK
<1>3. \A f : Length(f)' = Length(f) /\ FileBlock(f)' = FileBlock(f) /\ Second(f)' = Second(f)
  BY <1>1 DEF Length, FileBlock, Heap!Block, Second
<1>4. Present' = Present /\ Synchronised' = Synchronised
  BY <1>1, <1>3 DEF Present, Synchronised, Length
<1>5. Settled = Files /\ Present \subseteq Files
  BY <1>1 DEF Settled, Present
<1>6. \A f \in Present \cap status : /\ Stage1Start <= address[f]
                                     /\ address[f] + Length(f) <= MemoryEnd
  <2>. TAKE f \in Present \cap status
  <2>1. FileBlock(f) \in heap1
    BY <1>1, <1>5 DEF Placed
  <2>2. Stage1Start <= FileBlock(f).start /\ FileBlock(f).end <= MemoryEnd
    BY <1>1, <2>1 DEF InRange
  <2>. QED
    BY <2>2 DEF FileBlock, Heap!Block
<1>7. /\ rdram' \in [0 .. MemoryEnd - 1 -> Files \cup {"loader", "free"}]
      /\ \A a \in 0 .. MemoryEnd - 1 : a < Stage1Start => rdram'[a] = rdram[a]
      /\ \A f \in Present \cap status : Intact(f) \/ f = file => Intact(f)'
  <2>1. CASE address[file] # 0 /\ file \in status
    <3>1. Load(file)
      BY <1>1, <2>1 DEF Stage1Load
    <3>2. Length(file) > 0 => Stage1Start <= address[file] /\ address[file] + Length(file) <= MemoryEnd
      BY <1>1, <1>6, <2>1 DEF Present
    <3>3. /\ rdram' \in [0 .. MemoryEnd - 1 -> Files \cup {"loader", "free"}]
          /\ \A a \in 0 .. MemoryEnd - 1 : a < Stage1Start => rdram'[a] = rdram[a]
          /\ \A g \in Present :
                g = file \/ (Intact(g) /\ Heap!Disjoint(FileBlock(file), FileBlock(g))) => Intact(g)'
      <4>1. PICK f \in Files : f = file
        BY <1>1
      <4>2. /\ Load(f) /\ TypeOK /\ UNCHANGED <<header, address>>
            /\ Length(f) > 0 => Stage1Start <= address[f] /\ address[f] + Length(f) <= MemoryEnd
        BY <1>1, <3>1, <3>2, <4>1
      <4>3. Stage1Start \in Nat
        BY <1>2
      <4>4. /\ rdram' \in [0 .. MemoryEnd - 1 -> Files \cup {"loader", "free"}]
            /\ \A a \in 0 .. MemoryEnd - 1 : a < Stage1Start => rdram'[a] = rdram[a]
            /\ Intact(f)'
            /\ \A g \in Present : Intact(g) /\ Heap!Disjoint(FileBlock(f), FileBlock(g)) => Intact(g)'
        BY <4>2, <4>3, LoadWrites
      <4>. QED
        BY <4>1, <4>4
    <3>4. ASSUME NEW g \in Present \cap status, Intact(g), g # file PROVE Intact(g)'
      <4>1. CASE Length(file) > 0
        <5>1. file \in Present
          BY <1>1, <4>1 DEF Present
        <5>2. Heap!Disjoint(FileBlock(file), FileBlock(g))
          BY <1>1, <1>5, <2>1, <3>4, <5>1 DEF Placed
        <5>. QED
          BY <3>3, <3>4, <5>2
      <4>2. CASE Length(file) = 0
        <5>1. Region(file) = {}
          BY <1>1, <1>2, <4>2 DEF Region
        <5>2. rdram' = rdram
          BY <1>1, <3>1, <5>1 DEF Load, TypeOK
        <5>. QED
          BY <1>1, <3>4, <5>2, NothingWritten
      <4>. QED
        BY <1>1, <1>2, <4>1, <4>2
    <3>. QED
      BY <3>3, <3>4
  <2>2. CASE ~(address[file] # 0 /\ file \in status)
    <3>1. rdram' = rdram
      BY <2>2 DEF Stage1Load
    <3>2. file \notin Present \cap status
      BY <1>2, <1>6, <2>2
    <3>. QED
      BY <1>1, <3>1, <3>2, NothingWritten DEF TypeOK
  <2>. QED
    BY <2>1, <2>2
<1>8. \A f \in Before(file) \cap Present \cap status : Intact(f)'
  BY <1>1, <1>7 DEF IInv, Whole
<1>9. /\ phase' \in {"stage1", "stage2", "kernel"} /\ file' \in Files
      /\ phase' = "stage1" => Before(file)' \subseteq Before(file) \cup {file}
      /\ phase' # "stage1" => Files = Before(file) \cup {file}
      /\ phase' = "stage2" => Before(file)' = {}
      /\ phase' = "kernel" => status = Files
  BY <1>1 DEF Stage1Loaded, After, Before, Files, Optional
<1>10. TypeOK'
  BY <1>1, <1>7, <1>9 DEF TypeOK
<1>11. Settled' = Files
  BY <1>9 DEF Settled
<1>12. Placed'
  BY <1>1, <1>3, <1>4, <1>5, <1>11 DEF Placed
<1>13. Whole'
  BY <1>1, <1>4, <1>5, <1>7, <1>8, <1>9 DEF Whole
<1>14. FilesIntactWhenSynchronised'
  BY <1>1, <1>4, <1>5, <1>7, <1>8, <1>9 DEF FilesIntactWhenSynchronised
<1>15. LoaderNotOverwritten' /\ Stage2NotOverwritten'
  BY <1>1, <1>2, <1>7, <1>9 DEF IInv, LoaderNotOverwritten, Stage2NotOverwritten
<1>16. InRange(heap1, Stage1Start)' /\ InRange(heap2, Stage2Start)' /\ FreeIsCounted'
  BY <1>1 DEF IInv, InRange, FreeIsCounted
<1>. QED
  BY <1>9, <1>10, <1>12, <1>13, <1>14, <1>15, <1>16 DEF IInv

(* When the heaps agree, what stage 2 loads and what is there already have their
   places in the heap of stage 2. *)
LEMMA StageTwoLoadKeeps == IInv /\ Stage2Load => IInv'
<1>. SUFFICES ASSUME IInv, Stage2Load PROVE IInv'
  OBVIOUS
<1>1. /\ phase = "stage2" /\ UNCHANGED <<header, heap1, heap2, free, status, address>>
      /\ file \in Files /\ TypeOK /\ Placed
      /\ InRange(heap2, Stage2Start)
  BY DEF Stage2Load, allocations, IInv, TypeOK
<1>2. /\ MemoryEnd \in Nat /\ Stage2Start \in Nat /\ Stage2Start < MemoryEnd
      /\ \A f \in Files : address[f] \in Nat /\ Length(f) \in Nat
  BY <1>1, LayoutAssumption, HeaderTypes DEF TypeOK
<1>3. \A f : Length(f)' = Length(f) /\ FileBlock(f)' = FileBlock(f) /\ Second(f)' = Second(f)
  BY <1>1 DEF Length, FileBlock, Heap!Block, Second
<1>4. Present' = Present /\ Synchronised' = Synchronised
  BY <1>1, <1>3 DEF Present, Synchronised, Length
<1>5. Settled = Files /\ Present \subseteq Files
  BY <1>1 DEF Settled, Present
<1>6. /\ rdram' \in [0 .. MemoryEnd - 1 -> Files \cup {"loader", "free"}]
      /\ \A a \in 0 .. MemoryEnd - 1 : a < Stage2Start => rdram'[a] = rdram[a]
      /\ Synchronised => \A f \in Present : Intact(f) \/ (f = file /\ f \notin status) => Intact(f)'
  <2>1. CASE file \notin status /\ Length(file) > 0
    <3>1. Load(file) /\ file \in Present
      BY <1>1, <2>1 DEF Stage2Load, Present
    <3>2. Stage2Start <= address[file] /\ address[file] + Length(file) <= MemoryEnd
      <4>1. FileBlock(file) \in heap2
        BY <1>1, <1>5, <2>1, <3>1 DEF Placed, Second
      <4>2. Stage2Start <= FileBlock(file).start /\ FileBlock(file).end <= MemoryEnd
        BY <1>1, <4>1 DEF InRange
      <4>. QED
        BY <4>2 DEF FileBlock, Heap!Block
    <3>3. /\ rdram' \in [0 .. MemoryEnd - 1 -> Files \cup {"loader", "free"}]
          /\ \A a \in 0 .. MemoryEnd - 1 : a < Stage2Start => rdram'[a] = rdram[a]
          /\ \A g \in Present :
                g = file \/ (Intact(g) /\ Heap!Disjoint(FileBlock(file), FileBlock(g))) => Intact(g)'
      <4>1. PICK f \in Files : f = file
        BY <1>1
      <4>2. /\ Load(f) /\ TypeOK /\ UNCHANGED <<header, address>>
            /\ Length(f) > 0 => Stage2Start <= address[f] /\ address[f] + Length(f) <= MemoryEnd
        BY <1>1, <3>1, <3>2, <4>1
      <4>3. Stage2Start \in Nat
        BY <1>2
      <4>4. /\ rdram' \in [0 .. MemoryEnd - 1 -> Files \cup {"loader", "free"}]
            /\ \A a \in 0 .. MemoryEnd - 1 : a < Stage2Start => rdram'[a] = rdram[a]
            /\ Intact(f)'
            /\ \A g \in Present : Intact(g) /\ Heap!Disjoint(FileBlock(f), FileBlock(g)) => Intact(g)'
        BY <4>2, <4>3, LoadWrites
      <4>. QED
        BY <4>1, <4>4
    <3>4. ASSUME Synchronised, NEW g \in Present, Intact(g), g # file PROVE Intact(g)'
      <4>1. Present \cap Optional \cap status = {}
        BY <2>1, <3>1, <3>4 DEF Synchronised
      <4>2. Second(g) /\ Second(file)
        BY <2>1, <3>4, <4>1 DEF Second, Present, Files
      <4>3. Heap!Disjoint(FileBlock(file), FileBlock(g))
        BY <1>1, <1>5, <3>1, <3>4, <4>2 DEF Placed
      <4>. QED
        BY <3>3, <3>4, <4>3
    <3>. QED
      BY <3>3, <3>4
  <2>2. CASE ~(file \notin status /\ Length(file) > 0)
    <3>1. rdram' = rdram
      BY <2>2 DEF Stage2Load
    <3>2. \A f \in Present : f = file => f \in status
      BY <2>2 DEF Present
    <3>. QED
      BY <1>1, <3>1, <3>2, NothingWritten DEF TypeOK
  <2>. QED
    BY <2>1, <2>2
<1>7. Synchronised => \A f \in Present : f \in status \cup Before(file) \cup {file} => Intact(f)'
  BY <1>1, <1>6 DEF IInv, Whole
<1>8. /\ phase' \in {"stage2", "kernel"} /\ file' \in Files
      /\ phase' = "stage2" => Before(file)' \subseteq Before(file) \cup {file}
      /\ phase' = "kernel" => Files = Before(file) \cup {file}
  BY <1>1 DEF Stage2Load, After, Before, Files, Optional
<1>9. TypeOK'
  BY <1>1, <1>6, <1>8 DEF TypeOK
<1>10. Settled' = Files
  BY <1>8 DEF Settled
<1>11. Placed'
  BY <1>1, <1>3, <1>4, <1>5, <1>10 DEF Placed
<1>12. Whole' /\ FilesIntactWhenSynchronised'
  BY <1>1, <1>4, <1>5, <1>7, <1>8 DEF Whole, FilesIntactWhenSynchronised
<1>13. LoaderNotOverwritten' /\ Stage2NotOverwritten'
  BY <1>2, <1>6, <1>8 DEF IInv, LoaderNotOverwritten, Stage2NotOverwritten
<1>14. InRange(heap1, Stage1Start)' /\ InRange(heap2, Stage2Start)' /\ FreeIsCounted'
  BY <1>1 DEF IInv, InRange, FreeIsCounted
<1>. QED
  BY <1>8, <1>9, <1>11, <1>12, <1>13, <1>14 DEF IInv
-----------------------------------------------------------------------------
LEMMA InitIInv == Init => IInv
<1>. SUFFICES ASSUME Init PROVE IInv
  OBVIOUS
<1>1. /\ heap1 = {} /\ heap2 = {} /\ phase = "allocate" /\ file = "kernel" /\ status = {}
      /\ free = MemoryEnd - Stage1Start
  BY DEF Init
<1>2. /\ Stage1Start \in Nat /\ Stage2Start \in Nat /\ MemoryEnd \in Nat
      /\ Stage2Start < Stage1Start /\ Stage1Start < MemoryEnd
  BY LayoutAssumption
<1>3. TypeOK
  BY <1>1, <1>2 DEF Init, TypeOK, Files
<1>4. Settled = {} /\ Placed
  BY <1>1 DEF Settled, Before, Placed
<1>5. FreeIsCounted
  <2>1. UNION {b.start .. b.end - 1 : b \in heap1} = {}
    BY <1>1
  <2>2. Cardinality(UNION {b.start .. b.end - 1 : b \in heap1}) = 0
    BY <2>1, FS_EmptySet, Zenon
  <2>. QED
    BY <1>1, <1>2, <2>2 DEF FreeIsCounted
<1>6. LoaderNotOverwritten /\ Stage2NotOverwritten
  BY <1>2 DEF Init, LoaderNotOverwritten, Stage2NotOverwritten
<1>7. Whole /\ FilesIntactWhenSynchronised
  BY <1>1 DEF Whole, FilesIntactWhenSynchronised
<1>. QED
  BY <1>1, <1>3, <1>4, <1>5, <1>6, <1>7 DEF IInv, InRange

LEMMA StutterKeeps == IInv /\ UNCHANGED vars => IInv'
<1>. SUFFICES ASSUME IInv, UNCHANGED vars PROVE IInv'
  OBVIOUS
<1>1. \A f : /\ Length(f)' = Length(f) /\ FileBlock(f)' = FileBlock(f)
             /\ Second(f)' = Second(f) /\ Intact(f)' = Intact(f) /\ Before(f)' = Before(f)
  BY DEF vars, Length, FileBlock, Heap!Block, Second, Intact, Region, Before
<1>2. Present' = Present /\ Settled' = Settled /\ Synchronised' = Synchronised
  BY DEF vars, Present, Length, Settled, Synchronised, Before
<1>3. TypeOK' /\ InRange(heap1, Stage1Start)' /\ InRange(heap2, Stage2Start)' /\ FreeIsCounted'
  BY DEF vars, IInv, TypeOK, InRange, FreeIsCounted
<1>4. Placed = Placed'
  BY <1>1, <1>2 DEF vars, Placed
<1>5. Whole' /\ FilesIntactWhenSynchronised'
  BY <1>1, <1>2 DEF vars, IInv, Whole, FilesIntactWhenSynchronised, Before
<1>6. LoaderNotOverwritten' /\ Stage2NotOverwritten'
  BY DEF vars, IInv, LoaderNotOverwritten, Stage2NotOverwritten
<1>. QED
  BY <1>3, <1>4, <1>5, <1>6 DEF vars, IInv

LEMMA NextKeeps == IInv /\ [Next]_vars => IInv'
<1>. SUFFICES ASSUME IInv, [Next]_vars PROVE IInv'
  OBVIOUS
<1>1. CASE AllocateKernel
  BY <1>1, AllocateKernelKeeps
<1>2. ASSUME NEW f \in Optional, SkipEmpty(f) PROVE IInv'
  BY <1>2, SkipEmptyKeeps
<1>3. ASSUME NEW f \in Optional, AllocateOptional(f) PROVE IInv'
  BY <1>3, AllocateOptionalKeeps
<1>4. CASE Stage1Load
  BY <1>4, StageOneLoadKeeps
<1>5. CASE Stage2Load
  BY <1>5, StageTwoLoadKeeps
<1>6. CASE UNCHANGED vars
  BY <1>6, StutterKeeps
<1>. QED
  BY <1>1, <1>2, <1>3, <1>4, <1>5, <1>6 DEF Next

(* The inductive invariant: where every file that has had its turn is in which
   heap, and which files are whole so far. *)
THEOREM InvariantHolds == Spec => []IInv
  BY InitIInv, NextKeeps, PTL DEF Spec

(* Every variable has its type. *)
THEOREM TypeCorrect == Spec => []TypeOK
<1>1. IInv => TypeOK
  BY DEF IInv
<1>. QED
  BY <1>1, InvariantHolds, PTL

(* A kernel that is started finds every boot file whole where it was told, whenever
   the two heaps agree (fsm.c:160-312, stage2/file.c:123-147). *)
THEOREM KernelFindsFiles == Spec => []FilesIntactWhenSynchronised
<1>1. IInv => FilesIntactWhenSynchronised
  BY DEF IInv
<1>. QED
  BY <1>1, InvariantHolds, PTL

(* Stage 1 never loads over itself or over the place of stage 2 (memory.c). *)
THEOREM LoaderIsKept == Spec => []LoaderNotOverwritten
<1>1. IInv => LoaderNotOverwritten
  BY DEF IInv
<1>. QED
  BY <1>1, InvariantHolds, PTL

(* What stage 2 runs on survives to the kernel (layout.h:88-124). *)
THEOREM StageTwoIsKept == Spec => []Stage2NotOverwritten
<1>1. IInv => Stage2NotOverwritten
  BY DEF IInv
<1>. QED
  BY <1>1, InvariantHolds, PTL

(* The free memory stage 1 counts is what the blocks of its heap leave. *)
THEOREM FreeMemoryIsCounted == Spec => []FreeIsCounted
<1>1. IInv => FreeIsCounted
  BY DEF IInv
<1>. QED
  BY <1>1, InvariantHolds, PTL
=============================================================================
