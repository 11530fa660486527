----------------------------- MODULE CacheProofs -----------------------------
(***************************************************************************)
(* What the CPU reads and executes once stage 1 has loaded the boot files, *)
(* for every size of memory, lines and blocks, and every layout of files   *)
(* whose lines are not those of data of stage 1.                           *)
(***************************************************************************)
EXTENDS Cache, TLAPS

(* Quotient and remainder. *)
Divided(x, n, q, r) == q \in Nat /\ r \in Nat /\ r < n /\ n * q \in Nat /\ x = n * q + r

LEMMA DivMod ==
    ASSUME NEW x \in Nat, NEW n \in Nat \ {0}
    PROVE  Divided(x, n, x \div n, x % n)
<1>1. x \div n \in Nat
  OBVIOUS
<1>2. x % n \in 0 .. n - 1
  OBVIOUS
<1>3. x = n * (x \div n) + (x % n)
  OBVIOUS
<1>4. n * (x \div n) \in Nat
  BY <1>1
<1>. QED
  BY <1>1, <1>2, <1>3, <1>4 DEF Divided

LEMMA TimesKeepsOrder ==
    ASSUME NEW n \in Nat \ {0}, NEW p \in Nat, NEW q \in Nat, p < q
    PROVE  n * p \in Nat /\ n * q \in Nat /\ n * p + n <= n * q
<1>1. PICK d \in Nat : q = p + 1 + d
  <2>1. q - p - 1 \in Nat /\ q = p + 1 + (q - p - 1)
    OBVIOUS
  <2>. QED
    BY <2>1
<1>2. n * q = n * p + n + n * d
  BY <1>1
<1>3. n * p \in Nat /\ n * d \in Nat
  OBVIOUS
<1>. QED
  BY <1>2, <1>3

(* An address is in one line only. *)
LEMMA QuotientIsUnique ==
    ASSUME NEW n \in Nat \ {0}, NEW x, NEW p, NEW q, NEW r, NEW s,
           Divided(x, n, p, r), Divided(x, n, q, s)
    PROVE  p = q /\ r = s
<1>1. /\ n * p \in Nat /\ n * q \in Nat /\ r \in Nat /\ s \in Nat /\ r < n /\ s < n
      /\ p \in Nat /\ q \in Nat /\ n * p + r = n * q + s
  BY DEF Divided
<1>2. ~(p < q)
  <2>. SUFFICES ASSUME p < q PROVE FALSE
    OBVIOUS
  <2>1. n * p + n <= n * q
    BY <1>1, TimesKeepsOrder
  <2>. QED
    BY <1>1, <2>1
<1>3. ~(q < p)
  <2>. SUFFICES ASSUME q < p PROVE FALSE
    OBVIOUS
  <2>1. n * q + n <= n * p
    BY <1>1, TimesKeepsOrder
  <2>. QED
    BY <1>1, <2>1
<1>4. p = q
  BY <1>1, <1>2, <1>3
<1>. QED
  BY <1>1, <1>4

LEMMA MultipleMod ==
    ASSUME NEW n \in Nat \ {0}, NEW q \in Nat, NEW l, l = n * q
    PROVE  l \in Nat /\ Divided(l, n, q, 0) /\ l % n = 0
<1>1. l \in Nat /\ n * q \in Nat
  OBVIOUS
<1>2. Divided(l, n, q, 0)
  BY <1>1 DEF Divided
<1>3. Divided(l, n, l \div n, l % n)
  BY <1>1, DivMod
<1>. QED
  BY <1>1, <1>2, <1>3, QuotientIsUnique

LEMMA LineIs ==
    ASSUME NEW n \in Nat \ {0}, NEW c \in Nat
    PROVE  \E q, r \in Nat :
              /\ Divided(c, n, q, r) /\ LineOf(c, n) = n * q /\ LineOf(c, n) \in Nat
              /\ LineOf(c, n) % n = 0
              /\ LineOf(c, n) <= c /\ c < LineOf(c, n) + n /\ c \in Line(LineOf(c, n), n)
<1>1. PICK q, r \in Nat : Divided(c, n, q, r) /\ r = c % n
  BY DivMod DEF Divided
<1>2. LineOf(c, n) = n * q /\ n * q \in Nat /\ c = n * q + r /\ r < n
  BY <1>1 DEF LineOf, Divided
<1>3. LineOf(c, n) % n = 0
  BY <1>1, <1>2, MultipleMod
<1>4. c \in Line(LineOf(c, n), n)
  BY <1>1, <1>2 DEF Line
<1>. QED
  BY <1>1, <1>2, <1>3, <1>4

LEMMA InOneLine ==
    ASSUME NEW n \in Nat \ {0}, NEW l \in Nat, l % n = 0, NEW c \in Line(l, n)
    PROVE  c \in Nat /\ LineOf(c, n) = l
<1>1. c \in Nat /\ c >= l /\ c < l + n
  BY DEF Line
<1>2. PICK p \in Nat : Divided(l, n, p, 0)
  BY DivMod DEF Divided
<1>3. Divided(c, n, p, c - l)
  BY <1>1, <1>2 DEF Divided
<1>4. Divided(c, n, c \div n, c % n)
  BY <1>1, DivMod
<1>5. c - l = c % n
  BY <1>3, <1>4, QuotientIsUnique
<1>. QED
  BY <1>1, <1>5 DEF LineOf

(* Memory ends with a line. *)
LEMMA LineInCells ==
    ASSUME NEW n \in Nat \ {0}, MemoryCells % n = 0, NEW c \in Cells
    PROVE  LineOf(c, n) \in Cells /\ Line(LineOf(c, n), n) \subseteq Cells
<1>0. MemoryCells \in Nat /\ c \in Nat /\ c < MemoryCells
  BY MemoryAssumption DEF Cells
<1>1. PICK m \in Nat : Divided(MemoryCells, n, m, 0)
  BY <1>0, DivMod DEF Divided
<1>2. PICK q \in Nat : LineOf(c, n) = n * q /\ LineOf(c, n) \in Nat /\ LineOf(c, n) <= c
  BY <1>0, LineIs
<1>3. MemoryCells = n * m /\ n * m \in Nat
  BY <1>0, <1>1 DEF Divided
<1>4. ~(m < q) /\ m # q
  <2>1. m # q
    BY <1>0, <1>2, <1>3
  <2>2. ASSUME m < q PROVE FALSE
    <3>1. n * m + n <= n * q
      BY <2>2, TimesKeepsOrder
    <3>. QED
      BY <1>0, <1>2, <1>3, <3>1
  <2>. QED
    BY <2>1, <2>2
<1>5. n * q + n <= n * m
  BY <1>4, TimesKeepsOrder
<1>6. LineOf(c, n) + n <= MemoryCells
  BY <1>2, <1>3, <1>5
<1>. QED
  BY <1>0, <1>2, <1>6 DEF Line, Cells

(* The loop of a cache operation reaches the lines of the range, all of them and no
   other (cache.c). *)
LEMMA OperatedAreLines ==
    ASSUME NEW n \in Nat \ {0}, NEW address \in Nat, NEW length \in Nat \ {0}
    PROVE  Operated(address, length, n)
             = {LineOf(c, n) : c \in address .. address + length - 1}
<1>. DEFINE delta == address % n
            whole == (length + delta) \div n
            rest == (length + delta) % n
            last == IF rest # 0 THEN whole ELSE whole - 1
<1>1. PICK first \in Nat : Divided(address, n, first, delta)
  BY DivMod DEF Divided
<1>2. PICK base \in Nat : base = n * first /\ address = base + delta /\ delta \in Nat /\ delta < n
  BY <1>1 DEF Divided
<1>3. Operated(address, length, n) = {base + i * n : i \in 0 .. last}
  <2>1. Operated(address, length, n) = {address - delta + i * n : i \in 0 .. last}
    BY DEF Operated
  <2>2. address - delta = base
    BY <1>2
  <2>. HIDE DEF delta, last
  <2>. QED
    BY <2>1, <2>2
<1>4. Divided(length + delta, n, whole, rest)
  <2>1. length + delta \in Nat
    <3>. HIDE DEF delta
    <3>. QED
      BY <1>2
  <2>. QED
    BY <2>1, DivMod
<1>. HIDE DEF delta, whole, rest
<1>5. /\ last \in Nat /\ n * last \in Nat
      /\ n * last <= length + delta - 1 /\ length + delta - 1 < n * last + n
  <2>0. whole \in Nat /\ rest \in Nat /\ rest < n /\ n * whole \in Nat
        /\ length + delta = n * whole + rest
    BY <1>4 DEF Divided
  <2>1. CASE rest # 0
    BY <1>2, <2>0, <2>1
  <2>2. CASE rest = 0
    <3>1. whole # 0
      BY <1>2, <2>0, <2>2
    <3>2. PICK w \in Nat : whole = w + 1
      <4>1. whole - 1 \in Nat /\ whole = (whole - 1) + 1
        BY <2>0, <3>1
      <4>. QED
        BY <4>1
    <3>3. last = w /\ n * whole = n * w + n /\ n * w \in Nat
      BY <2>2, <3>2
    <3>. QED
      BY <1>2, <2>0, <2>2, <3>3
  <2>. QED
    BY <2>1, <2>2
<1>. HIDE DEF last
<1>6. ASSUME NEW c \in address .. address + length - 1
      PROVE  \E i \in 0 .. last : LineOf(c, n) = base + i * n
  <2>0. c \in Nat
    OBVIOUS
  <2>1. PICK q \in Nat : /\ LineOf(c, n) = n * q /\ LineOf(c, n) \in Nat
                         /\ LineOf(c, n) <= c /\ c < LineOf(c, n) + n
    BY <2>0, LineIs
  <2>2. ~(q < first)
    <3>. SUFFICES ASSUME q < first PROVE FALSE
      OBVIOUS
    <3>1. n * q + n <= n * first
      BY TimesKeepsOrder
    <3>. QED
      BY <1>2, <2>1, <3>1
  <2>3. PICK i \in Nat : q = first + i
    <3>1. q - first \in Nat /\ q = first + (q - first)
      BY <2>2
    <3>. QED
      BY <3>1
  <2>4. n * q = base + n * i /\ n * i \in Nat
    BY <1>2, <2>3
  <2>5. ~(last < i)
    <3>. SUFFICES ASSUME last < i PROVE FALSE
      OBVIOUS
    <3>1. n * last + n <= n * i
      BY <1>5, TimesKeepsOrder
    <3>. QED
      BY <1>2, <1>5, <2>1, <2>4, <3>1
  <2>6. i \in 0 .. last /\ i * n = n * i
    BY <1>5, <2>5
  <2>. QED
    BY <2>1, <2>4, <2>6
<1>7. ASSUME NEW i \in 0 .. last
      PROVE  \E c \in address .. address + length - 1 : LineOf(c, n) = base + i * n
  <2>1. i \in Nat /\ i * n = n * i /\ n * i \in Nat /\ i <= last
    BY <1>5
  <2>2. CASE i = 0
    <3>1. LineOf(address, n) = base
      BY <1>2 DEF LineOf, delta
    <3>. QED
      BY <2>1, <2>2, <3>1
  <2>3. CASE i # 0
    <3>1. PICK l \in Nat : l = base + n * i
      BY <1>2, <2>1
    <3>2. n * 0 + n <= n * i
      BY <2>1, <2>3, TimesKeepsOrder
    <3>3. n * i <= n * last
      <4>1. CASE i = last
        BY <1>5, <4>1
      <4>2. CASE i < last
        <5>1. n * i + n <= n * last
          BY <1>5, <2>1, <4>2, TimesKeepsOrder
        <5>. QED
          BY <1>5, <2>1, <5>1
      <4>. QED
        BY <1>5, <2>1, <4>1, <4>2
    <3>4. l \in address .. address + length - 1
      <4>1. n * i >= n
        BY <2>1, <3>2
      <4>. QED
        BY <1>2, <1>5, <2>1, <3>1, <3>3, <4>1
    <3>5. l = n * (first + i) /\ first + i \in Nat
      BY <1>2, <2>1, <3>1
    <3>6. l % n = 0
      BY <3>5, MultipleMod
    <3>7. LineOf(l, n) = l
      BY <3>1, <3>6 DEF LineOf
    <3>. QED
      BY <2>1, <3>1, <3>4, <3>7
  <2>. QED
    BY <2>2, <2>3
<1>. QED
  BY <1>3, <1>6, <1>7
-----------------------------------------------------------------------------
(* The layouts the theorems are about. *)

CellsOf(f) == f.start .. f.start + f.cells - 1

(* No line of a file that stage 1 loads holds data it writes to. *)
DataApart ==
    \A b \in Boots : \A f \in Range(b.stage1) : \A c \in CellsOf(f), d \in Data :
        LineOf(c, DataLine) # LineOf(d, DataLine)

(* Stage 2, which does not invalidate, has nothing to load. *)
AllByStage1 == \A b \in Boots : b.stage2 = << >>

LEMMA LineFacts ==
    ASSUME NEW c \in Cells
    PROVE  /\ LineOf(c, DataLine) \in Cells /\ LineOf(c, DataLine) % DataLine = 0
           /\ c \in Line(LineOf(c, DataLine), DataLine)
           /\ Line(LineOf(c, DataLine), DataLine) \subseteq Cells
           /\ LineOf(c, InstructionLine) \in Cells
           /\ LineOf(c, InstructionLine) % InstructionLine = 0
           /\ c \in Line(LineOf(c, InstructionLine), InstructionLine)
           /\ Line(LineOf(c, InstructionLine), InstructionLine) \subseteq Cells
<1>1. c \in Nat /\ DataLine \in Nat \ {0} /\ InstructionLine \in Nat \ {0}
      /\ MemoryCells % DataLine = 0 /\ MemoryCells % InstructionLine = 0
  BY MemoryAssumption DEF Cells
<1>. QED
  BY <1>1, LineIs, LineInCells

(* A line of memory is the line of each of its cells. *)
LEMMA LinesOfCells ==
    ASSUME NEW l \in Cells
    PROVE  /\ l % DataLine = 0 => /\ Line(l, DataLine) \subseteq Cells
                                  /\ \A c \in Line(l, DataLine) : LineOf(c, DataLine) = l
           /\ l % InstructionLine = 0 =>
                 /\ Line(l, InstructionLine) \subseteq Cells
                 /\ \A c \in Line(l, InstructionLine) : LineOf(c, InstructionLine) = l
<1>1. l \in Nat /\ DataLine \in Nat \ {0} /\ InstructionLine \in Nat \ {0}
      /\ MemoryCells % DataLine = 0 /\ MemoryCells % InstructionLine = 0
  BY MemoryAssumption DEF Cells
<1>2. ASSUME NEW n \in Nat \ {0}, l % n = 0, MemoryCells % n = 0
      PROVE  Line(l, n) \subseteq Cells /\ \A c \in Line(l, n) : LineOf(c, n) = l
  <2>1. \A c \in Line(l, n) : LineOf(c, n) = l
    BY <1>1, <1>2, InOneLine
  <2>2. LineOf(l, n) = l
    BY <1>1, <1>2 DEF LineOf
  <2>3. Line(LineOf(l, n), n) \subseteq Cells
    BY <1>2, LineInCells
  <2>. QED
    BY <2>1, <2>2, <2>3
<1>. QED
  BY <1>1, <1>2

LEMMA TailIs ==
    ASSUME NEW S, NEW s \in Seq(S), s # << >>
    PROVE  /\ 1 \in DOMAIN s /\ Head(s) = s[1] /\ Head(s) \in S /\ Tail(s) \in Seq(S)
           /\ \A i \in DOMAIN Tail(s) : i + 1 \in DOMAIN s /\ Tail(s)[i] = s[i + 1] /\ i + 1 # 1
           /\ \A i \in DOMAIN s : i # 1 => i - 1 \in DOMAIN Tail(s) /\ Tail(s)[i - 1] = s[i]
<1>1. Len(s) \in Nat /\ Len(s) # 0 /\ DOMAIN s = 1 .. Len(s) /\ \A i \in 1 .. Len(s) : s[i] \in S
  OBVIOUS
<1>2. Tail(s) \in Seq(S) /\ Len(Tail(s)) = Len(s) - 1 /\ DOMAIN Tail(s) = 1 .. Len(s) - 1
  BY <1>1
<1>3. \A i \in 1 .. Len(s) - 1 : Tail(s)[i] = s[i + 1]
  BY <1>1
<1>4. \A i \in DOMAIN s : i # 1 => i - 1 \in 1 .. Len(s) - 1 /\ (i - 1) + 1 = i
  BY <1>1
<1>. QED
  BY <1>1, <1>2, <1>3, <1>4
-----------------------------------------------------------------------------
(* The parts of the type invariant, and the place in the program. *)

StageFiles == IF stage = 1 THEN boot.stage1 ELSE boot.stage2
Loading == {"dma", "invalidate", "digest"}

ProgramInv ==
    /\ boot \in Boots /\ checksum \in BOOLEAN /\ stage \in {1, 2}
    /\ pc \in {"load", "dma", "invalidate", "digest", "kernel", "halted"}
    /\ position \in Nat
    /\ IF todo = << >> THEN position = 0 ELSE position < File.cells
    /\ todo \in Seq(FileRecords)
    /\ \A i \in DOMAIN todo : todo[i] \in Range(StageFiles)
    /\ pc \in Loading => todo # << >>
    /\ pc = "invalidate" => stage = 1
    /\ pc = "kernel" => todo = << >>

DataLines(cache) ==
    \A l \in DOMAIN cache :
        /\ l \in Cells /\ l % DataLine = 0
        /\ cache[l] \in [dirty : BOOLEAN, cells : [Line(l, DataLine) -> Values]]

InstructionLines(cache) ==
    \A l \in DOMAIN cache :
        /\ l \in Cells /\ l % InstructionLine = 0
        /\ cache[l] \in [Line(l, InstructionLine) -> Values]

MemoryInv ==
    /\ rdram \in [Cells -> Values] /\ written \in [Data -> Values]
    /\ DataLines(dcache) /\ InstructionLines(icache)

LEMMA FilesAre ==
    ASSUME ProgramInv
    PROVE  /\ {boot.stage1, boot.stage2} \subseteq Seq(FileRecords)
           /\ \A f \in Range(StageFiles) :
                f \in FileRecords /\ f.start + f.cells <= MemoryCells /\ CellsOf(f) \subseteq Cells
<1>1. /\ {boot.stage1, boot.stage2} \subseteq Seq(FileRecords)
      /\ \A f \in Range(boot.stage1) \cup Range(boot.stage2) : f.start + f.cells <= MemoryCells
  BY MemoryAssumption DEF ProgramInv
<1>2. \A s \in Seq(FileRecords) : Range(s) \subseteq FileRecords
  <2>. SUFFICES ASSUME NEW s \in Seq(FileRecords) PROVE Range(s) \subseteq FileRecords
    OBVIOUS
  <2>1. \A i \in DOMAIN s : s[i] \in FileRecords
    OBVIOUS
  <2>. QED
    BY <2>1 DEF Range
<1>3. MemoryCells \in Nat
  BY MemoryAssumption
<1>4. ASSUME NEW f \in FileRecords, f.start + f.cells <= MemoryCells
      PROVE  CellsOf(f) \subseteq Cells
  BY <1>3, <1>4 DEF FileRecords, CellsOf, Cells
<1>. QED
  BY <1>1, <1>2, <1>4 DEF StageFiles

(* The block that is loaded is in its file, and in memory. *)
LEMMA BlockIs ==
    ASSUME ProgramInv, todo # << >>
    PROVE  /\ File = todo[1] /\ 1 \in DOMAIN todo /\ File \in Range(StageFiles)
           /\ File \in FileRecords /\ CellsOf(File) \subseteq Cells
           /\ BlockStart \in Nat /\ BlockCells \in Nat \ {0}
           /\ position + BlockCells <= File.cells
           /\ BlockRange \subseteq CellsOf(File) /\ BlockRange \subseteq Cells
           /\ \A c \in CellsOf(File) :
                c >= BlockStart => c \in BlockRange \/ c >= BlockStart + BlockCells
<1>1. File = todo[1] /\ 1 \in DOMAIN todo
  BY TailIs DEF ProgramInv, File
<1>2. File \in Range(StageFiles) /\ File \in FileRecords /\ CellsOf(File) \subseteq Cells
  BY <1>1, FilesAre DEF ProgramInv
<1>3. File.start \in Nat /\ File.cells \in Nat /\ position \in Nat /\ position < File.cells
      /\ Block \in Nat \ {0}
  BY <1>2, MemoryAssumption DEF ProgramInv, FileRecords
<1>4. BlockCells \in Nat \ {0} /\ position + BlockCells <= File.cells
  BY <1>3 DEF BlockCells
<1>5. BlockStart = File.start + position /\ BlockStart \in Nat
  BY <1>3 DEF BlockStart
<1>. HIDE DEF BlockCells, BlockStart
<1>6. BlockRange \subseteq CellsOf(File)
  <2>. SUFFICES ASSUME NEW c \in BlockRange PROVE c \in CellsOf(File)
    OBVIOUS
  <2>1. c \in Nat /\ c >= BlockStart /\ c <= BlockStart + BlockCells - 1
    BY <1>4, <1>5 DEF BlockRange
  <2>. QED
    BY <1>3, <1>4, <1>5, <2>1 DEF CellsOf
<1>7. \A c \in CellsOf(File) :
        c >= BlockStart => c \in BlockRange \/ c >= BlockStart + BlockCells
  BY <1>3, <1>4, <1>5 DEF BlockRange, CellsOf
<1>. QED
  BY <1>1, <1>2, <1>4, <1>5, <1>6, <1>7
-----------------------------------------------------------------------------
(* The inductive invariant: what is dirty is data of stage 1; ... *)

CachedDirty(l) == l \in DOMAIN dcache /\ dcache[l].dirty

DirtyInv == \A l \in DOMAIN dcache : dcache[l].dirty => \E d \in Data : l = LineOf(d, DataLine)

(* ... what stage 1 has written to a cell is in RDRAM or in a dirty line; ... *)
OwnInv ==
    stage = 1 => \A d \in Data : /\ Read(d) = written[d]
                                 /\ CachedDirty(LineOf(d, DataLine)) \/ rdram[d] = written[d]

(* ... and a cell of a file is still to be loaded, or RDRAM and both caches have
   it. *)
Fine(c) == rdram[c] = "file" /\ Read(c) = "file" /\ Fetched(c) = "file"

Arrived == IF pc = "digest" THEN BlockStart + BlockCells ELSE BlockStart
Awaited(c) == \E i \in DOMAIN todo : c \in CellsOf(todo[i]) /\ (i = 1 => c >= Arrived)

FileCell(c) == \E f \in Range(boot.stage1) : c \in CellsOf(f)

FilesInv ==
    /\ stage = 1 /\ pc # "halted"
    /\ \A c \in Cells : FileCell(c) => Awaited(c) \/ Fine(c)
    /\ pc = "invalidate" => \A c \in BlockRange : rdram[c] = "file"
    /\ pc = "digest" => \A c \in BlockRange : Fine(c)

IInv ==
    /\ ProgramInv /\ MemoryInv /\ DirtyInv
    /\ DataApart => OwnInv
    /\ DataApart /\ AllByStage1 => FilesInv

LEMMA InitIInv == Init => IInv
<1>. SUFFICES ASSUME Init PROVE IInv
  OBVIOUS
<1>1. boot \in Boots /\ todo = boot.stage1 /\ stage = 1 /\ pc = "load" /\ position = 0
      /\ dcache = << >> /\ icache = << >> /\ DOMAIN dcache = {} /\ DOMAIN icache = {}
      /\ checksum \in BOOLEAN
  BY DEF Init
<1>2. todo \in Seq(FileRecords)
  BY <1>1, MemoryAssumption
<1>3. IF todo = << >> THEN position = 0 ELSE position < File.cells
  <2>1. CASE todo # << >>
    <3>1. File \in FileRecords
      BY <1>2, <2>1, TailIs DEF File
    <3>. QED
      BY <1>1, <2>1, <3>1 DEF FileRecords
  <2>. QED
    BY <1>1, <2>1
<1>4. ProgramInv
  BY <1>1, <1>2, <1>3 DEF ProgramInv, StageFiles, Loading, Range
<1>5. Data \subseteq Cells
  BY MemoryAssumption DEF Own
<1>6. MemoryInv /\ DirtyInv
  BY <1>1 DEF Init, MemoryInv, DataLines, InstructionLines, DirtyInv, Values
<1>7. OwnInv
  <2>1. \A d \in Data : rdram[d] = "old" /\ written[d] = "old"
    BY <1>5, MemoryAssumption DEF Init
  <2>. QED
    BY <1>1, <2>1 DEF OwnInv, Read
<1>8. FilesInv
  <2>1. ASSUME NEW c \in Cells, FileCell(c) PROVE Awaited(c)
    <3>1. PICK i \in DOMAIN todo : c \in CellsOf(todo[i])
      BY <1>1, <2>1 DEF FileCell, Range
    <3>2. ASSUME i = 1 PROVE c >= Arrived
      <4>1. todo # << >>
        BY <3>1
      <4>2. File = todo[1] /\ File \in FileRecords
        BY <1>2, <4>1, TailIs DEF File
      <4>. QED
        BY <1>1, <3>1, <3>2, <4>2 DEF Arrived, BlockStart, CellsOf, FileRecords
    <3>. QED
      BY <3>1, <3>2 DEF Awaited
  <2>. QED
    BY <1>1, <2>1 DEF FilesInv
<1>. QED
  BY <1>4, <1>6, <1>7, <1>8 DEF IInv
-----------------------------------------------------------------------------
(* Reading fills lines with what RDRAM has: nothing reads differently after it. *)
LEMMA FillKeeps ==
    ASSUME MemoryInv, NEW lines, lines \subseteq {LineOf(c, DataLine) : c \in Cells},
           dcache' = FilledData(lines), rdram' = rdram
    PROVE  /\ DataLines(dcache')
           /\ DOMAIN dcache' = DOMAIN dcache \cup lines
           /\ \A l \in DOMAIN dcache : dcache'[l] = dcache[l]
           /\ \A l \in lines \ DOMAIN dcache :
                dcache'[l] = [dirty |-> FALSE, cells |-> [c \in Line(l, DataLine) |-> rdram[c]]]
           /\ \A c \in Cells : Read(c)' = Read(c)
<1>1. /\ DOMAIN dcache' = DOMAIN dcache \cup lines
      /\ \A l \in DOMAIN dcache : dcache'[l] = dcache[l]
      /\ \A l \in lines \ DOMAIN dcache :
           dcache'[l] = [dirty |-> FALSE, cells |-> [c \in Line(l, DataLine) |-> rdram[c]]]
  BY DEF FilledData
<1>2. DataLines(dcache')
  <2>. SUFFICES ASSUME NEW l \in DOMAIN dcache'
                PROVE  /\ l \in Cells /\ l % DataLine = 0
                       /\ dcache'[l] \in [dirty : BOOLEAN, cells : [Line(l, DataLine) -> Values]]
    BY DEF DataLines
  <2>1. CASE l \in DOMAIN dcache
    BY <1>1, <2>1 DEF MemoryInv, DataLines
  <2>2. CASE l \in lines \ DOMAIN dcache
    <3>1. PICK c \in Cells : l = LineOf(c, DataLine)
      BY <2>2
    <3>2. l \in Cells /\ l % DataLine = 0 /\ Line(l, DataLine) \subseteq Cells
      BY <3>1, LineFacts
    <3>3. [x \in Line(l, DataLine) |-> rdram[x]] \in [Line(l, DataLine) -> Values]
      BY <3>2 DEF MemoryInv
    <3>4. PICK g \in [Line(l, DataLine) -> Values] : dcache'[l] = [dirty |-> FALSE, cells |-> g]
      BY <1>1, <2>2, <3>3
    <3>. QED
      BY <3>2, <3>4
  <2>. QED
    BY <1>1, <2>1, <2>2
<1>3. ASSUME NEW c \in Cells PROVE Read(c)' = Read(c)
  <2>. DEFINE l == LineOf(c, DataLine)
  <2>1. c \in Line(l, DataLine)
    BY LineFacts
  <2>2. Read(c)' = IF l \in DOMAIN dcache' THEN dcache'[l].cells[c] ELSE rdram[c]
    BY DEF Read
  <2>3. Read(c) = IF l \in DOMAIN dcache THEN dcache[l].cells[c] ELSE rdram[c]
    BY DEF Read
  <2>. HIDE DEF l
  <2>4. CASE l \in DOMAIN dcache
    BY <1>1, <2>2, <2>3, <2>4
  <2>5. CASE l \in lines \ DOMAIN dcache
    <3>1. dcache'[l].cells = [x \in Line(l, DataLine) |-> rdram[x]] /\ l \in DOMAIN dcache'
      BY <1>1, <2>5
    <3>. QED
      BY <2>1, <2>2, <2>3, <2>5, <3>1
  <2>. QED
    BY <1>1, <2>2, <2>3, <2>4, <2>5
<1>. QED
  BY <1>1, <1>2, <1>3

(* Lines of files are clean. *)
LEMMA FileLinesAreClean ==
    ASSUME IInv, DataApart, NEW c \in Cells, FileCell(c)
    PROVE  /\ ~CachedDirty(LineOf(c, DataLine))
           /\ \A d \in Data : LineOf(c, DataLine) # LineOf(d, DataLine) /\ c # d
<1>1. boot \in Boots
  BY DEF IInv, ProgramInv
<1>2. \A d \in Data : LineOf(c, DataLine) # LineOf(d, DataLine)
  BY <1>1 DEF DataApart, FileCell
<1>. QED
  BY <1>2 DEF IInv, DirtyInv, CachedDirty

(* Steps that only touch memory and keep what is fine. *)
LEMMA ElsewhereKeeps ==
    ASSUME IInv, UNCHANGED <<program, pc>>, MemoryInv', DirtyInv', DataApart => OwnInv',
           DataApart => \A c \in Cells : FileCell(c) =>
                            rdram'[c] = rdram[c] /\ (Fine(c) => Fine(c)')
    PROVE  IInv'
<1>1. UNCHANGED <<boot, checksum, stage, todo, position, pc>>
  BY DEF program
<1>2. ProgramInv'
  BY <1>1 DEF IInv, ProgramInv, StageFiles, File
<1>3. ASSUME DataApart, AllByStage1 PROVE FilesInv'
  <2>1. FilesInv /\ ProgramInv
    BY <1>3 DEF IInv
  <2>2. \A c \in Cells : FileCell(c) => rdram'[c] = rdram[c] /\ (Fine(c) => Fine(c)')
    BY <1>3
  <2>3. BlockRange' = BlockRange /\ BlockStart' = BlockStart /\ BlockCells' = BlockCells
    BY <1>1 DEF BlockRange, BlockStart, BlockCells, File
  <2>4. \A c \in Cells : FileCell(c)' = FileCell(c) /\ Awaited(c)' = Awaited(c)
    BY <1>1, <2>3 DEF FileCell, Awaited, Arrived
  <2>5. pc \in {"invalidate", "digest"} => \A c \in BlockRange : c \in Cells /\ FileCell(c)
    <3>. SUFFICES ASSUME pc \in {"invalidate", "digest"}, NEW c \in BlockRange
                  PROVE  c \in Cells /\ FileCell(c)
      OBVIOUS
    <3>1. todo # << >> /\ stage = 1
      BY <2>1 DEF ProgramInv, Loading, FilesInv
    <3>. QED
      BY <2>1, <3>1, BlockIs DEF FileCell, StageFiles
  <2>. QED
    BY <1>1, <2>1, <2>2, <2>3, <2>4, <2>5 DEF FilesInv
<1>. QED
  BY <1>2, <1>3 DEF IInv
-----------------------------------------------------------------------------
(* Stage 1 uses its memory, and lines are evicted, at any time. *)

LEMMA ReadOwnKeeps == IInv /\ ReadOwn => IInv'
<1>. SUFFICES ASSUME IInv, ReadOwn PROVE IInv'
  OBVIOUS
<1>1. PICK x \in Own : dcache' = FilledData({LineOf(x, DataLine)})
  BY DEF ReadOwn
<1>2. UNCHANGED <<program, pc, rdram, icache, written>> /\ stage' = stage
  BY DEF ReadOwn, program
<1>3. x \in Cells /\ MemoryInv
  BY MemoryAssumption DEF IInv
<1>4. /\ DataLines(dcache') /\ DOMAIN dcache' = DOMAIN dcache \cup {LineOf(x, DataLine)}
      /\ \A l \in DOMAIN dcache : dcache'[l] = dcache[l]
      /\ \A l \in {LineOf(x, DataLine)} \ DOMAIN dcache :
           dcache'[l] = [dirty |-> FALSE, cells |-> [c \in Line(l, DataLine) |-> rdram[c]]]
      /\ \A c \in Cells : Read(c)' = Read(c)
  <2>1. {LineOf(x, DataLine)} \subseteq {LineOf(c, DataLine) : c \in Cells}
    BY <1>3
  <2>. QED
    BY <1>1, <1>2, <1>3, <2>1, FillKeeps
<1>5. MemoryInv' /\ DirtyInv'
  BY <1>2, <1>4 DEF IInv, MemoryInv, DirtyInv
<1>6. DataApart => OwnInv'
  <2>. SUFFICES ASSUME OwnInv, stage = 1, NEW d \in Data
                PROVE  /\ Read(d)' = written[d]
                       /\ CachedDirty(LineOf(d, DataLine))' \/ rdram[d] = written[d]
    BY <1>2 DEF OwnInv, IInv
  <2>1. d \in Cells /\ Read(d) = written[d]
        /\ (CachedDirty(LineOf(d, DataLine)) \/ rdram[d] = written[d])
    BY MemoryAssumption DEF OwnInv, Own
  <2>. QED
    BY <1>4, <2>1 DEF CachedDirty
<1>7. \A c \in Cells : Fine(c) => Fine(c)'
  BY <1>2, <1>4 DEF Fine, Fetched
<1>. QED
  BY <1>2, <1>5, <1>6, <1>7, ElsewhereKeeps

LEMMA WriteOwnKeeps == IInv /\ WriteOwn => IInv'
<1>. SUFFICES ASSUME IInv, WriteOwn PROVE IInv'
  OBVIOUS
<1>1. PICK x \in Data :
        /\ dcache' = [FilledData({LineOf(x, DataLine)}) EXCEPT
                        ![LineOf(x, DataLine)].dirty = TRUE,
                        ![LineOf(x, DataLine)].cells[x] = "new"]
        /\ written' = [written EXCEPT ![x] = "new"]
  BY DEF WriteOwn
<1>2. UNCHANGED <<program, pc, rdram, icache>> /\ stage' = stage
  BY DEF WriteOwn, program
<1>3. x \in Cells /\ MemoryInv /\ Data \subseteq Cells
  BY MemoryAssumption DEF IInv, Own
<1>4. PICK m : m = LineOf(x, DataLine)
  OBVIOUS
<1>5. m \in Cells /\ m % DataLine = 0 /\ x \in Line(m, DataLine) /\ Line(m, DataLine) \subseteq Cells
  BY <1>3, <1>4, LineFacts
<1>. DEFINE Filled == [dirty : BOOLEAN, cells : [Line(m, DataLine) -> Values]]
<1>6. PICK g \in [Line(m, DataLine) -> Values] :
        /\ \A c \in Line(m, DataLine) : g[c] = Read(c)
        /\ FilledData({m})[m] \in Filled /\ FilledData({m})[m].cells = g
  <2>0. \A c \in Line(m, DataLine) : LineOf(c, DataLine) = m
    BY <1>5, LinesOfCells
  <2>1. CASE m \in DOMAIN dcache
    <3>1. FilledData({m})[m] = dcache[m]
      BY <2>1 DEF FilledData
    <3>2. dcache[m] \in Filled
      BY <1>3, <2>1 DEF MemoryInv, DataLines
    <3>3. \A c \in Line(m, DataLine) : dcache[m].cells[c] = Read(c)
      BY <2>0, <2>1 DEF Read
    <3>. QED
      BY <3>1, <3>2, <3>3
  <2>2. CASE m \notin DOMAIN dcache
    <3>1. [c \in Line(m, DataLine) |-> rdram[c]] \in [Line(m, DataLine) -> Values]
      BY <1>3, <1>5 DEF MemoryInv
    <3>2. PICK g \in [Line(m, DataLine) -> Values] :
            /\ g = [c \in Line(m, DataLine) |-> rdram[c]]
            /\ FilledData({m})[m] = [dirty |-> FALSE, cells |-> g]
      BY <2>2, <3>1 DEF FilledData
    <3>3. \A c \in Line(m, DataLine) : g[c] = Read(c)
      BY <2>0, <2>2, <3>2 DEF Read
    <3>4. FilledData({m})[m] \in Filled /\ FilledData({m})[m].cells = g
      <4>1. PICK r : r = FilledData({m})[m]
        OBVIOUS
      <4>2. r = [dirty |-> FALSE, cells |-> g]
        BY <3>2, <4>1
      <4>3. r \in Filled
        BY <4>2
      <4>4. r.cells = g
        BY <4>2
      <4>. QED
        BY <4>1, <4>3, <4>4
    <3>. QED
      BY <3>3, <3>4
  <2>. QED
    BY <2>1, <2>2
<1>7. /\ DOMAIN dcache' = DOMAIN dcache \cup {m}
      /\ dcache'[m] \in Filled /\ dcache'[m].dirty
      /\ dcache'[m].cells = [g EXCEPT ![x] = "new"]
      /\ \A l \in DOMAIN dcache : l # m => dcache'[l] = dcache[l]
  <2>. DEFINE D == FilledData({m})
              E == [D EXCEPT ![m].dirty = TRUE]
  <2>1. DOMAIN D = DOMAIN dcache \cup {m} /\ \A l \in DOMAIN dcache : D[l] = dcache[l]
    BY DEF FilledData
  <2>2. D = [l \in DOMAIN D |-> D[l]]
    BY DEF FilledData
  <2>3. dcache' = [E EXCEPT ![m].cells[x] = "new"]
    BY <1>1, <1>4
  <2>4. D[m] \in Filled /\ D[m].cells = g
    BY <1>6
  <2>. HIDE DEF D
  <2>5. /\ DOMAIN E = DOMAIN D /\ m \in DOMAIN D
        /\ \A l \in DOMAIN D : l # m => E[l] = D[l]
        /\ E[m] = [D[m] EXCEPT !.dirty = TRUE]
    BY <2>1, <2>2
  <2>6. E[m] \in Filled /\ E[m].dirty /\ E[m].cells = g
    BY <2>4, <2>5
  <2>. HIDE DEF E
  <2>7. /\ DOMAIN dcache' = DOMAIN E
        /\ \A l \in DOMAIN E : l # m => dcache'[l] = E[l]
        /\ dcache'[m] = [E[m] EXCEPT !.cells = [E[m].cells EXCEPT ![x] = "new"]]
    BY <2>3, <2>5
  <2>8. [g EXCEPT ![x] = "new"] \in [Line(m, DataLine) -> Values]
    BY DEF Values
  <2>9. dcache'[m] \in Filled /\ dcache'[m].dirty /\ dcache'[m].cells = [g EXCEPT ![x] = "new"]
    BY <2>6, <2>7, <2>8
  <2>. QED
    BY <2>1, <2>5, <2>7, <2>9
<1>8. \A c \in Cells : Read(c)' = IF c = x THEN "new" ELSE Read(c)
  <2>. SUFFICES ASSUME NEW c \in Cells PROVE Read(c)' = IF c = x THEN "new" ELSE Read(c)
    OBVIOUS
  <2>1. PICK l : l = LineOf(c, DataLine)
    OBVIOUS
  <2>2. c \in Line(l, DataLine)
    BY <2>1, LineFacts
  <2>3. /\ Read(c)' = IF l \in DOMAIN dcache' THEN dcache'[l].cells[c] ELSE rdram[c]
        /\ Read(c) = IF l \in DOMAIN dcache THEN dcache[l].cells[c] ELSE rdram[c]
    BY <1>2, <2>1 DEF Read
  <2>4. CASE l = m
    <3>1. Read(c)' = [g EXCEPT ![x] = "new"][c] /\ g[c] = Read(c)
      BY <1>6, <1>7, <2>2, <2>3, <2>4
    <3>. QED
      BY <1>6, <2>2, <2>4, <3>1
  <2>5. CASE l # m
    <3>1. c # x
      BY <1>4, <2>1, <2>5
    <3>. QED
      BY <1>7, <2>3, <2>5, <3>1
  <2>. QED
    BY <2>4, <2>5
<1>9. MemoryInv'
  <2>3. DataLines(dcache')
    <3>1. dcache'[m] \in Filled
      BY <1>7
    <3>2. \A l \in DOMAIN dcache : l # m =>
             /\ l \in Cells /\ l % DataLine = 0
             /\ dcache'[l] \in [dirty : BOOLEAN, cells : [Line(l, DataLine) -> Values]]
      BY <1>3, <1>7 DEF MemoryInv, DataLines
    <3>. QED
      BY <1>5, <1>7, <3>1, <3>2 DEF DataLines
  <2>4. written' \in [Data -> Values]
    BY <1>1, <1>3 DEF MemoryInv, Values
  <2>. QED
    BY <1>2, <1>3, <2>3, <2>4 DEF MemoryInv
<1>10. DirtyInv'
  BY <1>4, <1>7 DEF IInv, DirtyInv
<1>11. DataApart => OwnInv'
  <2>. SUFFICES ASSUME OwnInv, stage = 1, NEW d \in Data
                PROVE  /\ Read(d)' = written'[d]
                       /\ CachedDirty(LineOf(d, DataLine))' \/ rdram[d] = written'[d]
    BY <1>2 DEF OwnInv, IInv
  <2>1. d \in Cells /\ Read(d) = written[d]
        /\ (CachedDirty(LineOf(d, DataLine)) \/ rdram[d] = written[d])
    BY <1>3 DEF OwnInv
  <2>2. written'[d] = IF d = x THEN "new" ELSE written[d]
    BY <1>1, <1>3 DEF MemoryInv
  <2>3. CASE LineOf(d, DataLine) = m
    <3>1. CachedDirty(m)'
      BY <1>7 DEF CachedDirty
    <3>. QED
      BY <1>8, <2>1, <2>2, <2>3, <3>1
  <2>4. CASE LineOf(d, DataLine) # m
    BY <1>4, <1>7, <1>8, <2>1, <2>2, <2>4 DEF CachedDirty
  <2>. QED
    BY <2>3, <2>4
<1>12. DataApart => \A c \in Cells : FileCell(c) => rdram'[c] = rdram[c] /\ (Fine(c) => Fine(c)')
  <2>. SUFFICES ASSUME DataApart, NEW c \in Cells, FileCell(c), Fine(c) PROVE Fine(c)'
    BY <1>2
  <2>1. c # x
    BY FileLinesAreClean
  <2>. QED
    BY <1>2, <1>8, <2>1 DEF Fine, Fetched
<1>. QED
  BY <1>2, <1>9, <1>10, <1>11, <1>12, ElsewhereKeeps

LEMMA FetchKeeps == IInv /\ Fetch => IInv'
<1>. SUFFICES ASSUME IInv, Fetch PROVE IInv'
  OBVIOUS
<1>1. PICK m \in {LineOf(c, InstructionLine) : c \in Code} :
        icache' = [k \in DOMAIN icache \cup {m} |->
                     IF k = m THEN [c \in Line(m, InstructionLine) |-> rdram[c]] ELSE icache[k]]
  BY DEF Fetch
<1>2. UNCHANGED <<program, pc, rdram, dcache, written>> /\ stage' = stage
  BY DEF Fetch, program
<1>3. m \in Cells /\ m % InstructionLine = 0 /\ Line(m, InstructionLine) \subseteq Cells
  BY <1>1, LineFacts, MemoryAssumption DEF Own
<1>4. [c \in Line(m, InstructionLine) |-> rdram[c]] \in [Line(m, InstructionLine) -> Values]
  BY <1>3 DEF IInv, MemoryInv
<1>5. MemoryInv' /\ DirtyInv'
  <2>1. InstructionLines(icache')
    BY <1>1, <1>3, <1>4 DEF IInv, MemoryInv, InstructionLines
  <2>. QED
    BY <1>2, <2>1 DEF IInv, MemoryInv, DirtyInv
<1>6. \A c \in Cells : Read(c)' = Read(c)
  BY <1>2 DEF Read
<1>7. DataApart => OwnInv'
  BY <1>2 DEF IInv, OwnInv, CachedDirty, Read
<1>8. \A c \in Cells : Fine(c) => Fine(c)'
  <2>. SUFFICES ASSUME NEW c \in Cells, Fine(c) PROVE Fetched(c)' = "file"
    BY <1>2, <1>6 DEF Fine
  <2>1. PICK k : k = LineOf(c, InstructionLine)
    OBVIOUS
  <2>2. /\ Fetched(c)' = IF k \in DOMAIN icache' THEN icache'[k][c] ELSE rdram[c]
        /\ Fetched(c) = IF k \in DOMAIN icache THEN icache[k][c] ELSE rdram[c]
        /\ c \in Line(k, InstructionLine) /\ rdram[c] = "file" /\ Fetched(c) = "file"
    BY <1>2, <2>1, LineFacts DEF Fetched, Fine
  <2>. QED
    BY <1>1, <2>2
<1>. QED
  BY <1>2, <1>5, <1>7, <1>8, ElsewhereKeeps

LEMMA EvictDataKeeps == IInv /\ EvictData => IInv'
<1>. SUFFICES ASSUME IInv, EvictData PROVE IInv'
  OBVIOUS
<1>1. PICK m \in DOMAIN dcache :
        /\ rdram' = IF dcache[m].dirty
                    THEN [c \in Cells |-> IF c \in Line(m, DataLine) THEN dcache[m].cells[c]
                                          ELSE rdram[c]]
                    ELSE rdram
        /\ dcache' = Restrict(dcache, DOMAIN dcache \ {m})
  BY DEF EvictData
<1>2. UNCHANGED <<program, pc, icache, written>> /\ stage' = stage
  BY DEF EvictData, program
<1>3. MemoryInv /\ DirtyInv /\ Data \subseteq Cells
  BY MemoryAssumption DEF IInv, Own
<1>4. /\ m \in Cells /\ m % DataLine = 0 /\ dcache[m].cells \in [Line(m, DataLine) -> Values]
      /\ dcache[m].dirty \in BOOLEAN
  BY <1>3 DEF MemoryInv, DataLines
<1>5. /\ DOMAIN dcache' = DOMAIN dcache \ {m}
      /\ \A l \in DOMAIN dcache' : dcache'[l] = dcache[l]
  BY <1>1 DEF Restrict
<1>6. rdram' \in [Cells -> Values]
  BY <1>1, <1>3, <1>4 DEF MemoryInv
<1>7. MemoryInv' /\ DirtyInv'
  BY <1>2, <1>3, <1>5, <1>6 DEF MemoryInv, DataLines, DirtyInv
<1>8. \A c \in Line(m, DataLine) : c \in Cells /\ LineOf(c, DataLine) = m
  BY <1>4, LinesOfCells
<1>9. \A c \in Cells : LineOf(c, DataLine) # m => rdram'[c] = rdram[c] /\ Read(c)' = Read(c)
  <2>. SUFFICES ASSUME NEW c \in Cells, LineOf(c, DataLine) # m
                PROVE  rdram'[c] = rdram[c] /\ Read(c)' = Read(c)
    OBVIOUS
  <2>1. c \notin Line(m, DataLine)
    BY <1>8
  <2>2. rdram'[c] = rdram[c]
    BY <1>1, <2>1
  <2>. QED
    BY <1>5, <2>2 DEF Read
<1>10. \A c \in Cells : LineOf(c, DataLine) = m =>
          Read(c)' = rdram'[c] /\ (dcache[m].dirty => rdram'[c] = Read(c))
  <2>. SUFFICES ASSUME NEW c \in Cells, LineOf(c, DataLine) = m
                PROVE  Read(c)' = rdram'[c] /\ (dcache[m].dirty => rdram'[c] = Read(c))
    OBVIOUS
  <2>1. c \in Line(m, DataLine) /\ Read(c)' = rdram'[c] /\ Read(c) = dcache[m].cells[c]
    BY <1>5, LineFacts DEF Read
  <2>. QED
    BY <1>1, <2>1
<1>11. DataApart => OwnInv'
  <2>. SUFFICES ASSUME OwnInv, stage = 1, NEW d \in Data
                PROVE  /\ Read(d)' = written[d]
                       /\ CachedDirty(LineOf(d, DataLine))' \/ rdram'[d] = written[d]
    BY <1>2 DEF OwnInv, IInv
  <2>1. d \in Cells /\ Read(d) = written[d]
        /\ (CachedDirty(LineOf(d, DataLine)) \/ rdram[d] = written[d])
    BY <1>3 DEF OwnInv
  <2>2. CASE LineOf(d, DataLine) # m
    BY <1>5, <1>9, <2>1, <2>2 DEF CachedDirty
  <2>3. CASE LineOf(d, DataLine) = m /\ dcache[m].dirty
    BY <1>10, <2>1, <2>3
  <2>4. CASE LineOf(d, DataLine) = m /\ ~dcache[m].dirty
    <3>1. rdram' = rdram
      BY <1>1, <2>4
    <3>2. rdram[d] = written[d]
      BY <2>1, <2>4 DEF CachedDirty
    <3>. QED
      BY <1>10, <2>1, <2>4, <3>1, <3>2
  <2>. QED
    BY <2>2, <2>3, <2>4
<1>12. DataApart => \A c \in Cells : FileCell(c) => rdram'[c] = rdram[c] /\ (Fine(c) => Fine(c)')
  <2>. SUFFICES ASSUME DataApart, NEW c \in Cells, FileCell(c)
                PROVE  rdram'[c] = rdram[c] /\ (Fine(c) => Fine(c)')
    OBVIOUS
  <2>1. ~CachedDirty(LineOf(c, DataLine))
    BY FileLinesAreClean
  <2>2. rdram'[c] = rdram[c]
    <3>1. CASE LineOf(c, DataLine) # m
      BY <1>9, <3>1
    <3>2. CASE LineOf(c, DataLine) = m
      <4>1. ~dcache[m].dirty
        BY <2>1, <3>2 DEF CachedDirty
      <4>. QED
        BY <1>1, <4>1
    <3>. QED
      BY <3>1, <3>2
  <2>3. Read(c)' \in {Read(c), rdram'[c]}
    BY <1>9, <1>10
  <2>4. Fetched(c)' = IF LineOf(c, InstructionLine) \in DOMAIN icache THEN Fetched(c) ELSE rdram'[c]
    BY <1>2 DEF Fetched
  <2>. QED
    BY <2>2, <2>3, <2>4 DEF Fine
<1>. QED
  BY <1>2, <1>7, <1>11, <1>12, ElsewhereKeeps

LEMMA EvictInstructionKeeps == IInv /\ EvictInstruction => IInv'
<1>. SUFFICES ASSUME IInv, EvictInstruction PROVE IInv'
  OBVIOUS
<1>1. PICK m \in DOMAIN icache : icache' = Restrict(icache, DOMAIN icache \ {m})
  BY DEF EvictInstruction
<1>2. UNCHANGED <<program, pc, rdram, dcache, written>> /\ stage' = stage
  BY DEF EvictInstruction, program
<1>3. /\ DOMAIN icache' = DOMAIN icache \ {m}
      /\ \A l \in DOMAIN icache' : icache'[l] = icache[l]
  BY <1>1 DEF Restrict
<1>4. MemoryInv' /\ DirtyInv'
  BY <1>2, <1>3 DEF IInv, MemoryInv, InstructionLines, DirtyInv
<1>5. DataApart => OwnInv'
  BY <1>2 DEF IInv, OwnInv, CachedDirty, Read
<1>6. \A c \in Cells : Fine(c) => Fine(c)'
  <2>. SUFFICES ASSUME NEW c \in Cells, Fine(c) PROVE Fine(c)'
    OBVIOUS
  <2>1. Fetched(c)' \in {Fetched(c), rdram[c]} /\ Read(c)' = Read(c)
    BY <1>2, <1>3 DEF Fetched, Read
  <2>. QED
    BY <1>2, <2>1 DEF Fine
<1>. QED
  BY <1>2, <1>4, <1>5, <1>6, ElsewhereKeeps
-----------------------------------------------------------------------------
(* Loading a block. *)

(* The cells of a block are cells of a file. *)
LEMMA BlockCellsAre ==
    ASSUME ProgramInv, pc \in Loading
    PROVE  /\ todo # << >> /\ BlockRange \subseteq Cells
           /\ stage = 1 => \A c \in BlockRange : FileCell(c)
<1>1. todo # << >>
  BY DEF ProgramInv
<1>. QED
  BY <1>1, BlockIs DEF FileCell, StageFiles

(* Steps before a block is digested. *)
LEMMA BlockStays ==
    ASSUME ProgramInv, program' = program, pc' \in Loading, todo # << >>,
           pc' = "invalidate" => stage = 1
    PROVE  /\ ProgramInv' /\ BlockRange' = BlockRange
           /\ \A c : FileCell(c)' = FileCell(c)
           /\ pc # "digest" /\ pc' # "digest" => \A c : Awaited(c)' = Awaited(c)
<1>1. UNCHANGED <<boot, checksum, stage, todo, position>>
  BY DEF program
<1>2. ProgramInv'
  BY <1>1 DEF ProgramInv, Loading, StageFiles, File
<1>3. BlockStart' = BlockStart /\ BlockCells' = BlockCells /\ BlockRange' = BlockRange
  BY <1>1 DEF BlockRange, BlockStart, BlockCells, File
<1>. QED
  BY <1>1, <1>2, <1>3 DEF FileCell, Awaited, Arrived

LEMMA StartDmaKeeps == IInv /\ StartDma => IInv'
<1>. SUFFICES ASSUME IInv, StartDma PROVE IInv'
  OBVIOUS
<1>1. pc = "load" /\ pc' = "dma" /\ todo # << >> /\ program' = program
      /\ UNCHANGED <<stage, rdram, dcache, icache, written>>
  BY DEF StartDma, caches, program
<1>2. /\ ProgramInv' /\ \A c : FileCell(c)' = FileCell(c)
      /\ \A c : Awaited(c)' = Awaited(c)
  BY <1>1, BlockStays DEF IInv, Loading
<1>3. MemoryInv' /\ DirtyInv' /\ (DataApart => OwnInv')
  BY <1>1 DEF IInv, MemoryInv, DirtyInv, OwnInv, Read, CachedDirty
<1>4. \A c \in Cells : Fine(c)' = Fine(c)
  BY <1>1 DEF Fine, Read, Fetched
<1>5. DataApart /\ AllByStage1 => FilesInv'
  BY <1>1, <1>2, <1>4 DEF IInv, FilesInv
<1>. QED
  BY <1>2, <1>3, <1>5 DEF IInv

LEMMA TransferKeeps == IInv /\ Transfer => IInv'
<1>. SUFFICES ASSUME IInv, Transfer PROVE IInv'
  OBVIOUS
<1>1. /\ pc = "dma" /\ pc' = IF stage = 1 THEN "invalidate" ELSE "digest"
      /\ rdram' = [c \in Cells |-> IF c \in BlockRange THEN "file" ELSE rdram[c]]
      /\ program' = program /\ UNCHANGED <<stage, dcache, icache, written>>
  BY DEF Transfer, caches, program
<1>2. /\ todo # << >> /\ BlockRange \subseteq Cells
      /\ stage = 1 => \A c \in BlockRange : FileCell(c)
  BY <1>1, BlockCellsAre DEF IInv, Loading
<1>3. /\ ProgramInv' /\ BlockRange' = BlockRange
      /\ \A c : FileCell(c)' = FileCell(c)
      /\ pc' # "digest" => \A c : Awaited(c)' = Awaited(c)
  BY <1>1, <1>2, BlockStays DEF IInv, Loading
<1>4. MemoryInv' /\ DirtyInv'
  <2>1. rdram' \in [Cells -> Values]
    BY <1>1 DEF IInv, MemoryInv, Values
  <2>. QED
    BY <1>1, <2>1 DEF IInv, MemoryInv, DirtyInv
<1>5. DataApart => OwnInv'
  <2>. SUFFICES ASSUME DataApart, stage = 1, NEW d \in Data
                PROVE  /\ Read(d)' = written[d]
                       /\ CachedDirty(LineOf(d, DataLine))' \/ rdram'[d] = written[d]
    BY <1>1 DEF OwnInv
  <2>1. d \in Cells /\ Read(d) = written[d]
        /\ (CachedDirty(LineOf(d, DataLine)) \/ rdram[d] = written[d])
    BY MemoryAssumption DEF IInv, OwnInv, Own
  <2>2. d \notin BlockRange
    BY <1>2, FileLinesAreClean
  <2>3. rdram'[d] = rdram[d]
    BY <1>1, <2>1, <2>2
  <2>. QED
    BY <1>1, <2>1, <2>3 DEF Read, CachedDirty
<1>6. DataApart /\ AllByStage1 => FilesInv'
  <2>. SUFFICES ASSUME FilesInv PROVE FilesInv'
    BY DEF IInv
  <2>1. stage = 1 /\ pc' = "invalidate"
    BY <1>1 DEF FilesInv
  <2>2. \A c \in Cells : Fine(c) => Fine(c)'
    <3>. SUFFICES ASSUME NEW c \in Cells, Fine(c) PROVE Fine(c)'
      OBVIOUS
    <3>1. rdram[c] = "file" /\ rdram'[c] = "file"
      BY <1>1 DEF Fine
    <3>2. Read(c)' = Read(c) /\ Fetched(c)' = Fetched(c)
      BY <1>1, <3>1 DEF Read, Fetched
    <3>. QED
      BY <3>1, <3>2 DEF Fine
  <2>3. \A c \in BlockRange : rdram'[c] = "file"
    BY <1>1, <1>2
  <2>. QED
    BY <1>1, <1>3, <2>1, <2>2, <2>3 DEF FilesInv
<1>. QED
  BY <1>3, <1>4, <1>5, <1>6 DEF IInv

LEMMA InvalidateKeeps == IInv /\ Invalidate => IInv'
<1>. SUFFICES ASSUME IInv, Invalidate PROVE IInv'
  OBVIOUS
<1>. DEFINE DL == {LineOf(c, DataLine) : c \in BlockRange}
            IL == {LineOf(c, InstructionLine) : c \in BlockRange}
<1>1. /\ pc = "invalidate" /\ pc' = "digest" /\ stage = 1
      /\ program' = program /\ UNCHANGED <<stage, rdram, written>>
  BY DEF Invalidate, program, IInv, ProgramInv
<1>2. /\ todo # << >> /\ BlockRange \subseteq Cells /\ \A c \in BlockRange : FileCell(c)
  BY <1>1, BlockCellsAre DEF IInv, Loading
<1>3. /\ ProgramInv' /\ BlockRange' = BlockRange /\ \A c : FileCell(c)' = FileCell(c)
  BY <1>1, <1>2, BlockStays DEF IInv, Loading
<1>4. /\ Operated(BlockStart, BlockCells, DataLine) = DL
      /\ Operated(BlockStart, BlockCells, InstructionLine) = IL
  <2>1. BlockStart \in Nat /\ BlockCells \in Nat \ {0}
    BY <1>2, BlockIs DEF IInv
  <2>2. DataLine \in Nat \ {0} /\ InstructionLine \in Nat \ {0}
    BY MemoryAssumption
  <2>. QED
    BY <2>1, <2>2, OperatedAreLines DEF BlockRange
<1>5. /\ DOMAIN dcache' = DOMAIN dcache \ DL /\ \A l \in DOMAIN dcache' : dcache'[l] = dcache[l]
      /\ DOMAIN icache' = DOMAIN icache \ IL /\ \A l \in DOMAIN icache' : icache'[l] = icache[l]
  <2>1. dcache' = Restrict(dcache, DOMAIN dcache \ DL) /\ icache' = Restrict(icache, DOMAIN icache \ IL)
    BY <1>4 DEF Invalidate
  <2>. HIDE DEF DL, IL
  <2>. QED
    BY <2>1 DEF Restrict
<1>6. \A c \in Cells : Read(c)' \in {Read(c), rdram[c]} /\ Fetched(c)' \in {Fetched(c), rdram[c]}
  <2>. HIDE DEF DL, IL
  <2>. QED
    BY <1>1, <1>5 DEF Read, Fetched
<1>7. MemoryInv' /\ DirtyInv'
  <2>. HIDE DEF DL, IL
  <2>. QED
    BY <1>1, <1>5 DEF IInv, MemoryInv, DataLines, InstructionLines, DirtyInv
<1>8. DataApart => OwnInv'
  <2>. SUFFICES ASSUME DataApart, NEW d \in Data
                PROVE  /\ Read(d)' = written[d]
                       /\ CachedDirty(LineOf(d, DataLine))' \/ rdram[d] = written[d]
    BY <1>1 DEF OwnInv
  <2>1. d \in Cells /\ Read(d) = written[d]
        /\ (CachedDirty(LineOf(d, DataLine)) \/ rdram[d] = written[d])
    BY <1>1, MemoryAssumption DEF IInv, OwnInv, Own
  <2>2. LineOf(d, DataLine) \notin DL
    BY <1>2, FileLinesAreClean
  <2>. HIDE DEF DL, IL
  <2>. QED
    BY <1>1, <1>5, <2>1, <2>2 DEF Read, CachedDirty
<1>9. DataApart /\ AllByStage1 => FilesInv'
  <2>. SUFFICES ASSUME FilesInv PROVE FilesInv'
    BY DEF IInv
  <2>1. \A c \in Cells : Fine(c) => Fine(c)'
    BY <1>1, <1>6 DEF Fine
  <2>2. \A c \in BlockRange : Fine(c)'
    <3>. SUFFICES ASSUME NEW c \in BlockRange PROVE Fine(c)'
      OBVIOUS
    <3>1. rdram'[c] = "file"
      BY <1>1 DEF FilesInv
    <3>2. LineOf(c, DataLine) \notin DOMAIN dcache' /\ LineOf(c, InstructionLine) \notin DOMAIN icache'
      BY <1>5
    <3>. QED
      BY <3>1, <3>2 DEF Fine, Read, Fetched
  <2>3. ASSUME NEW c \in Cells, FileCell(c), Awaited(c), ~(c \in BlockRange) PROVE Awaited(c)'
    <3>1. PICK i \in DOMAIN todo : c \in CellsOf(todo[i]) /\ (i = 1 => c >= BlockStart)
      BY <1>1, <2>3 DEF Awaited, Arrived
    <3>2. todo' = todo /\ BlockStart' = BlockStart /\ BlockCells' = BlockCells
      BY <1>1 DEF program, BlockStart, BlockCells, File
    <3>3. i = 1 => c >= BlockStart + BlockCells
      BY <1>2, <2>3, <3>1, BlockIs DEF IInv
    <3>. QED
      BY <1>1, <3>1, <3>2, <3>3 DEF Awaited, Arrived
  <2>. QED
    BY <1>1, <1>3, <2>1, <2>2, <2>3 DEF FilesInv
<1>. QED
  BY <1>3, <1>7, <1>8, <1>9 DEF IInv
-----------------------------------------------------------------------------
(* The end of a block, and of a stage. *)

(* What has been digested is no longer awaited, and all the rest still is. *)
LEMMA NextBlockIs ==
    ASSUME ProgramInv, pc = "digest", NextBlock, UNCHANGED <<boot, checksum, stage>>, pc' = "load"
    PROVE  ProgramInv' /\ \A c : Awaited(c) => Awaited(c)'
<1>1. /\ todo # << >> /\ todo \in Seq(FileRecords) /\ position \in Nat
      /\ Tail(todo) \in Seq(FileRecords)
      /\ \A i \in DOMAIN Tail(todo) : i + 1 \in DOMAIN todo /\ Tail(todo)[i] = todo[i + 1] /\ i + 1 # 1
      /\ \A i \in DOMAIN todo : i # 1 => i - 1 \in DOMAIN Tail(todo) /\ Tail(todo)[i - 1] = todo[i]
      /\ \A i \in DOMAIN todo : todo[i] \in Range(StageFiles) /\ i \in Nat
  BY TailIs DEF ProgramInv, Loading
<1>2. /\ File = todo[1] /\ File \in FileRecords /\ BlockStart \in Nat /\ BlockCells \in Nat \ {0}
      /\ position + BlockCells <= File.cells /\ BlockStart = File.start + position
      /\ File.start \in Nat /\ File.cells \in Nat
  BY <1>1, BlockIs DEF FileRecords, BlockStart
<1>3. ASSUME NEW i \in DOMAIN todo PROVE todo[i] \in FileRecords
  BY <1>1
<1>4. CASE position + BlockCells = File.cells /\ position' = 0 /\ todo' = Tail(todo)
  <2>1. ASSUME todo' # << >> PROVE File' \in FileRecords /\ File' = todo'[1]
    BY <1>1, <1>4, <2>1, TailIs DEF File
  <2>2. IF todo' = << >> THEN position' = 0 ELSE position' < File'.cells
    BY <1>4, <2>1 DEF FileRecords
  <2>3. \A i \in DOMAIN todo' : todo'[i] \in Range(StageFiles')
    BY <1>1, <1>4 DEF StageFiles
  <2>4. ProgramInv'
    BY <1>1, <1>4, <2>2, <2>3 DEF ProgramInv, Loading
  <2>5. ASSUME NEW c, Awaited(c) PROVE Awaited(c)'
    <3>1. PICK i \in DOMAIN todo : c \in CellsOf(todo[i]) /\ (i = 1 => c >= BlockStart + BlockCells)
      BY <2>5 DEF Awaited, Arrived
    <3>2. i # 1
      <4>. SUFFICES ASSUME i = 1 PROVE FALSE
        OBVIOUS
      <4>1. c \in CellsOf(File) /\ c >= BlockStart + BlockCells
        BY <1>2, <3>1
      <4>2. BlockStart + BlockCells = File.start + File.cells
        BY <1>1, <1>2, <1>4
      <4>. QED
        BY <1>2, <4>1, <4>2 DEF CellsOf
    <3>3. i - 1 \in DOMAIN todo' /\ todo'[i - 1] = todo[i]
      BY <1>1, <1>4, <3>2
    <3>4. i - 1 = 1 => c >= Arrived'
      <4>. SUFFICES ASSUME i - 1 = 1 PROVE c >= Arrived'
        OBVIOUS
      <4>1. todo' # << >> /\ todo'[1] = todo[i]
        BY <3>3
      <4>2. File' = todo[i] /\ todo[i] \in FileRecords
        BY <2>1, <4>1
      <4>3. BlockStart' = todo[i].start
        BY <1>4, <4>2 DEF BlockStart, FileRecords
      <4>. QED
        BY <3>1, <4>2, <4>3 DEF Arrived, CellsOf, FileRecords
    <3>. QED
      BY <3>1, <3>3, <3>4 DEF Awaited
  <2>. QED
    BY <2>4, <2>5
<1>5. CASE position + BlockCells # File.cells /\ position' = position + BlockCells /\ todo' = todo
  <2>1. position' \in Nat /\ position' < File.cells /\ File' = File
    <3>1. File' = File
      BY <1>5 DEF File
    <3>. QED
      BY <1>1, <1>2, <1>5, <3>1
  <2>2. ProgramInv'
    BY <1>1, <1>5, <2>1 DEF ProgramInv, Loading, StageFiles
  <2>3. BlockStart' = BlockStart + BlockCells
    BY <1>1, <1>2, <1>5, <2>1 DEF BlockStart
  <2>4. \A c : Awaited(c) => Awaited(c)'
    BY <1>5, <2>3 DEF Awaited, Arrived
  <2>. QED
    BY <2>2, <2>4
<1>. QED
  BY <1>4, <1>5 DEF NextBlock

LEMMA DigestKeeps == IInv /\ Digest => IInv'
<1>. SUFFICES ASSUME IInv, Digest PROVE IInv'
  OBVIOUS
<1>1. /\ pc = "digest" /\ UNCHANGED <<boot, checksum, stage, rdram, icache, written>>
      /\ dcache' = IF checksum THEN FilledData({LineOf(c, DataLine) : c \in BlockRange}) ELSE dcache
      /\ ProgramInv /\ MemoryInv
  BY DEF Digest, IInv
<1>2. todo # << >> /\ BlockRange \subseteq Cells
  BY <1>1, BlockCellsAre DEF Loading
<1>3. /\ DataLines(dcache')
      /\ \A c \in Cells : Read(c)' = Read(c)
      /\ \A l \in DOMAIN dcache : l \in DOMAIN dcache' /\ dcache'[l] = dcache[l]
      /\ \A l \in DOMAIN dcache' : l \in DOMAIN dcache \/ ~dcache'[l].dirty
  <2>1. CASE checksum
    <3>. DEFINE lines == {LineOf(c, DataLine) : c \in BlockRange}
    <3>1. lines \subseteq {LineOf(c, DataLine) : c \in Cells}
      BY <1>2
    <3>2. dcache' = FilledData(lines) /\ rdram' = rdram
      BY <1>1, <2>1
    <3>. HIDE DEF lines
    <3>3. /\ DataLines(dcache') /\ DOMAIN dcache' = DOMAIN dcache \cup lines
          /\ \A l \in DOMAIN dcache : dcache'[l] = dcache[l]
          /\ \A l \in lines \ DOMAIN dcache :
               dcache'[l] = [dirty |-> FALSE, cells |-> [c \in Line(l, DataLine) |-> rdram[c]]]
          /\ \A c \in Cells : Read(c)' = Read(c)
      BY <1>1, <3>1, <3>2, FillKeeps
    <3>4. ASSUME NEW l \in lines \ DOMAIN dcache PROVE ~dcache'[l].dirty
      <4>1. dcache'[l] = [dirty |-> FALSE, cells |-> [c \in Line(l, DataLine) |-> rdram[c]]]
        BY <3>3
      <4>. QED
        BY <4>1
    <3>. QED
      BY <3>3, <3>4
  <2>2. CASE ~checksum
    BY <1>1, <2>2 DEF MemoryInv, Read
  <2>. QED
    BY <2>1, <2>2
<1>4. MemoryInv' /\ DirtyInv'
  BY <1>1, <1>3 DEF IInv, MemoryInv, DirtyInv
<1>5. DataApart => OwnInv'
  <2>. SUFFICES ASSUME OwnInv, stage = 1, NEW d \in Data
                PROVE  /\ Read(d)' = written[d]
                       /\ CachedDirty(LineOf(d, DataLine))' \/ rdram[d] = written[d]
    BY <1>1 DEF OwnInv, IInv
  <2>1. d \in Cells /\ Read(d) = written[d]
        /\ (CachedDirty(LineOf(d, DataLine)) \/ rdram[d] = written[d])
    BY MemoryAssumption DEF OwnInv, Own
  <2>. QED
    BY <1>3, <2>1 DEF CachedDirty
<1>6. \A c \in Cells : Fine(c)' = Fine(c)
  BY <1>1, <1>3 DEF Fine, Fetched
<1>7. CASE /\ checksum /\ \E c \in BlockRange : Read(c) # "file"
           /\ pc' = "halted" /\ UNCHANGED <<todo, position>>
  <2>1. ProgramInv'
    BY <1>1, <1>7 DEF ProgramInv, Loading, StageFiles, File
  <2>2. ~FilesInv
    BY <1>1, <1>7 DEF FilesInv, Fine
  <2>. QED
    BY <1>4, <1>5, <2>1, <2>2 DEF IInv
<1>8. CASE pc' = "load" /\ NextBlock
  <2>1. ProgramInv' /\ \A c : Awaited(c) => Awaited(c)'
    BY <1>1, <1>8, NextBlockIs
  <2>2. \A c : FileCell(c)' = FileCell(c)
    BY <1>1 DEF FileCell
  <2>3. FilesInv => FilesInv'
    BY <1>1, <1>6, <1>8, <2>1, <2>2 DEF FilesInv
  <2>. QED
    BY <1>4, <1>5, <2>1, <2>3 DEF IInv
<1>. QED
  BY <1>7, <1>8 DEF Digest

LEMMA ExecStage2Keeps == IInv /\ ExecStage2 => IInv'
<1>. SUFFICES ASSUME IInv, ExecStage2 PROVE IInv'
  OBVIOUS
<1>1. /\ pc = "load" /\ pc' = "load" /\ todo = << >> /\ boot.stage2 # << >>
      /\ stage' = 2 /\ todo' = boot.stage2
      /\ UNCHANGED <<boot, checksum, position, rdram, dcache, icache, written>>
  BY DEF ExecStage2, caches
<1>2. todo' \in Seq(FileRecords) /\ position' = 0
  BY <1>1, FilesAre DEF IInv, ProgramInv
<1>3. File' \in FileRecords
  BY <1>1, <1>2, TailIs DEF File
<1>4. ProgramInv'
  BY <1>1, <1>2, <1>3 DEF IInv, ProgramInv, Loading, StageFiles, Range, FileRecords
<1>5. MemoryInv' /\ DirtyInv' /\ OwnInv'
  BY <1>1 DEF IInv, MemoryInv, DirtyInv, OwnInv
<1>6. ~AllByStage1
  BY <1>1 DEF IInv, ProgramInv, AllByStage1
<1>. QED
  BY <1>4, <1>5, <1>6 DEF IInv

LEMMA ExecKernelKeeps == IInv /\ ExecKernel => IInv'
<1>. SUFFICES ASSUME IInv, ExecKernel PROVE IInv'
  OBVIOUS
<1>1. /\ pc = "load" /\ pc' = "kernel" /\ todo = << >>
      /\ UNCHANGED <<boot, checksum, stage, todo, position, rdram, dcache, icache, written>>
  BY DEF ExecKernel, program, caches
<1>2. ProgramInv'
  BY <1>1 DEF IInv, ProgramInv, Loading, StageFiles
<1>3. MemoryInv' /\ DirtyInv' /\ (DataApart => OwnInv')
  BY <1>1 DEF IInv, MemoryInv, DirtyInv, OwnInv, Read, CachedDirty
<1>4. \A c : Awaited(c)' = Awaited(c) /\ FileCell(c)' = FileCell(c) /\ Fine(c)' = Fine(c)
  BY <1>1 DEF Awaited, FileCell, Fine, Read, Fetched
<1>5. FilesInv => FilesInv'
  BY <1>1, <1>4 DEF FilesInv
<1>. QED
  BY <1>2, <1>3, <1>5 DEF IInv

LEMMA StutterKeeps == IInv /\ UNCHANGED vars => IInv'
<1>. SUFFICES ASSUME IInv, UNCHANGED vars PROVE IInv'
  OBVIOUS
<1>1. UNCHANGED <<program, pc, rdram, dcache, icache, written>> /\ stage' = stage
  BY DEF vars, caches, program
<1>2. MemoryInv' /\ DirtyInv' /\ (DataApart => OwnInv')
  BY <1>1 DEF IInv, MemoryInv, DirtyInv, OwnInv, Read, CachedDirty
<1>3. \A c \in Cells : Fine(c) => Fine(c)'
  BY <1>1 DEF Fine, Read, Fetched
<1>. QED
  BY <1>1, <1>2, <1>3, ElsewhereKeeps

LEMMA NextKeeps == IInv /\ [Next]_vars => IInv'
BY ReadOwnKeeps, WriteOwnKeeps, FetchKeeps, EvictDataKeeps, EvictInstructionKeeps, StartDmaKeeps,
   TransferKeeps, InvalidateKeeps, DigestKeeps, ExecStage2Keeps, ExecKernelKeeps, StutterKeeps
   DEF Next
-----------------------------------------------------------------------------
(* The inductive invariant: what is dirty, where stage 1's data is, and that a cell of
   a file is awaited or as it was loaded (cache.c, stage1/file.c). *)
THEOREM InvariantHolds == Spec => []IInv
  BY InitIInv, NextKeeps, PTL DEF Spec

(* Every variable has its type, whatever the layout. *)
THEOREM TypeCorrect == Spec => []TypeOK
<1>1. IInv => TypeOK
  BY DEF IInv, ProgramInv, MemoryInv, DataLines, InstructionLines, TypeOK
<1>. QED
  BY <1>1, InvariantHolds, PTL

(* Invalidating the lines of a block loses nothing that stage 1 has written, if no
   line of a file holds its data (cache.h:24-26). *)
THEOREM OwnDataSurvives == DataApart => (Spec => []OwnDataIsKept)
<1>. SUFFICES ASSUME DataApart PROVE Spec => []OwnDataIsKept
  OBVIOUS
<1>1. IInv => OwnDataIsKept
  BY DEF IInv, OwnInv, OwnDataIsKept
<1>. QED
  BY <1>1, InvariantHolds, PTL

(* A kernel that stage 1 starts reads and executes what was loaded, however files
   share lines with each other, with code, or with what was cached before
   (stage1/file.c:36-79). *)
THEOREM LoadedIsSeen == DataApart /\ AllByStage1 => (Spec => []KernelSeesFiles)
<1>. SUFFICES ASSUME DataApart, AllByStage1 PROVE Spec => []KernelSeesFiles
  OBVIOUS
<1>1. IInv => KernelSeesFiles
  <2>. SUFFICES ASSUME IInv, pc = "kernel", NEW c \in FileCells
                PROVE  Read(c) = "file" /\ Fetched(c) = "file"
    BY DEF KernelSeesFiles
  <2>1. FilesInv /\ todo = << >> /\ boot.stage2 = << >>
    BY DEF IInv, ProgramInv, AllByStage1
  <2>2. c \in Cells /\ ~Awaited(c)
    BY <2>1 DEF FileCells, Awaited
  <2>3. FileCell(c)
    <3>1. PICK f \in Range(boot.stage1) : f.start <= c /\ c < f.start + f.cells
      BY <2>1 DEF FileCells, Range
    <3>2. f \in FileRecords /\ c \in Nat
      BY <2>1, <2>2, <3>1, FilesAre DEF IInv, FilesInv, StageFiles, Cells
    <3>. QED
      BY <3>1, <3>2 DEF FileCell, CellsOf, FileRecords
  <2>. QED
    BY <2>1, <2>2, <2>3 DEF FilesInv, Fine
<1>. QED
  BY <1>1, InvariantHolds, PTL

(* What is digested is what was transferred: no checksum of a good file fails. *)
THEOREM GoodIsAccepted == DataApart /\ AllByStage1 => (Spec => []GoodFilesAreAccepted)
<1>. SUFFICES ASSUME DataApart, AllByStage1 PROVE Spec => []GoodFilesAreAccepted
  OBVIOUS
<1>1. IInv => GoodFilesAreAccepted
  BY DEF IInv, FilesInv, GoodFilesAreAccepted
<1>. QED
  BY <1>1, InvariantHolds, PTL
=============================================================================
