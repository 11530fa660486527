----------------------------- MODULE VideoProofs -----------------------------
(***************************************************************************)
(* The safety of drawing with RSP DMA for any number of blocks, of cells   *)
(* in each of them and of parts of the logo, both ways of waiting for the  *)
(* queue, and any length of the colour buffer.                             *)
(***************************************************************************)
EXTENDS Video, TLAPS, FiniteSetTheorems, SequenceTheorems

(* A transfer: what is not copied from IMEM goes nowhere but to IMEM. *)
Transfers ==
    {t \in [waits : {"none", "queue"}, data : Contents \cup {"imem"},
            to : SUBSET Places, buffer : {0, 1}] : t.data # "imem" => t.to = {}}

(* What the CPU still has to start and the engine still has to complete. *)
Pending == dma \o todo

(* Transfer i is the last of q that stores place p. *)
StoresLast(q, i, p) == p \in q[i].to /\ \A j \in i + 1 .. Len(q) : p \notin q[j].to

(* Transfer i of q finds the data d in IMEM, which holds held before q. *)
Finds(q, i, d, held) ==
    \/ held = d /\ \A k \in 1 .. i - 1 : q[k].data = "imem"
    \/ \E k \in 1 .. i - 1 :
          /\ q[k].data = d /\ d # "imem"
          /\ \A j \in k + 1 .. i - 1 : q[j].data = "imem"

(* When q has been executed a framebuffer that shows shown before it, shows
   image. *)
LeadsTo(q, held, shown, image) ==
    \A p \in Places :
        /\ \A i \in 1 .. Len(q) : StoresLast(q, i, p) => Finds(q, i, image[p], held)
        /\ (\A i \in 1 .. Len(q) : p \notin q[i].to) => shown[p] = image[p]
-----------------------------------------------------------------------------
(* A finite set as a sequence: every element, and no other. *)
LEMMA SetToSeqProperties ==
    ASSUME NEW S, IsFiniteSet(S)
    PROVE  /\ SetToSeq(S) \in Seq(S)
           /\ \A s \in S : \E i \in 1 .. Len(SetToSeq(S)) : SetToSeq(S)[i] = s
<1>. DEFINE n == Cardinality(S)
            f == SetToSeq(S)
<1>1. n \in Nat /\ ExistsBijection(1 .. n, S)
  BY FS_CardinalityType
<1>2. \E g \in [1 .. n -> S] : IsInjective(g)
  BY <1>1, Zenon DEF ExistsBijection, Bijection, Injection
<1>3. f \in [1 .. n -> S] /\ IsInjective(f)
  BY <1>2, Zenon DEF SetToSeq
<1>4. f \in Injection(1 .. n, S)
  BY <1>3, Zenon DEF Injection
<1>5. IsFiniteSet(1 .. n) /\ Cardinality(1 .. n) = n
  BY <1>1, FS_Interval
<1>6. f \in Surjection(1 .. n, S)
  BY <1>4, <1>5, FS_Injection, Zenon
<1>7. f \in Seq(S) /\ Len(f) = n
  BY <1>1, <1>3
<1>. QED
  BY <1>6, <1>7, Zenon DEF Surjection

(* The elements of the first sequence, then those of the second. *)
LEMMA ConcatIndices ==
    ASSUME NEW S, NEW a \in Seq(S), NEW b \in Seq(S)
    PROVE  /\ a \o b \in Seq(S) /\ Len(a \o b) = Len(a) + Len(b)
           /\ \A i \in 1 .. Len(a) : (a \o b)[i] = a[i]
           /\ \A i \in 1 .. Len(b) : (a \o b)[Len(a) + i] = b[i]
  OBVIOUS

(* The transfers of a sequence go on to the engine from the first one. *)
LEMMA StartKeepsOrder ==
    ASSUME NEW S, NEW a \in Seq(S), NEW b \in Seq(S), b # << >>
    PROVE  Append(a, Head(b)) \o Tail(b) = a \o b
<1>1. Head(b) \in S /\ Tail(b) \in Seq(S)
  BY HeadTailProperties
<1>2. Append(a, Head(b)) = a \o <<Head(b)>> /\ <<Head(b)>> \in Seq(S)
  BY <1>1, AppendIsConcat
<1>3. (a \o <<Head(b)>>) \o Tail(b) = a \o (<<Head(b)>> \o Tail(b))
  BY <1>1, <1>2, ConcatAssociative
<1>4. <<Head(b)>> \o Tail(b) = b
  <2>1. <<Head(b)>> \o Tail(b) \in Seq(S)
    BY <1>1, <1>2, ConcatProperties
  <2>2. Len(<<Head(b)>> \o Tail(b)) = Len(b)
    BY <1>1, <1>2, HeadTailProperties, ConcatProperties
  <2>3. \A i \in 1 .. Len(b) : (<<Head(b)>> \o Tail(b))[i] = b[i]
    BY <1>1, <1>2, HeadTailProperties
  <2>. QED
    BY <2>1, <2>2, <2>3, SeqEqual
<1>. QED
  BY <1>2, <1>3, <1>4

(* The engine completes the first of all transfers. *)
LEMMA CompleteKeepsOrder ==
    ASSUME NEW S, NEW a \in Seq(S), NEW b \in Seq(S), a # << >>
    PROVE  /\ a \o b \in Seq(S) /\ Tail(a) \o b \in Seq(S)
           /\ Len(a \o b) = Len(Tail(a) \o b) + 1
           /\ (a \o b)[1] = Head(a)
           /\ \A i \in 1 .. Len(Tail(a) \o b) : (Tail(a) \o b)[i] = (a \o b)[i + 1]
<1>1. Tail(a) \in Seq(S) /\ Len(Tail(a)) = Len(a) - 1
      /\ \A i \in 1 .. Len(Tail(a)) : Tail(a)[i] = a[i + 1]
  BY HeadTailProperties
<1>2. Len(a) \in Nat /\ Len(a) > 0 /\ Len(b) \in Nat /\ Head(a) = a[1]
  OBVIOUS
<1>3. /\ a \o b \in Seq(S)
      /\ Len(a \o b) = Len(a) + Len(b)
      /\ \A i \in 1 .. Len(a) + Len(b) :
            (a \o b)[i] = IF i <= Len(a) THEN a[i] ELSE b[i - Len(a)]
  BY ConcatProperties
<1>4. /\ Tail(a) \o b \in Seq(S)
      /\ Len(Tail(a) \o b) = Len(a) - 1 + Len(b)
      /\ \A i \in 1 .. Len(a) - 1 + Len(b) :
            (Tail(a) \o b)[i] = IF i <= Len(a) - 1 THEN Tail(a)[i] ELSE b[i - (Len(a) - 1)]
  BY <1>1, ConcatProperties
<1>5. \A i \in 1 .. Len(a) - 1 + Len(b) : (Tail(a) \o b)[i] = (a \o b)[i + 1]
  <2>. SUFFICES ASSUME NEW i \in 1 .. Len(a) - 1 + Len(b)
                PROVE  (Tail(a) \o b)[i] = (a \o b)[i + 1]
    OBVIOUS
  <2>1. CASE i <= Len(a) - 1
    BY <1>1, <1>2, <1>3, <1>4, <2>1
  <2>2. CASE i > Len(a) - 1
    <3>1. (Tail(a) \o b)[i] = b[i - (Len(a) - 1)]
      BY <1>2, <1>4, <2>2
    <3>2. (a \o b)[i + 1] = b[(i + 1) - Len(a)]
      BY <1>2, <1>3, <2>2
    <3>. QED
      BY <1>2, <3>1, <3>2
  <2>. QED
    BY <1>2, <2>1, <2>2
<1>. QED
  BY <1>2, <1>3, <1>4, <1>5
-----------------------------------------------------------------------------
(* What a frame is made of, transfer by transfer: drawn are its characters. *)
FrameShape(q, buffer, drawn) ==
    LET n == Len(Blocks)
        m == Len(drawn)
    IN  /\ q \in Seq(Transfers)
        /\ Len(q) = 2 + n + m + (IF config.logo THEN 2 * n ELSE 0)
        /\ q[1] = Load("none", "clear")
        /\ \A b \in 1 .. n : q[1 + b] = Store("queue", buffer, {Blocks[b].logo} \cup Blocks[b].cells)
        /\ q[2 + n] = Load("queue", "font")
        /\ \A i \in 1 .. m : q[2 + n + i] = Store("queue", buffer, {drawn[i]})
        /\ config.logo =>
              \A b \in 1 .. n :
                  /\ q[2 + n + m + 2 * b - 1] = Load("queue", Blocks[b].logo)
                  /\ q[2 + n + m + 2 * b] = Store("queue", buffer, {Blocks[b].logo})

LEMMA BlockTypes ==
    /\ Len(Blocks) \in Nat \ {0} /\ DOMAIN Blocks = 1 .. Len(Blocks)
    /\ \A b \in 1 .. Len(Blocks) :
          Blocks[b].logo \in LogoParts /\ Blocks[b].cells \subseteq Cells
    /\ \A p \in LogoParts : \E b \in 1 .. Len(Blocks) : p = Blocks[b].logo
    /\ \A p \in Cells : \E b \in 1 .. Len(Blocks) : p \in Blocks[b].cells
  BY LayoutAssumption DEF Cells, LogoParts

LEMMA LoadType ==
    ASSUME NEW waits \in {"none", "queue"}, NEW data \in Contents
    PROVE  Load(waits, data) \in Transfers
  BY DEF Load, Transfers

LEMMA StoreType ==
    ASSUME NEW buffer \in {0, 1}, NEW places \in SUBSET Places
    PROVE  Store("queue", buffer, places) \in Transfers
  BY DEF Store, Transfers

LEMMA LoadFields ==
    ASSUME NEW waits, NEW data
    PROVE  /\ Load(waits, data).waits = waits /\ Load(waits, data).data = data
           /\ Load(waits, data).to = {}
  BY DEF Load

LEMMA StoreFields ==
    ASSUME NEW waits, NEW buffer, NEW places
    PROVE  /\ Store(waits, buffer, places).waits = waits
           /\ Store(waits, buffer, places).data = "imem"
           /\ Store(waits, buffer, places).to = places
           /\ Store(waits, buffer, places).buffer = buffer
  BY DEF Store

LEMMA ClearFramebufferShape ==
    ASSUME NEW buffer \in {0, 1}
    PROVE  LET q == ClearFramebuffer(buffer) IN
           /\ q \in Seq(Transfers) /\ Len(q) = 1 + Len(Blocks)
           /\ q[1] = Load("none", "clear")
           /\ \A b \in 1 .. Len(Blocks) :
                 q[1 + b] = Store("queue", buffer, {Blocks[b].logo} \cup Blocks[b].cells)
<1>. DEFINE stores == [b \in DOMAIN Blocks |->
                           Store("queue", buffer, {Blocks[b].logo} \cup Blocks[b].cells)]
            load == Load("none", "clear")
<1>1. load \in Transfers
  BY LoadType DEF Contents
<1>2. \A b \in 1 .. Len(Blocks) : stores[b] \in Transfers
  BY BlockTypes, StoreType DEF Places
<1>3. stores \in Seq(Transfers) /\ Len(stores) = Len(Blocks)
  BY <1>2, BlockTypes
<1>4. \A b \in 1 .. Len(Blocks) :
          stores[b] = Store("queue", buffer, {Blocks[b].logo} \cup Blocks[b].cells)
  BY BlockTypes
<1>5. <<load>> \in Seq(Transfers) /\ Len(<<load>>) = 1 /\ <<load>>[1] = load
  BY <1>1
<1>6. ClearFramebuffer(buffer) = <<load>> \o stores
  BY DEF ClearFramebuffer
<1>. HIDE DEF stores, load
<1>7. /\ <<load>> \o stores \in Seq(Transfers)
      /\ Len(<<load>> \o stores) = 1 + Len(Blocks)
      /\ \A i \in 1 .. 1 + Len(Blocks) :
            (<<load>> \o stores)[i] = IF i <= 1 THEN <<load>>[i] ELSE stores[i - 1]
  BY <1>3, <1>5, ConcatProperties
<1>8. (<<load>> \o stores)[1] = load
  BY <1>5, <1>7, BlockTypes
<1>9. \A b \in 1 .. Len(Blocks) : (<<load>> \o stores)[1 + b] = stores[b]
  BY <1>7, BlockTypes
<1>. QED
  BY <1>4, <1>6, <1>7, <1>8, <1>9 DEF load

LEMMA FbconRenderShape ==
    ASSUME NEW buffer \in {0, 1}, NEW cells \in SUBSET Cells
    PROVE  LET q == FbconRender(buffer, cells)
               drawn == SetToSeq(cells) IN
           /\ drawn \in Seq(cells) /\ (\A c \in cells : \E i \in 1 .. Len(drawn) : drawn[i] = c)
           /\ q \in Seq(Transfers) /\ Len(q) = 1 + Len(drawn)
           /\ q[1] = Load("queue", "font")
           /\ \A i \in 1 .. Len(drawn) : q[1 + i] = Store("queue", buffer, {drawn[i]})
<1>. DEFINE drawn == SetToSeq(cells)
            stores == [i \in DOMAIN drawn |-> Store("queue", buffer, {drawn[i]})]
            load == Load("queue", "font")
<1>1. drawn \in Seq(cells) /\ (\A c \in cells : \E i \in 1 .. Len(drawn) : drawn[i] = c)
  BY SetToSeqProperties, LayoutAssumption, FS_Subset
<1>2. load \in Transfers
  BY LoadType DEF Contents
<1>6. FbconRender(buffer, cells) = <<load>> \o stores
  BY DEF FbconRender
<1>. HIDE DEF drawn
<1>0. Len(drawn) \in Nat /\ DOMAIN drawn = 1 .. Len(drawn)
  BY <1>1
<1>3. \A i \in 1 .. Len(drawn) : stores[i] \in Transfers
  BY <1>1, StoreType DEF Places
<1>4. stores \in Seq(Transfers) /\ Len(stores) = Len(drawn)
      /\ \A i \in 1 .. Len(drawn) : stores[i] = Store("queue", buffer, {drawn[i]})
  BY <1>3, <1>0
<1>5. <<load>> \in Seq(Transfers) /\ Len(<<load>>) = 1 /\ <<load>>[1] = load
  BY <1>2
<1>. HIDE DEF stores, load
<1>7. /\ <<load>> \o stores \in Seq(Transfers)
      /\ Len(<<load>> \o stores) = 1 + Len(drawn)
      /\ \A i \in 1 .. 1 + Len(drawn) :
            (<<load>> \o stores)[i] = IF i <= 1 THEN <<load>>[i] ELSE stores[i - 1]
  BY <1>4, <1>5, ConcatProperties
<1>8. (<<load>> \o stores)[1] = load
  BY <1>5, <1>7, <1>0
<1>9. \A i \in 1 .. Len(drawn) : (<<load>> \o stores)[1 + i] = stores[i]
  BY <1>7, <1>0
<1>. QED
  BY <1>1, <1>4, <1>6, <1>7, <1>8, <1>9 DEF load, drawn

LEMMA LogoRenderShape ==
    ASSUME NEW buffer \in {0, 1}
    PROVE  LET q == LogoRender(buffer) IN
           /\ q \in Seq(Transfers) /\ Len(q) = 2 * Len(Blocks)
           /\ \A b \in 1 .. Len(Blocks) :
                 /\ q[2 * b - 1] = Load("queue", Blocks[b].logo)
                 /\ q[2 * b] = Store("queue", buffer, {Blocks[b].logo})
<1>. DEFINE q == LogoRender(buffer)
            n == Len(Blocks)
<1>1. n \in Nat \ {0}
  BY BlockTypes
<1>2. \A i \in 1 .. 2 * n : (i + 1) \div 2 \in 1 .. n
  BY <1>1
<1>3. \A i \in 1 .. 2 * n : q[i] \in Transfers
  <2>. SUFFICES ASSUME NEW i \in 1 .. 2 * n
                PROVE  q[i] \in Transfers
    OBVIOUS
  <2>. DEFINE part == Blocks[(i + 1) \div 2].logo
  <2>1. part \in LogoParts
    BY <1>2, BlockTypes
  <2>2. q[i] = IF i % 2 = 1 THEN Load("queue", part) ELSE Store("queue", buffer, {part})
    BY DEF LogoRender
  <2>. QED
    BY <2>1, <2>2, LoadType, StoreType DEF Contents, Places
<1>4. q \in Seq(Transfers) /\ Len(q) = 2 * n
  <2>1. DOMAIN q = 1 .. 2 * n /\ q = [i \in 1 .. 2 * n |-> q[i]]
    BY DEF LogoRender
  <2>2. q \in [1 .. 2 * n -> Transfers]
    BY <1>3, <2>1
  <2>. HIDE DEF q
  <2>. QED
    BY <1>1, <2>1, <2>2
<1>5. ASSUME NEW b \in 1 .. n
      PROVE  /\ q[2 * b - 1] = Load("queue", Blocks[b].logo)
             /\ q[2 * b] = Store("queue", buffer, {Blocks[b].logo})
  <2>1. /\ 2 * b - 1 \in 1 .. 2 * n /\ (2 * b - 1) % 2 = 1 /\ ((2 * b - 1) + 1) \div 2 = b
        /\ 2 * b \in 1 .. 2 * n /\ (2 * b) % 2 # 1 /\ (2 * b + 1) \div 2 = b
    BY <1>1
  <2>. QED
    BY <2>1, Zenon DEF LogoRender
<1>. QED
  BY <1>4, <1>5

LEMMA FrameHasShape ==
    ASSUME NEW buffer \in {0, 1}, NEW cells \in SUBSET Cells, config.logo \in BOOLEAN
    PROVE  FrameShape(Frame(buffer, cells), buffer, SetToSeq(cells))
<1>. DEFINE a == ClearFramebuffer(buffer)
            b == FbconRender(buffer, cells)
            c == IF config.logo THEN LogoRender(buffer) ELSE << >>
            n == Len(Blocks)
            drawn == SetToSeq(cells)
            m == Len(drawn)
            l == IF config.logo THEN 2 * n ELSE 0
            q == a \o b \o c
<1>1. /\ a \in Seq(Transfers) /\ Len(a) = 1 + n /\ a[1] = Load("none", "clear")
      /\ \A x \in 1 .. n : a[1 + x] = Store("queue", buffer, {Blocks[x].logo} \cup Blocks[x].cells)
  BY ClearFramebufferShape
<1>2. /\ drawn \in Seq(cells)
      /\ b \in Seq(Transfers) /\ Len(b) = 1 + m /\ b[1] = Load("queue", "font")
      /\ \A i \in 1 .. m : b[1 + i] = Store("queue", buffer, {drawn[i]})
  BY FbconRenderShape
<1>3. /\ c \in Seq(Transfers) /\ Len(c) = l
      /\ config.logo => \A x \in 1 .. n : /\ c[2 * x - 1] = Load("queue", Blocks[x].logo)
                                          /\ c[2 * x] = Store("queue", buffer, {Blocks[x].logo})
  <2>1. CASE config.logo
    BY <2>1, LogoRenderShape
  <2>2. CASE ~config.logo
    BY <2>2
  <2>. QED
    BY <2>1, <2>2
<1>4. n \in Nat /\ m \in Nat /\ l \in Nat
  BY <1>2, BlockTypes
<1>5. Frame(buffer, cells) = q
  BY DEF Frame
<1>. HIDE DEF a, b, c, n, m, drawn
<1>6. /\ a \o b \in Seq(Transfers) /\ Len(a \o b) = Len(a) + Len(b)
      /\ \A i \in 1 .. Len(a) : (a \o b)[i] = a[i]
      /\ \A i \in 1 .. Len(b) : (a \o b)[Len(a) + i] = b[i]
  <2>1. a \in Seq(Transfers) /\ b \in Seq(Transfers)
    BY <1>1, <1>2
  <2>. QED
    BY <2>1, ConcatIndices
<1>7. /\ q \in Seq(Transfers) /\ Len(q) = Len(a \o b) + Len(c)
      /\ \A i \in 1 .. Len(a \o b) : q[i] = (a \o b)[i]
      /\ \A i \in 1 .. Len(c) : q[Len(a \o b) + i] = c[i]
  <2>1. a \o b \in Seq(Transfers) /\ c \in Seq(Transfers)
    BY <1>3, <1>6
  <2>. QED
    BY <2>1, ConcatIndices
<1>. DEFINE ab == a \o b
<1>. HIDE DEF q, l, ab
<1>8. Len(ab) = 2 + n + m /\ Len(q) = 2 + n + m + l
  BY <1>1, <1>2, <1>3, <1>4, <1>6, <1>7 DEF ab
<1>16. /\ \A i \in 1 .. 1 + n : ab[i] = a[i]
       /\ \A i \in 1 .. 1 + m : ab[1 + n + i] = b[i]
       /\ \A i \in 1 .. 2 + n + m : q[i] = ab[i]
  BY <1>1, <1>2, <1>6, <1>7, <1>8, Zenon DEF ab
<1>17. \A i \in 1 .. 1 + n : q[i] = a[i]
  BY <1>4, <1>16
<1>9. \A i \in 1 .. 1 + m : q[1 + n + i] = b[i]
  BY <1>4, <1>16
<1>10. \A i \in 1 .. l : q[2 + n + m + i] = c[i]
  BY <1>3, <1>7, <1>8, Zenon DEF ab
<1>11. q[1] = Load("none", "clear")
  BY <1>1, <1>4, <1>17
<1>12. \A x \in 1 .. n : q[1 + x] = Store("queue", buffer, {Blocks[x].logo} \cup Blocks[x].cells)
  BY <1>1, <1>4, <1>17
<1>13. q[2 + n] = Load("queue", "font")
  <2>1. q[1 + n + 1] = b[1]
    BY <1>4, <1>9
  <2>. QED
    BY <1>2, <1>4, <2>1
<1>14. \A i \in 1 .. m : q[2 + n + i] = Store("queue", buffer, {drawn[i]})
  <2>. SUFFICES ASSUME NEW i \in 1 .. m
                PROVE  q[2 + n + i] = Store("queue", buffer, {drawn[i]})
    OBVIOUS
  <2>1. q[1 + n + (1 + i)] = b[1 + i]
    BY <1>4, <1>9
  <2>2. 1 + n + (1 + i) = 2 + n + i
    BY <1>4
  <2>. QED
    BY <1>2, <2>1, <2>2
<1>15. ASSUME config.logo, NEW x \in 1 .. n
       PROVE  /\ q[2 + n + m + 2 * x - 1] = Load("queue", Blocks[x].logo)
              /\ q[2 + n + m + 2 * x] = Store("queue", buffer, {Blocks[x].logo})
  <2>1. l = 2 * n
    BY <1>15 DEF l
  <2>2. 2 * x - 1 \in 1 .. l /\ 2 * x \in 1 .. l
    BY <1>4, <2>1
  <2>3. 2 + n + m + (2 * x - 1) = 2 + n + m + 2 * x - 1
    BY <1>4
  <2>4. q[2 + n + m + (2 * x - 1)] = c[2 * x - 1] /\ q[2 + n + m + 2 * x] = c[2 * x]
    BY <1>10, <2>2
  <2>. QED
    BY <1>3, <1>15, <2>3, <2>4
<1>. QED
  BY <1>5, <1>7, <1>8, <1>11, <1>12, <1>13, <1>14, <1>15 DEF FrameShape, n, m, l, drawn

(* A frame shows its image whatever was in IMEM and in the framebuffer, for the
   last transfer that stores a place finds there what belongs in it. *)
LEMMA FrameLeadsToImage ==
    ASSUME NEW buffer \in {0, 1}, NEW cells \in SUBSET Cells, config.logo \in BOOLEAN,
           NEW held, NEW shown
    PROVE  LeadsTo(Frame(buffer, cells), held, shown, Image(cells))
<1>. DEFINE q == Frame(buffer, cells)
            n == Len(Blocks)
            drawn == SetToSeq(cells)
            m == Len(drawn)
            last == 2 + n + m
<1>1. FrameShape(q, buffer, drawn)
  BY FrameHasShape
<1>2. n \in Nat \ {0} /\ drawn \in Seq(cells) /\ m \in Nat
      /\ \A c \in cells : \E i \in 1 .. m : drawn[i] = c
  BY BlockTypes, FbconRenderShape
<1>. HIDE DEF q, n, m, drawn
<1>0. /\ q[1] = Load("none", "clear") /\ q[2 + n] = Load("queue", "font")
      /\ Len(q) = last + (IF config.logo THEN 2 * n ELSE 0)
      /\ \A b \in 1 .. n :
            q[1 + b] = Store("queue", buffer, {Blocks[b].logo} \cup Blocks[b].cells)
      /\ \A i \in 1 .. m : q[2 + n + i] = Store("queue", buffer, {drawn[i]})
      /\ config.logo =>
            \A b \in 1 .. n :
                /\ q[last + 2 * b - 1] = Load("queue", Blocks[b].logo)
                /\ q[last + 2 * b] = Store("queue", buffer, {Blocks[b].logo})
  BY <1>1, Zenon DEF FrameShape, n, m
<1>3. /\ q[1].data = "clear" /\ q[1].to = {}
      /\ q[2 + n].data = "font" /\ q[2 + n].to = {}
      /\ Len(q) = last + (IF config.logo THEN 2 * n ELSE 0)
  <2>1. q[1].data = "clear" /\ q[1].to = {}
    BY <1>0, LoadFields
  <2>2. q[2 + n].data = "font" /\ q[2 + n].to = {}
    BY <1>0, LoadFields
  <2>. QED
    BY <1>0, <2>1, <2>2
<1>4. ASSUME NEW b \in 1 .. n
      PROVE  q[1 + b].data = "imem" /\ q[1 + b].to = {Blocks[b].logo} \cup Blocks[b].cells
  <2>1. q[1 + b] = Store("queue", buffer, {Blocks[b].logo} \cup Blocks[b].cells)
    BY <1>0
  <2>. QED
    BY <2>1, StoreFields
<1>5. ASSUME NEW i \in 1 .. m
      PROVE  q[2 + n + i].data = "imem" /\ q[2 + n + i].to = {drawn[i]}
  <2>1. q[2 + n + i] = Store("queue", buffer, {drawn[i]})
    BY <1>0
  <2>. QED
    BY <2>1, StoreFields
<1>6. ASSUME config.logo, NEW b \in 1 .. n
      PROVE  /\ q[last + 2 * b - 1].data = Blocks[b].logo /\ q[last + 2 * b - 1].to = {}
             /\ q[last + 2 * b].data = "imem" /\ q[last + 2 * b].to = {Blocks[b].logo}
  <2>1. q[last + 2 * b - 1] = Load("queue", Blocks[b].logo)
    BY <1>0, <1>6
  <2>2. q[last + 2 * b] = Store("queue", buffer, {Blocks[b].logo})
    BY <1>0, <1>6
  <2>3. q[last + 2 * b - 1].data = Blocks[b].logo /\ q[last + 2 * b - 1].to = {}
    BY <2>1, LoadFields
  <2>4. q[last + 2 * b].data = "imem" /\ q[last + 2 * b].to = {Blocks[b].logo}
    BY <2>2, StoreFields
  <2>. QED
    BY <2>3, <2>4
(* The four parts of a frame. *)
<1>7. ASSUME NEW i \in 1 .. Len(q)
      PROVE  \/ i = 1 \/ i = 2 + n
             \/ \E b \in 1 .. n : i = 1 + b
             \/ \E j \in 1 .. m : i = 2 + n + j
             \/ config.logo /\ \E b \in 1 .. n : i = last + 2 * b - 1 \/ i = last + 2 * b
  <2>1. CASE i <= last
    <3>1. CASE i \in 2 .. 1 + n
      <4>1. i - 1 \in 1 .. n /\ i = 1 + (i - 1)
        BY <1>2, <3>1
      <4>. QED
        BY <4>1
    <3>2. CASE i > 2 + n
      <4>1. i - (2 + n) \in 1 .. m /\ i = 2 + n + (i - (2 + n))
        BY <1>2, <2>1, <3>2
      <4>. QED
        BY <4>1
    <3>. QED
      BY <1>2, <2>1, <3>1, <3>2
  <2>2. CASE i > last
    <3>1. config.logo /\ i \in last + 1 .. last + 2 * n
      BY <1>2, <1>3, <2>2
    <3>2. PICK b \in 1 .. n : i = last + 2 * b - 1 \/ i = last + 2 * b
      <4>. DEFINE d == i - last
      <4>1. d \in 1 .. 2 * n /\ i = last + d
        BY <1>2, <3>1
      <4>. HIDE DEF d
      <4>2. (d + 1) \div 2 \in 1 .. n
            /\ (d = 2 * ((d + 1) \div 2) - 1 \/ d = 2 * ((d + 1) \div 2))
        BY <1>2, <4>1
      <4>. QED
        BY <1>2, <4>1, <4>2
    <3>. QED
      BY <3>1, <3>2
  <2>. QED
    BY <1>2, <2>1, <2>2
<1>8. \A j \in 1 .. m : drawn[j] \in cells
  BY <1>2, ElementOfSeq DEF m
<1>9. /\ Cells \cap LogoParts = {} /\ "imem" \notin LogoParts
      /\ \A b \in 1 .. n : Blocks[b].logo \in LogoParts /\ Blocks[b].cells \subseteq Cells
      /\ \A p \in LogoParts : \E b \in 1 .. n : p = Blocks[b].logo
      /\ \A p \in Cells : \E b \in 1 .. n : p \in Blocks[b].cells
  BY LayoutAssumption, BlockTypes DEF n
<1>12. Len(q) >= last /\ Len(q) \in Nat /\ (config.logo => Len(q) = last + 2 * n)
  BY <1>2, <1>3
<1>10. ASSUME NEW p \in Places
       PROVE  \E i \in 1 .. Len(q) : p \in q[i].to
  <2>1. PICK b \in 1 .. n : p \in {Blocks[b].logo} \cup Blocks[b].cells
    BY <1>9 DEF Places
  <2>2. 1 + b \in 1 .. Len(q)
    BY <1>2, <1>3
  <2>. QED
    BY <1>4, <2>1, <2>2
<1>11. ASSUME NEW p \in Places, NEW i \in 1 .. Len(q), StoresLast(q, i, p)
       PROVE  Finds(q, i, Image(cells)[p], held)
  <2>1. p \in q[i].to /\ \A j \in i + 1 .. Len(q) : p \notin q[j].to
    BY <1>11 DEF StoresLast
  <2>2. CASE p \in cells
    <3>1. Image(cells)[p] = "font" /\ p \notin LogoParts
      BY <1>9, <2>2 DEF Image
    <3>2. PICK j \in 1 .. m : i = 2 + n + j
      <4>1. PICK s \in 1 .. m : drawn[s] = p
        BY <1>2, <2>2
      <4>2. 2 + n + s \in 1 .. Len(q)
        BY <1>2, <1>12
      <4>5. p \in q[2 + n + s].to
        BY <1>5, <4>1
      <4>3. i >= 2 + n + s
        BY <1>2, <2>1, <4>2, <4>5
      <4>4. config.logo => \A b \in 1 .. n : i # last + 2 * b - 1 /\ i # last + 2 * b
        BY <1>6, <1>9, <2>1, <3>1
      <4>. QED
        BY <1>2, <1>7, <4>3, <4>4
    <3>3. \A k \in 2 + n + 1 .. i - 1 : q[k].data = "imem"
      <4>1. \A k \in 2 + n + 1 .. i - 1 : k - (2 + n) \in 1 .. m /\ k = 2 + n + (k - (2 + n))
        BY <1>2, <3>2
      <4>. QED
        BY <1>5, <4>1
    <3>4. 2 + n \in 1 .. i - 1
      BY <1>2, <3>2
    <3>. QED
      BY <1>3, <3>1, <3>3, <3>4 DEF Finds
  <2>3. CASE p \in LogoParts /\ config.logo
    <3>1. Image(cells)[p] = p /\ p # "imem" /\ p \notin Cells
      BY <1>9, <2>3 DEF Image
    <3>2. PICK b \in 1 .. n : i = last + 2 * b
      <4>1. PICK c \in 1 .. n : Blocks[c].logo = p
        BY <1>9, <2>3
      <4>2. last + 2 * c \in 1 .. Len(q) /\ p \in q[last + 2 * c].to
        BY <1>2, <1>6, <1>12, <2>3, <4>1
      <4>3. i >= last + 2 * c
        BY <1>2, <2>1, <4>2
      <4>4. \A b \in 1 .. n : i # last + 2 * b - 1
        BY <1>6, <2>1, <2>3
      <4>. QED
        BY <1>2, <1>7, <4>3, <4>4
    <3>3. q[i - 1].data = p /\ i - 1 \in 1 .. i - 1 /\ \A k \in (i - 1) + 1 .. i - 1 : FALSE
      <4>1. i - 1 = last + 2 * b - 1
        BY <1>2, <3>2
      <4>2. p = Blocks[b].logo
        BY <1>6, <2>1, <2>3, <3>2
      <4>. QED
        BY <1>2, <1>6, <2>3, <4>1, <4>2
    <3>. QED
      BY <3>1, <3>3 DEF Finds
  <2>4. CASE p \notin cells /\ ~(p \in LogoParts /\ config.logo)
    <3>1. Image(cells)[p] = "clear"
      BY <2>4 DEF Image
    <3>2. PICK b \in 1 .. n : i = 1 + b
      <4>1. \A j \in 1 .. m : i # 2 + n + j
        BY <1>5, <1>8, <2>1, <2>4
      <4>2. config.logo => \A b \in 1 .. n : i # last + 2 * b - 1 /\ i # last + 2 * b
        BY <1>6, <1>9, <2>1, <2>4
      <4>3. i # 1 /\ i # 2 + n
        BY <1>3, <2>1
      <4>. QED
        BY <1>7, <4>1, <4>2, <4>3
    <3>3. \A k \in 2 .. i - 1 : q[k].data = "imem"
      <4>1. \A k \in 2 .. i - 1 : k - 1 \in 1 .. n /\ k = 1 + (k - 1)
        BY <1>2, <3>2
      <4>. QED
        BY <1>4, <4>1
    <3>4. 1 \in 1 .. i - 1
      BY <1>2, <3>2
    <3>. QED
      BY <1>3, <3>1, <3>3, <3>4 DEF Finds
  <2>. QED
    BY <2>2, <2>3, <2>4
<1>. QED
  BY <1>10, <1>11 DEF LeadsTo, q

(* A frame never waits for itself, and only its first transfer trusts its caller
   to have waited for the queue. *)
LEMMA FrameTransfers ==
    ASSUME NEW buffer \in {0, 1}, NEW cells \in SUBSET Cells, config.logo \in BOOLEAN
    PROVE  LET q == Frame(buffer, cells) IN
           /\ q \in Seq(Transfers) /\ q # << >>
           /\ \A i \in 2 .. Len(q) : q[i].waits = "queue"
           /\ \A i \in 1 .. Len(q) : q[i].to # {} => q[i].buffer = buffer
<1>. DEFINE q == Frame(buffer, cells)
            n == Len(Blocks)
            drawn == SetToSeq(cells)
            m == Len(drawn)
<1>1. FrameShape(q, buffer, drawn)
  BY FrameHasShape
<1>2. n \in Nat \ {0} /\ m \in Nat
  BY BlockTypes, FbconRenderShape
<1>. HIDE DEF q, n, m, drawn
<1>3. q \in Seq(Transfers) /\ Len(q) = 2 + n + m + (IF config.logo THEN 2 * n ELSE 0)
  BY <1>1, Zenon DEF FrameShape, n, m
<1>4. Len(q) \in Nat \ {0}
  BY <1>2, <1>3
<1>5. ASSUME NEW i \in 1 .. Len(q)
      PROVE  \/ i = 1 /\ q[i] = Load("none", "clear")
             \/ \E data : q[i] = Load("queue", data)
             \/ \E places : q[i] = Store("queue", buffer, places)
  <2>1. CASE i = 1
    BY <1>1, <2>1, Zenon DEF FrameShape
  <2>2. CASE i \in 2 .. 1 + n
    <3>1. i - 1 \in 1 .. n /\ i = 1 + (i - 1)
      BY <1>2, <2>2
    <3>2. q[1 + (i - 1)] = Store("queue", buffer, {Blocks[i - 1].logo} \cup Blocks[i - 1].cells)
      BY <1>1, <3>1, Zenon DEF FrameShape, n
    <3>. QED
      BY <3>1, <3>2
  <2>3. CASE i = 2 + n
    BY <1>1, <2>3, Zenon DEF FrameShape, n
  <2>4. CASE i \in 3 + n .. 2 + n + m
    <3>1. i - (2 + n) \in 1 .. m /\ i = 2 + n + (i - (2 + n))
      BY <1>2, <2>4
    <3>2. q[2 + n + (i - (2 + n))] = Store("queue", buffer, {drawn[i - (2 + n)]})
      BY <1>1, <3>1, Zenon DEF FrameShape, n, m
    <3>. QED
      BY <3>1, <3>2
  <2>5. CASE i > 2 + n + m
    <3>. DEFINE b == (i - (2 + n + m) + 1) \div 2
    <3>1. config.logo
      BY <1>2, <1>3, <2>5
    <3>2. Len(q) = 2 + n + m + 2 * n
      BY <1>3, <3>1
    <3>3. b \in 1 .. n /\ (i = 2 + n + m + 2 * b - 1 \/ i = 2 + n + m + 2 * b)
      BY <1>2, <2>5, <3>2
    <3>. HIDE DEF b
    <3>4. /\ q[2 + n + m + 2 * b - 1] = Load("queue", Blocks[b].logo)
          /\ q[2 + n + m + 2 * b] = Store("queue", buffer, {Blocks[b].logo})
      BY <1>1, <3>1, <3>3, Zenon DEF FrameShape, n, m
    <3>. QED
      BY <3>3, <3>4
  <2>. QED
    BY <1>2, <2>1, <2>2, <2>3, <2>4, <2>5
<1>6. ASSUME NEW i \in 1 .. Len(q)
      PROVE  /\ i # 1 => q[i].waits = "queue"
             /\ q[i].to # {} => q[i].buffer = buffer
  <2>1. CASE i = 1 /\ q[i] = Load("none", "clear")
    BY <2>1, LoadFields
  <2>2. CASE \E data : q[i] = Load("queue", data)
    BY <2>2, LoadFields
  <2>3. CASE \E places : q[i] = Store("queue", buffer, places)
    BY <2>3, StoreFields
  <2>. QED
    BY <1>5, <2>1, <2>2, <2>3
<1>. QED
  BY <1>3, <1>4, <1>6 DEF q
-----------------------------------------------------------------------------
(* The inductive invariant. *)

QueueTypes == TypeOK /\ dma \in Seq(Transfers) /\ todo \in Seq(Transfers)

(* Only the first transfer of a frame is started without a look at the queue,
   and then the engine is at rest. *)
QueueIsAwaited ==
    /\ \A i \in 2 .. Len(todo) : todo[i].waits = "queue"
    /\ todo # << >> /\ todo[1].waits = "none" => dma = << >>

EngineRests == pc \in {"execute", "vblank_wait", "vblank_end"} => todo = << >> /\ dma = << >>

DrawsOffScreen ==
    /\ origin \in {displaying, 2} /\ (pc = "start" => origin = 2)
    /\ pc = "draw" =>
          /\ \A i \in 1 .. Len(dma) : dma[i].to # {} => dma[i].buffer = Rendering
          /\ \A i \in 1 .. Len(todo) : todo[i].to # {} => todo[i].buffer = Rendering

FrameInProgress ==
    /\ pc = "draw" => LeadsTo(Pending, imem, framebuffers[Rendering], Image(text))
    /\ pc = "vblank_wait" => framebuffers[Rendering] = Image(text)

IInv ==
    /\ QueueTypes /\ QueueIsAwaited /\ EngineRests /\ DrawsOffScreen
    /\ FrameInProgress /\ ScreenIsWhole /\ NeverOverrun

LEMMA ImageType ==
    ASSUME NEW cells
    PROVE  Image(cells) \in [Places -> Contents]
  BY DEF Image, Contents

LEMMA RenderingProperties ==
    ASSUME displaying \in {0, 1}
    PROVE  /\ Rendering \in {0, 1} /\ Rendering # displaying /\ Rendering # 2
           /\ (Rendering + 1) % 2 = displaying
  BY DEF Rendering

(* The engine executes the first transfer of what a frame still needs. *)
LEMMA DmaLeadsOn ==
    ASSUME NEW q \in Seq(Transfers), NEW rest \in Seq(Transfers),
           Len(q) = Len(rest) + 1, \A i \in 1 .. Len(rest) : rest[i] = q[i + 1],
           NEW held, NEW shown, NEW image, LeadsTo(q, held, shown, image),
           NEW holds, holds = IF q[1].data = "imem" THEN held ELSE q[1].data,
           NEW shows, \A p \in Places : shows[p] = IF p \in q[1].to THEN held ELSE shown[p]
    PROVE  LeadsTo(rest, holds, shows, image)
<1>1. Len(rest) \in Nat /\ 1 \in 1 .. Len(q) /\ q[1] \in Transfers
  BY ElementOfSeq, LenProperties
<1>2. q[1].data # "imem" => q[1].to = {}
  BY <1>1 DEF Transfers
<1>3. ASSUME NEW p \in Places, NEW i \in 1 .. Len(rest), StoresLast(rest, i, p)
      PROVE  Finds(rest, i, image[p], holds)
  <2>1. StoresLast(q, i + 1, p)
    <3>1. p \in q[i + 1].to
      BY <1>3 DEF StoresLast
    <3>2. ASSUME NEW j \in (i + 1) + 1 .. Len(q)
          PROVE  p \notin q[j].to
      <4>1. j - 1 \in i + 1 .. Len(rest) /\ j - 1 \in 1 .. Len(rest) /\ (j - 1) + 1 = j
        BY <1>1
      <4>2. rest[j - 1] = q[j] /\ p \notin rest[j - 1].to
        BY <1>3, <4>1 DEF StoresLast
      <4>. QED
        BY <4>2
    <3>. QED
      BY <3>1, <3>2 DEF StoresLast
  <2>2. i + 1 \in 1 .. Len(q)
    BY <1>1
  <2>3. Finds(q, i + 1, image[p], held)
    BY <2>1, <2>2, Zenon DEF LeadsTo
  <2>4. CASE held = image[p] /\ \A k \in 1 .. i : q[k].data = "imem"
    <3>1. holds = image[p]
      BY <2>4
    <3>2. ASSUME NEW k \in 1 .. i - 1
          PROVE  rest[k].data = "imem"
      <4>1. k \in 1 .. Len(rest) /\ k + 1 \in 1 .. i
        BY <1>1
      <4>. QED
        BY <2>4, <4>1
    <3>. QED
      BY <3>1, <3>2 DEF Finds
  <2>5. ASSUME NEW k \in 1 .. i, q[k].data = image[p], image[p] # "imem",
               \A j \in k + 1 .. i : q[j].data = "imem"
        PROVE  Finds(rest, i, image[p], holds)
    <3>1. CASE k = 1
      <4>1. holds = image[p]
        BY <2>5, <3>1
      <4>2. \A j \in 1 .. i - 1 : rest[j].data = "imem"
        BY <1>1, <2>5, <3>1
      <4>. QED
        BY <4>1, <4>2 DEF Finds
    <3>2. CASE k > 1
      <4>1. k - 1 \in 1 .. i - 1 /\ k - 1 \in 1 .. Len(rest) /\ (k - 1) + 1 = k
        BY <1>1, <3>2
      <4>2. rest[k - 1].data = image[p]
        BY <2>5, <4>1
      <4>3. ASSUME NEW j \in (k - 1) + 1 .. i - 1
            PROVE  rest[j].data = "imem"
        <5>1. j \in 1 .. Len(rest) /\ j + 1 \in k + 1 .. i
          BY <1>1, <3>2
        <5>. QED
          BY <2>5, <5>1
      <4>. QED
        BY <2>5, <4>1, <4>2, <4>3 DEF Finds
    <3>. QED
      BY <3>1, <3>2
  <2>6. (i + 1) - 1 = i
    OBVIOUS
  <2>. QED
    BY <2>3, <2>4, <2>5, <2>6, Zenon DEF Finds
<1>4. ASSUME NEW p \in Places, \A i \in 1 .. Len(rest) : p \notin rest[i].to
      PROVE  shows[p] = image[p]
  <2>1. ASSUME NEW i \in 2 .. Len(q)
        PROVE  p \notin q[i].to
    <3>1. i - 1 \in 1 .. Len(rest) /\ (i - 1) + 1 = i
      BY <1>1
    <3>2. rest[i - 1] = q[i]
      BY <3>1
    <3>. QED
      BY <1>4, <3>1, <3>2
  <2>2. CASE p \in q[1].to
    <3>1. StoresLast(q, 1, p)
      BY <2>1, <2>2 DEF StoresLast
    <3>2. Finds(q, 1, image[p], held)
      BY <1>1, <3>1, Zenon DEF LeadsTo
    <3>3. held = image[p]
      BY <3>2 DEF Finds
    <3>. QED
      BY <2>2, <3>3
  <2>3. CASE p \notin q[1].to
    <3>1. \A i \in 1 .. Len(q) : p \notin q[i].to
      BY <1>1, <2>1, <2>3
    <3>2. shown[p] = image[p]
      BY <3>1, Zenon DEF LeadsTo
    <3>. QED
      BY <2>3, <3>2
  <2>. QED
    BY <2>2, <2>3
<1>. QED
  BY <1>3, <1>4, Zenon DEF LeadsTo

LEMMA InitIInv == Init => IInv
<1>. SUFFICES ASSUME Init
              PROVE  IInv
  OBVIOUS
<1>. DEFINE q == ClearFramebuffer(1)
<1>1. /\ q \in Seq(Transfers) /\ Len(q) = 1 + Len(Blocks)
      /\ \A b \in 1 .. Len(Blocks) :
            q[1 + b] = Store("queue", 1, {Blocks[b].logo} \cup Blocks[b].cells)
  BY ClearFramebufferShape
<1>. HIDE DEF q
<1>2. \A i \in 2 .. Len(q) : q[i].waits = "queue"
  <2>. SUFFICES ASSUME NEW i \in 2 .. Len(q)
                PROVE  q[i].waits = "queue"
    OBVIOUS
  <2>1. i - 1 \in 1 .. Len(Blocks) /\ 1 + (i - 1) = i
    BY <1>1, BlockTypes
  <2>2. q[1 + (i - 1)] = Store("queue", 1, {Blocks[i - 1].logo} \cup Blocks[i - 1].cells)
    BY <1>1, <2>1
  <2>. QED
    BY <2>1, <2>2, StoreFields
<1>3. QueueTypes
  <2>1. todo \in Seq(Transfers) /\ dma \in Seq(Transfers)
    BY <1>1 DEF Init, q
  <2>. DEFINE garbage == [p \in Places |-> "garbage"]
  <2>2. garbage \in [Places -> Contents]
    BY DEF Contents
  <2>3. expected = garbage /\ framebuffers = [b \in {0, 1} |-> garbage]
    BY DEF Init
  <2>. HIDE DEF garbage
  <2>4. /\ config \in [doubleBuffering : BOOLEAN, logo : BOOLEAN]
        /\ pc = "start" /\ text \subseteq Cells /\ Len(dma) <= 2 /\ overrun \in BOOLEAN
        /\ imem \in Contents /\ displaying = 1 /\ origin = 2 /\ vblank \in BOOLEAN
    <3>1. Len(dma) <= 2
      BY DEF Init
    <3>2. config \in [doubleBuffering : BOOLEAN, logo : BOOLEAN] /\ text \subseteq Cells
          /\ pc = "start" /\ imem \in Contents /\ displaying = 1 /\ origin = 2
      BY DEF Init, Contents
    <3>3. overrun \in BOOLEAN /\ vblank \in BOOLEAN
      BY DEF Init
    <3>. QED
      BY <3>1, <3>2, <3>3
  <2>6. framebuffers \in [{0, 1} -> [Places -> Contents]] /\ expected \in [Places -> Contents]
    BY <2>2, <2>3
  <2>5. TypeOK
    BY <2>4, <2>6 DEF TypeOK
  <2>. QED
    BY <2>1, <2>5 DEF QueueTypes
<1>4. QueueIsAwaited
  BY <1>2 DEF Init, QueueIsAwaited, q
<1>5. EngineRests /\ DrawsOffScreen /\ FrameInProgress /\ ScreenIsWhole /\ NeverOverrun
  BY DEF Init, EngineRests, DrawsOffScreen, FrameInProgress, ScreenIsWhole, NeverOverrun
<1>. QED
  BY <1>3, <1>4, <1>5 DEF IInv

LEMMA StartTransferKeeps == IInv /\ StartTransfer => IInv'
<1>. SUFFICES ASSUME IInv, StartTransfer
              PROVE  IInv'
  OBVIOUS
<1>. USE DEF IInv, QueueTypes
<1>1. /\ dma \in Seq(Transfers) /\ Len(dma) <= 2 /\ Len(dma) \in Nat
      /\ todo \in Seq(Transfers) /\ todo # << >> /\ Head(todo) = todo[1]
      /\ Head(todo) \in Transfers /\ Tail(todo) \in Seq(Transfers)
      /\ Len(Tail(todo)) = Len(todo) - 1
      /\ \A i \in 1 .. Len(Tail(todo)) : Tail(todo)[i] = todo[i + 1]
  BY HeadTailProperties DEF StartTransfer, TypeOK
<1>2. Len(dma) < 2
  <2>1. Head(todo).waits \in {"none", "queue"}
    BY <1>1 DEF Transfers
  <2>. QED
    BY <1>1, <2>1 DEF StartTransfer, MayStart, QueueIsAwaited
<1>3. dma' = Append(dma, Head(todo)) /\ todo' = Tail(todo) /\ overrun' = overrun
  BY <1>1, <1>2 DEF StartTransfer, Enqueue, TypeOK
<1>4. /\ dma' \in Seq(Transfers) /\ Len(dma') = Len(dma) + 1
      /\ \A i \in 1 .. Len(dma) : dma'[i] = dma[i]
      /\ dma'[Len(dma) + 1] = todo[1]
  BY <1>1, <1>3
<1>5. UNCHANGED <<config, pc, text, imem, framebuffers, displaying, origin, expected, vblank>>
  BY DEF StartTransfer, screen
<1>6. QueueTypes'
  BY <1>1, <1>2, <1>3, <1>4, <1>5 DEF TypeOK
<1>7. QueueIsAwaited'
  <2>1. \A i \in 1 .. Len(Tail(todo)) : Tail(todo)[i].waits = "queue"
    BY <1>1 DEF QueueIsAwaited
  <2>2. Tail(todo) # << >> => 1 \in 1 .. Len(Tail(todo))
    BY <1>1
  <2>. QED
    BY <1>1, <1>3, <2>1, <2>2 DEF QueueIsAwaited
<1>8. EngineRests'
  BY <1>5 DEF EngineRests, StartTransfer
<1>9. DrawsOffScreen'
  <2>1. Rendering' = Rendering
    BY <1>5 DEF Rendering
  <2>2. ASSUME pc = "draw", NEW i \in 1 .. Len(dma'), dma'[i].to # {}
        PROVE  dma'[i].buffer = Rendering
    <3>1. i \in 1 .. Len(dma) \/ i = Len(dma) + 1
      BY <1>1, <1>4
    <3>2. 1 \in 1 .. Len(todo)
      BY <1>1
    <3>. QED
      BY <1>4, <2>2, <3>1, <3>2 DEF DrawsOffScreen
  <2>3. ASSUME pc = "draw", NEW i \in 1 .. Len(todo'), todo'[i].to # {}
        PROVE  todo'[i].buffer = Rendering
    <3>1. i + 1 \in 1 .. Len(todo) /\ todo'[i] = todo[i + 1]
      BY <1>1, <1>3
    <3>. QED
      BY <2>3, <3>1 DEF DrawsOffScreen
  <2>. QED
    BY <1>5, <2>1, <2>2, <2>3 DEF DrawsOffScreen
<1>10. FrameInProgress'
  <2>1. Pending' = Pending
    BY <1>1, <1>3, StartKeepsOrder DEF Pending
  <2>2. Image(text)' = Image(text) /\ Rendering' = Rendering
    BY <1>5 DEF Image, Rendering
  <2>. QED
    BY <1>5, <2>1, <2>2 DEF FrameInProgress
<1>11. ScreenIsWhole' /\ NeverOverrun'
  BY <1>3, <1>5 DEF ScreenIsWhole, NeverOverrun
<1>. QED
  BY <1>6, <1>7, <1>8, <1>9, <1>10, <1>11

(* The transfers of the initialisation have ended when the first frame begins. *)
LEMMA BeginFrameKeeps == InitOutlastsDma /\ IInv /\ BeginFrame => IInv'
<1>. SUFFICES ASSUME InitOutlastsDma, IInv, BeginFrame
              PROVE  IInv'
  OBVIOUS
<1>. USE DEF IInv, QueueTypes
<1>1. dma = << >> /\ todo = << >>
  BY DEF BeginFrame, EngineRests
<1>2. /\ UNCHANGED <<config, dma, imem, framebuffers, overrun, displaying, origin, expected, vblank>>
      /\ pc' = "draw" /\ text' \in SUBSET Cells /\ todo' = Frame(Rendering, text')
  BY DEF BeginFrame, engine, screen
<1>3. Rendering' = Rendering /\ Rendering \in {0, 1}
  BY <1>2, RenderingProperties DEF Rendering, TypeOK
<1>4. config.logo \in BOOLEAN
  BY DEF TypeOK
<1>5. /\ todo' \in Seq(Transfers) /\ todo' # << >>
      /\ \A i \in 2 .. Len(todo') : todo'[i].waits = "queue"
      /\ \A i \in 1 .. Len(todo') : todo'[i].to # {} => todo'[i].buffer = Rendering
  BY <1>2, <1>3, <1>4, FrameTransfers
<1>6. QueueTypes'
  BY <1>2, <1>5 DEF TypeOK
<1>7. QueueIsAwaited' /\ EngineRests'
  BY <1>1, <1>2, <1>5 DEF QueueIsAwaited, EngineRests
<1>8. DrawsOffScreen'
  BY <1>1, <1>2, <1>3, <1>5 DEF DrawsOffScreen
<1>9. FrameInProgress'
  <2>1. Pending' = Frame(Rendering, text')
    BY <1>1, <1>2, <1>5, ConcatEmptySeq DEF Pending
  <2>2. LeadsTo(Frame(Rendering, text'), imem, framebuffers[Rendering], Image(text'))
    BY <1>2, <1>3, <1>4, FrameLeadsToImage
  <2>3. Image(text)' = Image(text')
    BY <1>2 DEF Image
  <2>. QED
    BY <1>2, <1>3, <2>1, <2>2, <2>3 DEF FrameInProgress
<1>10. ScreenIsWhole' /\ NeverOverrun'
  BY <1>2 DEF ScreenIsWhole, NeverOverrun
<1>. QED
  BY <1>6, <1>7, <1>8, <1>9, <1>10

LEMMA WaitIdleKeeps == IInv /\ WaitIdle => IInv'
<1>. SUFFICES ASSUME IInv, WaitIdle
              PROVE  IInv'
  OBVIOUS
<1>. USE DEF IInv, QueueTypes
<1>1. /\ dma = << >> /\ todo = << >> /\ pc = "draw" /\ pc' = "vblank_wait"
      /\ UNCHANGED <<config, dma, todo, text, imem, framebuffers, overrun,
                     displaying, origin, expected, vblank>>
  BY DEF WaitIdle, engine, screen
<1>2. framebuffers[Rendering] = Image(text)
  <2>1. Len(Pending) = 0
    BY <1>1, ConcatEmptySeq DEF Pending
  <2>2. LeadsTo(Pending, imem, framebuffers[Rendering], Image(text))
    BY <1>1 DEF FrameInProgress
  <2>3. \A p \in Places : framebuffers[Rendering][p] = Image(text)[p]
    BY <2>1, <2>2 DEF LeadsTo
  <2>4. framebuffers[Rendering] \in [Places -> Contents]
    BY RenderingProperties DEF TypeOK
  <2>5. Image(text) \in [Places -> Contents]
    BY ImageType
  <2>. QED
    BY <2>3, <2>4, <2>5
<1>3. Image(text)' = Image(text) /\ Rendering' = Rendering
  BY <1>1 DEF Image, Rendering
<1>4. FrameInProgress'
  BY <1>1, <1>2, <1>3 DEF FrameInProgress
<1>5. QueueTypes'
  BY <1>1 DEF TypeOK
<1>6. QueueIsAwaited' /\ EngineRests' /\ DrawsOffScreen'
  BY <1>1 DEF QueueIsAwaited, EngineRests, DrawsOffScreen
<1>7. ScreenIsWhole' /\ NeverOverrun'
  BY <1>1 DEF ScreenIsWhole, NeverOverrun
<1>. QED
  BY <1>4, <1>5, <1>6, <1>7

LEMMA SwapBuffersKeeps == IInv /\ SwapBuffers => IInv'
<1>. SUFFICES ASSUME IInv, SwapBuffers
              PROVE  IInv'
  OBVIOUS
<1>. USE DEF IInv, QueueTypes
<1>1. /\ pc = "vblank_wait" /\ pc' = "vblank_end"
      /\ displaying' = Rendering /\ origin' = Rendering /\ expected' = Image(text)
      /\ UNCHANGED <<config, dma, todo, text, imem, framebuffers, overrun, vblank>>
  BY DEF SwapBuffers, engine
<1>2. Rendering \in {0, 1}
  BY RenderingProperties DEF TypeOK
<1>3. Image(text) \in [Places -> Contents]
  BY ImageType
<1>4. QueueTypes'
  BY <1>1, <1>2, <1>3 DEF TypeOK
<1>5. QueueIsAwaited' /\ EngineRests'
  BY <1>1 DEF QueueIsAwaited, EngineRests
<1>6. DrawsOffScreen' /\ FrameInProgress'
  BY <1>1 DEF DrawsOffScreen, FrameInProgress
<1>7. ScreenIsWhole'
  <2>1. framebuffers[Rendering] = Image(text)
    BY <1>1 DEF FrameInProgress
  <2>. QED
    BY <1>1, <2>1 DEF ScreenIsWhole
<1>8. NeverOverrun'
  BY <1>1 DEF NeverOverrun
<1>. QED
  BY <1>4, <1>5, <1>6, <1>7, <1>8

LEMMA VblankEndKeeps == IInv /\ VblankEnd => IInv'
<1>. SUFFICES ASSUME IInv, VblankEnd
              PROVE  IInv'
  OBVIOUS
<1>. USE DEF IInv, QueueTypes
<1>1. /\ pc = "vblank_end" /\ pc' = "execute" /\ vblank' = FALSE
      /\ UNCHANGED <<config, dma, todo, text, imem, framebuffers, overrun,
                     displaying, origin, expected>>
  BY DEF VblankEnd, engine, screen
<1>2. QueueTypes'
  BY <1>1 DEF TypeOK
<1>3. QueueIsAwaited' /\ EngineRests' /\ DrawsOffScreen' /\ FrameInProgress'
  BY <1>1 DEF QueueIsAwaited, EngineRests, DrawsOffScreen, FrameInProgress
<1>4. ScreenIsWhole' /\ NeverOverrun'
  BY <1>1 DEF ScreenIsWhole, NeverOverrun
<1>. QED
  BY <1>2, <1>3, <1>4

LEMMA DmaKeeps == IInv /\ Dma => IInv'
<1>. SUFFICES ASSUME IInv, Dma
              PROVE  IInv'
  OBVIOUS
<1>. USE DEF IInv, QueueTypes
<1>. DEFINE t == Head(dma)
<1>1. /\ dma \in Seq(Transfers) /\ dma # << >> /\ Len(dma) \in Nat /\ Len(dma) <= 2
      /\ t = dma[1] /\ t \in Transfers /\ 1 \in 1 .. Len(dma)
      /\ Tail(dma) \in Seq(Transfers) /\ Len(Tail(dma)) = Len(dma) - 1
      /\ \A i \in 1 .. Len(Tail(dma)) : Tail(dma)[i] = dma[i + 1]
  BY HeadTailProperties DEF Dma, TypeOK
<1>2. /\ dma' = Tail(dma) /\ imem' = (IF t.data = "imem" THEN imem ELSE t.data)
      /\ framebuffers' = [framebuffers EXCEPT ![t.buffer] =
                              [p \in Places |-> IF p \in t.to THEN imem ELSE @[p]]]
      /\ UNCHANGED <<config, pc, todo, text, overrun, displaying, origin, expected, vblank>>
  BY DEF Dma, screen
<1>. HIDE DEF t
<1>3. /\ t.data \in Contents \cup {"imem"} /\ t.buffer \in {0, 1} /\ t.to \subseteq Places
  BY <1>1 DEF Transfers
<1>4. /\ imem \in Contents
      /\ framebuffers \in [{0, 1} -> [Places -> Contents]] /\ displaying \in {0, 1}
      /\ Rendering \in {0, 1} /\ Rendering # displaying
  BY RenderingProperties DEF TypeOK
<1>5. imem' \in Contents
  BY <1>2, <1>3, <1>4
<1>6. \A b \in {0, 1} :
          framebuffers'[b] = IF b = t.buffer
                             THEN [p \in Places |-> IF p \in t.to THEN imem ELSE framebuffers[b][p]]
                             ELSE framebuffers[b]
  BY <1>2, <1>3, <1>4
<1>7. framebuffers' \in [{0, 1} -> [Places -> Contents]]
  <2>1. [p \in Places |-> IF p \in t.to THEN imem ELSE framebuffers[t.buffer][p]]
            \in [Places -> Contents]
    BY <1>3, <1>4
  <2>. QED
    BY <1>2, <1>3, <1>4, <2>1
<1>8. QueueTypes'
  BY <1>1, <1>2, <1>5, <1>7 DEF TypeOK
<1>9. QueueIsAwaited' /\ EngineRests'
  BY <1>1, <1>2 DEF QueueIsAwaited, EngineRests
<1>10. DrawsOffScreen'
  <2>1. Rendering' = Rendering
    BY <1>2 DEF Rendering
  <2>2. \A i \in 1 .. Len(dma') : i + 1 \in 1 .. Len(dma) /\ dma'[i] = dma[i + 1]
    BY <1>1, <1>2
  <2>. QED
    BY <1>2, <2>1, <2>2 DEF DrawsOffScreen
(* The engine leaves what is on the screen alone. *)
<1>11. pc = "start" \/ pc = "draw"
  BY <1>1 DEF EngineRests, TypeOK
<1>12. pc = "draw" /\ t.to # {} => t.buffer = Rendering
  BY <1>1 DEF DrawsOffScreen
<1>13. ASSUME pc = "draw", NEW b \in {0, 1}, b = Rendering => t.to = {}
       PROVE  framebuffers'[b] = framebuffers[b]
  <2>1. CASE b = t.buffer
    <3>1. t.to = {}
      BY <1>12, <1>13, <2>1
    <3>2. framebuffers[b] \in [Places -> Contents]
      BY <1>4
    <3>3. framebuffers'[b] = [p \in Places |-> framebuffers[b][p]]
      BY <1>6, <2>1, <3>1
    <3>. QED
      BY <3>2, <3>3
  <2>2. CASE b # t.buffer
    BY <1>6, <2>2
  <2>. QED
    BY <2>1, <2>2
<1>14. ScreenIsWhole'
  <2>1. CASE origin = 2
    BY <1>2, <2>1 DEF ScreenIsWhole
  <2>2. CASE origin # 2
    <3>1. origin = displaying /\ pc = "draw"
      BY <1>11, <2>2 DEF DrawsOffScreen
    <3>2. framebuffers'[origin] = framebuffers[origin]
      BY <1>4, <1>13, <3>1
    <3>. QED
      BY <1>2, <2>2, <3>2 DEF ScreenIsWhole
  <2>. QED
    BY <2>1, <2>2
<1>15. FrameInProgress'
  <2>. SUFFICES ASSUME pc = "draw"
                PROVE  LeadsTo(Pending', imem', framebuffers'[Rendering], Image(text))
    <3>1. Image(text)' = Image(text) /\ Rendering' = Rendering
      BY <1>2 DEF Image, Rendering
    <3>. QED
      BY <1>2, <1>11, <3>1 DEF FrameInProgress
  <2>1. /\ Pending \in Seq(Transfers) /\ Pending' \in Seq(Transfers)
        /\ Len(Pending) = Len(Pending') + 1 /\ Pending[1] = t
        /\ \A i \in 1 .. Len(Pending') : Pending'[i] = Pending[i + 1]
    BY <1>1, <1>2, CompleteKeepsOrder DEF Pending, t
  <2>2. framebuffers'[Rendering] =
            [p \in Places |-> IF p \in t.to THEN imem ELSE framebuffers[Rendering][p]]
    <3>1. CASE t.to = {}
      <4>1. framebuffers'[Rendering] = framebuffers[Rendering]
        BY <1>4, <1>13, <3>1
      <4>2. framebuffers[Rendering] \in [Places -> Contents]
        BY <1>4
      <4>. QED
        BY <3>1, <4>1, <4>2
    <3>2. CASE t.to # {}
      BY <1>4, <1>6, <1>12, <3>2
    <3>. QED
      BY <3>1, <3>2
  <2>3. LeadsTo(Pending, imem, framebuffers[Rendering], Image(text))
    BY DEF FrameInProgress
  <2>4. framebuffers[Rendering] \in [Places -> Contents]
    BY <1>4
  <2>. QED
    <3>. DEFINE q == Pending
                rest == Pending'
                shown == framebuffers[Rendering]
                holds == imem'
                shows == framebuffers'[Rendering]
                image == Image(text)
    <3>1. /\ q \in Seq(Transfers) /\ rest \in Seq(Transfers)
          /\ Len(q) = Len(rest) + 1 /\ (\A i \in 1 .. Len(rest) : rest[i] = q[i + 1])
          /\ LeadsTo(q, imem, shown, image)
      BY <2>1, <2>3
    <3>2. holds = (IF q[1].data = "imem" THEN imem ELSE q[1].data)
      BY <1>2, <2>1
    <3>3. \A p \in Places : shows[p] = IF p \in q[1].to THEN imem ELSE shown[p]
      BY <2>1, <2>2
    <3>. HIDE DEF q, rest, shown, shows, holds, image
    <3>4. LeadsTo(rest, holds, shows, image)
      BY ONLY <3>1, <3>2, <3>3, DmaLeadsOn, SMTT(60)
    <3>. QED
      BY <3>4 DEF rest, holds, shows, image
<1>16. NeverOverrun'
  BY <1>2 DEF NeverOverrun
<1>. QED
  BY <1>8, <1>9, <1>10, <1>14, <1>15, <1>16
-----------------------------------------------------------------------------
(* The initialisation of the context starts the transfers of the first clear and
   sets the fence; it changes nothing else the frames use. *)
LEMMA ElsewhereKeeps ==
    ASSUME IInv, vblank' \in BOOLEAN,
           UNCHANGED <<config, pc, todo, text, engine, overrun, screen>>
    PROVE  IInv'
<1>1. UNCHANGED <<config, pc, todo, text, dma, imem, framebuffers, overrun,
                  displaying, origin, expected>>
  BY DEF engine, screen
<1>2. QueueTypes'
  BY <1>1 DEF IInv, QueueTypes, TypeOK
<1>3. QueueIsAwaited' /\ EngineRests' /\ ScreenIsWhole' /\ NeverOverrun'
  <2>1. QueueIsAwaited' /\ EngineRests'
    BY <1>1 DEF IInv, QueueIsAwaited, EngineRests
  <2>2. ScreenIsWhole' /\ NeverOverrun'
    BY <1>1 DEF IInv, ScreenIsWhole, NeverOverrun
  <2>. QED
    BY <2>1, <2>2
<1>5. DrawsOffScreen'
  <2>1. Rendering' = Rendering
    BY <1>1 DEF Rendering
  <2>. QED
    BY <1>1, <2>1 DEF IInv, DrawsOffScreen
<1>4. FrameInProgress'
  <2>1. Pending' = Pending /\ Image(text)' = Image(text) /\ Rendering' = Rendering
    BY <1>1 DEF Pending, Image, Rendering
  <2>. QED
    BY <1>1, <2>1 DEF IInv, FrameInProgress
<1>. QED
  BY <1>2, <1>3, <1>4, <1>5 DEF IInv

LEMMA VideoNextKeeps ==
    ASSUME InitOutlastsDma, IInv, [VideoNext]_<<vars, context>>
    PROVE  IInv'
<1>0. vblank \in BOOLEAN
  BY DEF IInv, QueueTypes, TypeOK
<1>1. CASE ClearColor \/ IndexDisplaying \/ UNCHANGED <<vars, context>>
  BY <1>0, <1>1, ElsewhereKeeps DEF ClearColor, IndexDisplaying, vars
<1>2. CASE FenceInitialize
  BY <1>2, ElsewhereKeeps DEF FenceInitialize
<1>3. CASE ClearDisplaying
  BY <1>3, StartTransferKeeps DEF ClearDisplaying
<1>4. CASE Frames
  BY <1>4, StartTransferKeeps, BeginFrameKeeps, WaitIdleKeeps, SwapBuffersKeeps,
     VblankEndKeeps DEF Frames, Cpu
<1>5. CASE VideoInterrupt
  BY <1>5, ElsewhereKeeps DEF VideoInterrupt, VBlank
<1>6. CASE Engine
  BY <1>6, DmaKeeps DEF Engine
<1>. QED
  BY <1>1, <1>2, <1>3, <1>4, <1>5, <1>6 DEF VideoNext, Initialize

(* The inductive invariant, which says what the transfers still to come will
   leave in IMEM and in the frame, holds from the initialisation on (video.c). *)
THEOREM InvariantHolds == InitOutlastsDma => (VideoSpec => []IInv)
<1>. SUFFICES ASSUME InitOutlastsDma
              PROVE  VideoSpec => []IInv
  OBVIOUS
<1>1. VideoStart => IInv
  BY InitIInv DEF VideoStart
<1>2. IInv /\ [VideoNext]_<<vars, context>> => IInv'
  BY VideoNextKeeps
<1>. QED
  BY <1>1, <1>2, PTL DEF VideoSpec

(* Every variable has its type (TypeOK of VideoLoop). *)
THEOREM TypeCorrect == InitOutlastsDma => (VideoSpec => []TypeOK)
<1>1. IInv => TypeOK
  BY DEF IInv, QueueTypes
<1>. QED
  BY <1>1, InvariantHolds, PTL

(* No transfer ever writes to the framebuffer on the screen (stage1.c:151-154). *)
THEOREM NothingTears == InitOutlastsDma => (VideoSpec => []NoTearing)
<1>1. IInv => NoTearing
  <2>. SUFFICES ASSUME IInv, NEW i \in DOMAIN dma, dma[i].to # {}
                PROVE  dma[i].buffer # origin
    BY DEF NoTearing
  <2>1. dma \in Seq(Transfers) /\ i \in 1 .. Len(dma) /\ dma # << >>
    BY DEF IInv, QueueTypes
  <2>2. dma[i].buffer \in {0, 1}
    BY <2>1 DEF Transfers
  <2>3. Rendering # displaying /\ Rendering # 2
    BY RenderingProperties DEF IInv, QueueTypes, TypeOK
  <2>4. pc = "start" \/ pc = "draw"
    BY <2>1 DEF IInv, EngineRests, QueueTypes, TypeOK
  <2>. QED
    BY <2>1, <2>2, <2>3, <2>4 DEF IInv, DrawsOffScreen
<1>. QED
  BY <1>1, InvariantHolds, PTL

(* What is displayed is one whole frame, though all transfers share IMEM. *)
THEOREM FramesAreWhole == InitOutlastsDma => (VideoSpec => []ScreenIsWhole)
<1>1. IInv => ScreenIsWhole
  BY DEF IInv
<1>. QED
  BY <1>1, InvariantHolds, PTL

(* No transfer is started while the engine has an active and a queued one
   (video.h:119-123). *)
THEOREM QueueHolds == InitOutlastsDma => (VideoSpec => []NeverOverrun)
<1>1. IInv => NeverOverrun
  BY DEF IInv
<1>. QED
  BY <1>1, InvariantHolds, PTL
-----------------------------------------------------------------------------
(* The initialisation of the context. *)

FilledSoFar ==
    /\ init_pc \in {"fill", "fence", "index", "done"}
    /\ iter_dma_buffer \in Nat /\ words_remaining \in Nat
    /\ iter_dma_buffer + words_remaining = BufferWords * WordBytes
    /\ init_pc = "fill" <=> words_remaining > 0
    /\ DOMAIN memory = 0 .. BufferWords * WordBytes + 1
    /\ \A w \in Context!Buffer : w < iter_dma_buffer => memory[w] = "color"
    /\ init_pc \in {"index", "done"} => memory[Context!Fence] = "clear"
    /\ init_pc = "done" => memory[Context!Index] = "last"

LEMMA BufferFits ==
    /\ BufferWords * WordBytes \in Nat /\ BufferWords <= BufferWords * WordBytes
    /\ BufferWords \in Nat \ {0}
<1>1. PICK d \in Nat : WordBytes = d + 1
  BY BufferAssumption
<1>2. BufferWords * (d + 1) = BufferWords * d + BufferWords /\ BufferWords * d \in Nat
  BY BufferAssumption
<1>. QED
  BY <1>1, <1>2, BufferAssumption

LEMMA ContextInit == VideoStart => FilledSoFar
<1>. SUFFICES ASSUME VideoStart
              PROVE  FilledSoFar
  OBVIOUS
<1>1. /\ init_pc = "fill" /\ iter_dma_buffer = 0 /\ words_remaining = BufferWords * WordBytes
      /\ DOMAIN memory = Context!Buffer \cup {Context!Fence, Context!Index} \cup Context!Others
  BY DEF VideoStart, Context!Init
<1>2. DOMAIN memory = 0 .. BufferWords * WordBytes + 1
  BY <1>1, BufferFits DEF Context!Buffer, Context!Fence, Context!Index, Context!Others
<1>3. BufferWords * WordBytes > 0
  BY BufferFits
<1>. QED
  BY <1>1, <1>2, <1>3, BufferFits DEF FilledSoFar, Context!Buffer

LEMMA ContextKeeps ==
    ASSUME FilledSoFar, [VideoNext]_<<vars, context>>
    PROVE  FilledSoFar'
<1>. USE DEF FilledSoFar, Context!Buffer, Context!Fence, Context!Index
<1>. DEFINE words == BufferWords * WordBytes
<1>0. words \in Nat /\ BufferWords <= words /\ BufferWords \in Nat \ {0}
  BY BufferFits
<1>. HIDE DEF words
<1>1. CASE UNCHANGED context
  BY <1>1 DEF context
<1>2. CASE Context!Fill
  <2>1. /\ init_pc = "fill" /\ iter_dma_buffer' = iter_dma_buffer + 1
        /\ words_remaining' = words_remaining - 1
        /\ memory' = [memory EXCEPT ![iter_dma_buffer] = "color"]
        /\ init_pc' = IF words_remaining = 1 THEN "fence" ELSE "fill"
    BY <1>2 DEF Context!Fill
  <2>2. iter_dma_buffer \in 0 .. words + 1 /\ words_remaining > 0
    BY <1>0, <2>1 DEF words
  <2>3. DOMAIN memory' = DOMAIN memory
        /\ \A w \in DOMAIN memory :
              memory'[w] = IF w = iter_dma_buffer THEN "color" ELSE memory[w]
    BY <2>1, <2>2 DEF words
  <2>4. \A w \in 0 .. BufferWords - 1 : w < iter_dma_buffer' => memory'[w] = "color"
    BY <1>0, <2>1, <2>3 DEF words
  <2>. QED
    BY <2>1, <2>2, <2>3, <2>4
<1>3. CASE Context!InitializeFence \/ Context!SetDisplaying
  <2>1. CASE Context!InitializeFence
    <3>1. /\ init_pc = "fence" /\ init_pc' = "index"
          /\ memory' = [memory EXCEPT ![BufferWords] = "clear"]
          /\ UNCHANGED <<iter_dma_buffer, words_remaining>>
      BY <2>1 DEF Context!InitializeFence
    <3>2. DOMAIN memory' = DOMAIN memory
          /\ \A w \in DOMAIN memory :
                memory'[w] = IF w = BufferWords THEN "clear" ELSE memory[w]
      BY <3>1
    <3>3. BufferWords \in DOMAIN memory /\ \A w \in 0 .. BufferWords - 1 : w \in DOMAIN memory /\ w # BufferWords
      BY <1>0 DEF words
    <3>. QED
      BY <3>1, <3>2, <3>3
  <2>2. CASE Context!SetDisplaying
    <3>1. /\ init_pc = "index" /\ init_pc' = "done"
          /\ memory' = [memory EXCEPT ![BufferWords + 1] = "last"]
          /\ UNCHANGED <<iter_dma_buffer, words_remaining>>
      BY <2>2 DEF Context!SetDisplaying
    <3>2. DOMAIN memory' = DOMAIN memory
          /\ \A w \in DOMAIN memory :
                memory'[w] = IF w = BufferWords + 1 THEN "last" ELSE memory[w]
      BY <3>1
    <3>3. /\ BufferWords \in DOMAIN memory /\ BufferWords + 1 \in DOMAIN memory
          /\ BufferWords # BufferWords + 1
          /\ \A w \in 0 .. BufferWords - 1 : w \in DOMAIN memory /\ w # BufferWords + 1
      BY <1>0 DEF words
    <3>. QED
      BY <3>1, <3>2, <3>3
  <2>. QED
    BY <1>3, <2>1, <2>2
<1>. QED
  BY <1>1, <1>2, <1>3 DEF VideoNext, Initialize, ClearColor, FenceInitialize,
     ClearDisplaying, IndexDisplaying, Frames, VideoInterrupt, Engine

(* When the initialisation returns, the whole context is initialised, however
   far behind its buffer the colour loop writes (video.c:283-306). *)
THEOREM ContextIsReady == VideoSpec => []ContextReady
<1>1. VideoStart => FilledSoFar
  BY ContextInit
<1>2. FilledSoFar /\ [VideoNext]_<<vars, context>> => FilledSoFar'
  BY ContextKeeps
<1>3. FilledSoFar => ContextReady
  <2>. SUFFICES ASSUME FilledSoFar, init_pc = "done"
                PROVE  /\ \A w \in Context!Buffer : memory[w] = "color"
                       /\ memory[Context!Fence] = "clear" /\ memory[Context!Index] = "last"
    BY DEF ContextReady, Context!ContextReady
  <2>1. iter_dma_buffer = BufferWords * WordBytes
    BY BufferFits DEF FilledSoFar
  <2>. QED
    BY <2>1, BufferFits DEF FilledSoFar, Context!Buffer
<1>. QED
  BY <1>1, <1>2, <1>3, PTL DEF VideoSpec
=============================================================================
