---------------------------- MODULE LibraryProofs ----------------------------
(***************************************************************************)
(* What a program may rely on when the library's argument parser succeeds, *)
(* for every list of options and every sequence of arguments; and facts    *)
(* about recursive functions and sequences which the other proofs need.    *)
(***************************************************************************)
EXTENDS Arguments, Characters, FiniteSetsExt, WellFoundedInduction, SequenceTheorems, TLAPS

(* A parse that succeeds has seen every required option: each has a bit of the
   storage, of which the last byte is compared bit by bit. *)

IsList(s) == Len(s) \in Nat /\ DOMAIN s = 1 .. Len(s)

LEMMA DivMod ==
    ASSUME NEW x \in Nat, NEW a \in Nat \ {0}
    PROVE  /\ x \div a \in Nat /\ x % a \in 0 .. a - 1
           /\ x = (x \div a) * a + (x % a)
<1>1. x \div a \in Nat
  OBVIOUS
<1>2. x % a \in 0 .. a - 1
  OBVIOUS
<1>3. x = (x \div a) * a + (x % a)
  OBVIOUS
<1>. QED
  BY <1>1, <1>2, <1>3

LEMMA TimesKeepsOrder ==
    ASSUME NEW a \in Nat \ {0}, NEW p \in Nat, NEW q \in Nat, p < q
    PROVE  p * a \in Nat /\ q * a \in Nat /\ p * a + a <= q * a
<1>1. PICK d \in Nat : q = p + 1 + d
  <2>1. q - p - 1 \in Nat /\ q = p + 1 + (q - p - 1)
    OBVIOUS
  <2>. QED
    BY <2>1
<1>2. q * a = p * a + a + d * a
  BY <1>1
<1>3. p * a \in Nat /\ d * a \in Nat
  OBVIOUS
<1>. QED
  BY <1>2, <1>3

(* The bit of an option is in a byte of the storage, and is one of those that
   are compared. *)
LEMMA BitIsCompared ==
    ASSUME NEW a \in Nat \ {0}, NEW n \in Nat, NEW i \in 1 .. n,
           NEW byte \in Nat, NEW bit \in 0 .. a - 1, i - 1 = byte * a + bit,
           NEW full \in Nat, NEW rest \in 0 .. a - 1, n = full * a + rest,
           NEW d \in Nat, NEW r \in 0 .. a - 1, n + a = d * a + r
    PROVE  /\ i = byte * a + bit + 1 /\ byte \in 0 .. d - 1
           /\ bit \in (IF byte < full THEN 0 .. a - 1 ELSE 0 .. rest - 1)
<1>1. /\ byte * a \in Nat /\ full * a \in Nat /\ d * a \in Nat
      /\ i \in Nat /\ i >= 1 /\ i <= n /\ rest \in Nat /\ r \in Nat /\ bit \in Nat
      /\ rest < a /\ r < a /\ bit < a
  OBVIOUS
<1>2. i = byte * a + bit + 1
  <2>. DEFINE p == byte * a
  <2>1. p \in Nat /\ i - 1 = p + bit
    BY <1>1
  <2>. HIDE DEF p
  <2>2. i = p + bit + 1
    BY <1>1, <2>1
  <2>. QED
    BY <2>2 DEF p
<1>3. byte < d
  <2>. SUFFICES ASSUME ~(byte < d) PROVE FALSE
    OBVIOUS
  <2>1. CASE d = byte
    <3>1. d * a = byte * a
      BY <2>1
    <3>. QED
      BY <1>1, <1>2, <3>1
  <2>2. CASE d < byte
    <3>1. d * a + a <= byte * a
      BY <2>2, TimesKeepsOrder
    <3>. QED
      BY <1>1, <1>2, <3>1
  <2>. QED
    BY <2>1, <2>2
<1>4. ASSUME ~(byte < full) PROVE bit < rest
  <2>1. CASE byte = full
    <3>1. byte * a = full * a
      BY <2>1
    <3>. QED
      BY <1>1, <1>2, <3>1
  <2>2. CASE full < byte
    <3>1. full * a + a <= byte * a
      BY <2>2, TimesKeepsOrder
    <3>. QED
      BY <1>1, <1>2, <3>1
  <2>. QED
    BY <1>4, <2>1, <2>2
<1>5. bit \in (IF byte < full THEN 0 .. a - 1 ELSE 0 .. rest - 1)
  BY <1>1, <1>4
<1>. QED
  BY <1>2, <1>3, <1>5

LEMMA CheckedIsSeen ==
    ASSUME NEW list, NEW seen, IsList(list.required),
           CheckRequired(list, Storage(list, seen)).status = "ok",
           NEW i \in DOMAIN list.required
    PROVE  list.required[i] \in seen
<1>. DEFINE n == Len(list.required)
            storage == Storage(list, seen)
            full == n \div Bits
            wanted == [byte \in DOMAIN storage |->
                          IF byte < full THEN 0 .. Bits - 1 ELSE 0 .. (n % Bits) - 1]
            lacking == {byte \in DOMAIN storage : wanted[byte] \ storage[byte] # {}}
<1>1. lacking = {}
  <2>. DEFINE Least(S) == CHOOSE k \in S : \A j \in S : k <= j
              missing == list.required[Least(lacking) * Bits
                            + Least(wanted[Least(lacking)] \ storage[Least(lacking)]) + 1]
  <2>1. CheckRequired(list, storage) =
          IF lacking = {} THEN [status |-> "ok", missing |-> "none"]
          ELSE [status |-> "required_missing", missing |-> missing]
    BY Zenon DEF CheckRequired
  <2>. HIDE DEF missing, lacking
  <2>. QED
    BY <2>1
<1>2. Bits \in Nat \ {0} /\ n \in Nat /\ i \in 1 .. n /\ i - 1 \in Nat /\ n + Bits \in Nat
  BY ArgumentsAssumption DEF IsList
<1>3. PICK byte \in Nat, bit \in 0 .. Bits - 1 : i - 1 = byte * Bits + bit
  BY <1>2, DivMod, Zenon
<1>4. PICK d \in Nat, r \in 0 .. Bits - 1 : d = (n + Bits) \div Bits /\ n + Bits = d * Bits + r
  BY <1>2, DivMod, Zenon
<1>5. full \in Nat /\ n % Bits \in 0 .. Bits - 1 /\ n = full * Bits + (n % Bits)
  BY <1>2, DivMod, Zenon
<1>6. DOMAIN storage = 0 .. d - 1
  BY <1>4 DEF Storage
<1>7. /\ i = byte * Bits + bit + 1 /\ byte \in 0 .. d - 1
      /\ bit \in (IF byte < full THEN 0 .. Bits - 1 ELSE 0 .. (n % Bits) - 1)
  <2>. DEFINE rest == n % Bits
  <2>1. rest \in 0 .. Bits - 1 /\ n = full * Bits + rest /\ full \in Nat
    BY <1>5, Zenon
  <2>. HIDE DEF rest, full, n
  <2>2. /\ i = byte * Bits + bit + 1 /\ byte \in 0 .. d - 1
        /\ bit \in (IF byte < full THEN 0 .. Bits - 1 ELSE 0 .. rest - 1)
    BY <1>2, <1>3, <1>4, <2>1, BitIsCompared
  <2>. QED
    BY <2>2, Zenon DEF rest
<1>8. bit \in wanted[byte]
  BY <1>6, <1>7
<1>. HIDE DEF wanted
<1>9. bit \in storage[byte]
  BY <1>1, <1>6, <1>7, <1>8
<1>10. storage[byte] = {b \in 0 .. Bits - 1 : byte * Bits + b + 1 \in DOMAIN list.required
                                               /\ list.required[byte * Bits + b + 1] \in seen}
  BY <1>4, <1>7 DEF Storage
<1>11. list.required[byte * Bits + bit + 1] \in seen
  BY <1>9, <1>10
<1>. QED
  BY <1>7, <1>11

(* A program that reads a required option after a parse that succeeded finds its
   value, whatever the number of required options and of bits in a byte
   (arguments.c, tux64_arguments_parse). *)
THEOREM RequiredIsGiven ==
    ASSUME NEW list, NEW input, IsList(list.required), Parse(list, input).status = "ok",
           NEW i \in DOMAIN list.required
    PROVE  list.required[i] \in DOMAIN Parse(list, input).values
<1>. DEFINE arguments == SelectSeq(input, LAMBDA argument : argument.prefix # "blank")
            From[j \in 1 .. Len(arguments) + 1] ==
                IF j > Len(arguments) THEN [status |-> "ok", values |-> <<>>]
                ELSE LET this == ParseArgument(list, arguments, j)
                         rest == From[this.next]
                     IN  IF this.status # "ok" THEN [status |-> this.status, values |-> <<>>]
                         ELSE [rest EXCEPT !.values = @ @@ (arguments[j].option :> this.parameter)]
            required == CheckRequired(list, Storage(list, DOMAIN From[1].values))
<1>1. Parse(list, input) =
        IF From[1].status # "ok"
        THEN [status |-> From[1].status, values |-> <<>>, missing |-> "none"]
        ELSE [status |-> required.status, values |-> From[1].values, missing |-> required.missing]
  BY Zenon DEF Parse
<1>. HIDE DEF From
<1>2. required.status = "ok" /\ Parse(list, input).values = From[1].values
  BY <1>1
<1>. QED
  BY <1>2, CheckedIsSeen
-----------------------------------------------------------------------------
(* Numbers. *)

(* The least of some natural numbers. *)
LEMMA MinIsLeast ==
    ASSUME NEW S, S \subseteq Nat, S # {}
    PROVE  Min(S) \in S /\ \A x \in S : Min(S) <= x
<1>1. PICK m \in S : \A x \in S : ~ (<<x, m>> \in OpToRel(<, Nat))
  BY WFMin, NatLessThanWellFounded, Zenon
<1>2. \A x \in S : m <= x
  <2>1. \A x \in S : x \in Nat /\ m \in Nat /\ ~ (x < m)
    BY <1>1, Zenon DEF OpToRel
  <2>. QED
    BY <2>1
<1>. QED
  BY <1>2 DEF Min

(* The greatest of some natural numbers that are bounded. *)
LEMMA MaxIsGreatest ==
    ASSUME NEW N \in Nat, NEW S, S \subseteq 0 .. N, S # {}
    PROVE  Max(S) \in S /\ \A x \in S : x <= Max(S)
<1>. DEFINE Rest == {N - x : x \in S}
<1>1. Rest \subseteq Nat /\ Rest # {}
  <2>1. \A x \in S : x \in 0 .. N /\ N - x \in Nat
    OBVIOUS
  <2>. QED
    BY <2>1, Zenon
<1>2. PICK m \in S : Min(Rest) = N - m
  BY <1>1, MinIsLeast
<1>3. \A x \in S : N - m <= N - x
  BY <1>1, <1>2, MinIsLeast
<1>. HIDE DEF Rest
<1>4. \A x \in S : x <= m
  BY <1>3
<1>. QED
  BY <1>4 DEF Max

LEMMA QuotientIs ==
    ASSUME NEW a \in Nat \ {0}, NEW p \in Nat, NEW r \in 0 .. a - 1
    PROVE  p * a + r \in Nat /\ (p * a + r) \div a = p /\ (p * a + r) % a = r
<1>. DEFINE product == p * a
            x == product + r
<1>1. product \in Nat /\ x \in Nat /\ x = a * p + r
  OBVIOUS
<1>. HIDE DEF product, x
<1>2. x \div a = p /\ x % a = r
  BY <1>1, SMTT(30)
<1>. QED
  BY <1>1, <1>2 DEF product, x

LEMMA ProductBound ==
    ASSUME NEW a \in Nat \ {0}, NEW b \in Nat, NEW p \in 0 .. b - 1, NEW r \in 0 .. a - 1
    PROVE  b * a \in Nat /\ p * a + r \in 0 .. b * a - 1
<1>1. p \in Nat /\ b \in Nat /\ p < b
  OBVIOUS
<1>2. p * a \in Nat /\ b * a \in Nat /\ p * a + a <= b * a
  BY <1>1, TimesKeepsOrder
<1>. QED
  BY <1>2
-----------------------------------------------------------------------------
(* Recursion.  A function that calls itself is a choice among those that satisfy
   its equation: there is one when each call is of a lower rank, and what it is
   follows by induction.  The steps of an induction are members of a set. *)

LEMMA Induction ==
    ASSUME NEW S, 0 \in S, \A n \in Nat : n \in S => n + 1 \in S
    PROVE  \A n \in Nat : n \in S
<1>. SUFFICES ASSUME Nat \ S # {} PROVE FALSE
  OBVIOUS
<1>. DEFINE least == Min(Nat \ S)
<1>1. least \in Nat \ S /\ \A n \in Nat \ S : least <= n
  BY MinIsLeast
<1>. HIDE DEF least
<1>2. least # 0 /\ least - 1 \in Nat
  BY <1>1
<1>3. least - 1 \notin S
  BY <1>1, <1>2
<1>. QED
  BY <1>1, <1>2, <1>3

LEMMA NextOrBefore == \A n \in Nat, m \in Nat : m < n + 1 => m = n \/ m < n
OBVIOUS

(* A step whose value depends on lower ranks only. *)
Ranked(D, V, N, rank, Step) ==
    /\ V # {} /\ N \in Nat /\ rank \in [D -> 0 .. N] /\ Step \in [D -> [[D -> V] -> V]]
    /\ \A x \in D, g \in [D -> V], h \in [D -> V] :
          (\A y \in D : rank[y] < rank[x] => g[y] = h[y]) => Step[x][g] = Step[x][h]

(* It has a function. *)
LEMMA Recursion ==
    ASSUME NEW D, NEW V, NEW N, NEW rank, NEW Step, Ranked(D, V, N, rank, Step)
    PROVE  \E f \in [D -> V] : \A x \in D : f[x] = Step[x][f]
<1>. USE DEF Ranked
<1>. DEFINE Below(n, g) == \A x \in D : rank[x] < n => g[x] = Step[x][g]
            S == {n \in Nat : \E g \in [D -> V] : Below(n, g)}
<1>1. 0 \in S
  <2>1. PICK v : v \in V
    OBVIOUS
  <2>. DEFINE g == [x \in D |-> v]
  <2>2. g \in [D -> V]
    BY <2>1
  <2>. HIDE DEF g
  <2>3. Below(0, g)
    OBVIOUS
  <2>. QED
    BY <2>2, <2>3
<1>2. ASSUME NEW n \in Nat, n \in S PROVE n + 1 \in S
  <2>1. PICK g \in [D -> V] : Below(n, g)
    BY <1>2
  <2>. DEFINE h == [x \in D |-> IF rank[x] = n THEN Step[x][g] ELSE g[x]]
  <2>2. h \in [D -> V] /\ \A x \in D : h[x] = (IF rank[x] = n THEN Step[x][g] ELSE g[x])
    OBVIOUS
  <2>. HIDE DEF h
  <2>3. Below(n + 1, h)
    <3>. SUFFICES ASSUME NEW x \in D, rank[x] < n + 1 PROVE h[x] = Step[x][h]
      OBVIOUS
    <3>1. \A y \in D : rank[y] < rank[x] => g[y] = h[y]
      BY <2>2
    <3>2. Step[x][g] = Step[x][h]
      BY <2>2, <3>1
    <3>3. rank[x] \in Nat
      OBVIOUS
    <3>4. rank[x] = n \/ rank[x] < n
      BY <3>3, NextOrBefore, Zenon
    <3>. QED
      BY <2>1, <2>2, <3>2, <3>4
  <2>. QED
    BY <2>2, <2>3
<1>. HIDE DEF S
<1>3. \A n \in Nat : n \in S
  BY <1>1, <1>2, Induction
<1>4. N + 1 \in S
  BY <1>3
<1>5. PICK f \in [D -> V] : Below(N + 1, f)
  BY <1>4 DEF S
<1>6. \A x \in D : rank[x] < N + 1
  <2>. TAKE x \in D
  <2>1. rank[x] \in 0 .. N
    OBVIOUS
  <2>. QED
    BY <2>1
<1>. QED
  BY <1>5, <1>6

(* What holds of a place when it holds of all those of a lower rank holds of all. *)
LEMMA RankedInduction ==
    ASSUME NEW D, NEW rank \in [D -> Nat], NEW G,
           \A x \in D : (\A y \in D : rank[y] < rank[x] => y \in G) => x \in G
    PROVE  \A x \in D : x \in G
<1>. DEFINE S == {n \in Nat : \A x \in D : rank[x] < n => x \in G}
<1>1. 0 \in S
  <2>1. \A x \in D : rank[x] \in Nat
    OBVIOUS
  <2>2. \A m \in Nat : ~(m < 0)
    OBVIOUS
  <2>. QED
    BY <2>1, <2>2
<1>2. ASSUME NEW n \in Nat, n \in S PROVE n + 1 \in S
  <2>. SUFFICES ASSUME NEW x \in D, rank[x] < n + 1 PROVE x \in G
    OBVIOUS
  <2>1. rank[x] \in Nat
    OBVIOUS
  <2>2. rank[x] = n \/ rank[x] < n
    BY <2>1, NextOrBefore, Zenon
  <2>. QED
    BY <1>2, <2>2
<1>. HIDE DEF S
<1>3. \A n \in Nat : n \in S
  BY <1>1, <1>2, Induction
<1>4. ASSUME NEW x \in D PROVE x \in G
  <2>1. rank[x] \in Nat
    OBVIOUS
  <2>2. rank[x] + 1 \in S /\ rank[x] < rank[x] + 1
    BY <1>3, <2>1
  <2>. QED
    BY <2>2 DEF S
<1>. QED
  BY <1>4
-----------------------------------------------------------------------------
(* Parts of sequences, and sequences joined. *)

LEMMA SubSeqIs ==
    ASSUME NEW s \in Seq(Nat), NEW i \in 1 .. Len(s) + 1, NEW j \in Nat, i <= j + 1, j <= Len(s)
    PROVE  /\ SubSeq(s, i, j) \in Seq(Nat) /\ Len(SubSeq(s, i, j)) = j + 1 - i
           /\ \A k \in 1 .. j + 1 - i : SubSeq(s, i, j)[k] = s[i + k - 1]
<1>1. SubSeq(s, i, j) \in Seq(Nat)
  OBVIOUS
<1>2. Len(SubSeq(s, i, j)) = j + 1 - i
  OBVIOUS
<1>3. \A k \in 1 .. j + 1 - i : SubSeq(s, i, j)[k] = s[i + k - 1]
  OBVIOUS
<1>. QED
  BY <1>1, <1>2, <1>3

LEMMA ConcatNat ==
    ASSUME NEW a \in Seq(Nat), NEW b \in Seq(Nat)
    PROVE  a \o b \in Seq(Nat) /\ Len(a \o b) = Len(a) + Len(b) /\ Len(a) \in Nat /\ Len(b) \in Nat
OBVIOUS

LEMMA ConcatElements ==
    ASSUME NEW a \in Seq(Nat), NEW b \in Seq(Nat)
    PROVE  /\ \A k \in 1 .. Len(a) : (a \o b)[k] = a[k]
           /\ \A k \in 1 .. Len(b) : (a \o b)[Len(a) + k] = b[k]
<1>1. \A k \in 1 .. Len(b) : Len(a) + k \in 1 .. Len(a) + Len(b) /\ ~(Len(a) + k <= Len(a))
                             /\ Len(a) + k - Len(a) = k
  OBVIOUS
<1>. QED
  BY <1>1

LEMMA SubSeqJoins ==
    ASSUME NEW s \in Seq(Nat), NEW i \in 1 .. Len(s) + 1, NEW j \in i .. Len(s) + 1
    PROVE  /\ SubSeq(s, i, j - 1) \o SubSeq(s, j, Len(s)) = SubSeq(s, i, Len(s))
           /\ SubSeq(s, i, j - 1) \in Seq(Nat) /\ SubSeq(s, j, Len(s)) \in Seq(Nat)
           /\ Len(SubSeq(s, i, j - 1)) = j - i
<1>. DEFINE a == SubSeq(s, i, j - 1)
            b == SubSeq(s, j, Len(s))
            c == SubSeq(s, i, Len(s))
            n == Len(s)
<1>1. n \in Nat /\ i \in 1 .. n + 1 /\ j \in i .. n + 1
  OBVIOUS
<1>2. /\ a \in Seq(Nat) /\ Len(a) = j - i
      /\ \A k \in 1 .. j - i : a[k] = s[i + k - 1]
  OBVIOUS
<1>3. b \in Seq(Nat) /\ Len(b) = n + 1 - j /\ \A k \in 1 .. n + 1 - j : b[k] = s[j + k - 1]
  OBVIOUS
<1>4. c \in Seq(Nat) /\ Len(c) = n + 1 - i /\ \A k \in 1 .. n + 1 - i : c[k] = s[i + k - 1]
  OBVIOUS
<1>. HIDE DEF a, b, c, n
<1>5. a \o b \in Seq(Nat) /\ Len(a \o b) = n + 1 - i
  <2>1. a \o b \in Seq(Nat) /\ Len(a \o b) = Len(a) + Len(b)
    BY <1>2, <1>3, ConcatNat
  <2>2. Len(a) + Len(b) = n + 1 - i
    BY <1>1, <1>2, <1>3
  <2>. QED
    BY <2>1, <2>2
<1>6. ASSUME NEW k \in 1 .. n + 1 - i PROVE (a \o b)[k] = c[k]
  <2>1. (a \o b)[k] = (IF k <= Len(a) THEN a[k] ELSE b[k - Len(a)])
    <3>1. k \in 1 .. Len(a) + Len(b)
      BY <1>1, <1>2, <1>3
    <3>. QED
      BY <1>2, <1>3, <3>1, ConcatProperties
  <2>2. CASE k <= j - i
    <3>1. k \in 1 .. j - i
      BY <1>1, <2>2
    <3>. QED
      BY <1>2, <1>4, <2>1, <2>2, <3>1
  <2>3. CASE ~(k <= j - i)
    <3>1. k - (j - i) \in 1 .. n + 1 - j /\ j + (k - (j - i)) - 1 = i + k - 1
      BY <1>1, <2>3
    <3>. QED
      BY <1>2, <1>3, <1>4, <2>1, <2>3, <3>1
  <2>. QED
    BY <2>2, <2>3
<1>7. a \o b = c
  BY <1>4, <1>5, <1>6, SeqEqual
<1>. QED
  BY <1>2, <1>3, <1>7 DEF a, b, c, n

LEMMA ConcatAssociates ==
    ASSUME NEW a \in Seq(Nat), NEW b \in Seq(Nat), NEW c \in Seq(Nat)
    PROVE  a \o b \o c = a \o (b \o c)
OBVIOUS

LEMMA TupleIsSeq ==
    ASSUME NEW s, NEW n \in Nat, s = [i \in 1 .. n |-> s[i]]
    PROVE  \E S : s \in Seq(S)
<1>. DEFINE S == {s[i] : i \in 1 .. n}
<1>1. \A i \in 1 .. n : s[i] \in S
  OBVIOUS
<1>. HIDE DEF S
<1>2. s \in Seq(S)
  BY <1>1
<1>. QED
  BY <1>2

(* Sequences of a fixed length: a part of one, two joined, and one more element. *)
LEMMA PartOf ==
    ASSUME NEW S, NEW s \in Seq(S), NEW first \in 1 .. Len(s), NEW last \in 1 .. Len(s),
           first <= last
    PROVE  /\ SubSeq(s, first, last) \in Seq(S)
           /\ Len(SubSeq(s, first, last)) = last - first + 1
           /\ DOMAIN SubSeq(s, first, last) = 1 .. last - first + 1
           /\ \A i \in 1 .. last - first + 1 : SubSeq(s, first, last)[i] = s[first + i - 1]
BY SubSeqProperties

LEMMA ConcatOf ==
    ASSUME NEW S, NEW s \in Seq(S), NEW t \in Seq(S)
    PROVE  /\ DOMAIN (s \o t) = 1 .. Len(s) + Len(t)
           /\ \A i \in 1 .. Len(s) : (s \o t)[i] = s[i]
           /\ \A i \in 1 .. Len(t) : (s \o t)[Len(s) + i] = t[i]
<1>1. /\ s \o t \in Seq(S) /\ Len(s \o t) = Len(s) + Len(t)
      /\ \A i \in 1 .. Len(s) + Len(t) :
            (s \o t)[i] = IF i <= Len(s) THEN s[i] ELSE t[i - Len(s)]
  BY ConcatProperties
<1>2. DOMAIN (s \o t) = 1 .. Len(s) + Len(t)
  BY <1>1
<1>3. \A i \in 1 .. Len(s) : (s \o t)[i] = s[i]
  BY <1>1
<1>4. \A i \in 1 .. Len(t) : /\ Len(s) + i \in 1 .. Len(s) + Len(t)
                             /\ ~ (Len(s) + i <= Len(s)) /\ (Len(s) + i) - Len(s) = i
  OBVIOUS
<1>5. \A i \in 1 .. Len(t) : (s \o t)[Len(s) + i] = t[i]
  BY <1>1, <1>4, Zenon
<1>. QED
  BY <1>2, <1>3, <1>5

LEMMA AppendOf ==
    ASSUME NEW S, NEW s \in Seq(S), NEW e \in S, NEW m \in Nat, Len(s) = m
    PROVE  /\ DOMAIN Append(s, e) = 1 .. m + 1
           /\ \A i \in 1 .. m : Append(s, e)[i] = s[i]
           /\ Append(s, e)[m + 1] = e
BY AppendProperties
-----------------------------------------------------------------------------
(* What flattening a sequence of sequences and adding one of numbers do with one
   more element, and so with one more sequence. *)

IsFlattened(seqs, f) ==
    /\ f[1] = seqs[1]
    /\ \A i \in Nat : i + 1 \in 2 .. Len(seqs) => f[i + 1] = f[i] \o seqs[i + 1]

LEMMA FlattenUnfolds ==
    ASSUME NEW T, NEW seqs \in Seq(Seq(T)), Len(seqs) # 0
    PROVE  \E f \in [1 .. Len(seqs) -> Seq(T)] :
              IsFlattened(seqs, f) /\ FlattenSeq(seqs) = f[Len(seqs)]
<1>. DEFINE N == Len(seqs)
            D == 1 .. N
            V == Seq(T)
            rank == [i \in D |-> i]
            Step == [i \in D |-> [g \in [D -> V] |->
                        IF i = 1 THEN seqs[i] ELSE g[i - 1] \o seqs[i]]]
            Equation(f) == f = [i \in 1 .. Len(seqs) |->
                                  IF i = 1 THEN seqs[i] ELSE f[i - 1] \o seqs[i]]
<1>1. N \in Nat /\ N # 0 /\ V # {} /\ rank \in [D -> 0 .. N] /\ \A i \in D : seqs[i] \in V
  <2>1. <<>> \in V
    OBVIOUS
  <2>. QED
    BY <2>1
<1>. HIDE DEF V
<1>2. Step \in [D -> [[D -> V] -> V]]
  <2>1. ASSUME NEW i \in D, NEW g \in [D -> V]
        PROVE  (IF i = 1 THEN seqs[i] ELSE g[i - 1] \o seqs[i]) \in V
    <3>1. seqs[i] \in V
      BY <1>1
    <3>2. i # 1 => i - 1 \in D
      BY <1>1
    <3>3. i # 1 => g[i - 1] \in V
      BY <3>2
    <3>4. i # 1 => g[i - 1] \o seqs[i] \in V
      BY <3>1, <3>3 DEF V
    <3>. QED
      BY <3>1, <3>4
  <2>. QED
    BY <2>1
<1>3. \A i \in D, g \in [D -> V], h \in [D -> V] :
         (\A j \in D : rank[j] < rank[i] => g[j] = h[j]) => Step[i][g] = Step[i][h]
  <2>. SUFFICES ASSUME NEW i \in D, NEW g \in [D -> V], NEW h \in [D -> V],
                       \A j \in D : rank[j] < rank[i] => g[j] = h[j]
                PROVE  Step[i][g] = Step[i][h]
    BY Zenon
  <2>1. i # 1 => i - 1 \in D /\ i - 1 < i
    BY <1>1
  <2>2. i # 1 => g[i - 1] = h[i - 1]
    BY <2>1
  <2>. QED
    BY <2>2
<1>. HIDE DEF N, D, rank, Step
<1>4. PICK f \in [D -> V] : \A i \in D : f[i] = Step[i][f]
  <2>1. Ranked(D, V, N, rank, Step)
    BY <1>1, <1>2, <1>3, Zenon DEF Ranked
  <2>. QED
    BY <2>1, Recursion
<1>5. Equation(f)
  BY <1>4 DEF N, D, Step
<1>6. FlattenSeq(seqs) = (CHOOSE g : Equation(g))[N]
  BY DEF N, FlattenSeq
<1>. HIDE DEF Equation
<1>7. Equation(CHOOSE g : Equation(g))
  BY <1>5, Zenon
<1>8. PICK g : Equation(g) /\ FlattenSeq(seqs) = g[N]
  BY <1>6, <1>7
<1>9. IsFlattened(seqs, g) /\ DOMAIN g = D /\ g = [i \in D |-> g[i]]
  <2>1. \A i \in D : g[i] = (IF i = 1 THEN seqs[i] ELSE g[i - 1] \o seqs[i])
    BY <1>8 DEF Equation, D, N
  <2>2. g[1] = seqs[1]
    BY <1>1, <2>1 DEF D
  <2>3. ASSUME NEW i \in Nat, i + 1 \in 2 .. N PROVE g[i + 1] = g[i] \o seqs[i + 1]
    <3>1. i + 1 \in D /\ i + 1 # 1 /\ (i + 1) - 1 = i
      BY <2>3 DEF D
    <3>. QED
      BY <2>1, <3>1
  <2>. QED
    BY <1>8, <2>2, <2>3 DEF Equation, IsFlattened, D, N
<1>10. \A i \in D : g[i] \in V
  <2>. DEFINE S == {i \in Nat : i \in D => g[i] \in V}
  <2>1. 0 \in S
    BY DEF D
  <2>2. ASSUME NEW i \in Nat, i \in S PROVE i + 1 \in S
    <3>. SUFFICES ASSUME i + 1 \in D PROVE g[i + 1] \in V
      OBVIOUS
    <3>2. seqs[i + 1] \in V
      BY <1>1
    <3>3. CASE i = 0
      BY <1>9, <3>2, <3>3 DEF IsFlattened
    <3>4. CASE i # 0
      <4>1. i \in D /\ i + 1 \in 2 .. N
        BY <1>1, <3>4 DEF D
      <4>2. g[i + 1] = g[i] \o seqs[i + 1] /\ g[i] \in V
        BY <1>9, <2>2, <4>1 DEF IsFlattened, N
      <4>. QED
        BY <3>2, <4>2 DEF V
    <3>. QED
      BY <3>3, <3>4
  <2>. HIDE DEF S
  <2>3. \A i \in Nat : i \in S
    BY <2>1, <2>2, Induction
  <2>. QED
    BY <1>1, <2>3 DEF S, D
<1>. QED
  BY <1>8, <1>9, <1>10 DEF D, N, V

LEMMA FlattenEmpty == FlattenSeq(<<>>) = <<>>
BY DEF FlattenSeq

LEMMA FlattenTyped ==
    ASSUME NEW T, NEW seqs \in Seq(Seq(T))
    PROVE  FlattenSeq(seqs) \in Seq(T)
<1>1. CASE Len(seqs) = 0
  <2>1. seqs = <<>> /\ <<>> \in Seq(T)
    BY <1>1
  <2>. QED
    BY <2>1, FlattenEmpty, Zenon
<1>2. CASE Len(seqs) # 0
  <2>1. PICK f \in [1 .. Len(seqs) -> Seq(T)] : FlattenSeq(seqs) = f[Len(seqs)]
    BY <1>2, FlattenUnfolds
  <2>2. Len(seqs) \in 1 .. Len(seqs)
    BY <1>2
  <2>. QED
    BY <2>1, <2>2
<1>. QED
  BY <1>1, <1>2

LEMMA FlattenAppend ==
    ASSUME NEW T, NEW seqs \in Seq(Seq(T)), NEW s \in Seq(T)
    PROVE  FlattenSeq(Append(seqs, s)) = FlattenSeq(seqs) \o s
<1>. DEFINE N == Len(seqs)
            more == Append(seqs, s)
<1>1. /\ N \in Nat /\ more \in Seq(Seq(T)) /\ Len(more) = N + 1 /\ more[N + 1] = s
      /\ \A i \in 1 .. N : more[i] = seqs[i]
  OBVIOUS
<1>. HIDE DEF more
<1>2. PICK g \in [1 .. N + 1 -> Seq(T)] : IsFlattened(more, g) /\ FlattenSeq(more) = g[N + 1]
  BY <1>1, FlattenUnfolds
<1>3. CASE N = 0
  <2>1. seqs = <<>>
    BY <1>3
  <2>2. g[1] = s
    BY <1>1, <1>2, <1>3 DEF IsFlattened
  <2>. QED
    BY <1>1, <1>2, <1>3, <2>1, <2>2, FlattenEmpty DEF more
<1>4. CASE N # 0
  <2>1. PICK f \in [1 .. N -> Seq(T)] : IsFlattened(seqs, f) /\ FlattenSeq(seqs) = f[N]
    BY <1>4, FlattenUnfolds
  <2>. DEFINE S == {i \in Nat : i \in 1 .. N => f[i] = g[i]}
  <2>2. 0 \in S
    OBVIOUS
  <2>3. ASSUME NEW i \in Nat, i \in S PROVE i + 1 \in S
    <3>. SUFFICES ASSUME i + 1 \in 1 .. N PROVE f[i + 1] = g[i + 1]
      OBVIOUS
    <3>1. more[i + 1] = seqs[i + 1]
      BY <1>1
    <3>2. CASE i = 0
      BY <1>2, <2>1, <3>1, <3>2 DEF IsFlattened
    <3>3. CASE i # 0
      <4>1. f[i] = g[i] /\ i + 1 \in 2 .. N /\ i + 1 \in 2 .. N + 1
        BY <1>1, <2>3, <3>3
      <4>. HIDE DEF S
      <4>2. f[i + 1] = f[i] \o seqs[i + 1]
        BY <2>1, <4>1 DEF IsFlattened
      <4>3. g[i + 1] = g[i] \o more[i + 1]
        BY <1>1, <1>2, <4>1 DEF IsFlattened
      <4>. QED
        BY <3>1, <4>1, <4>2, <4>3
    <3>. QED
      BY <3>2, <3>3
  <2>. HIDE DEF S
  <2>4. \A i \in Nat : i \in S
    BY <2>2, <2>3, Induction
  <2>5. f[N] = g[N]
    <3>1. N \in S /\ N \in 1 .. N
      BY <1>1, <1>4, <2>4
    <3>. QED
      BY <3>1 DEF S
  <2>6. g[N + 1] = g[N] \o more[N + 1]
    <3>1. N + 1 \in 2 .. Len(more)
      BY <1>1, <1>4
    <3>. QED
      BY <1>1, <1>2, <3>1, Zenon DEF IsFlattened
  <2>. QED
    BY <1>1, <1>2, <2>1, <2>5, <2>6 DEF more
<1>. QED
  BY <1>1, <1>3, <1>4

(* Every sequence is empty, or one with an element appended. *)
LEMMA LastElement ==
    ASSUME NEW T, NEW s \in Seq(T), NEW n \in Nat, Len(s) = n + 1
    PROVE  /\ SubSeq(s, 1, n) \in Seq(T) /\ Len(SubSeq(s, 1, n)) = n /\ s[n + 1] \in T
           /\ s = Append(SubSeq(s, 1, n), s[n + 1])
<1>. DEFINE front == SubSeq(s, 1, n)
<1>1. s[n + 1] \in T
  OBVIOUS
<1>2. front \in Seq(T) /\ Len(front) = n /\ \A i \in 1 .. n : front[i] = s[i]
  OBVIOUS
<1>. HIDE DEF front
<1>3. Append(front, s[n + 1]) \in Seq(T) /\ Len(Append(front, s[n + 1])) = n + 1
  BY <1>1, <1>2
<1>4. \A i \in 1 .. n + 1 : Append(front, s[n + 1])[i] = s[i]
  BY <1>1, <1>2
<1>5. s = Append(front, s[n + 1])
  BY <1>3, <1>4, SeqEqual
<1>. QED
  BY <1>1, <1>2, <1>5 DEF front

LEMMA FlattenConcat ==
    ASSUME NEW T, NEW a \in Seq(Seq(T)), NEW b \in Seq(Seq(T))
    PROVE  FlattenSeq(a \o b) = FlattenSeq(a) \o FlattenSeq(b)
<1>. DEFINE S == {n \in Nat : \A c \in Seq(Seq(T)) :
                    Len(c) = n => FlattenSeq(a \o c) = FlattenSeq(a) \o FlattenSeq(c)}
<1>1. 0 \in S
  <2>. SUFFICES ASSUME NEW c \in Seq(Seq(T)), Len(c) = 0
                PROVE  FlattenSeq(a \o c) = FlattenSeq(a) \o FlattenSeq(c)
    OBVIOUS
  <2>1. c = <<>> /\ a \o c = a
    OBVIOUS
  <2>. QED
    BY <2>1, FlattenEmpty, FlattenTyped
<1>2. ASSUME NEW n \in Nat, n \in S PROVE n + 1 \in S
  <2>. SUFFICES ASSUME NEW c \in Seq(Seq(T)), Len(c) = n + 1
                PROVE  FlattenSeq(a \o c) = FlattenSeq(a) \o FlattenSeq(c)
    OBVIOUS
  <2>. DEFINE front == SubSeq(c, 1, n)
              last == c[n + 1]
  <2>1. front \in Seq(Seq(T)) /\ Len(front) = n /\ last \in Seq(T) /\ c = Append(front, last)
    BY LastElement
  <2>2. FlattenSeq(a \o front) = FlattenSeq(a) \o FlattenSeq(front)
    BY <1>2, <2>1
  <2>. HIDE DEF front, last, S
  <2>3. a \o c = Append(a \o front, last) /\ a \o front \in Seq(Seq(T))
    BY <2>1
  <2>4. FlattenSeq(a \o c) = FlattenSeq(a \o front) \o last
    BY <2>1, <2>3, FlattenAppend
  <2>5. FlattenSeq(c) = FlattenSeq(front) \o last
    BY <2>1, FlattenAppend
  <2>6. FlattenSeq(a) \in Seq(T) /\ FlattenSeq(front) \in Seq(T)
    BY <2>1, FlattenTyped
  <2>7. (FlattenSeq(a) \o FlattenSeq(front)) \o last = FlattenSeq(a) \o (FlattenSeq(front) \o last)
    BY <2>1, <2>6
  <2>. QED
    BY <2>2, <2>4, <2>5, <2>7, Zenon
<1>. HIDE DEF S
<1>3. \A n \in Nat : n \in S
  BY <1>1, <1>2, Induction
<1>. QED
  BY <1>3 DEF S

LEMMA FlattenSingletons ==
    ASSUME NEW T, NEW s \in Seq(T)
    PROVE  FlattenSeq([i \in DOMAIN s |-> <<s[i]>>]) = s
<1>. DEFINE Ones(t) == [i \in DOMAIN t |-> <<t[i]>>]
            S == {n \in Nat : \A t \in Seq(T) : Len(t) = n => FlattenSeq(Ones(t)) = t}
<1>1. 0 \in S
  <2>. SUFFICES ASSUME NEW t \in Seq(T), Len(t) = 0 PROVE FlattenSeq(Ones(t)) = t
    OBVIOUS
  <2>1. t = <<>> /\ Ones(t) = <<>>
    OBVIOUS
  <2>. QED
    BY <2>1, FlattenEmpty
<1>2. ASSUME NEW n \in Nat, n \in S PROVE n + 1 \in S
  <2>. SUFFICES ASSUME NEW t \in Seq(T), Len(t) = n + 1 PROVE FlattenSeq(Ones(t)) = t
    OBVIOUS
  <2>. DEFINE front == SubSeq(t, 1, n)
              last == t[n + 1]
  <2>1. front \in Seq(T) /\ Len(front) = n /\ last \in T /\ t = Append(front, last)
    BY LastElement
  <2>2. FlattenSeq(Ones(front)) = front
    BY <1>2, <2>1
  <2>. HIDE DEF front, last, S
  <2>3. Ones(front) \in Seq(Seq(T)) /\ <<last>> \in Seq(T)
    BY <2>1
  <2>4. Ones(t) = Append(Ones(front), <<last>>)
    <3>1. Ones(t) \in Seq(Seq(T)) /\ Append(Ones(front), <<last>>) \in Seq(Seq(T))
      BY <2>3
    <3>2. Len(Ones(t)) = n + 1 /\ Len(Append(Ones(front), <<last>>)) = n + 1
      BY <2>1, <2>3
    <3>3. \A i \in 1 .. n + 1 : Ones(t)[i] = Append(Ones(front), <<last>>)[i]
      BY <2>1, <2>3
    <3>. QED
      BY <3>1, <3>2, <3>3, SeqEqual
  <2>5. FlattenSeq(Ones(t)) = FlattenSeq(Ones(front)) \o <<last>>
    BY <2>3, <2>4, FlattenAppend
  <2>6. front \o <<last>> = Append(front, last)
    BY <2>1
  <2>. QED
    BY <2>1, <2>2, <2>5, <2>6
<1>. HIDE DEF S
<1>3. \A n \in Nat : n \in S
  BY <1>1, <1>2, Induction
<1>. QED
  BY <1>3 DEF S

LEMMA ConcatTail ==
    ASSUME NEW T, NEW a \in Seq(T), NEW b \in Seq(T)
    PROVE  \A k \in 1 .. Len(b) : (a \o b)[Len(a) + k] = b[k]
<1>1. \A k \in 1 .. Len(b) : Len(a) + k \in 1 .. Len(a) + Len(b) /\ ~(Len(a) + k <= Len(a))
                             /\ Len(a) + k - Len(a) = k
  OBVIOUS
<1>. QED
  BY <1>1

(* Pairs, flattened. *)
LEMMA FlattenPairs ==
    ASSUME NEW T, NEW N \in Nat, NEW f \in Seq(T), Len(f) = 2 * N
    PROVE  FlattenSeq([n \in 1 .. N |-> <<f[2 * n - 1], f[2 * n]>>]) = f
<1>. DEFINE Pairs(g, n) == [k \in 1 .. n |-> <<g[2 * k - 1], g[2 * k]>>]
            S == {n \in Nat : \A g \in Seq(T) : Len(g) = 2 * n => FlattenSeq(Pairs(g, n)) = g}
<1>1. 0 \in S
  <2>. SUFFICES ASSUME NEW g \in Seq(T), Len(g) = 2 * 0 PROVE FlattenSeq(Pairs(g, 0)) = g
    OBVIOUS
  <2>1. g = <<>>
    OBVIOUS
  <2>2. Pairs(g, 0) = <<>>
    OBVIOUS
  <2>. QED
    BY <2>1, <2>2, FlattenEmpty, Zenon
<1>2. ASSUME NEW n \in Nat, n \in S PROVE n + 1 \in S
  <2>. SUFFICES ASSUME NEW g \in Seq(T), Len(g) = 2 * (n + 1)
                PROVE  FlattenSeq(Pairs(g, n + 1)) = g
    OBVIOUS
  <2>. DEFINE a == 2 * n + 1
              h == SubSeq(g, 1, 2 * n)
              last == <<g[a], g[a + 1]>>
              before == Pairs(h, n)
  <2>1. /\ a \in Nat /\ Len(g) = a + 1 /\ 2 * n = a - 1 /\ 2 * (n + 1) - 1 = a
        /\ 2 * (n + 1) = a + 1
    OBVIOUS
  <2>2. /\ g[a] \in T /\ g[a + 1] \in T /\ h \in Seq(T) /\ Len(h) = 2 * n
        /\ \A k \in 1 .. 2 * n : h[k] = g[k]
    OBVIOUS
  <2>3. last \in Seq(T) /\ Len(last) = 2 /\ last[1] = g[a] /\ last[2] = g[a + 1]
    BY <2>2
  <2>4. ASSUME NEW k \in 1 .. n
        PROVE  2 * k - 1 \in 1 .. 2 * n /\ 2 * k \in 1 .. 2 * n
    OBVIOUS
  <2>. HIDE DEF h, a
  <2>5. before \in Seq(Seq(T)) /\ Len(before) = n
    <3>1. \A k \in 1 .. n : h[2 * k - 1] \in T /\ h[2 * k] \in T
      BY <2>2, <2>4
    <3>2. \A k \in 1 .. n : <<h[2 * k - 1], h[2 * k]>> \in Seq(T)
      BY <3>1
    <3>. QED
      BY <3>2
  <2>6. Pairs(g, n + 1) = Append(before, last)
    <3>. DEFINE both == Pairs(g, n + 1)
    <3>1. both = [k \in 1 .. n + 1 |-> IF k = n + 1 THEN last ELSE before[k]]
      <4>1. \A k \in 1 .. n + 1 : k = n + 1 \/ k \in 1 .. n
        OBVIOUS
      <4>2. \A k \in 1 .. n : <<g[2 * k - 1], g[2 * k]>> = before[k]
        BY <2>2, <2>4
      <4>3. <<g[2 * (n + 1) - 1], g[2 * (n + 1)]>> = last
        BY <2>1
      <4>. HIDE DEF before, last
      <4>. QED
        BY <4>1, <4>2, <4>3
    <3>. HIDE DEF before, last
    <3>2. Append(before, last) \in Seq(Seq(T)) /\ Len(Append(before, last)) = n + 1
      BY <2>3, <2>5
    <3>3. \A k \in 1 .. n + 1 :
             Append(before, last)[k] = (IF k = n + 1 THEN last ELSE before[k])
      BY <2>5
    <3>4. \A k \in 1 .. n + 1 : (IF k = n + 1 THEN last ELSE before[k]) \in Seq(T)
      BY <2>3, <2>5
    <3>5. both \in Seq(Seq(T)) /\ Len(both) = n + 1
      BY <3>1, <3>4
    <3>6. \A k \in 1 .. n + 1 : both[k] = Append(before, last)[k]
      BY <3>1, <3>3
    <3>. HIDE DEF both
    <3>7. both = Append(before, last)
      BY <3>2, <3>5, <3>6, SeqEqual
    <3>. QED
      BY <3>7 DEF both
  <2>7. FlattenSeq(before) = h
    BY <1>2, <2>2
  <2>8. FlattenSeq(Append(before, last)) = h \o last
    <3>. HIDE DEF before, last
    <3>. QED
      BY <2>3, <2>5, <2>7, FlattenAppend
  <2>9. h \o last = g
    <3>. HIDE DEF last
    <3>0. h \in Seq(T) /\ last \in Seq(T)
      BY <2>2, <2>3
    <3>1. h \o last \in Seq(T) /\ Len(h \o last) = Len(g)
      <4>1. h \o last \in Seq(T) /\ Len(h \o last) = Len(h) + Len(last)
        BY <3>0
      <4>2. Len(h) + Len(last) = Len(g)
        BY <2>1, <2>2, <2>3
      <4>. QED
        BY <4>1, <4>2
    <3>2. \A k \in 1 .. Len(g) : (h \o last)[k] = g[k]
      <4>1. \A k \in 1 .. Len(g) : k \in 1 .. 2 * n \/ k = a \/ k = a + 1
        BY <2>1
      <4>2. \A k \in 1 .. 2 * n : (h \o last)[k] = g[k]
        BY <2>2, <2>3
      <4>3. (h \o last)[a] = g[a] /\ (h \o last)[a + 1] = g[a + 1]
        <5>1. \A k \in 1 .. Len(last) : (h \o last)[Len(h) + k] = last[k]
          BY <3>0, ConcatTail
        <5>2. /\ 1 \in 1 .. Len(last) /\ 2 \in 1 .. Len(last)
              /\ Len(h) + 1 = a /\ Len(h) + 2 = a + 1
          BY <2>1, <2>2, <2>3
        <5>. QED
          BY <2>3, <5>1, <5>2
      <4>. QED
        BY <4>1, <4>2, <4>3
    <3>. QED
      BY <3>1, <3>2, SeqEqual
  <2>. QED
    BY <2>6, <2>8, <2>9, Zenon
<1>. HIDE DEF S
<1>3. \A n \in Nat : n \in S
  BY <1>1, <1>2, Induction
<1>. QED
  BY <1>3 DEF S

(* The same of the sum. *)
IsSummed(lengths, f) ==
    /\ f[0] = 0
    /\ \A n \in Nat : n + 1 \in 1 .. Len(lengths) => f[n + 1] = f[n] + lengths[n + 1]

LEMMA TotalUnfolds ==
    ASSUME NEW lengths \in Seq(Int)
    PROVE  \E f \in [0 .. Len(lengths) -> Int] :
              IsSummed(lengths, f) /\ Total(lengths) = f[Len(lengths)]
<1>. DEFINE N == Len(lengths)
            D == SUBSET (1 .. N)
            V == Int
            rank == [S \in D |-> IF S = {} THEN 0 ELSE Max(S)]
            Step == [S \in D |-> [g \in [D -> V] |->
                        IF S = {} THEN 0 ELSE g[S \ {Max(S)}] + lengths[Max(S)]]]
            Equation(f) == f = [S \in SUBSET DOMAIN lengths |->
                                  IF S = {} THEN 0 ELSE f[S \ {Max(S)}] + lengths[Max(S)]]
<1>1. N \in Nat /\ DOMAIN lengths = 1 .. N /\ \A i \in 1 .. N : lengths[i] \in Int
  OBVIOUS
<1>. HIDE DEF N
<1>2. ASSUME NEW S \in D, S # {}
      PROVE  /\ Max(S) \in S /\ Max(S) \in 1 .. N /\ S \ {Max(S)} \in D
             /\ S \ {Max(S)} # {} => Max(S \ {Max(S)}) < Max(S)
  <2>1. S \subseteq 0 .. N
    OBVIOUS
  <2>2. Max(S) \in S /\ \A x \in S : x <= Max(S)
    BY <1>1, <1>2, <2>1, MaxIsGreatest
  <2>3. S \ {Max(S)} # {} => Max(S \ {Max(S)}) \in S \ {Max(S)}
    <3>1. S \ {Max(S)} \subseteq 0 .. N
      BY <2>1
    <3>. QED
      BY <1>1, <3>1, MaxIsGreatest
  <2>4. Max(S) \in 1 .. N /\ S \ {Max(S)} \in D
    BY <2>2
  <2>5. ASSUME NEW x \in S \ {Max(S)} PROVE x < Max(S)
    <3>1. x \in 1 .. N /\ x <= Max(S) /\ x # Max(S)
      BY <2>2
    <3>. QED
      BY <2>4, <3>1
  <2>. QED
    BY <2>2, <2>3, <2>4, <2>5, Zenon
<1>3. rank \in [D -> 0 .. N]
  <2>1. ASSUME NEW S \in D PROVE (IF S = {} THEN 0 ELSE Max(S)) \in 0 .. N
    <3>1. CASE S = {}
      BY <1>1, <3>1
    <3>2. CASE S # {}
      <4>1. Max(S) \in 1 .. N
        BY <1>2, <3>2
      <4>. QED
        BY <1>1, <3>2, <4>1
    <3>. QED
      BY <3>1, <3>2
  <2>. QED
    BY <2>1
<1>4. Step \in [D -> [[D -> V] -> V]]
  <2>1. ASSUME NEW S \in D, NEW g \in [D -> V]
        PROVE  (IF S = {} THEN 0 ELSE g[S \ {Max(S)}] + lengths[Max(S)]) \in V
    <3>1. CASE S = {}
      BY <3>1
    <3>2. CASE S # {}
      <4>1. S \ {Max(S)} \in D /\ Max(S) \in 1 .. N
        BY <1>2, <3>2
      <4>2. g[S \ {Max(S)}] \in Int /\ lengths[Max(S)] \in Int
        BY <1>1, <4>1
      <4>. QED
        BY <3>2, <4>2
    <3>. QED
      BY <3>1, <3>2
  <2>. QED
    BY <2>1
<1>5. \A S \in D, g \in [D -> V], h \in [D -> V] :
         (\A R \in D : rank[R] < rank[S] => g[R] = h[R]) => Step[S][g] = Step[S][h]
  <2>. SUFFICES ASSUME NEW S \in D, NEW g \in [D -> V], NEW h \in [D -> V],
                       \A R \in D : rank[R] < rank[S] => g[R] = h[R]
                PROVE  Step[S][g] = Step[S][h]
    BY Zenon
  <2>1. CASE S = {}
    BY <2>1
  <2>2. CASE S # {}
    <3>. DEFINE R == S \ {Max(S)}
    <3>1. R \in D /\ Max(S) \in 1 .. N /\ (R # {} => Max(R) < Max(S))
      BY <1>2, <2>2
    <3>2. rank[R] < rank[S]
      BY <1>1, <2>2, <3>1
    <3>3. g[R] = h[R]
      BY <3>1, <3>2
    <3>. QED
      BY <2>2, <3>3
  <2>. QED
    BY <2>1, <2>2
<1>. HIDE DEF D, rank, Step
<1>6. PICK f \in [D -> V] : \A S \in D : f[S] = Step[S][f]
  <2>1. V # {}
    OBVIOUS
  <2>2. Ranked(D, V, N, rank, Step)
    BY <1>1, <1>3, <1>4, <1>5, <2>1, Zenon DEF Ranked
  <2>. QED
    BY <2>2, Recursion
<1>7. Equation(f)
  BY <1>1, <1>6 DEF D, Step
<1>8. Total(lengths) = (CHOOSE g : Equation(g))[DOMAIN lengths]
  BY DEF Total, FoldLeft, MapThenFoldSet
<1>. HIDE DEF Equation
<1>9. PICK g : Equation(g) /\ Total(lengths) = g[1 .. N]
  BY <1>1, <1>7, <1>8, Zenon
<1>10. \A S \in D : g[S] = (IF S = {} THEN 0 ELSE g[S \ {Max(S)}] + lengths[Max(S)])
  BY <1>1, <1>9 DEF Equation, D
<1>. DEFINE sums == [n \in 0 .. N |-> g[1 .. n]]
<1>11. IsSummed(lengths, sums)
  <2>1. sums[0] = 0
    <3>1. 1 .. 0 = {} /\ {} \in D /\ 0 \in 0 .. N
      BY <1>1 DEF D
    <3>. QED
      BY <1>10, <3>1
  <2>2. ASSUME NEW n \in Nat, n + 1 \in 1 .. N PROVE sums[n + 1] = sums[n] + lengths[n + 1]
    <3>1. 1 .. n + 1 \in D /\ 1 .. n + 1 # {}
      <4>1. n + 1 \in 1 .. n + 1 /\ 1 .. n + 1 \subseteq 1 .. N
        BY <1>1, <2>2
      <4>. QED
        BY <4>1 DEF D
    <3>2. Max(1 .. n + 1) = n + 1
      <4>1. 1 .. n + 1 \subseteq 0 .. N /\ n + 1 \in 1 .. n + 1
        BY <1>1, <2>2
      <4>2. Max(1 .. n + 1) \in 1 .. n + 1 /\ n + 1 <= Max(1 .. n + 1)
        BY <1>1, <3>1, <4>1, MaxIsGreatest
      <4>. QED
        BY <4>2
    <3>3. (1 .. n + 1) \ {n + 1} = 1 .. n
      OBVIOUS
    <3>4. g[1 .. n + 1] = g[1 .. n] + lengths[n + 1]
      BY <1>10, <3>1, <3>2, <3>3
    <3>5. n \in 0 .. N /\ n + 1 \in 0 .. N
      BY <1>1, <2>2
    <3>. QED
      BY <3>4, <3>5
  <2>. QED
    BY <2>1, <2>2 DEF IsSummed, N
<1>. HIDE DEF sums
<1>12. \A n \in 0 .. N : sums[n] \in Int
  <2>. DEFINE S == {n \in Nat : n \in 0 .. N => sums[n] \in Int}
  <2>1. 0 \in S
    BY <1>11 DEF IsSummed
  <2>2. ASSUME NEW n \in Nat, n \in S PROVE n + 1 \in S
    <3>. SUFFICES ASSUME n + 1 \in 0 .. N PROVE sums[n + 1] \in Int
      OBVIOUS
    <3>1. n + 1 \in 1 .. N /\ n \in 0 .. N
      BY <1>1
    <3>2. sums[n + 1] = sums[n] + lengths[n + 1]
      BY <1>11, <3>1 DEF IsSummed, N
    <3>3. sums[n] \in Int /\ lengths[n + 1] \in Int
      BY <1>1, <2>2, <3>1
    <3>. QED
      BY <3>2, <3>3
  <2>. HIDE DEF S
  <2>3. \A n \in Nat : n \in S
    BY <2>1, <2>2, Induction
  <2>. QED
    BY <1>1, <2>3 DEF S
<1>13. sums \in [0 .. N -> Int]
  BY <1>12 DEF sums
<1>14. Total(lengths) = sums[N]
  BY <1>1, <1>9 DEF sums
<1>. QED
  BY <1>11, <1>13, <1>14 DEF N

LEMMA TotalEmpty == Total(<<>>) = 0
<1>1. <<>> \in Seq(Int) /\ Len(<<>>) = 0
  OBVIOUS
<1>. QED
  BY <1>1, TotalUnfolds DEF IsSummed

LEMMA TotalTyped ==
    ASSUME NEW lengths \in Seq(Int)
    PROVE  Total(lengths) \in Int
<1>1. PICK f \in [0 .. Len(lengths) -> Int] : Total(lengths) = f[Len(lengths)]
  BY TotalUnfolds
<1>2. Len(lengths) \in 0 .. Len(lengths)
  OBVIOUS
<1>. QED
  BY <1>1, <1>2

LEMMA TotalAppend ==
    ASSUME NEW lengths \in Seq(Int), NEW length \in Int
    PROVE  Total(Append(lengths, length)) = Total(lengths) + length
<1>. DEFINE N == Len(lengths)
            more == Append(lengths, length)
<1>1. /\ N \in Nat /\ more \in Seq(Int) /\ Len(more) = N + 1 /\ more[N + 1] = length
      /\ \A i \in 1 .. N : more[i] = lengths[i]
  OBVIOUS
<1>. HIDE DEF more
<1>2. PICK g \in [0 .. N + 1 -> Int] : IsSummed(more, g) /\ Total(more) = g[N + 1]
  BY <1>1, TotalUnfolds
<1>3. PICK f \in [0 .. N -> Int] : IsSummed(lengths, f) /\ Total(lengths) = f[N]
  BY TotalUnfolds
<1>. DEFINE S == {n \in Nat : n \in 0 .. N => f[n] = g[n]}
<1>4. 0 \in S
  BY <1>2, <1>3 DEF IsSummed
<1>5. ASSUME NEW n \in Nat, n \in S PROVE n + 1 \in S
  <2>. SUFFICES ASSUME n + 1 \in 0 .. N PROVE f[n + 1] = g[n + 1]
    OBVIOUS
  <2>1. n + 1 \in 1 .. N /\ n + 1 \in 1 .. N + 1 /\ f[n] = g[n]
    BY <1>1, <1>5
  <2>. HIDE DEF S
  <2>2. f[n + 1] = f[n] + lengths[n + 1]
    BY <1>3, <2>1 DEF IsSummed
  <2>3. g[n + 1] = g[n] + more[n + 1]
    BY <1>1, <1>2, <2>1 DEF IsSummed
  <2>4. more[n + 1] = lengths[n + 1]
    BY <1>1, <2>1
  <2>. QED
    BY <2>1, <2>2, <2>3, <2>4
<1>. HIDE DEF S
<1>6. \A n \in Nat : n \in S
  BY <1>4, <1>5, Induction
<1>7. f[N] = g[N]
  <2>1. N \in S /\ N \in 0 .. N
    BY <1>1, <1>6
  <2>. QED
    BY <2>1 DEF S
<1>8. g[N + 1] = g[N] + more[N + 1]
  <2>1. N + 1 \in 1 .. Len(more)
    BY <1>1
  <2>. QED
    BY <1>1, <1>2, <2>1, Zenon DEF IsSummed
<1>. QED
  BY <1>1, <1>2, <1>3, <1>7, <1>8 DEF more

LEMMA TotalConcat ==
    ASSUME NEW a \in Seq(Int), NEW b \in Seq(Int)
    PROVE  Total(a \o b) = Total(a) + Total(b)
<1>. DEFINE S == {n \in Nat : \A c \in Seq(Int) :
                    Len(c) = n => Total(a \o c) = Total(a) + Total(c)}
<1>1. 0 \in S
  <2>. SUFFICES ASSUME NEW c \in Seq(Int), Len(c) = 0 PROVE Total(a \o c) = Total(a) + Total(c)
    OBVIOUS
  <2>1. c = <<>> /\ a \o c = a
    OBVIOUS
  <2>. QED
    BY <2>1, TotalEmpty, TotalTyped
<1>2. ASSUME NEW n \in Nat, n \in S PROVE n + 1 \in S
  <2>. SUFFICES ASSUME NEW c \in Seq(Int), Len(c) = n + 1
                PROVE  Total(a \o c) = Total(a) + Total(c)
    OBVIOUS
  <2>. DEFINE front == SubSeq(c, 1, n)
              last == c[n + 1]
  <2>1. front \in Seq(Int) /\ Len(front) = n /\ last \in Int /\ c = Append(front, last)
    BY LastElement
  <2>2. Total(a \o front) = Total(a) + Total(front)
    BY <1>2, <2>1
  <2>. HIDE DEF front, last, S
  <2>3. a \o c = Append(a \o front, last) /\ a \o front \in Seq(Int)
    BY <2>1
  <2>4. Total(a \o c) = Total(a \o front) + last
    BY <2>1, <2>3, TotalAppend
  <2>5. Total(c) = Total(front) + last
    BY <2>1, TotalAppend
  <2>6. Total(a) \in Int /\ Total(front) \in Int
    BY <2>1, TotalTyped
  <2>. QED
    BY <2>1, <2>2, <2>4, <2>5, <2>6
<1>. HIDE DEF S
<1>3. \A n \in Nat : n \in S
  BY <1>1, <1>2, Induction
<1>. QED
  BY <1>3 DEF S

LEMMA TotalConstant ==
    ASSUME NEW c \in Int, NEW s \in Seq(Int), \A i \in DOMAIN s : s[i] = c
    PROVE  Total(s) = Len(s) * c
<1>. DEFINE S == {n \in Nat : \A t \in Seq(Int) :
                    Len(t) = n /\ (\A i \in 1 .. n : t[i] = c) => Total(t) = n * c}
<1>1. 0 \in S
  <2>1. \A t \in Seq(Int) : Len(t) = 0 => t = <<>>
    OBVIOUS
  <2>. QED
    BY <2>1, TotalEmpty
<1>2. ASSUME NEW n \in Nat, n \in S PROVE n + 1 \in S
  <2>. SUFFICES ASSUME NEW t \in Seq(Int), Len(t) = n + 1, \A i \in 1 .. n + 1 : t[i] = c
                PROVE  Total(t) = (n + 1) * c
    OBVIOUS
  <2>. DEFINE front == SubSeq(t, 1, n)
  <2>1. front \in Seq(Int) /\ Len(front) = n /\ t = Append(front, t[n + 1]) /\ t[n + 1] = c
    BY LastElement
  <2>2. \A i \in 1 .. n : front[i] = c
    OBVIOUS
  <2>3. Total(front) = n * c
    BY <1>2, <2>1, <2>2
  <2>. HIDE DEF front, S
  <2>4. Total(t) = Total(front) + c
    BY <2>1, TotalAppend
  <2>5. (n + 1) * c = n * c + c
    OBVIOUS
  <2>. QED
    BY <2>3, <2>4, <2>5
<1>. HIDE DEF S
<1>3. \A n \in Nat : n \in S
  BY <1>1, <1>2, Induction
<1>4. Len(s) \in Nat /\ DOMAIN s = 1 .. Len(s)
  OBVIOUS
<1>. QED
  BY <1>3, <1>4 DEF S
-----------------------------------------------------------------------------
(* A function of each element of a sequence. *)

Maps(m, T, U) == m \in [T -> U]
Mapped(m, s) == [i \in DOMAIN s |-> m[s[i]]]

LEMMA MappedConcat ==
    ASSUME NEW T, NEW U, NEW m, Maps(m, T, U), NEW a \in Seq(T), NEW b \in Seq(T)
    PROVE  /\ Mapped(m, a) \in Seq(U) /\ Len(Mapped(m, a)) = Len(a)
           /\ \A i \in 1 .. Len(a) : Mapped(m, a)[i] = m[a[i]]
           /\ Mapped(m, a \o b) = Mapped(m, a) \o Mapped(m, b)
<1>1. \A s \in Seq(T) :
         /\ Mapped(m, s) \in Seq(U) /\ Len(Mapped(m, s)) = Len(s)
         /\ \A i \in 1 .. Len(s) : Mapped(m, s)[i] = m[s[i]]
  <2>. TAKE s \in Seq(T)
  <2>1. Len(s) \in Nat /\ DOMAIN s = 1 .. Len(s) /\ \A i \in 1 .. Len(s) : m[s[i]] \in U
    BY DEF Maps
  <2>. QED
    BY <2>1 DEF Mapped
<1>2. /\ a \o b \in Seq(T) /\ Len(a \o b) = Len(a) + Len(b) /\ Len(a) \in Nat /\ Len(b) \in Nat
      /\ \A i \in 1 .. Len(a) + Len(b) :
            (a \o b)[i] = (IF i <= Len(a) THEN a[i] ELSE b[i - Len(a)])
  OBVIOUS
<1>. DEFINE ma == Mapped(m, a)
            mb == Mapped(m, b)
<1>3. ma \in Seq(U) /\ Len(ma) = Len(a) /\ mb \in Seq(U) /\ Len(mb) = Len(b)
  BY <1>1
<1>. HIDE DEF ma, mb
<1>4. /\ ma \o mb \in Seq(U) /\ Len(ma \o mb) = Len(a) + Len(b)
      /\ \A i \in 1 .. Len(a) + Len(b) :
            (ma \o mb)[i] = (IF i <= Len(a) THEN ma[i] ELSE mb[i - Len(a)])
  <2>1. /\ ma \o mb \in Seq(U) /\ Len(ma \o mb) = Len(ma) + Len(mb)
        /\ \A i \in 1 .. Len(ma) + Len(mb) :
              (ma \o mb)[i] = (IF i <= Len(ma) THEN ma[i] ELSE mb[i - Len(ma)])
    BY <1>3, ConcatProperties, Zenon
  <2>. QED
    BY <1>3, <2>1
<1>5. ASSUME NEW i \in 1 .. Len(a) + Len(b) PROVE Mapped(m, a \o b)[i] = (ma \o mb)[i]
  <2>1. Mapped(m, a \o b)[i] = m[(a \o b)[i]]
    BY <1>1, <1>2
  <2>2. CASE i <= Len(a)
    <3>1. i \in 1 .. Len(a)
      BY <1>2, <2>2
    <3>. QED
      BY <1>1, <1>2, <1>4, <2>1, <2>2, <3>1 DEF ma
  <2>3. CASE ~(i <= Len(a))
    <3>1. i - Len(a) \in 1 .. Len(b)
      BY <1>2, <2>3
    <3>. QED
      BY <1>1, <1>2, <1>4, <2>1, <2>3, <3>1 DEF mb
  <2>. QED
    BY <2>2, <2>3
<1>6. Mapped(m, a \o b) = ma \o mb
  <2>1. Mapped(m, a \o b) \in Seq(U) /\ Len(Mapped(m, a \o b)) = Len(a) + Len(b)
    BY <1>1, <1>2
  <2>. QED
    BY <1>4, <1>5, <2>1, SeqEqual
<1>. QED
  BY <1>1, <1>6 DEF ma, mb

LEMMA MappedAppend ==
    ASSUME NEW T, NEW U, NEW m, Maps(m, T, U), NEW s \in Seq(T), NEW last \in T
    PROVE  /\ Mapped(m, s) \in Seq(U) /\ m[last] \in U
           /\ Mapped(m, Append(s, last)) = Append(Mapped(m, s), m[last])
<1>1. <<last>> \in Seq(T) /\ Append(s, last) = s \o <<last>> /\ m[last] \in U
  BY DEF Maps
<1>2. Mapped(m, <<last>>) = <<m[last]>>
  BY DEF Mapped
<1>3. Mapped(m, s) \in Seq(U)
  BY MappedConcat, Zenon
<1>4. Mapped(m, s \o <<last>>) = Mapped(m, s) \o Mapped(m, <<last>>)
  <2>1. ASSUME NEW t \in Seq(T) PROVE Mapped(m, s \o t) = Mapped(m, s) \o Mapped(m, t)
    BY MappedConcat
  <2>. QED
    BY <1>1, <2>1, Zenon
<1>5. ASSUME NEW t \in Seq(U), NEW u \in U PROVE t \o <<u>> = Append(t, u)
  OBVIOUS
<1>6. Mapped(m, s) \o <<m[last]>> = Append(Mapped(m, s), m[last])
  BY <1>1, <1>3, <1>5, Zenon
<1>. QED
  BY <1>1, <1>2, <1>3, <1>4, <1>6, Zenon
=============================================================================
