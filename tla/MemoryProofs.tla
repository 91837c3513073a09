---------------------------- MODULE MemoryProofs ---------------------------
(***************************************************************************)
(* Theorems about Allocator, for any names, memory and pages: the lists    *)
(* and the blocks divide the memory with free neighbours merged, each      *)
(* policy chooses what its name says, and together they implement Heap.    *)
(* Theorems about VirtualMemory, for any pages, frames, TLB and data       *)
(* written: the structures that are updated one after another agree, the   *)
(* TLB holds the pages used last, and what a program sees is PagedMemory.  *)
(* Both are about sequences without repetition, from which elements go.    *)
(*                                                                         *)
(* Allocator: the invariant is about the free nodes as a set, which        *)
(* both lists hold in order, and the blocks: no two of them overlap,       *)
(* together they have every cell, and no two free nodes touch. A request   *)
(* splits one node, which moves no cell to another owner. A release puts a *)
(* block among the nodes by address, where it can touch one on each side   *)
(* and no other two touch; so what freelist_internal_merge joins are three *)
(* nodes at most, side by side, and the node that takes their place has    *)
(* their cells and touches none.                                           *)
(*                                                                         *)
(* For Heap: a run of free pages lies in one free node, for a node that    *)
(* had only a part of it would touch the next; so a policy that finds no   *)
(* node shows that there is no run.                                        *)
(*                                                                         *)
(* VirtualMemory: each LRU cache is an order without repetition; query,    *)
(* insert and remove keep the order of what they do not name.  So whatever *)
(* leaves the TLB, to make room or with its page, was used before all that *)
(* stays or is no longer in memory.  A page fault finds a frame of its own *)
(* because fewer pages than frames are in memory when none is evicted.     *)
(***************************************************************************)
EXTENDS Allocator, VirtualMemory, TLAPS, FiniteSetTheorems, SequenceTheorems

\* x comes before y in a list or a cache.
Before(s, x, y) == \E i, j \in DOMAIN s : i < j /\ s[i] = x /\ s[j] = y

-----------------------------------------------------------------------------
(* Lists. *)

Less == {p \in Nat \X Nat : p[1] < p[2]}

\* A nonempty set of naturals has a least element, which is its Min.
LEMMA MinNat ==
  ASSUME NEW S \in SUBSET Nat, S # {}
  PROVE  Min(S) \in S /\ \A y \in S : Min(S) <= y
<1>1. IsWellFoundedOn(Less, Nat)
  BY NatLessThanWellFounded DEF OpToRel, Less
<1>2. PICK x \in S : \A y \in S : ~(<<y, x>> \in Less)
  BY <1>1, WFMin, Zenon
<1>3. ASSUME NEW y \in S PROVE x <= y
  <2>1. x \in Nat /\ y \in Nat
    OBVIOUS
  <2>2. <<y, x>> \in Less <=> y < x
    BY <2>1 DEF Less
  <2> QED BY <1>2, <2>1, <2>2
<1> QED BY <1>3 DEF Min

\* A sequence without its element i.
LEMMA RemoveAtElements ==
  ASSUME NEW S, NEW s \in Seq(S), NEW i \in 1..Len(s)
  PROVE  /\ RemoveAt(s, i) \in Seq(S)
         /\ Len(RemoveAt(s, i)) = Len(s) - 1
         /\ \A k \in 1..(Len(s) - 1) : RemoveAt(s, i)[k] = IF k < i THEN s[k] ELSE s[k + 1]
<1> DEFINE u == SubSeq(s, 1, i - 1)  w == SubSeq(s, i + 1, Len(s))
<1>1. Len(s) \in Nat /\ \A k \in 1..Len(s) : s[k] \in S
  BY ElementOfSeq, LenProperties
<1>2. i \in Int /\ i - 1 \in Int /\ i + 1 \in Int /\ 1 \in Int /\ Len(s) \in Int
  BY <1>1
<1>3. /\ u \in Seq(S) /\ Len(u) = i - 1
      /\ \A k \in 1..(i - 1) : u[k] = s[k]
  <2>1. \A k \in 1..(i - 1) : s[k] \in S
    BY <1>1
  <2>2. /\ u \in Seq(S) /\ Len(u) = IF 1 <= i - 1 THEN i - 1 - 1 + 1 ELSE 0
        /\ \A k \in 1..(i - 1 - 1 + 1) : u[k] = s[1 + k - 1]
    BY <1>2, <2>1, SubSeqProperties
  <2> QED BY <1>1, <1>2, <2>2
<1>4. /\ w \in Seq(S) /\ Len(w) = Len(s) - i
      /\ \A k \in 1..(Len(s) - i) : w[k] = s[i + k]
  <2>1. \A k \in (i + 1)..Len(s) : s[k] \in S
    BY <1>1
  <2>2. /\ w \in Seq(S) /\ Len(w) = IF i + 1 <= Len(s) THEN Len(s) - (i + 1) + 1 ELSE 0
        /\ \A k \in 1..(Len(s) - (i + 1) + 1) : w[k] = s[i + 1 + k - 1]
    BY <1>2, <2>1, SubSeqProperties
  <2> QED BY <1>1, <1>2, <2>2
<1>5. RemoveAt(s, i) = u \o w
  BY DEF RemoveAt
<1> HIDE DEF u, w
<1>6. /\ u \o w \in Seq(S) /\ Len(u \o w) = Len(u) + Len(w)
      /\ \A k \in 1..(Len(u) + Len(w)) : (u \o w)[k] = IF k <= Len(u) THEN u[k] ELSE w[k - Len(u)]
  BY <1>3, <1>4, ConcatProperties
<1>7. ASSUME NEW k \in 1..(Len(s) - 1) PROVE (u \o w)[k] = IF k < i THEN s[k] ELSE s[k + 1]
  <2>1. CASE k < i
    BY <1>1, <1>3, <1>4, <1>6, <2>1
  <2>2. CASE ~(k < i)
    <3>1. k - (i - 1) \in 1..(Len(s) - i) /\ i + (k - (i - 1)) = k + 1
      BY <1>1, <2>2
    <3>2. w[k - (i - 1)] = s[k + 1]
      BY <1>4, <3>1
    <3>3. k \in 1..(Len(u) + Len(w)) /\ ~(k <= Len(u))
      BY <1>1, <1>3, <1>4, <2>2
    <3> QED BY <1>3, <1>6, <2>2, <3>2, <3>3
  <2> QED BY <2>1, <2>2
<1>8. Len(u) + Len(w) = Len(s) - 1
  BY <1>1, <1>3, <1>4
<1> QED BY <1>6, <1>5, <1>7, <1>8

\* It has the other elements, in their order.
LEMMA RemoveAtProperties ==
  ASSUME NEW S, NEW s \in Seq(S), IsInjective(s), NEW i \in 1..Len(s),
         NEW r, r = RemoveAt(s, i)
  PROVE  /\ r \in Seq(S) /\ IsInjective(r) /\ Len(r) = Len(s) - 1
         /\ Range(r) = Range(s) \ {s[i]}
         /\ \A x, y : Before(r, x, y) <=> Before(s, x, y) /\ x # s[i] /\ y # s[i]
<1> DEFINE At(k) == IF k < i THEN k ELSE k + 1
<1>1. Len(s) \in Nat /\ DOMAIN s = 1..Len(s)
  BY LenProperties
<1>2. r \in Seq(S) /\ Len(r) = Len(s) - 1 /\ DOMAIN r = 1..(Len(s) - 1)
  BY RemoveAtElements, LenProperties
<1>3. ASSUME NEW k \in DOMAIN r
      PROVE  At(k) \in DOMAIN s /\ At(k) # i /\ r[k] = s[At(k)]
  <2>1. r[k] = IF k < i THEN s[k] ELSE s[k + 1]
    BY <1>2, RemoveAtElements
  <2> QED BY <1>1, <1>2, <2>1
<1>4. \A k, l \in DOMAIN r : k < l <=> At(k) < At(l)
  BY <1>1, <1>2
<1>5. ASSUME NEW j \in DOMAIN s, j # i PROVE \E k \in DOMAIN r : At(k) = j
  <2>1. CASE j < i
    BY <1>1, <1>2, <2>1
  <2>2. CASE ~(j < i)
    <3>1. j - 1 \in DOMAIN r /\ At(j - 1) = j
      BY <1>1, <1>2, <1>5, <2>2
    <3> QED BY <3>1
  <2> QED BY <2>1, <2>2
<1>6. \A j \in DOMAIN s : s[j] = s[i] => j = i
  BY <1>1 DEF IsInjective
<1>7. \A k \in DOMAIN r : r[k] # s[i]
  BY <1>3, <1>6
<1>8. IsInjective(r)
  <2> SUFFICES ASSUME NEW k \in DOMAIN r, NEW l \in DOMAIN r, r[k] = r[l] PROVE k = l
    BY DEF IsInjective
  <2>1. At(k) = At(l)
    BY <1>3 DEF IsInjective
  <2>2. k \in Int /\ l \in Int
    BY <1>1, <1>2
  <2> QED BY <1>1, <2>1, <2>2
<1>9. Range(r) = Range(s) \ {s[i]}
  <2>1. ASSUME NEW x \in Range(r) PROVE x \in Range(s) \ {s[i]}
    BY <1>3, <1>7 DEF Range
  <2>2. ASSUME NEW x \in Range(s) \ {s[i]} PROVE x \in Range(r)
    <3>1. PICK j \in DOMAIN s : x = s[j]
      BY DEF Range
    <3>2. PICK k \in DOMAIN r : At(k) = j
      BY <1>5, <3>1
    <3> QED BY <1>3, <3>1, <3>2 DEF Range
  <2> QED BY <2>1, <2>2
<1>10. ASSUME NEW x, NEW y, Before(r, x, y) PROVE Before(s, x, y) /\ x # s[i] /\ y # s[i]
  <2>1. PICK k \in DOMAIN r, l \in DOMAIN r : k < l /\ r[k] = x /\ r[l] = y
    BY <1>10 DEF Before
  <2>2. At(k) < At(l) /\ At(k) \in DOMAIN s /\ At(l) \in DOMAIN s /\ s[At(k)] = x /\ s[At(l)] = y
    BY <1>3, <1>4, <2>1
  <2> QED BY <1>7, <2>1, <2>2 DEF Before
<1>11. ASSUME NEW x, NEW y, Before(s, x, y), x # s[i], y # s[i] PROVE Before(r, x, y)
  <2>1. PICK g \in DOMAIN s, h \in DOMAIN s : g < h /\ s[g] = x /\ s[h] = y
    BY <1>11 DEF Before
  <2>2. PICK k \in DOMAIN r : At(k) = g
    BY <1>5, <1>11, <2>1
  <2>3. PICK l \in DOMAIN r : At(l) = h
    BY <1>5, <1>11, <2>1
  <2>4. k < l /\ r[k] = x /\ r[l] = y
    BY <1>3, <1>4, <2>1, <2>2, <2>3
  <2> QED BY <2>4 DEF Before
<1> QED BY <1>2, <1>8, <1>9, <1>10, <1>11

\* A node that is unlinked leaves the others in their order.
LEMMA RemoveFirstProperties ==
  ASSUME NEW S, NEW s \in Seq(S), IsInjective(s), NEW x, NEW r, r = RemoveFirst(s, x)
  PROVE  /\ r \in Seq(S) /\ IsInjective(r) /\ Len(r) <= Len(s) /\ Len(r) \in Nat
         /\ Range(r) = Range(s) \ {x}
         /\ \A a, b : Before(r, a, b) <=> Before(s, a, b) /\ a # x /\ b # x
<1>1. Len(s) \in Nat /\ DOMAIN s = 1..Len(s)
  BY LenProperties
<1>2. CASE \E i \in 1..Len(s) : s[i] = x
  <2> DEFINE I == {i \in 1..Len(s) : s[i] = x}
  <2>1. I # {} /\ I \in SUBSET Nat
    BY <1>1, <1>2
  <2>2. Min(I) \in I
    BY <2>1, MinNat
  <2>3. r = RemoveAt(s, Min(I))
    BY <1>2, <2>1 DEF RemoveFirst, SelectInSeq
  <2>4. s[Min(I)] = x /\ Min(I) \in 1..Len(s)
    BY <2>2
  <2> HIDE DEF I
  <2> QED BY <1>1, <2>3, <2>4, RemoveAtProperties
<1>3. CASE ~ \E i \in 1..Len(s) : s[i] = x
  <2>1. r = s /\ x \notin Range(s)
    BY <1>1, <1>3 DEF RemoveFirst, Range
  <2>2. \A a, b : Before(s, a, b) => a \in Range(s) /\ b \in Range(s)
    BY DEF Before, Range
  <2> QED BY <1>1, <2>1, <2>2
<1> QED BY <1>2, <1>3


\* e in place of the elements from a to b of a list; nothing goes if b = a - 1.
Spliced(s, a, b, e) == SubSeq(s, 1, a - 1) \o <<e>> \o SubSeq(s, b + 1, Len(s))

IsSpliced(r, s, a, b, e) ==
  /\ Len(r) = Len(s) - (b - a)
  /\ \A k \in 1..Len(r) :
       r[k] = IF k < a THEN s[k] ELSE IF k = a THEN e ELSE s[k + (b - a)]

LEMMA SplicedElements ==
  ASSUME NEW S, NEW s \in Seq(S), NEW e \in S,
         NEW a \in 1..(Len(s) + 1), NEW b \in (a - 1)..Len(s)
  PROVE  Spliced(s, a, b, e) \in Seq(S) /\ IsSpliced(Spliced(s, a, b, e), s, a, b, e)
<1> DEFINE u == SubSeq(s, 1, a - 1)  v == <<e>>  w == SubSeq(s, b + 1, Len(s))
<1>1. Len(s) \in Nat /\ \A k \in 1..Len(s) : s[k] \in S
  BY ElementOfSeq, LenProperties
<1>2. a \in Int /\ a - 1 \in Int /\ b \in Int /\ b + 1 \in Int /\ 1 \in Int /\ Len(s) \in Int
  BY <1>1
<1>3. /\ u \in Seq(S) /\ Len(u) = a - 1
      /\ \A k \in 1..(a - 1) : u[k] = s[k]
  <2>1. \A k \in 1..(a - 1) : s[k] \in S
    BY <1>1, <1>2
  <2>2. /\ u \in Seq(S) /\ Len(u) = IF 1 <= a - 1 THEN a - 1 - 1 + 1 ELSE 0
        /\ \A k \in 1..(a - 1 - 1 + 1) : u[k] = s[1 + k - 1]
    BY <1>2, <2>1, SubSeqProperties
  <2> QED BY <1>1, <1>2, <2>2
<1>4. /\ w \in Seq(S) /\ Len(w) = Len(s) - b
      /\ \A k \in 1..(Len(s) - b) : w[k] = s[b + k]
  <2>1. \A k \in (b + 1)..Len(s) : s[k] \in S
    BY <1>1, <1>2
  <2>2. /\ w \in Seq(S) /\ Len(w) = IF b + 1 <= Len(s) THEN Len(s) - (b + 1) + 1 ELSE 0
        /\ \A k \in 1..(Len(s) - (b + 1) + 1) : w[k] = s[b + 1 + k - 1]
    BY <1>2, <2>1, SubSeqProperties
  <2> QED BY <1>1, <1>2, <2>2
<1>5. v \in Seq(S) /\ Len(v) = 1 /\ v[1] = e
  OBVIOUS
<1>6. Spliced(s, a, b, e) = u \o v \o w
  BY DEF Spliced
<1> HIDE DEF u, v, w
<1>7. PICK x : x = u \o v
  OBVIOUS
<1>8. /\ x \in Seq(S) /\ Len(x) = Len(u) + Len(v)
      /\ \A k \in 1..(Len(u) + Len(v)) : x[k] = IF k <= Len(u) THEN u[k] ELSE v[k - Len(u)]
  BY <1>3, <1>5, <1>7, ConcatProperties
<1>9. Len(x) = a /\ (\A k \in 1..(a - 1) : x[k] = s[k]) /\ x[a] = e
  BY <1>1, <1>2, <1>3, <1>5, <1>8
<1>10. PICK z : z = x \o w
  OBVIOUS
<1>11. /\ z \in Seq(S) /\ Len(z) = Len(x) + Len(w)
       /\ \A k \in 1..(Len(x) + Len(w)) : z[k] = IF k <= Len(x) THEN x[k] ELSE w[k - Len(x)]
  <2>1. x \in Seq(S) /\ w \in Seq(S)
    BY <1>4, <1>8
  <2> QED BY <2>1, <1>10, ConcatProperties
<1>12. Len(z) = Len(s) - (b - a)
  BY <1>1, <1>2, <1>4, <1>9, <1>11
<1>13. ASSUME NEW k \in 1..(Len(s) - (b - a))
       PROVE  z[k] = IF k < a THEN s[k] ELSE IF k = a THEN e ELSE s[k + (b - a)]
  <2>1. CASE k < a
    BY <1>1, <1>2, <1>4, <1>9, <1>11, <2>1
  <2>2. CASE k = a
    BY <1>1, <1>2, <1>4, <1>9, <1>11, <2>2
  <2>3. CASE k > a
    <3>1. k - a \in 1..(Len(s) - b) /\ b + (k - a) = k + (b - a)
      BY <1>1, <1>2, <2>3
    <3>2. z[k] = w[k - a]
      BY <1>1, <1>2, <1>4, <1>9, <1>11, <2>3
    <3>3. w[k - a] = s[k + (b - a)]
      BY <1>4, <3>1
    <3> QED BY <1>2, <2>3, <3>2, <3>3
  <2> QED BY <1>2, <2>1, <2>2, <2>3
<1>14. Spliced(s, a, b, e) = z
  BY <1>6, <1>7, <1>10
<1> QED BY <1>11, <1>12, <1>13, <1>14 DEF IsSpliced

\* r is list s with e at place p.
IsPlaced(r, s, e, p) ==
  /\ p \in 1..(Len(s) + 1) /\ Len(r) = Len(s) + 1
  /\ \A k \in 1..Len(r) : r[k] = IF k < p THEN s[k] ELSE IF k = p THEN e ELSE s[k - 1]

\* r is list s with e before the first place in I, or at the end.
InsertsBefore(r, s, e, I) ==
  LET i == IF I # {} THEN Min(I) ELSE 0
  IN  r = IF i = 0 THEN Append(s, e) ELSE InsertAt(s, i, e)
IsInserted(r, s, e, I) ==
  \E p : IsPlaced(r, s, e, p) /\ (\A k \in I : p <= k) /\ (p <= Len(s) => p \in I)

\* What InsertBefore does with the places I that pass its test.
LEMMA Inserted ==
  ASSUME NEW S, NEW s \in Seq(S), NEW e \in S, NEW I \in SUBSET (1..Len(s)),
         NEW r, InsertsBefore(r, s, e, I)
  PROVE  r \in Seq(S) /\ IsInserted(r, s, e, I)
<1> DEFINE i == IF I # {} THEN Min(I) ELSE 0
<1>1. Len(s) \in Nat /\ r = IF i = 0 THEN Append(s, e) ELSE InsertAt(s, i, e)
  BY LenProperties DEF InsertsBefore
<1>2. CASE I = {}
  <2>1. r = Append(s, e)
    BY <1>1, <1>2
  <2>2. /\ r \in Seq(S) /\ Len(r) = Len(s) + 1
        /\ (\A k \in 1..Len(s) : r[k] = s[k]) /\ r[Len(s) + 1] = e
    BY <2>1, AppendProperties
  <2>3. IsPlaced(r, s, e, Len(s) + 1)
    BY <1>1, <2>2 DEF IsPlaced
  <2> QED BY <1>1, <1>2, <2>2, <2>3 DEF IsInserted
<1>3. CASE I # {}
  <2>1. I \in SUBSET Nat
    BY <1>1
  <2>2. i \in I /\ \A k \in I : i <= k
    BY <1>3, <2>1, MinNat
  <2> HIDE DEF i
  <2>3. i \in 1..Len(s) /\ i - 1 \in Int /\ i - 1 + 1 = i
    BY <1>1, <2>2
  <2>4. r = Spliced(s, i, i - 1, e)
    <3>1. r = InsertAt(s, i, e)
      BY <1>1, <2>3
    <3>2. PICK j : j = i - 1 + 1
      OBVIOUS
    <3>3. j = i
      BY <2>3, <3>2
    <3>4. Spliced(s, i, i - 1, e) = SubSeq(s, 1, i - 1) \o <<e>> \o SubSeq(s, j, Len(s))
      BY <3>2 DEF Spliced
    <3> QED BY <3>1, <3>3, <3>4 DEF InsertAt
  <2>5. i \in 1..(Len(s) + 1) /\ i - 1 \in (i - 1)..Len(s)
    BY <1>1, <2>3
  <2>6. r \in Seq(S) /\ IsSpliced(r, s, i, i - 1, e)
    BY <2>4, <2>5, SplicedElements
  <2>7. Len(s) - (i - 1 - i) = Len(s) + 1 /\ \A k \in Int : k + (i - 1 - i) = k - 1
    BY <1>1, <2>3
  <2>8. IsPlaced(r, s, e, i)
    <3>1. Len(r) = Len(s) + 1
      BY <2>6, <2>7 DEF IsSpliced
    <3>2. ASSUME NEW k \in 1..Len(r)
          PROVE  r[k] = IF k < i THEN s[k] ELSE IF k = i THEN e ELSE s[k - 1]
      <4>1. k \in Int
        BY <1>1, <3>1
      <4>2. PICK d : d = k + (i - 1 - i)
        OBVIOUS
      <4>3. d = k - 1
        BY <2>7, <4>1, <4>2
      <4>4. r[k] = IF k < i THEN s[k] ELSE IF k = i THEN e ELSE s[d]
        BY <2>6, <4>2 DEF IsSpliced
      <4> QED BY <4>3, <4>4
    <3> QED BY <2>5, <3>1, <3>2 DEF IsPlaced
  <2> QED BY <2>2, <2>6, <2>8 DEF IsInserted
<1> QED BY <1>2, <1>3

\* It adds e to the elements.
LEMMA PlacedRange ==
  ASSUME NEW S, NEW s \in Seq(S), NEW r \in Seq(S), NEW e, NEW p, IsPlaced(r, s, e, p)
  PROVE  /\ Range(r) = Range(s) \cup {e}
         /\ IsInjective(s) /\ e \notin Range(s) => IsInjective(r)
<1> DEFINE At(k) == IF k < p THEN k ELSE k - 1
<1>1. Len(s) \in Nat /\ DOMAIN s = 1..Len(s) /\ DOMAIN r = 1..(Len(s) + 1)
      /\ p \in 1..(Len(s) + 1)
  BY LenProperties DEF IsPlaced
<1>2. r[p] = e /\ p \in DOMAIN r
  BY <1>1 DEF IsPlaced
<1>3. ASSUME NEW k \in DOMAIN r, k # p
      PROVE  At(k) \in DOMAIN s /\ r[k] = s[At(k)]
  <2>1. k \in 1..Len(r) /\ k \in Int /\ p \in Int
    BY <1>1 DEF IsPlaced
  <2> QED BY <1>1, <1>3, <2>1 DEF IsPlaced
<1>4. ASSUME NEW j \in DOMAIN s
      PROVE  \E k \in DOMAIN r : k # p /\ At(k) = j
  <2>1. CASE j < p
    BY <1>1, <2>1
  <2>2. CASE ~(j < p)
    <3>1. j + 1 \in DOMAIN r /\ j + 1 # p /\ At(j + 1) = j
      BY <1>1, <2>2
    <3> QED BY <3>1
  <2> QED BY <2>1, <2>2
<1>5. \A k, l \in DOMAIN r : k # p /\ l # p /\ At(k) = At(l) => k = l
  BY <1>1
<1> HIDE DEF At
<1>6. Range(r) = Range(s) \cup {e}
  <2>1. ASSUME NEW x \in Range(r) PROVE x \in Range(s) \cup {e}
    BY <1>2, <1>3 DEF Range
  <2>2. ASSUME NEW x \in Range(s) PROVE x \in Range(r)
    <3>1. PICK j \in DOMAIN s : s[j] = x
      BY DEF Range
    <3>2. PICK k \in DOMAIN r : k # p /\ At(k) = j
      BY <1>4
    <3> QED BY <1>3, <3>1, <3>2 DEF Range
  <2>3. e \in Range(r)
    BY <1>2 DEF Range
  <2> QED BY <2>1, <2>2, <2>3
<1>7. ASSUME IsInjective(s), e \notin Range(s) PROVE IsInjective(r)
  <2>1. \A k \in DOMAIN r : k # p => r[k] # e
    BY <1>3, <1>7 DEF Range
  <2> SUFFICES ASSUME NEW k \in DOMAIN r, NEW l \in DOMAIN r, r[k] = r[l] PROVE k = l
    BY DEF IsInjective
  <2>2. CASE k # p /\ l # p
    BY <1>3, <1>5, <1>7, <2>2 DEF IsInjective
  <2> QED BY <1>2, <2>1, <2>2
<1> QED BY <1>6, <1>7

-----------------------------------------------------------------------------
(* The two orders of the free list. *)

BySize(l)    == \A i, j \in DOMAIN l : i < j => l[i].size <= l[j].size
ByAddress(l) == \A i, j \in DOMAIN l : i < j => End(l[i]) < l[j].address

SizeList(l, F)    == l \in Seq(Block) /\ Range(l) = F /\ IsInjective(l) /\ BySize(l)
AddressList(l, F) == l \in Seq(Block) /\ Range(l) = F /\ ByAddress(l)

LEMMA Blocks ==
  ASSUME NEW b \in Block
  PROVE  /\ b.address \in Nat /\ b.size \in Nat \ {0} /\ End(b) \in Nat
         /\ End(b) = b.address + b.size
         /\ b.address < End(b) /\ b.address < Size /\ b.size <= Size
BY AllocatorAssumption DEF Block, End

LEMMA SizeRemove ==
  ASSUME NEW l, NEW F, SizeList(l, F), NEW x, NEW r, r = RemoveFirst(l, x)
  PROVE  SizeList(r, F \ {x})
<1>1. l \in Seq(Block) /\ Range(l) = F /\ IsInjective(l) /\ BySize(l)
  BY DEF SizeList
<1>2. /\ r \in Seq(Block) /\ IsInjective(r) /\ Range(r) = Range(l) \ {x}
      /\ \A a, b : Before(r, a, b) <=> Before(l, a, b) /\ a # x /\ b # x
  BY <1>1, RemoveFirstProperties
<1>3. \A a, b : Before(l, a, b) => a.size <= b.size
  BY <1>1 DEF Before, BySize
<1>4. BySize(r)
  <2> SUFFICES ASSUME NEW i \in DOMAIN r, NEW j \in DOMAIN r, i < j
               PROVE  r[i].size <= r[j].size
    BY DEF BySize
  <2>1. Before(r, r[i], r[j])
    BY DEF Before
  <2> QED BY <1>2, <1>3, <2>1
<1> QED BY <1>1, <1>2, <1>4 DEF SizeList

LEMMA AddressInjective ==
  ASSUME NEW l, NEW F, AddressList(l, F)
  PROVE  IsInjective(l)
<1>1. l \in Seq(Block) /\ ByAddress(l) /\ DOMAIN l = 1..Len(l) /\ Len(l) \in Nat
  BY LenProperties DEF AddressList
<1> SUFFICES ASSUME NEW i \in DOMAIN l, NEW j \in DOMAIN l, l[i] = l[j] PROVE i = j
  BY DEF IsInjective
<1>2. l[i] \in Block
  BY <1>1, ElementOfSeq
<1>3. ~(End(l[i]) < l[i].address)
  BY <1>2, Blocks
<1>4. ~(i < j) /\ ~(j < i)
  BY <1>1, <1>3 DEF ByAddress
<1> QED BY <1>1, <1>4

LEMMA AddressRemove ==
  ASSUME NEW l, NEW F, AddressList(l, F), NEW x, NEW r, r = RemoveFirst(l, x)
  PROVE  AddressList(r, F \ {x})
<1>1. l \in Seq(Block) /\ Range(l) = F /\ IsInjective(l) /\ ByAddress(l)
  BY AddressInjective DEF AddressList
<1>2. /\ r \in Seq(Block) /\ IsInjective(r) /\ Range(r) = Range(l) \ {x}
      /\ \A a, b : Before(r, a, b) <=> Before(l, a, b) /\ a # x /\ b # x
  BY <1>1, RemoveFirstProperties
<1>3. \A a, b : Before(l, a, b) => End(a) < b.address
  BY <1>1 DEF Before, ByAddress
<1>4. ByAddress(r)
  <2> SUFFICES ASSUME NEW i \in DOMAIN r, NEW j \in DOMAIN r, i < j
               PROVE  End(r[i]) < r[j].address
    BY DEF ByAddress
  <2>1. Before(r, r[i], r[j])
    BY DEF Before
  <2> QED BY <1>2, <1>3, <2>1
<1> QED BY <1>1, <1>2, <1>4 DEF AddressList

\* freelist_internal_sort keeps the order.
LEMMA SizeInsert ==
  ASSUME NEW l, NEW F, SizeList(l, F), NEW e \in Block, e \notin F, NEW r, r = Sorted(l, e)
  PROVE  SizeList(r, F \cup {e})
<1>1. /\ l \in Seq(Block) /\ Range(l) = F /\ IsInjective(l) /\ BySize(l)
      /\ Len(l) \in Nat /\ DOMAIN l = 1..Len(l)
  BY LenProperties DEF SizeList
<1> DEFINE I == {k \in 1..Len(l) : l[k].size >= e.size}
<1>2. InsertsBefore(r, l, e, I)
  BY DEF Sorted, InsertBefore, SelectInSeq, InsertsBefore
<1>3. r \in Seq(Block) /\ IsInserted(r, l, e, I)
  <2>1. I \in SUBSET (1..Len(l))
    OBVIOUS
  <2> HIDE DEF I
  <2> QED BY <1>1, <1>2, <2>1, Inserted
<1>4. PICK p : IsPlaced(r, l, e, p) /\ (\A k \in I : p <= k) /\ (p <= Len(l) => p \in I)
  BY <1>3 DEF IsInserted
<1>5. Range(r) = F \cup {e} /\ IsInjective(r)
  BY <1>1, <1>3, <1>4, PlacedRange
<1>6. \A k \in 1..Len(l) : l[k].size \in Nat
  BY <1>1, ElementOfSeq, Blocks
<1>7. e.size \in Nat
  BY Blocks
<1>8. p \in 1..(Len(l) + 1) /\ DOMAIN r = 1..(Len(l) + 1) /\ Len(r) = Len(l) + 1
  BY <1>3, <1>4, LenProperties DEF IsPlaced
<1>9. \A k \in 1..Len(l) : k < p => l[k].size < e.size
  BY <1>1, <1>4, <1>6, <1>7, <1>8
<1>10. \A k \in 1..Len(l) : p <= k => l[k].size >= e.size
  <2> SUFFICES ASSUME NEW k \in 1..Len(l), p <= k PROVE l[k].size >= e.size
    OBVIOUS
  <2>1. p \in 1..Len(l) /\ l[p].size >= e.size
    BY <1>1, <1>4, <1>8
  <2>2. l[p].size <= l[k].size
    BY <1>1, <1>6, <2>1 DEF BySize
  <2> QED BY <1>6, <1>7, <2>1, <2>2
<1>11. BySize(r)
  <2> SUFFICES ASSUME NEW g \in DOMAIN r, NEW h \in DOMAIN r, g < h
               PROVE  r[g].size <= r[h].size
    BY DEF BySize
  <2>1. g \in 1..Len(r) /\ h \in 1..Len(r) /\ g \in Int /\ h \in Int /\ p \in Int
    BY <1>1, <1>8
  <2>2. /\ r[g] = IF g < p THEN l[g] ELSE IF g = p THEN e ELSE l[g - 1]
        /\ r[h] = IF h < p THEN l[h] ELSE IF h = p THEN e ELSE l[h - 1]
    BY <1>4, <2>1 DEF IsPlaced
  <2>3. CASE h < p
    BY <1>1, <1>8, <2>1, <2>2, <2>3 DEF BySize
  <2>4. CASE h = p
    <3>1. g \in 1..Len(l) /\ r[g] = l[g] /\ r[h] = e
      BY <1>1, <1>8, <2>1, <2>2, <2>4
    <3> QED BY <1>6, <1>7, <1>9, <2>4, <3>1
  <2>5. CASE h > p
    <3>1. h - 1 \in 1..Len(l) /\ p <= h - 1 /\ r[h] = l[h - 1]
      BY <1>1, <1>8, <2>1, <2>2, <2>5
    <3>2. CASE g < p
      <4>1. g \in 1..Len(l) /\ g < h - 1 /\ r[g] = l[g]
        BY <1>1, <1>8, <2>1, <2>2, <3>1, <3>2
      <4> QED BY <1>1, <3>1, <4>1 DEF BySize
    <3>3. CASE g = p
      BY <1>6, <1>7, <1>10, <2>1, <2>2, <3>1, <3>3
    <3>4. CASE g > p
      <4>1. g - 1 \in 1..Len(l) /\ g - 1 < h - 1 /\ r[g] = l[g - 1]
        BY <1>1, <1>8, <2>1, <2>2, <3>1, <3>4
      <4> QED BY <1>1, <3>1, <4>1 DEF BySize
    <3> QED BY <2>1, <3>2, <3>3, <3>4
  <2> QED BY <2>1, <2>3, <2>4, <2>5
<1> QED BY <1>3, <1>5, <1>11 DEF SizeList

\* What is left of a node takes its place in the order by address.
LEMMA AddressShrink ==
  ASSUME NEW l, NEW F, AddressList(l, F), NEW node \in F, NEW e \in Block,
         node.address <= e.address, End(e) <= End(node),
         NEW r, r = ReplaceAll(l, node, e)
  PROVE  AddressList(r, (F \ {node}) \cup {e})
<1>1. /\ l \in Seq(Block) /\ Range(l) = F /\ ByAddress(l) /\ DOMAIN l = 1..Len(l)
      /\ Len(l) \in Nat /\ IsInjective(l)
  BY LenProperties, AddressInjective DEF AddressList
<1>2. \A k \in 1..Len(l) : l[k] \in Block
  BY <1>1, ElementOfSeq
<1>3. r \in [1..Len(l) -> Block]
  BY <1>2 DEF ReplaceAll
<1>4. r \in Seq(Block) /\ DOMAIN r = 1..Len(l)
  BY <1>1, <1>3
<1>5. \A k \in 1..Len(l) : r[k] = IF l[k] = node THEN e ELSE l[k]
  BY DEF ReplaceAll
<1>6. Range(r) = (F \ {node}) \cup {e}
  <2>1. PICK k \in 1..Len(l) : l[k] = node
    BY <1>1 DEF Range
  <2>2. e \in Range(r)
    BY <1>4, <1>5, <2>1 DEF Range
  <2> QED BY <1>1, <1>4, <1>5, <2>2 DEF Range
<1>7. node \in Block
  BY <1>1, <1>2 DEF Range
<1>8. ByAddress(r)
  <2> SUFFICES ASSUME NEW i \in 1..Len(l), NEW j \in 1..Len(l), i < j
               PROVE  End(r[i]) < r[j].address
    BY <1>4 DEF ByAddress
  <2>1. End(l[i]) < l[j].address
    BY <1>1 DEF ByAddress
  <2>2. End(r[i]) <= End(l[i]) /\ End(r[i]) \in Nat
    BY <1>2, <1>5, Blocks
  <2>3. l[j].address <= r[j].address /\ r[j].address \in Nat
    BY <1>2, <1>5, Blocks
  <2>4. End(l[i]) \in Nat /\ l[j].address \in Nat
    BY <1>2, Blocks
  <2> QED BY <2>1, <2>2, <2>3, <2>4
<1> QED BY <1>4, <1>6, <1>8 DEF AddressList

-----------------------------------------------------------------------------
(* The invariant, in terms of the nodes and of the blocks in use. *)

Apart(a, b) == End(a) <= b.address \/ End(b) <= a.address

\* No cell has two owners.
Disjoint ==
  /\ \A n, m \in DOMAIN blocks : n # m => Apart(blocks[n], blocks[m])
  /\ \A n \in DOMAIN blocks, f \in Free : Apart(blocks[n], f)

\* Each cell has one.
Covered ==
  \A i \in 0..(Size - 1) :
    (\E n \in DOMAIN blocks : i \in Cells(blocks[n])) \/ (\E f \in Free : i \in Cells(f))

AllPaged ==
  /\ \A f \in Free : Paged(f)
  /\ \A n \in DOMAIN blocks : blocks[n] \in Block /\ Paged(blocks[n])

Inv ==
  /\ SizeList(bySize, Free) /\ AddressList(byAddress, Free)
  /\ AllPaged /\ Disjoint /\ Covered
  /\ DOMAIN blocks \subseteq Names /\ refused \in 0..Size

LEMMA FreeBlocks ==
  ASSUME Inv
  PROVE  \A f \in Free : f \in Block /\ Paged(f)
BY ElementOfSeq, LenProperties DEF Inv, AddressList, AllPaged, Range

\* Nodes that touch or overlap are one.
LEMMA FreeApart ==
  ASSUME Inv, NEW f \in Free, NEW g \in Free, f # g
  PROVE  End(f) < g.address \/ End(g) < f.address
<1>1. ByAddress(byAddress) /\ DOMAIN byAddress = 1..Len(byAddress) /\ Len(byAddress) \in Nat
  BY LenProperties DEF Inv, AddressList
<1>2. PICK i \in DOMAIN byAddress, j \in DOMAIN byAddress : f = byAddress[i] /\ g = byAddress[j]
  BY DEF Free, Range
<1>3. i < j \/ j < i
  BY <1>1, <1>2
<1> QED BY <1>1, <1>2, <1>3 DEF ByAddress

-----------------------------------------------------------------------------
(* The policies. *)

\* The places in a list of the nodes that fit.
FitPlaces(l, size) == {k \in 1..Len(l) : l[k].size >= size}

LEMMA FirstOfFits ==
  ASSUME NEW size
  PROVE  /\ Chosen("F", size) = IF FitPlaces(byAddress, size) = {} THEN {}
                                ELSE {byAddress[Min(FitPlaces(byAddress, size))]}
         /\ Chosen("B", size) = IF FitPlaces(bySize, size) = {} THEN {}
                                ELSE {bySize[Min(FitPlaces(bySize, size))]}
<1>1. ASSUME NEW l \in {byAddress, bySize}
      PROVE  FirstOf(l, LAMBDA node : node.size >= size)
               = IF FitPlaces(l, size) = {} THEN {} ELSE {l[Min(FitPlaces(l, size))]}
  <2>1. FitPlaces(l, size) # {} => Min(FitPlaces(l, size)) # 0
    <3>1. FitPlaces(l, size) \in SUBSET Nat /\ 0 \notin FitPlaces(l, size)
      BY DEF FitPlaces
    <3> QED BY <3>1, MinNat
  <2> QED BY <2>1 DEF FirstOf, SelectInSeq, FitPlaces
<1> QED BY <1>1 DEF Chosen

Fit(size) == {f \in Free : f.size >= size}

\* The least place of a list at which a node fits.
LEMMA LeastPlace ==
  ASSUME Inv, NEW l \in {byAddress, bySize}, NEW size
  PROVE  /\ l \in Seq(Block) /\ Range(l) = Free /\ DOMAIN l = 1..Len(l) /\ Len(l) \in Nat
         /\ FitPlaces(l, size) = {} <=> Fit(size) = {}
         /\ FitPlaces(l, size) # {} =>
              /\ Min(FitPlaces(l, size)) \in DOMAIN l
              /\ l[Min(FitPlaces(l, size))] \in Fit(size)
              /\ \A g \in Fit(size) : g # l[Min(FitPlaces(l, size))] =>
                   \E j \in DOMAIN l : l[j] = g /\ Min(FitPlaces(l, size)) < j
<1>1. l \in Seq(Block) /\ Range(l) = Free /\ DOMAIN l = 1..Len(l) /\ Len(l) \in Nat
  BY LenProperties DEF Inv, AddressList, SizeList
<1> DEFINE I == FitPlaces(l, size)
<1>2. I \in SUBSET Nat /\ \A k : k \in I <=> k \in 1..Len(l) /\ l[k].size >= size
  BY <1>1 DEF FitPlaces
<1>3. \A g \in Fit(size) : \E k \in I : l[k] = g
  BY <1>1, <1>2 DEF Fit, Range
<1>4. \A k \in I : l[k] \in Fit(size)
  BY <1>1, <1>2 DEF Fit, Range
<1> HIDE DEF I
<1>5. I = {} <=> Fit(size) = {}
  BY <1>3, <1>4
<1>6. ASSUME I # {}
      PROVE  /\ Min(I) \in DOMAIN l /\ l[Min(I)] \in Fit(size)
             /\ \A g \in Fit(size) : g # l[Min(I)] =>
                  \E j \in DOMAIN l : l[j] = g /\ Min(I) < j
  <2>1. Min(I) \in I /\ \A k \in I : Min(I) <= k
    BY <1>2, <1>6, MinNat
  <2>2. ASSUME NEW g \in Fit(size), g # l[Min(I)]
        PROVE  \E j \in DOMAIN l : l[j] = g /\ Min(I) < j
    <3>1. PICK j \in I : l[j] = g
      BY <1>3
    <3>2. j \in DOMAIN l /\ j # Min(I) /\ j \in Nat /\ Min(I) \in Nat
      BY <1>1, <1>2, <2>1, <2>2, <3>1
    <3> QED BY <2>1, <3>1, <3>2
  <2> QED BY <1>1, <1>2, <1>4, <2>1, <2>2
<1> QED BY <1>1, <1>5, <1>6 DEF I

\* What a policy is to choose.
Better(policy, f, g) ==
  CASE policy = "F" -> f.address <= g.address
    [] policy = "B" -> f.size <= g.size
    [] policy = "W" -> f.size >= g.size
Chooses(policy, size) ==
  IF Fit(size) = {} THEN Chosen(policy, size) = {}
  ELSE \E f \in Fit(size) : Chosen(policy, size) = {f} /\ \A g \in Fit(size) : Better(policy, f, g)

LEMMA FirstFit ==
  ASSUME Inv, NEW size
  PROVE  Chooses("F", size)
<1> DEFINE k == Min(FitPlaces(byAddress, size))
<1>1. CASE Fit(size) = {}
  BY <1>1, LeastPlace, FirstOfFits DEF Chooses
<1>2. CASE Fit(size) # {}
  <2>1. FitPlaces(byAddress, size) # {}
    BY <1>2, LeastPlace
  <2>2. /\ k \in DOMAIN byAddress /\ byAddress[k] \in Fit(size)
        /\ \A g \in Fit(size) : g # byAddress[k] =>
             \E j \in DOMAIN byAddress : byAddress[j] = g /\ k < j
    BY <2>1, LeastPlace
  <2>3. Chosen("F", size) = {byAddress[k]}
    BY <2>1, FirstOfFits
  <2> HIDE DEF k
  <2>4. ASSUME NEW g \in Fit(size)
        PROVE  byAddress[k].address <= g.address
    <3>1. g \in Block /\ byAddress[k] \in Block
      BY <2>2, FreeBlocks DEF Fit
    <3>2. CASE g = byAddress[k]
      BY <3>1, <3>2, Blocks
    <3>3. CASE g # byAddress[k]
      <4>1. End(byAddress[k]) < g.address
        BY <2>2, <3>3 DEF Inv, AddressList, ByAddress
      <4> QED BY <3>1, <4>1, Blocks
    <3> QED BY <3>2, <3>3
  <2> QED BY <1>2, <2>2, <2>3, <2>4 DEF Chooses, Better
<1> QED BY <1>1, <1>2

LEMMA BestFit ==
  ASSUME Inv, NEW size
  PROVE  Chooses("B", size)
<1> DEFINE k == Min(FitPlaces(bySize, size))
<1>1. CASE Fit(size) = {}
  BY <1>1, LeastPlace, FirstOfFits DEF Chooses
<1>2. CASE Fit(size) # {}
  <2>1. FitPlaces(bySize, size) # {}
    BY <1>2, LeastPlace
  <2>2. /\ k \in DOMAIN bySize /\ bySize[k] \in Fit(size)
        /\ \A g \in Fit(size) : g # bySize[k] =>
             \E j \in DOMAIN bySize : bySize[j] = g /\ k < j
    BY <2>1, LeastPlace
  <2>3. Chosen("B", size) = {bySize[k]}
    BY <2>1, FirstOfFits
  <2> HIDE DEF k
  <2>4. ASSUME NEW g \in Fit(size)
        PROVE  bySize[k].size <= g.size
    <3>1. g \in Block /\ bySize[k] \in Block
      BY <2>2, FreeBlocks DEF Fit
    <3>2. CASE g = bySize[k]
      BY <3>1, <3>2, Blocks
    <3>3. CASE g # bySize[k]
      BY <2>2, <3>3 DEF Inv, SizeList, BySize
    <3> QED BY <3>2, <3>3
  <2> QED BY <1>2, <2>2, <2>3, <2>4 DEF Chooses, Better
<1> QED BY <1>1, <1>2

LEMMA WorstFit ==
  ASSUME Inv, NEW size \in Nat
  PROVE  Chooses("W", size)
<1> DEFINE k == Len(bySize)
<1>1. bySize \in Seq(Block) /\ Range(bySize) = Free /\ DOMAIN bySize = 1..k /\ k \in Nat
  BY LenProperties DEF Inv, SizeList
<1>2. Chosen("W", size) = {bySize[i] : i \in {j \in 1..k : j = k /\ bySize[j].size >= size}}
  BY <1>1 DEF Chosen
<1>3. \A g \in Free : g.size \in Nat
  BY FreeBlocks, Blocks
<1>4. ASSUME NEW g \in Free
      PROVE  k \in 1..k /\ bySize[k] \in Free /\ g.size <= bySize[k].size
  <2>1. PICK j \in 1..k : bySize[j] = g
    BY <1>1 DEF Range
  <2>2. k \in 1..k
    BY <1>1, <2>1
  <2>3. bySize[k] \in Free
    BY <1>1, <2>2 DEF Range
  <2>4. CASE j = k
    BY <1>3, <2>1, <2>2, <2>3, <2>4
  <2>5. CASE j # k
    <3>1. j < k
      <4>1. k \in Nat /\ j \in 1..k
        BY <1>1
      <4> HIDE DEF k
      <4> QED BY <2>5, <4>1
    <3>2. bySize[j].size <= bySize[k].size
      BY <1>1, <2>2, <3>1 DEF Inv, SizeList, BySize
    <3> QED BY <2>1, <2>2, <2>3, <3>2
  <2> QED BY <2>4, <2>5
<1> HIDE DEF k
<1>5. CASE Fit(size) = {}
  <2>1. Chosen("W", size) = {}
    <3> SUFFICES ASSUME NEW j \in 1..k, j = k, bySize[j].size >= size PROVE FALSE
      BY <1>2
    <3>1. bySize[j] \in Free
      BY <1>1 DEF Range
    <3> QED BY <1>5, <3>1 DEF Fit
  <2> QED BY <1>5, <2>1 DEF Chooses
<1>6. CASE Fit(size) # {}
  <2>1. PICK f : f \in Free /\ f.size >= size
    BY <1>6 DEF Fit
  <2>2. k \in 1..k /\ bySize[k] \in Free /\ bySize[k].size >= size
    BY <1>3, <1>4, <2>1
  <2>3. Chosen("W", size) = {bySize[k]}
    BY <1>2, <2>2
  <2>4. ASSUME NEW g \in Fit(size)
        PROVE  bySize[k].size >= g.size
    BY <1>3, <1>4, <2>2 DEF Fit
  <2>5. bySize[k] \in Fit(size)
    BY <2>2 DEF Fit
  <2> QED BY <1>6, <2>3, <2>4, <2>5 DEF Chooses, Better
<1> QED BY <1>5, <1>6

-----------------------------------------------------------------------------
(* Pages. *)

LEMMA DivMod ==
  ASSUME NEW x \in Nat, NEW p \in Nat \ {0}
  PROVE  x = (x \div p) * p + (x % p) /\ x \div p \in Nat /\ x % p \in 0..(p - 1)
OBVIOUS

LEMMA MultipleOf ==
  ASSUME NEW k \in Nat, NEW p \in Nat \ {0}
  PROVE  k * p \in Nat /\ (k * p) % p = 0 /\ (k * p) \div p = k
OBVIOUS

LEMMA Multiple ==
  ASSUME NEW x \in Nat, NEW p \in Nat \ {0}, x % p = 0
  PROVE  \E k \in Nat : x = k * p
<1>1. PICK k \in Nat : x = k * p + (x % p)
  BY DivMod
<1>2. x = k * p
  BY <1>1
<1> QED BY <1>2

LEMMA MultipleSum ==
  ASSUME NEW x \in Nat, NEW y \in Nat, NEW p \in Nat \ {0}, x % p = 0, y % p = 0
  PROVE  (x + y) % p = 0 /\ (x <= y => (y - x) % p = 0)
<1>1. PICK k \in Nat : x = k * p
  BY Multiple
<1>2. PICK l \in Nat : y = l * p
  BY Multiple
<1>3. PICK n \in Nat : n = k + l
  OBVIOUS
<1>4. (x + y) % p = 0
  <2>1. x + y = n * p
    BY <1>1, <1>2, <1>3
  <2>2. (n * p) % p = 0
    BY MultipleOf
  <2> QED BY <2>1, <2>2
<1>5. ASSUME x <= y PROVE (y - x) % p = 0
  <2>1. k <= l
    BY <1>1, <1>2, <1>5
  <2>2. y - x = (l - k) * p /\ l - k \in Nat
    BY <1>1, <1>2, <2>1
  <2> QED BY <2>2, MultipleOf
<1> QED BY <1>4, <1>5

LEMMA Rounded ==
  ASSUME NEW size \in 1..Size
  PROVE  /\ Roundup(size) \in 1..Size /\ Roundup(size) % Page = 0
         /\ size <= Roundup(size)
<1>1. Page \in Nat \ {0} /\ Size \in Nat /\ Size % Page = 0 /\ size \in Nat \ {0}
  BY AllocatorAssumption
<1>2. PICK x \in Nat : x = size + Page - 1
  BY <1>1
<1>3. PICK q \in Nat : q = x \div Page /\ x = q * Page + (x % Page) /\ x % Page \in 0..(Page - 1)
  BY <1>1, DivMod
<1>4. Roundup(size) = q * Page
  BY <1>2, <1>3 DEF Roundup
<1>5. PICK k \in Nat : Size = k * Page
  BY <1>1, DivMod
<1>6. PICK r \in Nat : r = q * Page
  BY <1>1, MultipleOf
<1>7. x < r + Page /\ r <= x
  BY <1>1, <1>3, <1>6
<1>8. size <= r
  BY <1>1, <1>2, <1>6, <1>7
<1>9. q <= k
  <2>1. r < k * Page + Page
    BY <1>1, <1>2, <1>5, <1>7
  <2>2. q * Page < (k + 1) * Page
    BY <1>1, <1>6, <2>1
  <2> QED BY <1>1, <2>2
<1>10. r <= Size
  BY <1>1, <1>5, <1>6, <1>9
<1>11. r % Page = 0
  BY <1>1, <1>6, MultipleOf
<1> QED BY <1>1, <1>4, <1>6, <1>8, <1>10, <1>11

-----------------------------------------------------------------------------

LEMMA InitInv == Init => Inv
<1> SUFFICES ASSUME Init PROVE Inv
  OBVIOUS
<1> DEFINE m == [address |-> 0, size |-> Size]
<1>1. byAddress = <<m>> /\ bySize = <<m>> /\ DOMAIN blocks = {} /\ refused = 0
  BY DEF Init
<1>2. Size \in Nat \ {0} /\ Size % Page = 0 /\ Page \in Nat \ {0} /\ 0 % Page = 0
  BY AllocatorAssumption, MultipleOf
<1>3. m \in Block /\ Paged(m) /\ \A i \in 0..(Size - 1) : i \in Cells(m)
  BY <1>2 DEF Block, Paged, End, Cells
<1> HIDE DEF m
<1>4. <<m>> \in Seq(Block) /\ Range(<<m>>) = {m} /\ IsInjective(<<m>>)
  BY <1>3 DEF Range, IsInjective
<1>5. BySize(<<m>>) /\ ByAddress(<<m>>)
  BY DEF BySize, ByAddress
<1>6. Free = {m}
  BY <1>1, <1>4 DEF Free
<1>7. SizeList(bySize, Free) /\ AddressList(byAddress, Free)
  BY <1>1, <1>4, <1>5, <1>6 DEF SizeList, AddressList
<1> QED BY <1>1, <1>2, <1>3, <1>6, <1>7 DEF Inv, AllPaged, Disjoint, Covered

LEMMA Part ==
  ASSUME NEW x \in Block, NEW y \in Block, NEW z \in Block, Apart(x, y),
         y.address <= z.address, End(z) <= End(y)
  PROVE  Apart(x, z)
BY Blocks DEF Apart

\* What Request leaves of a node.
LEMMA SplitNode ==
  ASSUME Inv, NEW node \in Free, NEW size \in 1..Size, size % Page = 0, size <= node.size,
         NEW b, b = [address |-> node.address, size |-> size],
         NEW e, e = Rest(node, size)
  PROVE  /\ b \in Block /\ Paged(b) /\ b.address = node.address /\ End(b) <= End(node)
         /\ node.size = size => End(b) = End(node)
         /\ node.size > size => /\ e \in Block /\ Paged(e) /\ e.address = End(b)
                                /\ End(e) = End(node) /\ node.address < e.address
<1>1. /\ node \in Block /\ Paged(node)
      /\ node.address \in Nat /\ node.size \in Nat \ {0} /\ End(node) = node.address + node.size
      /\ node.address < Size
  BY FreeBlocks, Blocks
<1>2. size \in Nat \ {0} /\ Size \in Nat /\ Page \in Nat \ {0}
  BY AllocatorAssumption
<1>3. b.address = node.address /\ b.size = size /\ End(b) = node.address + size
  BY DEF End
<1>4. b \in Block
  BY <1>1, <1>2 DEF Block
<1>5. node.address % Page = 0 /\ node.size % Page = 0 /\ End(node) <= Size
  BY <1>1 DEF Paged
<1>6. Paged(b)
  BY <1>1, <1>2, <1>3, <1>5 DEF Paged
<1>7. ASSUME node.size > size
      PROVE  /\ e \in Block /\ Paged(e) /\ e.address = End(b) /\ End(e) = End(node)
             /\ node.address < e.address
  <2>1. e.address = node.address + size /\ e.size = node.size - size
    BY DEF Rest
  <2>2. e.address \in 0..(Size - 1) /\ e.size \in 1..Size /\ End(e) = End(node)
    <3>1. e.address < Size
      BY <1>1, <1>2, <1>5, <1>7, <2>1
    <3>2. e.size <= Size
      BY <1>1, <1>2, <1>5, <1>7, <2>1
    <3> QED BY <1>1, <1>2, <1>7, <2>1, <3>1, <3>2 DEF End
  <2>3. e \in Block
    <3>1. e = [address |-> e.address, size |-> e.size]
      BY DEF Rest
    <3> QED BY <2>2, <3>1 DEF Block
  <2>4. e.address % Page = 0 /\ e.size % Page = 0
    BY <1>1, <1>2, <1>5, <1>7, <2>1, MultipleSum
  <2>5. Paged(e)
    BY <1>5, <2>2, <2>4 DEF Paged
  <2> QED BY <1>1, <1>2, <1>3, <2>1, <2>2, <2>3, <2>5
<1> QED BY <1>1, <1>2, <1>3, <1>4, <1>6, <1>7

\* A policy that is given a page multiple chooses what its name says.
LEMMA PolicyChooses ==
  ASSUME Inv, NEW policy \in {"F", "B", "W"}, NEW size \in Nat
  PROVE  Chooses(policy, size)
BY FirstFit, BestFit, WorstFit

\* The lists after freelist_alloc: e is what is left of the node, if anything is.
AllocDone(node, size, e) ==
  /\ Free' = (Free \ {node}) \cup (IF node.size > size THEN {e} ELSE {})
  /\ SizeList(bySize', Free') /\ AddressList(byAddress', Free')

LEMMA AllocLists ==
  ASSUME Inv, NEW node \in Free, NEW size \in 1..Size, size % Page = 0, size <= node.size,
         freelist_alloc(node, size)
  PROVE  AllocDone(node, size, Rest(node, size))
<1>1. SizeList(bySize, Free) /\ AddressList(byAddress, Free)
  BY DEF Inv
<1> DEFINE e == Rest(node, size)
<1>2. CASE node.size > size
  <2>1. /\ byAddress' = ReplaceAll(byAddress, node, e)
        /\ bySize' = Sorted(RemoveFirst(bySize, node), e)
    BY <1>2 DEF freelist_alloc
  <2>2. e \in Block /\ End(e) = End(node) /\ node.address < e.address
    <3>1. PICK b : b = [address |-> node.address, size |-> size]
      OBVIOUS
    <3> QED BY <1>2, <3>1, SplitNode
  <2> HIDE DEF e
  <2>3. node \in Block /\ End(e) \in Nat /\ node.address \in Nat /\ e.address \in Nat
    BY <2>2, FreeBlocks, Blocks
  <2>4. AddressList(byAddress', (Free \ {node}) \cup {e})
    BY <1>1, <2>1, <2>2, <2>3, AddressShrink
  <2>5. e \notin Free \ {node}
    <3> SUFFICES ASSUME e \in Free, e # node PROVE FALSE
      OBVIOUS
    <3>1. End(e) < node.address \/ End(node) < e.address
      BY FreeApart
    <3> QED BY <2>2, <2>3, <3>1, Blocks
  <2>6. SizeList(RemoveFirst(bySize, node), Free \ {node})
    BY <1>1, SizeRemove
  <2>7. SizeList(bySize', (Free \ {node}) \cup {e})
    BY <2>1, <2>2, <2>5, <2>6, SizeInsert
  <2>8. Free' = (Free \ {node}) \cup {e}
    BY <2>4 DEF AddressList, Free
  <2> QED BY <1>2, <2>4, <2>7, <2>8 DEF AllocDone, e
<1>3. CASE ~(node.size > size)
  <2>1. byAddress' = RemoveFirst(byAddress, node) /\ bySize' = RemoveFirst(bySize, node)
    BY <1>3 DEF freelist_alloc
  <2>2. AddressList(byAddress', Free \ {node}) /\ SizeList(bySize', Free \ {node})
    BY <1>1, <2>1, SizeRemove, AddressRemove
  <2>3. Free' = Free \ {node}
    BY <2>2 DEF AddressList, Free
  <2> QED BY <1>3, <2>2, <2>3 DEF AllocDone
<1> QED BY <1>2, <1>3

\* blocks after alloclist_alloc
Added(name, b) ==
  /\ DOMAIN blocks' = DOMAIN blocks \cup {name}
  /\ blocks'[name] = b /\ \A m \in DOMAIN blocks : m # name => blocks'[m] = blocks[m]

\* A block that is cut from a node.
LEMMA GrantKeeps ==
  ASSUME Inv, NEW node \in Free, NEW size \in 1..Size, size % Page = 0, size <= node.size,
         NEW name \in Names, name \notin DOMAIN blocks, refused' \in 0..Size,
         freelist_alloc(node, size),
         Added(name, [address |-> node.address, size |-> size])
  PROVE  Inv'
<1> DEFINE b == [address |-> node.address, size |-> size]
           e == Rest(node, size)
<1>1. /\ b \in Block /\ Paged(b) /\ b.address = node.address /\ End(b) <= End(node)
      /\ node.size = size => End(b) = End(node)
      /\ node.size > size => /\ e \in Block /\ Paged(e) /\ e.address = End(b)
                             /\ End(e) = End(node) /\ node.address < e.address
  BY SplitNode
<1>2. /\ Free' = (Free \ {node}) \cup (IF node.size > size THEN {e} ELSE {})
      /\ SizeList(bySize', Free') /\ AddressList(byAddress', Free')
  BY AllocLists DEF AllocDone
<1>3. /\ DOMAIN blocks' = DOMAIN blocks \cup {name} /\ blocks'[name] = b
      /\ \A m \in DOMAIN blocks : m # name /\ blocks'[m] = blocks[m]
  BY DEF Added
<1> HIDE DEF b, e
<1>4. /\ node \in Block /\ \A f \in Free : f \in Block /\ Paged(f)
      /\ \A m \in DOMAIN blocks : blocks[m] \in Block /\ Paged(blocks[m])
  BY FreeBlocks DEF Inv, AllPaged
<1>5. node.size > size \/ node.size = size
  BY <1>4, Blocks
<1>6. AllPaged'
  BY <1>1, <1>2, <1>3, <1>4 DEF AllPaged, Paged
<1>7. ASSUME NEW x \in Block, Apart(x, node)
      PROVE  Apart(x, b) /\ (node.size > size => Apart(x, e))
  <2>1. Apart(x, b)
    BY <1>1, <1>4, <1>7, Part, Blocks
  <2>2. ASSUME node.size > size PROVE Apart(x, e)
    BY <1>1, <1>4, <1>7, <2>2, Part, Blocks
  <2> QED BY <2>1, <2>2
<1>8. \A m \in DOMAIN blocks : Apart(blocks[m], node) /\ Apart(node, blocks[m])
  BY DEF Inv, Disjoint, Apart
<1>9. \A f \in Free \ {node} : Apart(f, node)
  BY FreeApart, <1>4, Blocks DEF Apart
<1>10. Disjoint'
  <2>1. ASSUME NEW n \in DOMAIN blocks', NEW m \in DOMAIN blocks', n # m
        PROVE  Apart(blocks'[n], blocks'[m])
    <3>1. \A x, y : Apart(x, y) => Apart(y, x)
      BY DEF Apart
    <3>2. CASE n = name
      BY <1>3, <1>4, <1>7, <1>8, <2>1, <3>1, <3>2
    <3>3. CASE m = name
      BY <1>3, <1>4, <1>7, <1>8, <2>1, <3>1, <3>3
    <3>4. CASE n # name /\ m # name
      BY <1>3, <2>1, <3>4 DEF Inv, Disjoint
    <3> QED BY <3>2, <3>3, <3>4
  <2>2. ASSUME NEW n \in DOMAIN blocks', NEW f \in Free'
        PROVE  Apart(blocks'[n], f)
    <3>1. CASE n = name /\ f \in Free \ {node}
      <4>1. Apart(f, b)
        BY <1>4, <1>7, <1>9, <3>1
      <4> QED BY <1>3, <3>1, <4>1 DEF Apart
    <3>2. CASE n = name /\ f \notin Free \ {node}
      <4>1. f = e /\ e.address = End(b) /\ e.address \in Nat
        BY <1>1, <1>2, <3>2, Blocks
      <4> QED BY <1>3, <3>2, <4>1 DEF Apart
    <3>3. CASE n # name /\ f \in Free \ {node}
      BY <1>3, <3>3 DEF Inv, Disjoint
    <3>4. CASE n # name /\ f \notin Free \ {node}
      <4>1. f = e /\ node.size > size /\ n \in DOMAIN blocks /\ blocks'[n] = blocks[n]
        BY <1>2, <1>3, <3>4
      <4> QED BY <1>4, <1>7, <1>8, <4>1
    <3> QED BY <3>1, <3>2, <3>3, <3>4
  <2> QED BY <2>1, <2>2 DEF Disjoint, Apart, End
<1>11. Covered'
  <2> SUFFICES ASSUME NEW i \in 0..(Size - 1)
               PROVE  \/ \E n \in DOMAIN blocks' : i \in Cells(blocks'[n])
                      \/ \E f \in Free' : i \in Cells(f)
    BY DEF Covered, Cells, End
  <2>1. CASE \E n \in DOMAIN blocks : i \in Cells(blocks[n])
    BY <1>3, <2>1
  <2>2. CASE \E f \in Free \ {node} : i \in Cells(f)
    BY <1>2, <2>2
  <2>3. CASE i \in Cells(node)
    <3>1. i \in Cells(b) \/ (node.size > size /\ i \in Cells(e))
      <4>1. i \in Int /\ node.address <= i /\ i <= End(node) - 1
        BY <2>3 DEF Cells
      <4>2. CASE node.size = size
        BY <1>1, <4>1, <4>2 DEF Cells
      <4>3. CASE node.size > size
        <5>1. End(b) \in Nat /\ node.address \in Nat /\ End(node) \in Nat
          BY <1>1, <1>4, Blocks
        <5> QED BY <1>1, <4>1, <4>3, <5>1 DEF Cells
      <4> QED BY <1>5, <4>2, <4>3
    <3> QED BY <1>2, <1>3, <3>1
  <2> QED BY <2>1, <2>2, <2>3 DEF Inv, Covered
<1>12. DOMAIN blocks' \subseteq Names
  BY <1>3 DEF Inv
<1> QED BY <1>2, <1>6, <1>10, <1>11, <1>12 DEF Inv, SizeList, AddressList, BySize, ByAddress, Block, End

LEMMA RequestKeeps ==
  ASSUME Inv, NEW name \in Names, NEW size \in 1..Size, NEW policy \in {"F", "B", "W"},
         Request(name, size, policy)
  PROVE  Inv'
<1> DEFINE rounded == Roundup(size)
           chosen == Chosen(policy, rounded)
<1>1. rounded \in 1..Size /\ rounded % Page = 0 /\ rounded \in 0..Size /\ rounded \in Nat
  BY Rounded, AllocatorAssumption
<1>2. CASE refused' = rounded /\ UNCHANGED <<byAddress, bySize, blocks>>
  <2>1. byAddress' = byAddress /\ bySize' = bySize /\ blocks' = blocks
    BY <1>2
  <2>2. SizeList(bySize', Free') /\ AddressList(byAddress', Free')
    BY <2>1 DEF Inv, Free
  <2>3. AllPaged' /\ Disjoint' /\ Covered'
    BY <2>1 DEF Inv, Free, AllPaged, Disjoint, Covered
  <2> HIDE DEF rounded
  <2> QED BY <1>1, <1>2, <2>1, <2>2, <2>3 DEF Inv
<1>3. ASSUME NEW node \in chosen, freelist_alloc(node, rounded), refused' = 0,
             blocks' = [n \in DOMAIN blocks \cup {name} |->
                          IF n = name THEN [address |-> node.address, size |-> rounded]
                          ELSE blocks[n]]
      PROVE  Inv'
  <2>1. Chooses(policy, rounded)
    BY <1>1, PolicyChooses
  <2>2. node \in Free /\ node.size >= rounded
    BY <2>1 DEF Chooses, Fit
  <2>3. name \notin DOMAIN blocks
    BY DEF Request
  <2> HIDE DEF rounded
  <2>4. Added(name, [address |-> node.address, size |-> rounded])
    BY <1>3, <2>3 DEF Added
  <2>5. refused' \in 0..Size /\ rounded <= node.size
    <3>1. 0 \in 0..Size
      BY AllocatorAssumption
    <3>2. node.size \in Nat
      BY <2>2, FreeBlocks, Blocks
    <3> QED BY <1>1, <1>3, <2>2, <3>1, <3>2
  <2> QED BY <1>1, <1>3, <2>2, <2>3, <2>4, <2>5, GrantKeeps
<1> QED BY <1>2, <1>3 DEF Request

-----------------------------------------------------------------------------
(* Release.  The freed block is put between its neighbours, of which it can *)
(* touch one on each side; no others touch.                                *)

\* l is in the order of addresses, and only the node at place p may touch others.
IsChain(l, p) ==
  /\ l \in Seq(Block) /\ p \in 1..Len(l)
  /\ \A i, j \in 1..Len(l) : i < j => End(l[i]) <= l[j].address
  /\ \A k \in 1..(Len(l) - 1) : k # p /\ k + 1 # p => ~ Touching(l, k)

InsertAddress(l, b) == InsertBefore(l, b, LAMBDA m : m.address >= b.address)

\* What freelist_internal_insert makes of a list.
InsertedAt(r, l, b, p) ==
  IsChain(r, p) /\ r[p] = b /\ Range(r) = Range(l) \cup {b} /\ IsInjective(r)

LEMMA ChainInjective ==
  ASSUME NEW l, NEW p, IsChain(l, p)
  PROVE  IsInjective(l)
<1>1. l \in Seq(Block) /\ DOMAIN l = 1..Len(l) /\ Len(l) \in Nat
  BY LenProperties DEF IsChain
<1> SUFFICES ASSUME NEW i \in DOMAIN l, NEW j \in DOMAIN l, l[i] = l[j] PROVE i = j
  BY DEF IsInjective
<1>2. l[i] \in Block
  BY <1>1, ElementOfSeq
<1>3. ~(End(l[i]) <= l[i].address)
  BY <1>2, Blocks
<1>4. ~(i < j) /\ ~(j < i)
  BY <1>1, <1>3 DEF IsChain
<1> QED BY <1>1, <1>4

LEMMA AddressInsert ==
  ASSUME NEW l, NEW F, AddressList(l, F), NEW b \in Block, \A f \in F : Apart(b, f),
         NEW r, r = InsertAddress(l, b)
  PROVE  \E p \in 1..Len(r) : InsertedAt(r, l, b, p)
<1>1. /\ l \in Seq(Block) /\ Range(l) = F /\ ByAddress(l) /\ DOMAIN l = 1..Len(l)
      /\ Len(l) \in Nat
  BY LenProperties DEF AddressList
<1>2. \A k \in 1..Len(l) :
        /\ l[k] \in Block /\ Apart(b, l[k])
        /\ l[k].address \in Nat /\ End(l[k]) \in Nat /\ l[k].address < End(l[k])
  BY <1>1, ElementOfSeq, Blocks DEF Range
<1>3. b.address \in Nat /\ End(b) \in Nat /\ b.address < End(b)
  BY Blocks
<1> DEFINE I == {k \in 1..Len(l) : l[k].address >= b.address}
<1>4. InsertsBefore(r, l, b, I)
  BY DEF InsertAddress, InsertBefore, SelectInSeq, InsertsBefore
<1>5. r \in Seq(Block) /\ IsInserted(r, l, b, I)
  <2>1. I \in SUBSET (1..Len(l))
    OBVIOUS
  <2> HIDE DEF I
  <2> QED BY <1>1, <1>4, <2>1, Inserted
<1>6. PICK p : IsPlaced(r, l, b, p) /\ (\A k \in I : p <= k) /\ (p <= Len(l) => p \in I)
  BY <1>5 DEF IsInserted
<1>7. Range(r) = F \cup {b}
  BY <1>1, <1>5, <1>6, PlacedRange
<1>8. p \in 1..(Len(l) + 1) /\ Len(r) = Len(l) + 1 /\ p \in 1..Len(r)
  BY <1>1, <1>6 DEF IsPlaced
<1>9. \A k \in 1..Len(l) : k < p => End(l[k]) <= b.address
  <2> SUFFICES ASSUME NEW k \in 1..Len(l), k < p PROVE End(l[k]) <= b.address
    OBVIOUS
  <2>1. l[k].address < b.address
    BY <1>1, <1>2, <1>3, <1>6, <1>8
  <2> QED BY <1>2, <1>3, <2>1 DEF Apart
<1>10. \A k \in 1..Len(l) : p <= k => End(b) <= l[k].address
  <2> SUFFICES ASSUME NEW k \in 1..Len(l), p <= k PROVE End(b) <= l[k].address
    OBVIOUS
  <2>1. p \in 1..Len(l) /\ l[p].address >= b.address
    BY <1>1, <1>6, <1>8
  <2>2. End(b) <= l[p].address
    BY <1>2, <1>3, <2>1 DEF Apart
  <2>3. CASE p = k
    BY <2>2, <2>3
  <2>4. CASE p < k
    <3>1. End(l[p]) < l[k].address
      BY <1>1, <2>1, <2>4 DEF ByAddress
    <3> QED BY <1>2, <1>3, <2>1, <2>2, <3>1
  <2> QED BY <1>1, <1>8, <2>3, <2>4
<1>11. \A k \in 1..Len(r) : r[k] = IF k < p THEN l[k] ELSE IF k = p THEN b ELSE l[k - 1]
  BY <1>6 DEF IsPlaced
<1>12. ASSUME NEW i \in 1..Len(r), NEW j \in 1..Len(r), i < j
       PROVE  /\ End(r[i]) <= r[j].address
              /\ i # p /\ j # p => End(r[i]) < r[j].address
  <2>1. i \in Int /\ j \in Int /\ p \in Int
    BY <1>1, <1>8
  <2>2. CASE j < p
    <3>1. i \in 1..Len(l) /\ j \in 1..Len(l) /\ r[i] = l[i] /\ r[j] = l[j]
      BY <1>1, <1>8, <1>11, <1>12, <2>1, <2>2
    <3>2. End(l[i]) < l[j].address
      BY <1>1, <1>12, <3>1 DEF ByAddress
    <3> QED BY <1>2, <3>1, <3>2
  <2>3. CASE j = p
    <3>1. i \in 1..Len(l) /\ i < p /\ r[i] = l[i] /\ r[j] = b
      BY <1>1, <1>8, <1>11, <1>12, <2>1, <2>3
    <3> QED BY <1>9, <2>3, <3>1
  <2>4. CASE j > p
    <3>1. j - 1 \in 1..Len(l) /\ p <= j - 1 /\ r[j] = l[j - 1]
      BY <1>1, <1>8, <1>11, <2>1, <2>4
    <3>2. CASE i < p
      <4>1. i \in 1..Len(l) /\ i < j - 1 /\ r[i] = l[i]
        BY <1>1, <1>8, <1>11, <2>1, <2>4, <3>2
      <4>2. End(l[i]) < l[j - 1].address
        BY <1>1, <3>1, <4>1 DEF ByAddress
      <4> QED BY <1>2, <3>1, <4>1, <4>2
    <3>3. CASE i = p
      <4>1. r[i] = b
        BY <1>11, <3>3
      <4> QED BY <1>10, <3>1, <3>3, <4>1
    <3>4. CASE i > p
      <4>1. i - 1 \in 1..Len(l) /\ i - 1 < j - 1 /\ r[i] = l[i - 1]
        BY <1>1, <1>8, <1>11, <1>12, <2>1, <3>4
      <4>2. End(l[i - 1]) < l[j - 1].address
        BY <1>1, <3>1, <4>1 DEF ByAddress
      <4> QED BY <1>2, <3>1, <4>1, <4>2
    <3> QED BY <2>1, <3>2, <3>3, <3>4
  <2> QED BY <2>1, <2>2, <2>3, <2>4
<1>13. \A k \in 1..(Len(r) - 1) : k # p /\ k + 1 # p => ~ Touching(r, k)
  <2> SUFFICES ASSUME NEW k \in 1..(Len(r) - 1), k # p, k + 1 # p PROVE ~ Touching(r, k)
    OBVIOUS
  <2>1. k \in 1..Len(r) /\ k + 1 \in 1..Len(r) /\ k < k + 1
    BY <1>1, <1>8
  <2>2. End(r[k]) < r[k + 1].address
    BY <1>12, <2>1
  <2>3. r[k] \in Block /\ r[k + 1] \in Block
    BY <1>5, <2>1, ElementOfSeq
  <2> QED BY <2>2, <2>3, Blocks DEF Touching
<1>14. IsChain(r, p)
  BY <1>5, <1>8, <1>12, <1>13 DEF IsChain
<1>15. r[p] = b
  BY <1>8, <1>11
<1> QED BY <1>1, <1>7, <1>8, <1>14, <1>15, ChainInjective DEF InsertedAt

\* The first and the last node that are merged with the one at p.
Merges(l, p, from, to) ==
  /\ from \in 1..p /\ p - 1 <= from /\ (from = p - 1 => Touching(l, p - 1))
  /\ from > 1 => ~ Touching(l, from - 1)
  /\ to \in p..Len(l) /\ to <= p + 1 /\ (to = p + 1 => Touching(l, p))
  /\ to < Len(l) => ~ Touching(l, to)

LEMMA MergedPlaces ==
  ASSUME NEW l, NEW p, IsChain(l, p)
  PROVE  Merges(l, p, MergedFrom(l, p), MergedTo(l, p))
<1>1. /\ Len(l) \in Nat /\ p \in 1..Len(l)
      /\ \A k \in 1..(Len(l) - 1) : k # p /\ k + 1 # p => ~ Touching(l, k)
  BY LenProperties DEF IsChain
<1> DEFINE From(k) == /\ \A j \in k..(p - 1) : Touching(l, j)
                      /\ k > 1 => ~ Touching(l, k - 1)
           To(k) == /\ \A j \in p..(k - 1) : Touching(l, j)
                    /\ k < Len(l) => ~ Touching(l, k)
           from == MergedFrom(l, p)
           to == MergedTo(l, p)
<1>2. \E k \in 1..p : From(k)
  <2>1. CASE p > 1 /\ Touching(l, p - 1)
    <3>1. PICK k \in 1..p : k = p - 1
      BY <1>1, <2>1
    <3>2. \A j \in k..(p - 1) : j = p - 1
      BY <1>1, <3>1
    <3>3. k > 1 => ~ Touching(l, k - 1)
      <4> SUFFICES ASSUME k > 1 PROVE ~ Touching(l, k - 1)
        OBVIOUS
      <4>1. k - 1 \in 1..(Len(l) - 1) /\ k - 1 # p /\ k - 1 + 1 # p
        BY <1>1, <3>1
      <4> QED BY <1>1, <4>1
    <3>4. From(k)
      BY <2>1, <3>2, <3>3
    <3> HIDE DEF From
    <3> QED BY <3>4
  <2>2. CASE ~(p > 1 /\ Touching(l, p - 1))
    <3>1. p \in 1..p /\ \A j \in p..(p - 1) : FALSE
      BY <1>1
    <3>2. From(p)
      BY <2>2, <3>1
    <3> HIDE DEF From
    <3> QED BY <3>1, <3>2
  <2> QED BY <2>1, <2>2
<1>3. \E k \in p..Len(l) : To(k)
  <2>1. CASE p < Len(l) /\ Touching(l, p)
    <3>1. PICK k \in p..Len(l) : k = p + 1
      BY <1>1, <2>1
    <3>2. \A j \in p..(k - 1) : j = p
      BY <1>1, <3>1
    <3>3. k < Len(l) => ~ Touching(l, k)
      <4> SUFFICES ASSUME k < Len(l) PROVE ~ Touching(l, k)
        OBVIOUS
      <4>1. k \in 1..(Len(l) - 1) /\ k # p /\ k + 1 # p
        BY <1>1, <3>1
      <4> QED BY <1>1, <4>1
    <3>4. To(k)
      BY <2>1, <3>2, <3>3
    <3> HIDE DEF To
    <3> QED BY <3>4
  <2>2. CASE ~(p < Len(l) /\ Touching(l, p))
    <3>1. p \in p..Len(l) /\ p..(p - 1) = {}
      BY <1>1
    <3> QED BY <2>2, <3>1
  <2> QED BY <2>1, <2>2
<1>4. from \in 1..p /\ From(from)
  <2>1. from = CHOOSE k \in 1..p : From(k)
    BY DEF MergedFrom
  <2> HIDE DEF from, From
  <2> QED BY <1>2, <2>1
<1>5. to \in p..Len(l) /\ To(to)
  <2>1. to = CHOOSE k \in p..Len(l) : To(k)
    BY DEF MergedTo
  <2> HIDE DEF to, To
  <2> QED BY <1>3, <2>1
<1> HIDE DEF from, to
<1>6. p - 1 <= from /\ (from = p - 1 => Touching(l, p - 1))
  <2>1. ASSUME from < p - 1 PROVE FALSE
    <3>1. /\ p - 1 - 1 \in 1..(Len(l) - 1) /\ p - 1 - 1 # p /\ p - 1 - 1 + 1 # p
          /\ p - 1 - 1 \in from..(p - 1)
      BY <1>1, <1>4, <2>1
    <3> QED BY <1>1, <1>4, <3>1
  <2>2. from = p - 1 => p - 1 \in from..(p - 1)
    BY <1>1
  <2> QED BY <1>1, <1>4, <2>1, <2>2
<1>7. to <= p + 1 /\ (to = p + 1 => Touching(l, p))
  <2>1. ASSUME to > p + 1 PROVE FALSE
    <3>1. /\ p + 1 \in 1..(Len(l) - 1) /\ p + 1 # p /\ p + 1 + 1 # p
          /\ p + 1 \in p..(to - 1)
      BY <1>1, <1>5, <2>1
    <3> QED BY <1>1, <1>5, <3>1
  <2>2. to = p + 1 => p \in p..(to - 1)
    BY <1>1
  <2> QED BY <1>1, <1>5, <2>1, <2>2
<1> QED BY <1>4, <1>5, <1>6, <1>7 DEF Merges, from, to

\* The node that takes the place of those from one place to another.
NodeOf(l, from, to) ==
  [address |-> l[from].address, size |-> End(l[to]) - l[from].address]

\* It has their cells.
Joined(l, from, to, node) ==
  /\ node \in Block /\ node.address = l[from].address /\ End(node) = End(l[to])
  /\ \A x : x \in Cells(node) <=> \E k \in from..to : x \in Cells(l[k])
  /\ (\A k \in from..to : Paged(l[k])) => Paged(node)
  /\ \A x \in Block : (\A k \in from..to : Apart(x, l[k])) => Apart(x, node)

LEMMA NodeJoined ==
  ASSUME NEW l, NEW p, IsChain(l, p), NEW from, NEW to, Merges(l, p, from, to),
         NEW node, node = NodeOf(l, from, to), \A k \in 1..Len(l) : End(l[k]) <= Size
  PROVE  Joined(l, from, to, node)
<1>1. /\ Len(l) \in Nat /\ p \in 1..Len(l)
      /\ \A i, j \in 1..Len(l) : i < j => End(l[i]) <= l[j].address
  BY LenProperties DEF IsChain
<1>2. /\ from \in 1..p /\ p - 1 <= from /\ (from = p - 1 => Touching(l, p - 1))
      /\ to \in p..Len(l) /\ to <= p + 1 /\ (to = p + 1 => Touching(l, p))
  BY DEF Merges
<1>3. \A k \in 1..Len(l) :
        /\ l[k] \in Block /\ l[k].address \in Nat /\ End(l[k]) \in Nat
        /\ l[k].address < End(l[k]) /\ l[k].address < Size /\ End(l[k]) = l[k].address + l[k].size
  BY ElementOfSeq, Blocks DEF IsChain
<1>4. from \in 1..Len(l) /\ to \in 1..Len(l) /\ from \in Int /\ to \in Int /\ p \in Int
  BY <1>1, <1>2
<1>5. l[from].address <= l[p].address /\ (from # p => End(l[from]) = l[p].address)
  <2>1. from # p => from = p - 1 /\ p - 1 + 1 = p
    BY <1>1, <1>2
  <2>2. from # p => End(l[from]) = l[p].address
    BY <1>2, <2>1 DEF Touching
  <2> QED BY <1>1, <1>3, <1>4, <2>2
<1>6. End(l[p]) <= End(l[to]) /\ (to # p => End(l[p]) = l[to].address)
  <2>1. to # p => to = p + 1
    BY <1>1, <1>2
  <2>2. to # p => End(l[p]) = l[to].address
    BY <1>2, <2>1 DEF Touching
  <2> QED BY <1>1, <1>3, <1>4, <2>2
<1>7. \A k \in from..to : k = from \/ k = p \/ k = to
  BY <1>1, <1>2
<1>8. from \in from..to /\ p \in from..to /\ to \in from..to
  BY <1>1, <1>2
<1>9. /\ node.address = l[from].address /\ node.size = End(l[to]) - l[from].address
      /\ node = [address |-> node.address, size |-> node.size]
  BY DEF NodeOf
<1> DEFINE a == l[from].address  c == l[p].address  d == End(l[p])  e == End(l[to])
<1>10. a \in Nat /\ c \in Nat /\ d \in Nat /\ e \in Nat /\ a <= c /\ c < d /\ d <= e /\ e <= Size
       /\ a < Size
  BY <1>1, <1>3, <1>4, <1>5, <1>6
<1>11. node.address \in 0..(Size - 1) /\ node.size \in 1..Size /\ End(node) = e
  <2>1. node.address = a /\ node.size = e - a
    BY <1>9
  <2>2. Size \in Nat
    BY AllocatorAssumption
  <2> HIDE DEF a, c, d, e
  <2> QED BY <1>10, <2>1, <2>2 DEF End
<1>12. node \in Block
  BY <1>9, <1>11 DEF Block
<1>13. ASSUME NEW x
       PROVE  x \in Cells(node) <=> \E k \in from..to : x \in Cells(l[k])
  <2>1. x \in Cells(node) <=> x \in a..(e - 1)
    BY <1>9, <1>11 DEF Cells
  <2>2. x \in Cells(l[p]) <=> x \in c..(d - 1)
    BY DEF Cells
  <2>3. x \in Cells(l[from]) <=> x \in a..(End(l[from]) - 1)
    BY DEF Cells
  <2>4. x \in Cells(l[to]) <=> x \in l[to].address..(e - 1)
    BY DEF Cells
  <2>5. from = p \/ End(l[from]) = c
    BY <1>5
  <2>6. to = p \/ l[to].address = d
    BY <1>6
  <2>7. (\E k \in from..to : x \in Cells(l[k])) <=>
          x \in Cells(l[from]) \/ x \in Cells(l[p]) \/ x \in Cells(l[to])
    BY <1>7, <1>8
  <2> HIDE DEF a, c, d, e
  <2>8. x \in Cells(node) => x \in c..(d - 1) \/ x \in a..(c - 1) \/ x \in d..(e - 1)
    BY <1>10, <2>1
  <2>9. x \in c..(d - 1) \/ x \in a..(c - 1) \/ x \in d..(e - 1) => x \in a..(e - 1)
    BY <1>10
  <2>10. ASSUME from = p PROVE a = c
    BY <2>10 DEF a, c
  <2>11. ASSUME to = p PROVE d = e
    BY <2>11 DEF d, e
  <2>12. ASSUME x \in a..(c - 1) PROVE x \in Cells(l[from])
    BY <1>10, <2>3, <2>5, <2>10, <2>12
  <2>13. ASSUME x \in d..(e - 1) PROVE x \in Cells(l[to])
    BY <1>10, <2>4, <2>6, <2>11, <2>13
  <2>14. ASSUME x \in Cells(l[from]) PROVE x \in c..(d - 1) \/ x \in a..(c - 1)
    BY <2>2, <2>3, <2>5, <2>14
  <2>15. ASSUME x \in Cells(l[to]) PROVE x \in c..(d - 1) \/ x \in d..(e - 1)
    BY <2>2, <2>4, <2>6, <2>15
  <2> QED BY <2>1, <2>2, <2>7, <2>8, <2>9, <2>12, <2>13, <2>14, <2>15
<1>14. ASSUME \A k \in from..to : Paged(l[k])
       PROVE  Paged(node)
  <2>1. Page \in Nat \ {0}
    BY AllocatorAssumption
  <2>2. a % Page = 0 /\ e <= Size
    BY <1>8, <1>14 DEF Paged
  <2>3. e % Page = 0
    <3>1. l[to].address % Page = 0 /\ l[to].size % Page = 0
      BY <1>8, <1>14 DEF Paged
    <3>2. l[to].address \in Nat /\ l[to].size \in Nat /\ e = l[to].address + l[to].size
      BY <1>3, <1>4, Blocks
    <3> DEFINE u == l[to].address  v == l[to].size
    <3> HIDE DEF u, v
    <3>3. (u + v) % Page = 0
      BY <2>1, <3>1, <3>2, MultipleSum DEF u, v
    <3> QED BY <3>2, <3>3 DEF u, v
  <2>4. node.address = a /\ node.size = e - a
    BY <1>9
  <2> HIDE DEF a, e
  <2>5. (e - a) % Page = 0
    <3>1. a \in Nat /\ e \in Nat /\ a <= e
      BY <1>10
    <3>2. \A x, y \in Nat : x % Page = 0 /\ y % Page = 0 /\ x <= y => (y - x) % Page = 0
      BY <2>1, MultipleSum
    <3> QED BY <2>2, <2>3, <3>1, <3>2
  <2> QED BY <1>11, <2>2, <2>4, <2>5 DEF Paged
<1>15. ASSUME NEW x \in Block, \A k \in from..to : Apart(x, l[k])
       PROVE  Apart(x, node)
  <2>1. Apart(x, l[from]) /\ Apart(x, l[p]) /\ Apart(x, l[to])
    BY <1>8, <1>15
  <2>2. x.address \in Nat /\ End(x) \in Nat /\ x.address < End(x)
    BY Blocks
  <2>3. End(x) <= a \/ End(l[from]) <= x.address
    BY <2>1 DEF Apart
  <2>4. End(x) <= c \/ d <= x.address
    BY <2>1 DEF Apart
  <2>5. End(x) <= l[to].address \/ e <= x.address
    BY <2>1 DEF Apart
  <2>6. (from = p /\ a = c /\ End(l[from]) = d) \/ End(l[from]) = c
    BY <1>5
  <2>7. (to = p /\ d = e /\ l[to].address = c) \/ l[to].address = d
    BY <1>6
  <2>8. node.address = a /\ End(node) = e
    BY <1>9, <1>11
  <2> HIDE DEF a, c, d, e
  <2>9. End(x) <= a \/ e <= x.address
    BY <1>10, <2>2, <2>3, <2>4, <2>5, <2>6, <2>7
  <2> QED BY <2>8, <2>9 DEF Apart
<1> QED BY <1>9, <1>11, <1>12, <1>13, <1>14, <1>15 DEF Joined

Gone(l, from, to) == {l[k] : k \in from..to}

\* The order by address after the merge.
LEMMA AddressMerge ==
  ASSUME NEW l, NEW p, IsChain(l, p), NEW from, NEW to, Merges(l, p, from, to),
         NEW node, Joined(l, from, to, node), NEW r, r = Spliced(l, from, to, node)
  PROVE  AddressList(r, (Range(l) \ Gone(l, from, to)) \cup {node})
<1>1. /\ l \in Seq(Block) /\ Len(l) \in Nat /\ DOMAIN l = 1..Len(l) /\ p \in 1..Len(l)
      /\ IsInjective(l)
  BY LenProperties, ChainInjective DEF IsChain
<1>2. /\ from \in 1..p /\ to \in p..Len(l)
      /\ from > 1 => ~ Touching(l, from - 1)
      /\ to < Len(l) => ~ Touching(l, to)
  BY DEF Merges
<1>3. node \in Block /\ node.address = l[from].address /\ End(node) = End(l[to])
  BY DEF Joined
<1>4. PICK d \in Nat : d = to - from
  BY <1>1, <1>2
<1>5. r \in Seq(Block) /\ IsSpliced(r, l, from, to, node)
  <2>1. from \in 1..(Len(l) + 1) /\ to \in (from - 1)..Len(l)
    BY <1>1, <1>2
  <2> QED BY <1>1, <1>3, <2>1, SplicedElements
<1>6. /\ Len(r) = Len(l) - d /\ DOMAIN r = 1..Len(r)
      /\ \A k \in 1..Len(r) : r[k] = IF k < from THEN l[k] ELSE IF k = from THEN node ELSE l[k + d]
  BY <1>4, <1>5, LenProperties DEF IsSpliced
<1>7. \A k \in 1..Len(l) :
        /\ l[k] \in Block /\ l[k].address \in Nat /\ End(l[k]) \in Nat /\ l[k].address < End(l[k])
  BY <1>1, ElementOfSeq, Blocks
<1>8. \A i, j \in 1..Len(l) : i < j => End(l[i]) <= l[j].address
  BY DEF IsChain
<1>9. ASSUME NEW i \in 1..Len(l), NEW j \in 1..Len(l), i < j, j = i + 1 => ~ Touching(l, i)
      PROVE  End(l[i]) < l[j].address
  <2>1. CASE j = i + 1
    <3>1. End(l[i]) # l[j].address
      BY <1>9, <2>1 DEF Touching
    <3> QED BY <1>7, <1>8, <1>9, <3>1
  <2>2. CASE j # i + 1
    <3>1. i + 1 \in 1..Len(l) /\ i < i + 1 /\ i + 1 < j
      BY <1>1, <1>9, <2>2
    <3>2. End(l[i]) <= l[i + 1].address /\ End(l[i + 1]) <= l[j].address
      BY <1>8, <3>1
    <3> QED BY <1>7, <3>1, <3>2
  <2> QED BY <2>1, <2>2
<1>10. \A k \in 1..(Len(l) - 1) : k # p /\ k + 1 # p => ~ Touching(l, k)
  BY DEF IsChain
<1>11. ByAddress(r)
  <2> SUFFICES ASSUME NEW i \in 1..Len(r), NEW j \in 1..Len(r), i < j
               PROVE  End(r[i]) < r[j].address
    BY <1>6 DEF ByAddress
  <2>1. i \in Int /\ j \in Int /\ from \in Int /\ to \in Int /\ p \in Int
    BY <1>1, <1>2
  <2>2. CASE j < from
    <3>1. i \in 1..Len(l) /\ j \in 1..Len(l) /\ r[i] = l[i] /\ r[j] = l[j]
      BY <1>1, <1>2, <1>4, <1>6, <2>1, <2>2
    <3>2. j = i + 1 => ~ Touching(l, i)
      <4> SUFFICES ASSUME j = i + 1 PROVE ~ Touching(l, i)
        OBVIOUS
      <4>1. i \in 1..(Len(l) - 1) /\ i # p /\ i + 1 # p
        BY <1>1, <1>2, <2>1, <2>2
      <4> QED BY <1>10, <4>1
    <3> QED BY <1>9, <3>1, <3>2
  <2>3. CASE j = from
    <3>1. i \in 1..Len(l) /\ from \in 1..Len(l) /\ i < from /\ r[i] = l[i]
          /\ r[j].address = l[from].address
      BY <1>1, <1>2, <1>3, <1>4, <1>6, <2>1, <2>3
    <3>2. from = i + 1 => ~ Touching(l, i)
      <4> SUFFICES ASSUME from = i + 1 PROVE ~ Touching(l, i)
        OBVIOUS
      <4>1. from > 1 /\ from - 1 = i
        BY <2>1
      <4> QED BY <1>2, <4>1
    <3> QED BY <1>9, <3>1, <3>2
  <2>4. CASE i < from /\ j > from
    <3>1. PICK m : m = j + d
      OBVIOUS
    <3>2. i \in 1..Len(l) /\ m \in 1..Len(l) /\ i < m /\ m # i + 1
      BY <1>1, <1>2, <1>4, <1>6, <2>1, <2>4, <3>1
    <3>3. r[i] = l[i] /\ r[j] = l[m]
      BY <1>6, <2>1, <2>4, <3>1
    <3> QED BY <1>9, <3>2, <3>3
  <2>5. CASE i = from
    <3>1. PICK m : m = j + d
      OBVIOUS
    <3>2. to \in 1..Len(l) /\ m \in 1..Len(l) /\ to < m
      BY <1>1, <1>2, <1>4, <1>6, <2>1, <2>5, <3>1
    <3>3. End(r[i]) = End(l[to]) /\ r[j] = l[m]
      BY <1>3, <1>6, <2>1, <2>5, <3>1
    <3>4. m = to + 1 => ~ Touching(l, to)
      <4> SUFFICES ASSUME m = to + 1 PROVE ~ Touching(l, to)
        OBVIOUS
      <4>1. to < Len(l)
        BY <1>1, <2>1, <3>2
      <4> QED BY <1>2, <4>1
    <3> QED BY <1>9, <3>2, <3>3, <3>4
  <2>6. CASE i > from
    <3>1. PICK m : m = j + d
      OBVIOUS
    <3>2. PICK n : n = i + d
      OBVIOUS
    <3>3. n \in 1..Len(l) /\ m \in 1..Len(l) /\ n < m /\ n > p
      BY <1>1, <1>2, <1>4, <1>6, <2>1, <2>6, <3>1, <3>2
    <3>4. r[i] = l[n] /\ r[j] = l[m]
      BY <1>6, <2>1, <2>6, <3>1, <3>2
    <3>5. m = n + 1 => ~ Touching(l, n)
      <4> SUFFICES ASSUME m = n + 1 PROVE ~ Touching(l, n)
        OBVIOUS
      <4>1. n \in 1..(Len(l) - 1) /\ n # p /\ n + 1 # p
        BY <1>1, <2>1, <3>3
      <4> QED BY <1>10, <4>1
    <3> QED BY <1>9, <3>3, <3>4, <3>5
  <2> QED BY <2>1, <2>2, <2>3, <2>4, <2>5, <2>6
<1>12. Range(r) = (Range(l) \ Gone(l, from, to)) \cup {node}
  <2>1. ASSUME NEW x \in Range(r)
        PROVE  x \in (Range(l) \ Gone(l, from, to)) \cup {node}
    <3>1. PICK k \in 1..Len(r) : x = r[k]
      BY <1>6 DEF Range
    <3>2. CASE k = from
      BY <1>6, <3>1, <3>2
    <3>3. CASE k # from
      <4>1. PICK m \in 1..Len(l) : x = l[m] /\ m \notin from..to
        <5>1. CASE k < from
          BY <1>1, <1>2, <1>4, <1>6, <3>1, <5>1
        <5>2. CASE k > from
          <6>1. PICK m : m = k + d
            OBVIOUS
          <6>2. m \in 1..Len(l) /\ m \notin from..to
            BY <1>1, <1>2, <1>4, <1>6, <5>2, <6>1
          <6>3. x = l[m]
            BY <1>1, <1>2, <1>6, <3>1, <5>2, <6>1
          <6> QED BY <6>2, <6>3
        <5> QED BY <1>1, <1>2, <3>3, <5>1, <5>2
      <4>2. \A j \in from..to : j \in 1..Len(l)
        BY <1>1, <1>2
      <4> QED BY <1>1, <4>1, <4>2 DEF Range, Gone, IsInjective
    <3> QED BY <3>2, <3>3
  <2>2. ASSUME NEW x \in Range(l), x \notin Gone(l, from, to)
        PROVE  x \in Range(r)
    <3>1. PICK m \in 1..Len(l) : x = l[m]
      BY <1>1 DEF Range
    <3>2. m \notin from..to
      BY <2>2, <3>1 DEF Gone
    <3>3. m < from \/ m > to
      BY <1>1, <1>2, <3>2
    <3>4. CASE m < from
      <4>1. m \in 1..Len(r)
        BY <1>1, <1>2, <1>4, <1>6, <3>4
      <4> QED BY <1>6, <3>1, <3>4, <4>1 DEF Range
    <3>5. CASE m > to
      <4>1. PICK k : k = m - d
        OBVIOUS
      <4>2. k \in 1..Len(r) /\ k > from /\ k + d = m
        BY <1>1, <1>2, <1>4, <1>6, <3>5, <4>1
      <4>3. r[k] = l[m]
        BY <1>1, <1>2, <1>6, <4>2
      <4> QED BY <1>6, <3>1, <4>2, <4>3 DEF Range
    <3> QED BY <3>3, <3>4, <3>5
  <2>3. node \in Range(r)
    <3>1. from \in 1..Len(r)
      BY <1>1, <1>2, <1>4, <1>6
    <3>2. r[from] = node
      BY <1>2, <1>6, <3>1
    <3> QED BY <1>6, <3>1, <3>2 DEF Range
  <2> QED BY <2>1, <2>2, <2>3
<1> QED BY <1>5, <1>11, <1>12 DEF AddressList

\* The order by size loses the nodes that are merged, which are three at most.
LEMMA SizeDetached ==
  ASSUME NEW F, SizeList(bySize, F), NEW l, NEW from \in Nat, NEW to \in from..(from + 2)
  PROVE  SizeList(Detached(l, from, to), F \ Gone(l, from, to))
<1> DEFINE Next1(g, k) == IF k < from THEN bySize ELSE RemoveFirst(g[k - 1], l[k])
           IsLeft(g) == g = [k \in (from - 1)..to |-> Next1(g, k)]
<1>1. from - 1 \in (from - 1)..to /\ from - 1 < from /\ from \in Int /\ to \in Int
  OBVIOUS
<1>2. \E g : IsLeft(g)
  <2> DEFINE R1 == RemoveFirst(bySize, l[from])
             R2 == RemoveFirst(R1, l[from + 1])
             R3 == RemoveFirst(R2, l[from + 2])
             g == [k \in (from - 1)..to |->
                     IF k < from THEN bySize ELSE IF k = from THEN R1
                     ELSE IF k = from + 1 THEN R2 ELSE R3]
  <2>1. ASSUME NEW k \in (from - 1)..to
        PROVE  g[k] = Next1(g, k)
    <3> HIDE DEF R1, R2, R3
    <3>1. CASE k < from
      BY <3>1
    <3>2. CASE k = from
      <4>1. k - 1 \in (from - 1)..to /\ k - 1 < from
        BY <3>2
      <4>2. g[k - 1] = bySize /\ g[k] = R1
        BY <3>2, <4>1
      <4> HIDE DEF g
      <4> QED BY <3>2, <4>2 DEF R1
    <3>3. CASE k = from + 1
      <4>1. k - 1 \in (from - 1)..to /\ k - 1 = from /\ ~(k < from)
        BY <3>3
      <4>2. g[k - 1] = R1 /\ g[k] = R2
        BY <3>3, <4>1
      <4> HIDE DEF g
      <4> QED BY <3>3, <4>1, <4>2 DEF R2
    <3>4. CASE k = from + 2
      <4>1. k - 1 \in (from - 1)..to /\ k - 1 = from + 1 /\ ~(k < from)
        BY <3>4
      <4>2. g[k - 1] = R2 /\ g[k] = R3
        BY <3>4, <4>1
      <4> HIDE DEF g
      <4> QED BY <3>4, <4>1, <4>2 DEF R3
    <3> QED BY <3>1, <3>2, <3>3, <3>4
  <2>2. g = [k \in (from - 1)..to |-> g[k]]
    OBVIOUS
  <2> HIDE DEF g, Next1
  <2>3. IsLeft(g)
    BY <2>1, <2>2
  <2> QED BY <2>3
<1> DEFINE left == CHOOSE g : IsLeft(g)
<1>3. Detached(l, from, to) = left[to]
  BY Zenon DEF Detached
<1>4. IsLeft(left)
  <2> HIDE DEF IsLeft
  <2> QED BY <1>2
<1> HIDE DEF left
<1>5. \A k \in (from - 1)..to : left[k] = Next1(left, k)
  <2> HIDE DEF Next1
  <2> QED BY <1>4
<1>6. left[from - 1] = bySize
  BY <1>1, <1>5
<1>7. ASSUME NEW k \in from..to, SizeList(left[k - 1], F \ Gone(l, from, k - 1))
      PROVE  SizeList(left[k], F \ Gone(l, from, k))
  <2>1. left[k] = RemoveFirst(left[k - 1], l[k])
    BY <1>5
  <2>2. SizeList(left[k], (F \ Gone(l, from, k - 1)) \ {l[k]})
    BY <1>7, <2>1, SizeRemove
  <2>3. \A j : j \in from..k <=> j \in from..(k - 1) \/ j = k
    OBVIOUS
  <2>4. (F \ Gone(l, from, k - 1)) \ {l[k]} = F \ Gone(l, from, k)
    BY <2>3 DEF Gone
  <2> QED BY <2>2, <2>4
<1>8. SizeList(left[from - 1], F \ Gone(l, from, from - 1))
  <2>1. Gone(l, from, from - 1) = {}
    BY DEF Gone
  <2>2. F \ Gone(l, from, from - 1) = F
    BY <2>1
  <2> QED BY <1>6, <2>2
<1>9. SizeList(left[from], F \ Gone(l, from, from))
  BY <1>7, <1>8
<1>10. CASE to = from
  BY <1>3, <1>9, <1>10
<1>11. ASSUME to # from
       PROVE  SizeList(left[from + 1], F \ Gone(l, from, from + 1))
  <2>1. from + 1 \in from..to /\ from + 1 - 1 = from
    BY <1>11
  <2> QED BY <1>7, <1>9, <2>1
<1>12. CASE to = from + 1
  BY <1>3, <1>11, <1>12
<1>13. CASE to = from + 2
  <2>1. from + 2 \in from..to /\ from + 2 - 1 = from + 1 /\ to # from
    BY <1>13
  <2>2. SizeList(left[from + 2], F \ Gone(l, from, from + 2))
    BY <1>7, <1>11, <2>1
  <2> QED BY <1>3, <1>13, <2>2
<1> QED BY <1>10, <1>12, <1>13

\* What freelist_free makes of the free nodes: one node has the cells of the block
\* and of the nodes it touches, which are gone.
Freed(b, node, gone) ==
  /\ Free' = ((Free \cup {b}) \ gone) \cup {node}
  /\ b \in gone /\ gone \subseteq Free \cup {b}
  /\ node \in Block /\ Paged(node)
  /\ \A x : x \in Cells(node) <=> \E g \in gone : x \in Cells(g)
  /\ \A x \in Block : (\A g \in gone : Apart(x, g)) => Apart(x, node)
  /\ SizeList(bySize', Free') /\ AddressList(byAddress', Free')

PlaceIn(l, b) == SelectInSeq(l, LAMBDA m : m = b)

LEMMA PlaceOf ==
  ASSUME NEW l, NEW p, IsChain(l, p), NEW b, l[p] = b
  PROVE  PlaceIn(l, b) = p
<1>1. Len(l) \in Nat /\ DOMAIN l = 1..Len(l) /\ p \in 1..Len(l) /\ IsInjective(l)
  BY LenProperties, ChainInjective DEF IsChain
<1> DEFINE I == {k \in 1..Len(l) : l[k] = b}
<1>2. I = {p}
  BY <1>1 DEF IsInjective
<1>3. Min(I) = p /\ I # {}
  <2>1. I \in SUBSET Nat /\ I # {}
    BY <1>1, <1>2
  <2>2. Min(I) \in I
    BY <2>1, MinNat
  <2> QED BY <1>2, <2>2
<1>4. PlaceIn(l, b) = IF I # {} THEN Min(I) ELSE 0
  BY DEF PlaceIn, SelectInSeq
<1> QED BY <1>3, <1>4

LEMMA FreeLists ==
  ASSUME Inv, NEW b \in Block, Paged(b), \A f \in Free : Apart(b, f), freelist_free(b)
  PROVE  \E node, gone : Freed(b, node, gone)
<1>1. SizeList(bySize, Free) /\ AddressList(byAddress, Free)
  BY DEF Inv
<1> DEFINE l == InsertAddress(byAddress, b)
<1>2. PICK p \in 1..Len(l) : InsertedAt(l, byAddress, b, p)
  <2> HIDE DEF l
  <2> SUFFICES ASSUME NEW r, r = InsertAddress(byAddress, b)
               PROVE  \E p \in 1..Len(r) : InsertedAt(r, byAddress, b, p)
    BY DEF l
  <2> QED BY <1>1, AddressInsert
<1>3. IsChain(l, p) /\ l[p] = b /\ Range(l) = Free \cup {b} /\ IsInjective(l)
  BY <1>2 DEF InsertedAt, Free
<1> DEFINE from == MergedFrom(l, p)
           to == MergedTo(l, p)
           node == NodeOf(l, from, to)
           gone == Gone(l, from, to)
<1>4. /\ byAddress' = Spliced(l, from, to, node)
      /\ bySize' = Sorted(Detached(l, from, to), node)
  <2> DEFINE i == PlaceIn(l, b)
             f == MergedFrom(l, i)
             t == MergedTo(l, i)
             n == NodeOf(l, f, t)
  <2>1. byAddress' = Spliced(l, f, t, n) /\ bySize' = Sorted(Detached(l, f, t), n)
    BY DEF freelist_free, Spliced, InsertAddress, NodeOf, PlaceIn
  <2>2. i = p
    <3> HIDE DEF l
    <3> QED BY <1>3, PlaceOf
  <2> HIDE DEF i, l
  <2> QED BY <2>1, <2>2
<1> HIDE DEF l
<1>5. Merges(l, p, from, to)
  BY <1>3, MergedPlaces
<1> HIDE DEF from, to
<1>6. /\ l \in Seq(Block) /\ Len(l) \in Nat /\ DOMAIN l = 1..Len(l) /\ p \in 1..Len(l)
      /\ \A j, k \in 1..Len(l) : j < k => End(l[j]) <= l[k].address
  BY <1>3, LenProperties DEF IsChain
<1>7. /\ from \in 1..p /\ p - 1 <= from /\ to \in p..Len(l) /\ to <= p + 1
  BY <1>5 DEF Merges
<1>8. \A k \in 1..Len(l) : l[k] \in Block /\ Paged(l[k])
  <2>1. \A x \in Free \cup {b} : x \in Block /\ Paged(x)
    BY FreeBlocks
  <2> QED BY <1>3, <1>6, <2>1 DEF Range
<1>9. Joined(l, from, to, node)
  <2>1. \A k \in 1..Len(l) : End(l[k]) <= Size
    BY <1>8 DEF Paged
  <2> HIDE DEF node
  <2>2. node = NodeOf(l, from, to)
    BY DEF node
  <2> QED BY <1>3, <1>5, <2>1, <2>2, NodeJoined
<1> HIDE DEF node
<1>10. /\ node \in Block
       /\ \A x : x \in Cells(node) <=> \E k \in from..to : x \in Cells(l[k])
       /\ (\A k \in from..to : Paged(l[k])) => Paged(node)
       /\ \A x \in Block : (\A k \in from..to : Apart(x, l[k])) => Apart(x, node)
  BY <1>9 DEF Joined
<1>11. AddressList(byAddress', ((Free \cup {b}) \ gone) \cup {node})
  <2> SUFFICES ASSUME NEW r, r = Spliced(l, from, to, node)
               PROVE  AddressList(r, ((Free \cup {b}) \ gone) \cup {node})
    BY <1>4
  <2>1. AddressList(r, (Range(l) \ gone) \cup {node})
    BY <1>3, <1>5, <1>9, AddressMerge
  <2> QED BY <1>3, <2>1
<1>12. b \in gone /\ gone \subseteq Free \cup {b}
  <2>1. p \in from..to /\ \A k \in from..to : k \in DOMAIN l
    BY <1>6, <1>7
  <2> QED BY <1>3, <2>1 DEF Gone, Range
<1>13. b \notin Free
  <2>1. ~ Apart(b, b)
    BY Blocks DEF Apart
  <2> QED BY <2>1
<1>14. node \notin (Free \cup {b}) \ gone
  <2> SUFFICES ASSUME node \in Free \cup {b}, node \notin gone PROVE FALSE
    OBVIOUS
  <2>1. PICK j \in 1..Len(l) : node = l[j]
    BY <1>3, <1>6 DEF Range
  <2>2. j \notin from..to
    BY <2>1 DEF Gone
  <2>3. \A k \in from..to : k \in 1..Len(l) /\ (j < k \/ k < j)
    BY <1>6, <1>7, <2>2
  <2>4. \A k \in from..to : Apart(node, l[k])
    BY <1>6, <2>1, <2>3 DEF Apart
  <2>5. Apart(node, node)
    BY <1>10, <2>4
  <2> QED BY <1>10, <2>5, Blocks DEF Apart
<1>15. SizeList(bySize', ((Free \cup {b}) \ gone) \cup {node})
  <2>1. from \in Nat /\ to \in from..(from + 2)
    BY <1>6, <1>7
  <2>2. SizeList(Detached(l, from, to), Free \ gone)
    BY <1>1, <2>1, SizeDetached
  <2>3. node \notin Free \ gone /\ Free \ gone = (Free \cup {b}) \ gone
    BY <1>12, <1>14
  <2>4. SizeList(bySize', (Free \ gone) \cup {node})
    BY <1>4, <1>10, <2>2, <2>3, SizeInsert
  <2> QED BY <2>3, <2>4
<1>16. Free' = ((Free \cup {b}) \ gone) \cup {node}
  BY <1>11 DEF AddressList, Free
<1>17. Paged(node)
  <2>1. \A k \in from..to : k \in 1..Len(l)
    BY <1>6, <1>7
  <2> QED BY <1>8, <1>10, <2>1
<1>18. /\ \A x : x \in Cells(node) <=> \E g \in gone : x \in Cells(g)
       /\ \A x \in Block : (\A g \in gone : Apart(x, g)) => Apart(x, node)
  BY <1>10 DEF Gone
<1>19. Freed(b, node, gone)
  <2> HIDE DEF gone
  <2> QED BY <1>10, <1>11, <1>12, <1>15, <1>16, <1>17, <1>18 DEF Freed
<1> QED BY <1>19

LEMMA ReleaseKeeps ==
  ASSUME Inv, NEW name \in Names, Release(name)
  PROVE  Inv'
<1> DEFINE b == blocks[name]
<1>1. name \in DOMAIN blocks /\ freelist_free(b) /\ refused' = 0
  BY DEF Release
<1>2. /\ DOMAIN blocks' = DOMAIN blocks \ {name}
      /\ \A n \in DOMAIN blocks' : n # name /\ n \in DOMAIN blocks /\ blocks'[n] = blocks[n]
  BY DEF Release, Restrict
<1>3. /\ b \in Block /\ Paged(b) /\ \A f \in Free : f \in Block /\ Paged(f) /\ Apart(b, f)
      /\ \A n \in DOMAIN blocks' : Apart(blocks'[n], b)
  BY <1>1, <1>2, FreeBlocks DEF Inv, AllPaged, Disjoint
<1> HIDE DEF b
<1>4. PICK node, gone : Freed(b, node, gone)
  BY <1>1, <1>3, FreeLists
<1>5. /\ Free' = ((Free \cup {b}) \ gone) \cup {node}
      /\ b \in gone /\ gone \subseteq Free \cup {b}
      /\ node \in Block /\ Paged(node)
      /\ \A x : x \in Cells(node) <=> \E g \in gone : x \in Cells(g)
      /\ \A x \in Block : (\A g \in gone : Apart(x, g)) => Apart(x, node)
      /\ SizeList(bySize', Free') /\ AddressList(byAddress', Free')
  BY <1>4 DEF Freed
<1>6. AllPaged'
  BY <1>2, <1>3, <1>5 DEF Inv, AllPaged, Paged
<1>7. Disjoint'
  <2>1. ASSUME NEW n \in DOMAIN blocks', NEW m \in DOMAIN blocks', n # m
        PROVE  Apart(blocks'[n], blocks'[m])
    BY <1>2, <2>1 DEF Inv, Disjoint
  <2>2. ASSUME NEW n \in DOMAIN blocks', NEW f \in Free'
        PROVE  Apart(blocks'[n], f)
    <3>1. \A g \in Free \cup {b} : Apart(blocks'[n], g)
      BY <1>2, <1>3 DEF Inv, Disjoint
    <3>2. CASE f = node
      <4>1. blocks'[n] \in Block
        BY <1>2 DEF Inv, AllPaged
      <4> QED BY <1>5, <3>1, <3>2, <4>1
    <3> QED BY <1>5, <3>1, <3>2
  <2> QED BY <2>1, <2>2 DEF Disjoint, Apart, End
<1>8. Covered'
  <2> SUFFICES ASSUME NEW i \in 0..(Size - 1)
               PROVE  \/ \E n \in DOMAIN blocks' : i \in Cells(blocks'[n])
                      \/ \E f \in Free' : i \in Cells(f)
    BY DEF Covered, Cells, End
  <2>1. CASE \E f \in Free \cup {b} : i \in Cells(f)
    <3>1. PICK f \in Free \cup {b} : i \in Cells(f)
      BY <2>1
    <3> QED BY <1>5, <3>1
  <2>2. CASE \E n \in DOMAIN blocks : n # name /\ i \in Cells(blocks[n])
    BY <1>2, <2>2
  <2>3. \/ \E f \in Free \cup {b} : i \in Cells(f)
        \/ \E n \in DOMAIN blocks : n # name /\ i \in Cells(blocks[n])
    BY DEF Inv, Covered, b
  <2> QED BY <2>1, <2>2, <2>3
<1>9. DOMAIN blocks' \subseteq Names /\ refused' \in 0..Size
  <2>1. 0 \in 0..Size
    BY AllocatorAssumption
  <2> QED BY <1>1, <1>2, <2>1 DEF Inv
<1> QED BY <1>5, <1>6, <1>7, <1>8, <1>9 DEF Inv, SizeList, AddressList, BySize, ByAddress, Block, End

LEMMA NextInv == Inv /\ [Next]_vars => Inv'
<1> SUFFICES ASSUME Inv, [Next]_vars PROVE Inv'
  OBVIOUS
<1>1. CASE Next
  BY <1>1, RequestKeeps, ReleaseKeeps DEF Next
<1>2. CASE UNCHANGED vars
  <2>1. byAddress' = byAddress /\ bySize' = bySize /\ blocks' = blocks /\ refused' = refused
    BY <1>2 DEF vars
  <2> QED BY <2>1 DEF Inv, SizeList, AddressList, BySize, ByAddress, AllPaged, Disjoint, Covered,
                      Free, Paged, Apart, Cells, Block, End
<1> QED BY <1>1, <1>2

LEMMA InvHolds == Spec => []Inv
BY InitInv, NextInv, PTL DEF Spec

-----------------------------------------------------------------------------
(* What follows from the invariant. *)

\* Exactly one block or node has a cell.
LEMMA InvTiled == Inv => Tiled
<1> SUFFICES ASSUME Inv, NEW i \in 0..(Size - 1)
             PROVE  Cardinality({n \in DOMAIN blocks : i \in Cells(blocks[n])})
                      + Cardinality({f \in DOMAIN byAddress : i \in Cells(byAddress[f])}) = 1
  BY DEF Tiled
<1> DEFINE U == {n \in DOMAIN blocks : i \in Cells(blocks[n])}
           V == {f \in DOMAIN byAddress : i \in Cells(byAddress[f])}
<1>1. \A b, c \in Block : Apart(b, c) => ~(i \in Cells(b) /\ i \in Cells(c))
  BY Blocks DEF Apart, Cells
<1>2. /\ \A f \in Free : f \in Block
      /\ \A n \in DOMAIN blocks : blocks[n] \in Block
      /\ \A f, g \in Free : f # g => Apart(f, g)
  <2>1. \A f, g \in Free : f # g => Apart(f, g)
    BY FreeApart, FreeBlocks, Blocks DEF Apart
  <2> QED BY <2>1, FreeBlocks DEF Inv, AllPaged
<1>3. \A f \in DOMAIN byAddress : byAddress[f] \in Free
  BY DEF Free, Range
<1>4. IsInjective(byAddress)
  BY AddressInjective DEF Inv
<1>5. \A n, m \in U : n = m
  BY <1>1, <1>2 DEF Inv, Disjoint
<1>6. \A f, g \in V : f = g
  BY <1>1, <1>2, <1>3, <1>4 DEF IsInjective
<1>7. ~(U # {} /\ V # {})
  BY <1>1, <1>2, <1>3 DEF Inv, Disjoint
<1>8. U # {} \/ V # {}
  BY DEF Inv, Covered, Free, Range
<1> HIDE DEF U, V
<1>9. CASE U # {}
  <2>1. PICK n : U = {n}
    <3>1. PICK m \in U : TRUE
      BY <1>9
    <3>2. U = {m}
      BY <1>5, <3>1
    <3> QED BY <3>2
  <2>2. V = {}
    BY <1>7, <1>9
  <2>3. Cardinality(U) = 1 /\ Cardinality(V) = 0
    BY <2>1, <2>2, FS_Singleton, FS_EmptySet
  <2> QED BY <2>3 DEF U, V
<1>10. CASE V # {}
  <2>1. PICK n : V = {n}
    <3>1. PICK m \in V : TRUE
      BY <1>10
    <3>2. V = {m}
      BY <1>6, <3>1
    <3> QED BY <3>2
  <2>2. U = {}
    BY <1>7, <1>10
  <2>3. Cardinality(V) = 1 /\ Cardinality(U) = 0
    BY <2>1, <2>2, FS_Singleton, FS_EmptySet
  <2> QED BY <2>3 DEF U, V
<1> QED BY <1>8, <1>9, <1>10

LEMMA InvCoalesced == Inv => Coalesced
<1> SUFFICES ASSUME Inv, NEW f \in Free, NEW g \in Free PROVE End(f) # g.address
  BY DEF Coalesced
<1>1. f \in Block /\ g \in Block
  BY FreeBlocks
<1>2. CASE f = g
  BY <1>1, <1>2, Blocks
<1>3. CASE f # g
  <2>1. End(f) < g.address \/ End(g) < f.address
    BY <1>3, FreeApart
  <2> QED BY <1>1, <2>1, Blocks
<1> QED BY <1>2, <1>3

\* Lists without repetitions that have the same elements have the same length.
LEMMA SameLength ==
  ASSUME NEW S, NEW s \in Seq(S), NEW t \in Seq(S), IsInjective(s), IsInjective(t),
         Range(s) = Range(t)
  PROVE  Len(s) = Len(t)
<1>1. ASSUME NEW u \in Seq(S), IsInjective(u) PROVE Cardinality(Range(u)) = Len(u)
  <2>1. Len(u) \in Nat /\ DOMAIN u = 1..Len(u) /\ u = [k \in 1..Len(u) |-> u[k]]
    BY LenProperties
  <2>2. IsFiniteSet(1..Len(u)) /\ Cardinality(1..Len(u)) = Len(u)
    <3>1. PICK n \in Nat : n = Len(u)
      BY <2>1
    <3>2. IsFiniteSet(1..n) /\ Cardinality(1..n) = IF 1 > n THEN 0 ELSE n - 1 + 1
      BY FS_Interval
    <3> QED BY <3>1, <3>2
  <2>3. u \in Bijection(1..Len(u), Range(u))
    BY <1>1, <2>1 DEF Bijection, Injection, Surjection, Range, IsInjective
  <2>4. Cardinality(1..Len(u)) = Cardinality(Range(u))
    BY <2>2, <2>3, FS_Bijection DEF ExistsBijection
  <2> QED BY <2>2, <2>4
<1> QED BY <1>1

LEMMA InvOrders == Inv => OrdersAgree
<1> SUFFICES ASSUME Inv PROVE OrdersAgree
  OBVIOUS
<1>1. /\ bySize \in Seq(Block) /\ Range(bySize) = Free /\ IsInjective(bySize) /\ BySize(bySize)
      /\ byAddress \in Seq(Block) /\ ByAddress(byAddress) /\ IsInjective(byAddress)
      /\ Len(byAddress) \in Nat /\ DOMAIN byAddress = 1..Len(byAddress)
  BY AddressInjective, LenProperties DEF Inv, SizeList, AddressList
<1>2. Len(bySize) = Len(byAddress)
  BY <1>1, SameLength DEF Free
<1>3. \A i, j \in 1..Len(byAddress) : i < j => byAddress[i].address < byAddress[j].address
  <2> SUFFICES ASSUME NEW i \in 1..Len(byAddress), NEW j \in 1..Len(byAddress), i < j
               PROVE  byAddress[i].address < byAddress[j].address
    OBVIOUS
  <2>1. End(byAddress[i]) < byAddress[j].address
    BY <1>1 DEF ByAddress
  <2>2. byAddress[i] \in Block /\ byAddress[j] \in Block
    BY <1>1, ElementOfSeq
  <2> QED BY <2>1, <2>2, Blocks
<1>4. IsSorted(byAddress, LAMBDA a, b : a.address < b.address)
  BY <1>1, <1>3 DEF IsSorted
<1> QED BY <1>1, <1>2, <1>4 DEF OrdersAgree, BySize

LEMMA InvTypeOK == Inv => TypeOK
<1> SUFFICES ASSUME Inv PROVE TypeOK
  OBVIOUS
<1> DEFINE P == {b \in Block : Paged(b)}
<1>1. ASSUME NEW l, l \in Seq(Block), Range(l) = Free PROVE l \in Seq(P)
  <2>1. Len(l) \in Nat /\ DOMAIN l = 1..Len(l) /\ l = [k \in 1..Len(l) |-> l[k]]
    BY <1>1, LenProperties
  <2>2. \A k \in 1..Len(l) : l[k] \in Free
    BY <1>1, <2>1 DEF Range
  <2>3. \A k \in 1..Len(l) : l[k] \in P
    BY <2>2, FreeBlocks
  <2> HIDE DEF P
  <2> QED BY <2>1, <2>3, SeqDef
<1>2. byAddress \in Seq(P) /\ bySize \in Seq(P)
  BY <1>1 DEF Inv, SizeList, AddressList, Free
<1>3. DOMAIN blocks \subseteq Names /\ refused \in 0..Size
  BY DEF Inv
<1>4. Used \subseteq P
  BY DEF Inv, AllPaged, Used, Range
<1> QED BY <1>2, <1>3, <1>4 DEF TypeOK

\* After any sequence of requests and releases, whatever their sizes, order and
\* policies, free nodes and blocks divide the memory, no two free nodes touch, and
\* the order by address and the order by size hold the same nodes: freelist_alloc
\* and freelist_free, which change the two lists one after the other, keep them.
THEOREM ListsAgreeAlways == Spec => []ListsAgree
<1>1. Inv => ListsAgree
  BY InvTypeOK, InvTiled, InvCoalesced, InvOrders DEF ListsAgree
<1> QED BY <1>1, InvHolds, PTL

LEMMA InvPolicies == Inv => PolicyKept
<1> SUFFICES ASSUME Inv, NEW s \in 1..Size,
                    NEW size, size = Roundup(s)
             PROVE  LET fit == {f \in Free : f.size >= size}
                        Best(policy, Closer(_, _)) ==
                          IF fit = {} THEN Chosen(policy, size) = {}
                          ELSE \E f \in fit : /\ Chosen(policy, size) = {f}
                                              /\ \A g \in fit : Closer(f, g)
                    IN  /\ Best("F", LAMBDA f, g : f.address <= g.address)
                        /\ Best("B", LAMBDA f, g : f.size <= g.size)
                        /\ Best("W", LAMBDA f, g : f.size >= g.size)
  BY DEF PolicyKept
<1>1. size \in Nat
  BY Rounded, AllocatorAssumption
<1>2. Chooses("F", size) /\ Chooses("B", size) /\ Chooses("W", size)
  BY <1>1, PolicyChooses
<1> QED BY <1>2 DEF Chooses, Better, Fit

\* Whenever a request comes, each policy takes the node its name says, of all the
\* free nodes, or none if none is large enough: first_fit and
\* best_fit stop at the first node that fits, and worst_fit looks at
\* the last node only.
THEOREM PolicyKeptAlways == Spec => []PolicyKept
BY InvPolicies, InvHolds, PTL

-----------------------------------------------------------------------------
(* Pages, and the refinement of Heap. *)

PageCount == Size \div Page
PageIndex == 0..(PageCount - 1)

LEMMA PageOrder ==
  ASSUME NEW x \in Nat, NEW y \in Nat
  PROVE  /\ x * Page \in Nat /\ y * Page \in Nat
         /\ x * Page < y * Page <=> x < y
         /\ x * Page <= y * Page <=> x <= y
<1>1. PICK p \in Nat \ {0} : p = Page
  BY AllocatorAssumption
<1>2. x * p \in Nat /\ y * p \in Nat
  OBVIOUS
<1>3. ASSUME NEW u \in Nat, NEW v \in Nat, u < v PROVE u * p < v * p
  <2>1. PICK d \in Nat \ {0} : v = u + d
    <3>1. v - u \in Nat \ {0} /\ v = u + (v - u)
      BY <1>3
    <3> QED BY <3>1
  <2>2. v * p = u * p + d * p /\ d * p > 0
    BY <2>1
  <2> QED BY <2>2
<1>4. x < y \/ x = y \/ y < x
  OBVIOUS
<1>5. CASE x < y
  <2>1. x * p < y * p
    BY <1>3, <1>5
  <2> QED BY <1>1, <1>2, <1>5, <2>1
<1>6. CASE x = y
  BY <1>1, <1>2, <1>6
<1>7. CASE y < x
  <2>1. y * p < x * p
    BY <1>3, <1>7
  <2> QED BY <1>1, <1>2, <1>7, <2>1
<1> QED BY <1>4, <1>5, <1>6, <1>7

LEMMA Paging ==
  /\ Page \in Nat \ {0} /\ PageCount \in Nat \ {0} /\ Size = PageCount * Page
  /\ 0 \div Page = 0
  /\ \A x \in Nat : (x * Page) \div Page = x
<1>1. Page \in Nat \ {0} /\ Size \in Nat \ {0} /\ Size % Page = 0
  BY AllocatorAssumption
<1>2. PICK k \in Nat : Size = k * Page
  BY <1>1, Multiple
<1>3. \A x \in Nat : (x * Page) \div Page = x
  BY <1>1, MultipleOf
<1>4. PageCount = k
  BY <1>2, <1>3 DEF PageCount
<1>5. k # 0
  BY <1>1, <1>2
<1>6. 0 * Page = 0 /\ 0 \in Nat
  BY <1>1
<1>7. 0 \div Page = 0
  BY <1>3, <1>6
<1> QED BY <1>1, <1>2, <1>3, <1>4, <1>5, <1>7

\* A block covers the pages from a, s of them.
RunOf(b, a, s) ==
  /\ a \in Nat /\ s \in Nat \ {0} /\ a + s <= PageCount /\ a \in PageIndex
  /\ b.address = a * Page /\ b.size = s * Page /\ End(b) = (a + s) * Page
  /\ \A q \in Nat : q * Page \in Cells(b) <=> a <= q /\ q < a + s

LEMMA BlockRun ==
  ASSUME NEW b \in Block, Paged(b)
  PROVE  \E a, s : RunOf(b, a, s)
<1>1. /\ b.address \in Nat /\ b.size \in Nat \ {0} /\ End(b) \in Nat
      /\ End(b) = b.address + b.size /\ End(b) <= Size
      /\ b.address % Page = 0 /\ b.size % Page = 0
  BY Blocks DEF Paged
<1>2. PICK a \in Nat : b.address = a * Page
  BY <1>1, Paging, Multiple
<1>3. PICK s \in Nat : b.size = s * Page
  BY <1>1, Paging, Multiple
<1>4. PICK e \in Nat : e = a + s
  OBVIOUS
<1>5. End(b) = e * Page
  BY <1>1, <1>2, <1>3, <1>4, Paging
<1>6. s # 0
  BY <1>1, <1>3, Paging
<1>7. e <= PageCount
  BY <1>1, <1>5, Paging, PageOrder
<1>8. a \in PageIndex
  BY <1>4, <1>6, <1>7, Paging DEF PageIndex
<1>9. ASSUME NEW q \in Nat
      PROVE  q * Page \in Cells(b) <=> a <= q /\ q < e
  <2>1. PICK x \in Nat : x = q * Page
    BY PageOrder
  <2>2. x \in Cells(b) <=> b.address <= x /\ x < End(b)
    BY <1>1 DEF Cells
  <2>3. (a * Page <= q * Page <=> a <= q) /\ (q * Page < e * Page <=> q < e)
    BY PageOrder
  <2> QED BY <1>2, <1>5, <2>1, <2>2, <2>3
<1>10. RunOf(b, a, s)
  BY <1>2, <1>3, <1>4, <1>5, <1>6, <1>7, <1>8, <1>9 DEF RunOf
<1> QED BY <1>10

\* The owner of a page, and how it depends on the blocks.
Holders(blk, i) == {m \in DOMAIN blk : i * Page \in Cells(blk[m])}
OwnerIn(blk, i) == IF Holders(blk, i) = {} THEN Nobody ELSE CHOOSE m \in Holders(blk, i) : TRUE

Owned(blk, i) ==
  /\ \A m \in DOMAIN blk : i * Page \in Cells(blk[m]) => OwnerIn(blk, i) = m
  /\ (\A m \in DOMAIN blk : i * Page \notin Cells(blk[m])) => OwnerIn(blk, i) = Nobody

LEMMA Owners ==
  ASSUME NEW blk, \A n, m \in DOMAIN blk : n # m => Apart(blk[n], blk[m]),
         \A n \in DOMAIN blk : blk[n] \in Block, NEW i
  PROVE  Owned(blk, i)
<1>1. \A n, m \in Holders(blk, i) : n = m
  <2> SUFFICES ASSUME NEW n \in Holders(blk, i), NEW m \in Holders(blk, i), n # m PROVE FALSE
    OBVIOUS
  <2>1. i * Page \in Cells(blk[n]) /\ i * Page \in Cells(blk[m]) /\ Apart(blk[n], blk[m])
    BY DEF Holders
  <2>2. blk[n] \in Block /\ blk[m] \in Block
    BY DEF Holders
  <2> QED BY <2>1, <2>2, Blocks DEF Apart, Cells
<1>2. ASSUME NEW m \in Holders(blk, i) PROVE OwnerIn(blk, i) = m
  <2>1. OwnerIn(blk, i) \in Holders(blk, i)
    BY DEF OwnerIn
  <2> QED BY <1>1, <2>1
<1> QED BY <1>2 DEF Owned, OwnerIn, Holders

LEMMA PagesOwned ==
  ASSUME Inv
  PROVE  \A i : Owned(blocks, i) /\ OwnerOf(i) = OwnerIn(blocks, i)
BY Owners DEF Inv, AllPaged, Disjoint, OwnerOf, OwnerIn, Holders

LEMMA PagesOwnedNext ==
  ASSUME Inv'
  PROVE  \A i : Owned(blocks', i) /\ OwnerOf(i)' = OwnerIn(blocks', i)
<1>1. /\ \A n, m \in DOMAIN blocks' : n # m => Apart(blocks'[n], blocks'[m])
      /\ \A n \in DOMAIN blocks' : blocks'[n] \in Block
  BY DEF Inv, AllPaged, Disjoint, Apart, End, Block
<1>2. \A i : Owned(blocks', i)
  BY <1>1, Owners
<1> QED BY <1>2 DEF OwnerOf, OwnerIn, Holders, Cells, End

\* How a step must change the owner of every page.
Owning(j, n) == OwnerOf(j)' = n

LEMMA AllocateStep ==
  ASSUME NEW name \in Names, NEW a \in PageIndex, NEW s \in 1..PageCount, a + s <= PageCount,
         refused' = 0, \A j \in PageIndex : OwnerOf(j) # name,
         \A j \in a..(a + s - 1) : OwnerOf(j) = Nobody,
         \A j \in PageIndex : Owning(j, IF j \in a..(a + s - 1) THEN name ELSE OwnerOf(j))
  PROVE  Abstract!Next
<1> DEFINE own == [i \in PageIndex |-> OwnerOf(i)]
<1>1. \A j \in PageIndex : own[j] = OwnerOf(j)
  OBVIOUS
<1>2. \A j \in a..(a + s - 1) : j \in PageIndex
  BY Paging DEF PageIndex
<1>3. Abstract!IsRun(a, s)
  BY <1>2 DEF Abstract!IsRun, PageIndex, PageCount
<1>4. [i \in PageIndex |-> OwnerOf(i)]'
        = [j \in PageIndex |-> IF j \in a..(a + s - 1) THEN name ELSE own[j]]
  BY DEF Owning, PageIndex, PageCount
<1>5. (refused \div Page)' = 0
  BY Paging
<1>6. Abstract!Allocate(name, a, s)
  BY <1>1, <1>3, <1>4, <1>5 DEF Abstract!Allocate, Abstract!Index, PageIndex, PageCount
<1> QED BY <1>6 DEF Abstract!Next, Abstract!Index, PageIndex, PageCount

LEMMA FreeStep ==
  ASSUME NEW name \in Names, refused' = 0,
         \A j \in PageIndex : Owning(j, IF OwnerOf(j) = name THEN Nobody ELSE OwnerOf(j))
  PROVE  Abstract!Next
<1> DEFINE own == [i \in PageIndex |-> OwnerOf(i)]
<1>1. [i \in PageIndex |-> OwnerOf(i)]'
        = [j \in PageIndex |-> IF own[j] = name THEN Nobody ELSE own[j]]
  BY DEF Owning, PageIndex, PageCount
<1>2. (refused \div Page)' = 0
  BY Paging
<1>3. Abstract!Free(name)
  BY <1>1, <1>2 DEF Abstract!Free, Abstract!Index, PageIndex, PageCount
<1> QED BY <1>3 DEF Abstract!Next

\* A step that takes a block out of a node takes free pages.
LEMMA GrantImplements ==
  ASSUME Inv, NEW node \in Free, NEW size \in 1..Size, size % Page = 0, size <= node.size,
         NEW name \in Names, name \notin DOMAIN blocks, refused' = 0,
         freelist_alloc(node, size),
         Added(name, [address |-> node.address, size |-> size])
  PROVE  Abstract!Next
<1> DEFINE b == [address |-> node.address, size |-> size]
<1>1. b \in Block /\ Paged(b) /\ b.address = node.address /\ End(b) <= End(node)
  BY SplitNode
<1>2. refused' \in 0..Size
  BY AllocatorAssumption
<1>3. Inv'
  BY <1>2, GrantKeeps
<1>4. /\ DOMAIN blocks' = DOMAIN blocks \cup {name} /\ blocks'[name] = b
      /\ \A m \in DOMAIN blocks : m # name /\ blocks'[m] = blocks[m]
  BY DEF Added
<1> HIDE DEF b
<1>5. PICK a, s : RunOf(b, a, s)
  BY <1>1, BlockRun
<1>6. /\ a \in PageIndex /\ s \in 1..PageCount /\ a + s <= PageCount
      /\ a \in Nat /\ s \in Nat
      /\ \A q \in Nat : q * Page \in Cells(b) <=> a <= q /\ q < a + s
  BY <1>5, Paging DEF RunOf
<1>7. \A j \in PageIndex : j \in Nat
  BY Paging DEF PageIndex
<1>8. \A j : Owned(blocks, j) /\ OwnerOf(j) = OwnerIn(blocks, j)
  BY PagesOwned
<1>9. \A j : Owned(blocks', j) /\ OwnerOf(j)' = OwnerIn(blocks', j)
  BY <1>3, PagesOwnedNext
<1>10. \A j \in PageIndex : OwnerOf(j) # name
  <2> SUFFICES ASSUME NEW j \in PageIndex PROVE OwnerOf(j) # name
    OBVIOUS
  <2>1. name # Nobody
    BY AllocatorAssumption
  <2> QED BY <1>8, <2>1 DEF Owned
<1>11. \A j \in PageIndex : j \in a..(a + s - 1) <=> j * Page \in Cells(b)
  BY <1>6, <1>7
<1>12. \A j : j * Page \in Cells(b) =>
           \A m \in DOMAIN blocks : j * Page \notin Cells(blocks[m])
  <2> SUFFICES ASSUME NEW j, j * Page \in Cells(b), NEW m \in DOMAIN blocks,
                      j * Page \in Cells(blocks[m])
               PROVE  FALSE
    OBVIOUS
  <2>1. Apart(blocks[m], node)
    BY DEF Inv, Disjoint
  <2>2. blocks[m] \in Block /\ node \in Block
    BY FreeBlocks DEF Inv, AllPaged
  <2>3. PICK x : x = j * Page
    OBVIOUS
  <2>4. x \in Cells(b) /\ x \in Cells(blocks[m])
    BY <2>3
  <2> QED BY <1>1, <2>1, <2>2, <2>4, Blocks DEF Apart, Cells
<1>13. \A j \in a..(a + s - 1) : OwnerOf(j) = Nobody
  <2> SUFFICES ASSUME NEW j \in a..(a + s - 1) PROVE OwnerOf(j) = Nobody
    OBVIOUS
  <2>1. j \in PageIndex
    BY <1>6, Paging DEF PageIndex
  <2> QED BY <1>8, <1>11, <1>12, <2>1 DEF Owned
<1>14. \A j \in PageIndex : Owning(j, IF j \in a..(a + s - 1) THEN name ELSE OwnerOf(j))
  <2> SUFFICES ASSUME NEW j \in PageIndex
               PROVE  Owning(j, IF j \in a..(a + s - 1) THEN name ELSE OwnerOf(j))
    OBVIOUS
  <2>1. CASE j * Page \in Cells(b)
    <3>1. OwnerIn(blocks', j) = name
      BY <1>4, <1>9, <2>1 DEF Owned
    <3> QED BY <1>9, <1>11, <2>1, <3>1 DEF Owning
  <2>2. CASE j * Page \notin Cells(b)
    <3>1. Holders(blocks', j) = Holders(blocks, j)
      BY <1>4, <2>2 DEF Holders
    <3>2. OwnerIn(blocks', j) = OwnerIn(blocks, j)
      BY <3>1 DEF OwnerIn
    <3> QED BY <1>8, <1>9, <1>11, <2>2, <3>2 DEF Owning
  <2> QED BY <2>1, <2>2
<1> QED BY <1>6, <1>10, <1>13, <1>14, AllocateStep

LEMMA ReleaseImplements ==
  ASSUME Inv, NEW name \in Names, Release(name)
  PROVE  Abstract!Next
<1>1. Inv'
  BY ReleaseKeeps
<1>2. /\ refused' = 0 /\ name \in DOMAIN blocks
      /\ DOMAIN blocks' = DOMAIN blocks \ {name}
      /\ \A n \in DOMAIN blocks' : n # name /\ n \in DOMAIN blocks /\ blocks'[n] = blocks[n]
  BY DEF Release, Restrict
<1>3. \A j : Owned(blocks, j) /\ OwnerOf(j) = OwnerIn(blocks, j)
  BY PagesOwned
<1>4. \A j : Owned(blocks', j) /\ OwnerOf(j)' = OwnerIn(blocks', j)
  BY <1>1, PagesOwnedNext
<1>5. name # Nobody
  BY AllocatorAssumption
<1>6. \A j \in PageIndex : Owning(j, IF OwnerOf(j) = name THEN Nobody ELSE OwnerOf(j))
  <2> SUFFICES ASSUME NEW j \in PageIndex
               PROVE  Owning(j, IF OwnerOf(j) = name THEN Nobody ELSE OwnerOf(j))
    OBVIOUS
  <2>1. CASE j * Page \in Cells(blocks[name])
    <3>1. OwnerOf(j) = name
      BY <1>2, <1>3, <2>1 DEF Owned
    <3>2. \A m \in DOMAIN blocks' : j * Page \notin Cells(blocks'[m])
      BY <1>2, <1>3, <2>1, <3>1 DEF Owned
    <3>3. OwnerOf(j)' = Nobody
      BY <1>4, <3>2 DEF Owned
    <3> QED BY <3>1, <3>3 DEF Owning
  <2>2. CASE j * Page \notin Cells(blocks[name])
    <3>1. Holders(blocks', j) = Holders(blocks, j)
      BY <1>2, <2>2 DEF Holders
    <3>2. OwnerIn(blocks', j) = OwnerIn(blocks, j)
      BY <3>1 DEF OwnerIn
    <3>3. OwnerOf(j) # name
      <4>1. CASE \E m \in DOMAIN blocks : j * Page \in Cells(blocks[m])
        BY <1>3, <2>2, <4>1 DEF Owned
      <4>2. CASE ~ \E m \in DOMAIN blocks : j * Page \in Cells(blocks[m])
        BY <1>3, <1>5, <4>2 DEF Owned
      <4> QED BY <4>1, <4>2
    <3> QED BY <1>3, <1>4, <3>2, <3>3 DEF Owning
  <2> QED BY <2>1, <2>2
<1> QED BY <1>2, <1>6, FreeStep

\* A run of free pages lies in one free node: the node that has the first page has
\* them all, for the node with the page behind it would touch it.
LEMMA RunInNode ==
  ASSUME Inv, NEW a \in Nat, NEW s \in Nat \ {0}, a + s <= PageCount,
         \A j \in a..(a + s - 1) : OwnerOf(j) = Nobody
  PROVE  \E f \in Free : f.size >= s * Page
<1>1. PICK end \in Nat : end = a + s
  OBVIOUS
<1>2. ASSUME NEW j \in Nat, a <= j, j < end
      PROVE  \E f \in Free : j * Page \in Cells(f)
  <2>1. j \in a..(a + s - 1)
    BY <1>1, <1>2
  <2>2. OwnerOf(j) = Nobody
    BY <2>1
  <2>3. PICK x \in Nat : x = j * Page
    BY PageOrder
  <2>4. x \in 0..(Size - 1)
    <3>1. j < PageCount
      BY <1>1, <1>2, Paging
    <3>2. j * Page < PageCount * Page
      BY <3>1, Paging, PageOrder
    <3> QED BY <2>3, <3>2, Paging
  <2>5. \A m \in DOMAIN blocks : j * Page \notin Cells(blocks[m])
    <3> SUFFICES ASSUME NEW m \in DOMAIN blocks, j * Page \in Cells(blocks[m]) PROVE FALSE
      OBVIOUS
    <3>1. OwnerOf(j) = m
      BY PagesOwned DEF Owned
    <3> QED BY <2>2, <3>1, AllocatorAssumption DEF Inv
  <2>6. (\E m \in DOMAIN blocks : x \in Cells(blocks[m])) \/ (\E f \in Free : x \in Cells(f))
    BY <2>4 DEF Inv, Covered
  <2> QED BY <2>3, <2>5, <2>6
<1>3. PICK f \in Free : a * Page \in Cells(f)
  BY <1>1, <1>2
<1>4. f \in Block /\ Paged(f)
  BY FreeBlocks
<1>5. PICK c, t : RunOf(f, c, t)
  BY <1>4, BlockRun
<1>6. /\ c \in Nat /\ t \in Nat \ {0} /\ f.size = t * Page /\ End(f) = (c + t) * Page
      /\ f.address = c * Page
      /\ \A q \in Nat : q * Page \in Cells(f) <=> c <= q /\ q < c + t
  BY <1>5 DEF RunOf
<1>7. c <= a /\ a < c + t
  BY <1>3, <1>6
<1>8. c + t >= end
  <2> SUFFICES ASSUME c + t < end PROVE FALSE
    BY <1>1, <1>6
  <2>1. PICK n \in Nat : n = c + t
    BY <1>6
  <2>2. PICK g \in Free : n * Page \in Cells(g)
    BY <1>2, <1>7, <2>1
  <2>3. f # g
    BY <1>6, <2>1, <2>2
  <2>4. g \in Block /\ Paged(g)
    BY FreeBlocks
  <2>5. PICK d, u : RunOf(g, d, u)
    BY <2>4, BlockRun
  <2>6. /\ d \in Nat /\ u \in Nat \ {0} /\ g.address = d * Page /\ End(g) = (d + u) * Page
        /\ \A q \in Nat : q * Page \in Cells(g) <=> d <= q /\ q < d + u
    BY <2>5 DEF RunOf
  <2>7. d <= n /\ n < d + u
    BY <2>2, <2>6
  <2>8. PICK v \in Nat : v = d + u
    BY <2>6
  <2>9. End(f) < g.address \/ End(g) < f.address
    BY <2>3, FreeApart
  <2>10. n * Page < d * Page \/ v * Page < c * Page
    BY <1>6, <2>1, <2>6, <2>8, <2>9
  <2>11. n < d \/ v < c
    BY <1>6, <2>6, <2>10, PageOrder
  <2> QED BY <1>6, <2>1, <2>6, <2>7, <2>8, <2>11
<1>9. s <= t
  BY <1>1, <1>6, <1>7, <1>8
<1>10. s * Page <= t * Page /\ s * Page \in Nat /\ t * Page \in Nat
  BY <1>6, <1>9, PageOrder
<1> QED BY <1>6, <1>10

LEMMA RefuseImplements ==
  ASSUME Inv, NEW size \in 1..Size, size % Page = 0, NEW policy \in {"F", "B", "W"},
         Chosen(policy, size) = {}, refused' = size, blocks' = blocks
  PROVE  Abstract!Next
<1>1. size \in Nat /\ size # 0 /\ size <= Size
  BY AllocatorAssumption
<1>2. PICK s \in Nat : size = s * Page
  BY <1>1, Paging, Multiple
<1>3. s \in 1..PageCount
  <2>1. s # 0
    BY <1>1, <1>2, Paging
  <2>2. s * Page <= PageCount * Page
    BY <1>1, <1>2, Paging
  <2>3. s <= PageCount
    BY <2>2, Paging, PageOrder
  <2> QED BY <2>1, <2>3, Paging
<1>4. \A f \in Free : ~(f.size >= s * Page)
  BY <1>1, <1>2, PolicyChooses DEF Chooses, Fit
<1>5. \A i \in PageIndex : ~ Abstract!IsRun(i, s)
  <2> SUFFICES ASSUME NEW i \in PageIndex, Abstract!IsRun(i, s) PROVE FALSE
    OBVIOUS
  <2>1. i \in Nat /\ \A j \in i..(i + s - 1) : j \in PageIndex \/ ~(i + s <= PageCount)
    BY Paging DEF PageIndex
  <2>2. i + s <= PageCount /\ \A j \in i..(i + s - 1) : OwnerOf(j) = Nobody
    BY <2>1 DEF Abstract!IsRun, PageIndex, PageCount
  <2> QED BY <1>3, <1>4, <2>1, <2>2, RunInNode
<1>6. (refused \div Page)' = s
  BY <1>2, Paging
<1>7. [i \in PageIndex |-> OwnerOf(i)]' = [i \in PageIndex |-> OwnerOf(i)]
  BY DEF OwnerOf, Cells, End, PageIndex, PageCount
<1>8. Abstract!Refuse(s)
  BY <1>5, <1>6, <1>7 DEF Abstract!Refuse, Abstract!Index, PageIndex, PageCount
<1> QED BY <1>3, <1>8 DEF Abstract!Next, PageCount

LEMMA InitImplements == Init => Abstract!Init
<1> SUFFICES ASSUME Init PROVE Abstract!Init
  OBVIOUS
<1>1. blocks = <<>> /\ refused = 0 /\ DOMAIN blocks = {}
  BY DEF Init
<1>2. \A i : OwnerOf(i) = Nobody
  BY <1>1 DEF OwnerOf
<1> QED BY <1>1, <1>2, Paging DEF Abstract!Init, Abstract!Index

LEMMA StepImplements == Inv /\ [Next]_vars => [Abstract!Next]_(Abstract!vars)
<1> SUFFICES ASSUME Inv, [Next]_vars PROVE [Abstract!Next]_(Abstract!vars)
  OBVIOUS
<1>1. ASSUME NEW name \in Names, NEW size \in 1..Size, NEW policy \in {"F", "B", "W"},
             Request(name, size, policy)
      PROVE  Abstract!Next
  <2> DEFINE rounded == Roundup(size)
             chosen == Chosen(policy, rounded)
  <2>1. rounded \in 1..Size /\ rounded % Page = 0 /\ rounded \in Nat
    BY Rounded, AllocatorAssumption
  <2>2. CASE chosen = {} /\ refused' = rounded /\ UNCHANGED <<byAddress, bySize, blocks>>
    <3>1. blocks' = blocks
      BY <2>2
    <3> HIDE DEF rounded
    <3> QED BY <2>1, <2>2, <3>1, RefuseImplements
  <2>3. ASSUME NEW node \in chosen, freelist_alloc(node, rounded), refused' = 0,
               blocks' = [n \in DOMAIN blocks \cup {name} |->
                            IF n = name THEN [address |-> node.address, size |-> rounded]
                            ELSE blocks[n]]
        PROVE  Abstract!Next
    <3>1. Chooses(policy, rounded)
      BY <2>1, PolicyChooses
    <3>2. node \in Free /\ node.size >= rounded
      BY <3>1 DEF Chooses, Fit
    <3>3. name \notin DOMAIN blocks
      BY <1>1 DEF Request
    <3> HIDE DEF rounded
    <3>4. Added(name, [address |-> node.address, size |-> rounded])
      BY <2>3, <3>3 DEF Added
    <3>5. rounded <= node.size
      <4>1. node.size \in Nat
        BY <3>2, FreeBlocks, Blocks
      <4> QED BY <2>1, <3>2, <4>1
    <3> QED BY <2>1, <2>3, <3>2, <3>3, <3>4, <3>5, GrantImplements
  <2> QED BY <1>1, <2>2, <2>3 DEF Request
<1>2. CASE UNCHANGED vars
  BY <1>2 DEF vars, Abstract!vars, OwnerOf, Cells, End
<1> QED BY <1>1, <1>2, ReleaseImplements DEF Next

\* The lists and the blocks are a memory of pages with one owner each: a request
\* takes a run of pages that nobody owns, a release gives back all that a name owns,
\* and allocator_alloc refuses only if the memory has no free run that is as long,
\* although it sees single nodes: merging leaves no two of them side by side.
THEOREM AllocatorImplementsHeap == Spec => ImplementsHeap
<1>1. Spec => []Inv
  BY InvHolds
<1>2. Init => Abstract!Init
  BY InitImplements
<1>3. Inv /\ [Next]_vars => [Abstract!Next]_(Abstract!vars)
  BY StepImplements
<1> QED BY <1>1, <1>2, <1>3, PTL DEF Spec, ImplementsHeap, Abstract!Spec

-----------------------------------------------------------------------------
(* VirtualMemory. *)

\* A sequence with a new last element.
LEMMA AppendOrder ==
  ASSUME NEW S, NEW s \in Seq(S), NEW x \in S, NEW t, t = Append(s, x)
  PROVE  /\ Range(t) = Range(s) \cup {x}
         /\ IsInjective(s) /\ x \notin Range(s) => IsInjective(t)
         /\ \A a, b : Before(t, a, b) <=> Before(s, a, b) \/ (a \in Range(s) /\ b = x)
<1>1. Len(s) \in Nat /\ DOMAIN s = 1..Len(s)
  BY LenProperties
<1>2. t \in Seq(S) /\ Len(t) = Len(s) + 1 /\ DOMAIN t = 1..(Len(s) + 1)
  BY AppendProperties, LenProperties
<1>3. (\A k \in DOMAIN s : t[k] = s[k]) /\ t[Len(s) + 1] = x
  BY <1>1, AppendProperties
<1>4. \A k \in DOMAIN t : k \in DOMAIN s \/ k = Len(s) + 1
  BY <1>1, <1>2
<1>5. \A k \in DOMAIN s : k \in DOMAIN t /\ k < Len(s) + 1 /\ Len(s) + 1 \in DOMAIN t
  BY <1>1, <1>2
<1>6. Range(t) = Range(s) \cup {x}
  <2>1. Len(s) + 1 \in DOMAIN t
    BY <1>1, <1>2
  <2> QED BY <1>3, <1>4, <1>5, <2>1 DEF Range
<1>7. ASSUME IsInjective(s), x \notin Range(s) PROVE IsInjective(t)
  <2>1. \A k \in DOMAIN s : s[k] # x
    BY <1>7 DEF Range
  <2> QED BY <1>3, <1>4, <1>7, <2>1 DEF IsInjective
<1>8. ASSUME NEW a, NEW b, Before(t, a, b) PROVE Before(s, a, b) \/ (a \in Range(s) /\ b = x)
  <2>1. PICK i \in DOMAIN t, j \in DOMAIN t : i < j /\ t[i] = a /\ t[j] = b
    BY <1>8 DEF Before
  <2>2. i \in DOMAIN s
    BY <1>1, <1>2, <1>4, <2>1
  <2> QED BY <1>3, <1>4, <2>1, <2>2 DEF Before, Range
<1>9. ASSUME NEW a, NEW b, Before(s, a, b) \/ (a \in Range(s) /\ b = x) PROVE Before(t, a, b)
  <2>1. CASE Before(s, a, b)
    BY <1>3, <1>5, <2>1 DEF Before
  <2>2. CASE a \in Range(s) /\ b = x
    BY <1>3, <1>5, <2>2 DEF Before, Range
  <2> QED BY <1>9, <2>1, <2>2
<1> QED BY <1>6, <1>7, <1>8, <1>9

\* LRU_cache_query puts what it finds at the end.
LEMMA TouchProperties ==
  ASSUME NEW S, NEW s \in Seq(S), IsInjective(s), NEW x \in S, NEW t, t = Touch(s, x)
  PROVE  /\ t \in Seq(S) /\ IsInjective(t)
         /\ Range(t) = Range(s) \cup {x}
         /\ \A a, b : Before(t, a, b) <=>
                \/ Before(s, a, b) /\ a # x /\ b # x
                \/ a \in Range(s) \ {x} /\ b = x
<1> DEFINE r == RemoveFirst(s, x)
<1>1. /\ r \in Seq(S) /\ IsInjective(r) /\ Range(r) = Range(s) \ {x}
      /\ \A a, b : Before(r, a, b) <=> Before(s, a, b) /\ a # x /\ b # x
  BY RemoveFirstProperties
<1>2. t = Append(r, x)
  BY DEF Touch
<1> HIDE DEF r
<1>3. t \in Seq(S)
  BY <1>1, <1>2, AppendProperties
<1>4. /\ Range(t) = Range(r) \cup {x}
      /\ IsInjective(r) /\ x \notin Range(r) => IsInjective(t)
      /\ \A a, b : Before(t, a, b) <=> Before(r, a, b) \/ (a \in Range(r) /\ b = x)
  BY <1>1, <1>2, AppendOrder
<1> QED BY <1>1, <1>3, <1>4

\* A touch of what is there does not make a cache longer.
LEMMA TouchLength ==
  ASSUME NEW S, NEW s \in Seq(S), NEW x \in S, x \in Range(s)
  PROVE  Len(Touch(s, x)) = Len(s)
<1> DEFINE I == {i \in 1..Len(s) : s[i] = x}
<1>1. Len(s) \in Nat /\ DOMAIN s = 1..Len(s)
  BY LenProperties
<1>2. (\E i \in 1..Len(s) : s[i] = x) /\ I # {} /\ I \in SUBSET Nat
  BY <1>1 DEF Range
<1>3. Min(I) \in I
  BY <1>2, MinNat
<1>4. RemoveFirst(s, x) = RemoveAt(s, Min(I))
  BY <1>2 DEF RemoveFirst, SelectInSeq
<1>5. Min(I) \in 1..Len(s)
  BY <1>3
<1> HIDE DEF I
<1>6. RemoveFirst(s, x) \in Seq(S) /\ Len(RemoveFirst(s, x)) = Len(s) - 1
  BY <1>4, <1>5, RemoveAtElements
<1>7. Len(Append(RemoveFirst(s, x), x)) = Len(RemoveFirst(s, x)) + 1
  BY <1>6, AppendProperties
<1> QED BY <1>1, <1>6, <1>7 DEF Touch

\* LRU_cache_insert takes the least recent out of a full cache.
LEMMA RoomProperties ==
  ASSUME NEW S, NEW s \in Seq(S), IsInjective(s), NEW n \in Nat, n # 0, Len(s) <= n,
         NEW r, r = Room(s, n)
  PROVE  /\ r \in Seq(S) /\ IsInjective(r) /\ Len(r) \in Nat /\ Len(r) < n
         /\ \A a, b : Before(r, a, b) => Before(s, a, b)
         /\ Len(s) # n => Range(r) = Range(s)
         /\ Len(s) = n =>
              /\ s # <<>> /\ Head(s) \in Range(s)
              /\ Range(r) = Range(s) \ {Head(s)}
              /\ \A a \in Range(r) : Before(s, Head(s), a)
<1>1. Len(s) \in Nat
  BY LenProperties
<1>2. DOMAIN s = 1..Len(s)
  BY LenProperties
<1>3. CASE Len(s) # n
  <2>1. r = s
    BY <1>3 DEF Room
  <2>2. Len(s) < n
    BY <1>1, <1>3
  <2> QED BY <1>1, <1>3, <2>1, <2>2
<1>4. CASE Len(s) = n
  <2>1. s # <<>> /\ 1 \in 1..Len(s) /\ Head(s) = s[1]
    BY <1>1, <1>4
  <2>2. r = SubSeq(s, 2, Len(s))
    BY <1>4, <2>1, TailIsSubSeq DEF Room
  <2>3. SubSeq(s, 2, Len(s)) \in Seq(S)
    BY <1>4, <2>1, <2>2, HeadTailProperties DEF Room
  <2>4. SubSeq(s, 1, 1 - 1) = <<>>
    BY SubSeqEmpty
  <2>5. RemoveAt(s, 1) = r
    BY <2>2, <2>3, <2>4, ConcatEmptySeq DEF RemoveAt
  <2>6. /\ r \in Seq(S) /\ IsInjective(r) /\ Len(r) = Len(s) - 1 /\ Range(r) = Range(s) \ {s[1]}
        /\ \A a, b : Before(r, a, b) <=> Before(s, a, b) /\ a # s[1] /\ b # s[1]
    BY <2>1, <2>5, RemoveAtProperties
  <2>7. ASSUME NEW a \in Range(r) PROVE Before(s, s[1], a)
    <3>1. PICK i \in DOMAIN s : s[i] = a
      BY <2>6 DEF Range
    <3>2. 1 < i /\ 1 \in DOMAIN s
      BY <1>2, <1>1, <2>1, <2>6, <3>1
    <3> QED BY <3>1, <3>2 DEF Before
  <2>8. s[1] \in Range(s)
    BY <1>2, <1>1, <2>1 DEF Range
  <2> QED BY <1>1, <1>4, <2>1, <2>6, <2>7, <2>8
<1> QED BY <1>3, <1>4

-----------------------------------------------------------------------------
(* The inductive invariant. *)

\* The TLB has one translation of a page; the LRU order of pages has no more
\* pages than there are frames; and whatever is in memory was used.
OrderInv ==
  /\ IsInjective(TLB) /\ IsInjective(recent)
  /\ Len(page_cache) <= FrameCount
  /\ Range(page_cache) \subseteq Range(recent)

\* What TLBIsRecent says, by the order of last use.
RecentInv ==
  /\ \A a, b : Before(TLB, a, b) => Before(recent, a.page, b.page)
  /\ \A e \in Range(TLB), q \in Range(page_cache) :
       Hit(q) = {} => Before(recent, q, e.page)

IInv == StructuresAgree /\ OrderInv /\ RecentInv

\* RecentInv is TLBIsRecent, stated of the cache the other way round.
LEMMA RecentIsTLBIsRecent == VMTypeOK => (RecentInv <=> TLBIsRecent)
<1> SUFFICES ASSUME VMTypeOK PROVE RecentInv <=> TLBIsRecent
  OBVIOUS
<1>1. DOMAIN TLB \subseteq Nat /\ DOMAIN recent \subseteq Nat
  BY LenProperties DEF VMTypeOK
<1>2. \A p, q : Before(recent, q, p) <=>
        \E i, j \in DOMAIN recent : i > j /\ recent[i] = p /\ recent[j] = q
  BY <1>1 DEF Before
<1>3. (\A a, b : Before(TLB, a, b) => Before(recent, a.page, b.page)) <=>
        \A i, j \in DOMAIN TLB : i > j => Before(recent, TLB[j].page, TLB[i].page)
  BY <1>1 DEF Before
<1> QED BY <1>2, <1>3 DEF RecentInv, TLBIsRecent

\* What the invariant says of a page.
LEMMA PageFacts ==
  ASSUME IInv
  PROVE  /\ \A p \in Pages : p \in Range(page_cache) <=> page_table[p] # Nil
         /\ Range(page_cache) \subseteq Pages
         /\ \A p \in Pages : page_table[p] # Nil => page_table[p] \in Frames /\ data[page_table[p]] # Nil
         /\ \A e \in Range(TLB) : /\ e \in Entry /\ e.page \in Range(page_cache)
                                  /\ e = [page |-> e.page, frame |-> page_table[e.page]]
         /\ Nil \notin Pages \cup Writes \cup Frames
<1>1. DOMAIN page_cache = 1..Len(page_cache)
  BY LenProperties DEF IInv, StructuresAgree, VMTypeOK
<1>2. \A p \in Pages : p \in Range(page_cache) <=> page_table[p] # Nil
  BY <1>1 DEF IInv, StructuresAgree, OneStory, Contains, Range
<1>3. Range(page_cache) \subseteq Pages /\ Range(TLB) \subseteq Entry
  BY RangeOfSeq DEF IInv, StructuresAgree, VMTypeOK
<1>4. Nil \notin Pages \cup Writes \cup Frames
  BY MemoryAssumption DEF Frames
<1>5. \A p \in Pages : page_table[p] # Nil => page_table[p] \in Frames /\ data[page_table[p]] # Nil
  BY <1>2 DEF IInv, StructuresAgree, VMTypeOK, OneStory
<1>6. ASSUME NEW e \in Range(TLB)
      PROVE  /\ e \in Entry /\ e.page \in Range(page_cache)
             /\ e = [page |-> e.page, frame |-> page_table[e.page]]
  <2>1. e \in Entry /\ page_table[e.page] = e.frame
    BY <1>3 DEF IInv, StructuresAgree, TLBAgrees
  <2> QED BY <1>2, <1>4, <2>1 DEF Entry
<1> QED BY <1>2, <1>3, <1>4, <1>5, <1>6

\* TLB_remove takes the translation of the victim out.
LEMMA ShotProperties ==
  ASSUME IInv
  PROVE  /\ Shot \in Seq(Entry) /\ IsInjective(Shot) /\ Len(Shot) \in Nat /\ Len(Shot) <= TLBSize
         /\ Range(Shot) = {e \in Range(TLB) : e.page \notin Victims}
         /\ \A a, b : Before(Shot, a, b) => Before(TLB, a, b)
<1> DEFINE I == {i \in 1..Len(TLB) : TLB[i].page \in Victims}
<1>1. TLB \in Seq(Entry) /\ Len(TLB) \in Nat /\ DOMAIN TLB = 1..Len(TLB) /\ Len(TLB) <= TLBSize
      /\ IsInjective(TLB) /\ TLBSize \in Nat
  BY LenProperties, MemoryAssumption DEF IInv, StructuresAgree, VMTypeOK, OrderInv
<1>2. CASE I # {}
  <2>1. I \in SUBSET Nat
    BY <1>1
  <2>2. Min(I) \in I
    BY <1>2, <2>1, MinNat
  <2>3. Shot = RemoveAt(TLB, Min(I))
    BY <1>2 DEF Shot, RemoveFirstMatch, SelectInSeq
  <2>4. Min(I) \in 1..Len(TLB) /\ TLB[Min(I)].page \in Victims
    BY <2>2
  <2> HIDE DEF I
  <2>5. /\ Shot \in Seq(Entry) /\ IsInjective(Shot) /\ Len(Shot) = Len(TLB) - 1
        /\ Range(Shot) = Range(TLB) \ {TLB[Min(I)]}
        /\ \A a, b : Before(Shot, a, b) <=> Before(TLB, a, b) /\ a # TLB[Min(I)] /\ b # TLB[Min(I)]
    BY <1>1, <2>3, <2>4, RemoveAtProperties
  <2>6. TLB[Min(I)] \in Range(TLB)
    BY <1>1, <2>4 DEF Range
  <2>7. \A e \in Range(TLB) : e.page \in Victims => e = TLB[Min(I)]
    <3> SUFFICES ASSUME NEW e \in Range(TLB), e.page \in Victims PROVE e = TLB[Min(I)]
      OBVIOUS
    <3>1. e.page = TLB[Min(I)].page
      BY <2>4 DEF Victims
    <3> QED BY <2>6, <3>1, PageFacts
  <2> QED BY <1>1, <2>4, <2>5, <2>6, <2>7
<1>3. CASE I = {}
  <2>1. Shot = TLB
    BY <1>3 DEF Shot, RemoveFirstMatch
  <2>2. \A e \in Range(TLB) : e.page \notin Victims
    BY <1>1, <1>3 DEF Range
  <2> QED BY <1>1, <2>1, <2>2
<1> QED BY <1>2, <1>3

\* virtual_memory_create establishes the invariant.
LEMMA VMInitInv == VMInit => IInv
<1> SUFFICES ASSUME VMInit PROVE IInv
  OBVIOUS
<1>1. /\ page_cache = <<>> /\ TLB = <<>> /\ recent = <<>>
      /\ \A S : <<>> \in Seq(S) /\ Len(<<>>) = 0
  BY EmptySeq DEF VMInit
<1>2. Range(<<>>) = {} /\ IsInjective(<<>>) /\ \A x, y : ~Before(<<>>, x, y)
  BY DEF Range, IsInjective, Before
<1>3. VMTypeOK
  BY <1>1, MemoryAssumption DEF VMInit, VMTypeOK
<1>4. \A p \in Pages : page_table[p] = Nil /\ ~Contains(page_cache, p)
  BY <1>1 DEF VMInit, Contains
<1>5. Nil \notin Frames
  BY MemoryAssumption DEF Frames
<1>6. OneStory
  <2>1. {f \in Frames : data[f] # Nil} = {}
    BY DEF VMInit
  <2> QED BY <1>1, <1>2, <1>4, <2>1 DEF OneStory
<1>7. TLBAgrees /\ CleanIsStored
  BY <1>1, <1>2, <1>4, <1>5 DEF TLBAgrees, CleanIsStored
<1>8. OrderInv /\ RecentInv
  BY <1>1, <1>2, MemoryAssumption DEF OrderInv, RecentInv
<1> QED BY <1>3, <1>6, <1>7, <1>8 DEF IInv, StructuresAgree

\* virtual_memory_destroy and _create leave the initial state.
LEMMA ReopenStep == Reopen => IInv'
<1> SUFFICES ASSUME Reopen PROVE IInv'
  OBVIOUS
<1>1. /\ page_cache' = <<>> /\ TLB' = <<>> /\ recent' = <<>>
      /\ \A S : <<>> \in Seq(S) /\ Len(<<>>) = 0
  BY EmptySeq DEF Reopen
<1>2. Range(<<>>) = {} /\ IsInjective(<<>>) /\ \A x, y : ~Before(<<>>, x, y)
  BY DEF Range, IsInjective, Before
<1>3. VMTypeOK'
  BY <1>1, MemoryAssumption DEF Reopen, VMTypeOK
<1>4. \A p \in Pages : page_table'[p] = Nil /\ ~Contains(page_cache', p)
  BY <1>1 DEF Reopen, Contains
<1>5. Nil \notin Frames
  BY MemoryAssumption DEF Frames
<1>6. OneStory'
  <2>1. {f \in Frames : data'[f] # Nil} = {}
    BY DEF Reopen
  <2> QED BY <1>1, <1>2, <1>4, <2>1 DEF OneStory
<1>7. TLBAgrees' /\ CleanIsStored'
  BY <1>1, <1>2, <1>4, <1>5 DEF TLBAgrees, CleanIsStored
<1>8. OrderInv' /\ RecentInv'
  BY <1>1, <1>2, MemoryAssumption DEF OrderInv, RecentInv
<1> QED BY <1>3, <1>6, <1>7, <1>8 DEF IInv, StructuresAgree

-----------------------------------------------------------------------------
(* A page that is in memory. *)

\* Its frame is used: the frames, the page table and the order of pages agree on.
LEMMA HitUse ==
  ASSUME IInv, NEW p \in Range(page_cache), NEW v \in Writes \cup {Nil},
         UNCHANGED page_table, page_cache' \in Seq(Pages), IsInjective(page_cache'),
         Range(page_cache') = Range(page_cache),
         NEW f, f = page_table[p],
         dirty' = Dirtied(dirty, f, v), Use(p, f, data[f], v)
  PROVE  /\ page_table' \in [Pages -> Frames \cup {Nil}]
         /\ data' \in [Frames -> Pages \cup Writes \cup {Nil}]
         /\ dirty' \subseteq Frames
         /\ result' \in (Pages \X (Pages \cup Writes)) \cup {Nil}
         /\ OneStory' /\ CleanIsStored'
<1>1. p \in Pages /\ f \in Frames /\ data[f] # Nil /\ Nil \notin Pages \cup Writes \cup Frames
  BY PageFacts
<1>2. VMTypeOK /\ OneStory /\ CleanIsStored
  BY DEF IInv, StructuresAgree
<1>3. data' = [data EXCEPT ![f] = IF v = Nil THEN data[f] ELSE v] /\ result' = <<p, data'[f]>>
  BY DEF Use
<1>4. data'[f] \in Pages \cup Writes /\ \A g \in Frames : g # f => data'[g] = data[g]
  BY <1>1, <1>2, <1>3 DEF VMTypeOK
<1>5. data' \in [Frames -> Pages \cup Writes \cup {Nil}]
  BY <1>1, <1>2, <1>3 DEF VMTypeOK
<1>6. dirty \subseteq dirty' /\ dirty' \subseteq Frames /\ (v # Nil => f \in dirty')
  BY <1>1, <1>2 DEF Dirtied, VMTypeOK
<1>7. {g \in Frames : data'[g] # Nil} = {g \in Frames : data[g] # Nil}
  BY <1>1, <1>4
<1>8. \A q \in Pages : Contains(page_cache', q) <=> Contains(page_cache, q)
  <2>1. DOMAIN page_cache = 1..Len(page_cache)
    BY <1>2, LenProperties DEF VMTypeOK
  <2>2. DOMAIN page_cache' = 1..Len(page_cache')
    BY LenProperties
  <2> QED BY <2>1, <2>2 DEF Contains, Range
<1>9. OneStory'
  BY <1>2, <1>7, <1>8 DEF OneStory
<1>10. CleanIsStored'
  <2> SUFFICES ASSUME NEW q \in Pages, page_table[q] \in Frames \ dirty' PROVE data'[page_table[q]] = q
    BY DEF CleanIsStored
  <2>1. data[page_table[q]] = q
    BY <1>2, <1>6 DEF CleanIsStored
  <2>2. data'[page_table[q]] = data[page_table[q]]
    BY <1>1, <1>2, <1>3, <1>4, <1>6 DEF VMTypeOK
  <2> QED BY <2>1, <2>2
<1> QED BY <1>1, <1>2, <1>3, <1>4, <1>5, <1>6, <1>9, <1>10 DEF VMTypeOK

\* What a use does to the order of last use.
LEMMA RecentTouched ==
  ASSUME IInv, NEW p \in Pages, recent' = Touch(recent, p)
  PROVE  /\ recent' \in Seq(Pages) /\ IsInjective(recent') /\ Range(recent') = Range(recent) \cup {p}
         /\ \A a, b : Before(recent, a, b) /\ a # p /\ b # p => Before(recent', a, b)
         /\ \A a \in Range(recent) \ {p} : Before(recent', a, p)
<1>1. recent \in Seq(Pages) /\ IsInjective(recent)
  BY DEF IInv, StructuresAgree, VMTypeOK, OrderInv
<1> QED BY <1>1, TouchProperties

\* A hit in the TLB moves one translation and one page to the end.
LEMMA TLBHitStep ==
  ASSUME IInv, NEW p \in Pages, NEW v \in Writes \cup {Nil}, TLBHit(p, v)
  PROVE  IInv'
<1>1. PICK e \in Range(TLB) :
        /\ e.page = p /\ TLB' = Touch(TLB, e) /\ dirty' = Dirtied(dirty, e.frame, v)
        /\ Use(p, e.frame, data[e.frame], v) /\ UNCHANGED <<page_table, page_cache>>
  BY DEF TLBHit, Hit
<1>2. e \in Entry /\ p \in Range(page_cache) /\ e.frame = page_table[p]
  BY <1>1, PageFacts DEF Entry
<1>3. VMTypeOK /\ OneStory /\ TLBAgrees /\ OrderInv /\ RecentInv
  BY DEF IInv, StructuresAgree
<1>4. /\ page_table' \in [Pages -> Frames \cup {Nil}]
      /\ data' \in [Frames -> Pages \cup Writes \cup {Nil}]
      /\ dirty' \subseteq Frames
      /\ result' \in (Pages \X (Pages \cup Writes)) \cup {Nil}
      /\ OneStory' /\ CleanIsStored'
  BY <1>1, <1>2, <1>3, HitUse DEF OneStory, VMTypeOK
<1>5. TLB \in Seq(Entry) /\ IsInjective(TLB) /\ Len(TLB) <= TLBSize
  BY <1>3 DEF VMTypeOK, OrderInv
<1>6. TLB' = Touch(TLB, e) /\ e \in Entry
  BY <1>1, <1>2
<1>7. /\ TLB' \in Seq(Entry) /\ IsInjective(TLB') /\ Range(TLB') = Range(TLB) \cup {e}
      /\ \A a, b : Before(TLB', a, b) <=>
           \/ Before(TLB, a, b) /\ a # e /\ b # e
           \/ a \in Range(TLB) \ {e} /\ b = e
  BY <1>5, <1>6, TouchProperties
<1>8. TLB' \in Seq(Entry) /\ IsInjective(TLB') /\ Range(TLB') = Range(TLB)
  BY <1>7
<1>9. Len(TLB') <= TLBSize
  BY <1>1, <1>2, <1>5, TouchLength
<1>10. /\ recent' \in Seq(Pages) /\ IsInjective(recent') /\ Range(recent') = Range(recent) \cup {p}
       /\ \A a, b : Before(recent, a, b) /\ a # p /\ b # p => Before(recent', a, b)
       /\ \A a \in Range(recent) \ {p} : Before(recent', a, p)
  BY <1>1, RecentTouched DEF Use
<1>11. VMTypeOK'
  BY <1>1, <1>3, <1>4, <1>8, <1>9, <1>10 DEF VMTypeOK
<1>12. TLBAgrees'
  BY <1>1, <1>3, <1>8 DEF TLBAgrees
<1>13. OrderInv'
  BY <1>1, <1>3, <1>8, <1>10 DEF OrderInv
<1>14. \A a \in Range(TLB) : a # e => a.page # p
  BY <1>1, PageFacts
<1>15. \A a \in Range(TLB) : a.page \in Range(recent)
  BY <1>3, PageFacts DEF OrderInv
<1>16. \A a, b : Before(TLB, a, b) => a \in Range(TLB) /\ b \in Range(TLB)
  BY DEF Before, Range
<1>17. ASSUME NEW a, NEW b, Before(TLB', a, b) PROVE Before(recent', a.page, b.page)
  <2>1. CASE Before(TLB, a, b) /\ a # e /\ b # e
    BY <1>3, <1>10, <1>14, <1>16, <2>1 DEF RecentInv
  <2>2. CASE a \in Range(TLB) \ {e} /\ b = e
    BY <1>1, <1>10, <1>14, <1>15, <2>2
  <2> QED BY <1>17, <1>7, <2>1, <2>2
<1>18. ASSUME NEW a \in Range(TLB'), NEW q \in Range(page_cache'), Hit(q)' = {}
       PROVE  Before(recent', q, a.page)
  <2>1. Hit(q) = {} /\ q # p /\ q \in Range(page_cache)
    BY <1>1, <1>8, <1>18 DEF Hit
  <2>2. Before(recent, q, a.page)
    BY <1>3, <1>8, <2>1 DEF RecentInv
  <2>3. q \in Range(recent)
    BY <1>3, <2>1 DEF OrderInv
  <2> QED BY <1>10, <2>1, <2>2, <2>3
<1> QED BY <1>4, <1>11, <1>12, <1>13, <1>17, <1>18 DEF IInv, StructuresAgree, RecentInv

-----------------------------------------------------------------------------
(* A page that the TLB has no translation of. *)

\* What enters a cache is the last, what gives way was the first.
Entered(s, n, t) ==
  /\ n \in Range(t) /\ Range(t) \subseteq Range(s) \cup {n}
  /\ \A a, b : Before(t, a, b) => a \in Range(s) /\ b \in Range(t)
  /\ \A a : \A b \in Range(s) : Before(t, a, b) => Before(s, a, b)
  /\ \A h \in Range(s) \ Range(t) : \A a \in Range(t) \cap Range(s) : Before(s, h, a)

\* LRU_cache_insert
LEMMA InsertProperties ==
  ASSUME NEW S, NEW s \in Seq(S), IsInjective(s), NEW c \in Nat, c # 0, Len(s) <= c,
         NEW n \in S, n \notin Range(s), NEW r, r = Room(s, c), NEW t, t = Append(r, n)
  PROVE  t \in Seq(S) /\ IsInjective(t) /\ Len(t) <= c /\ Entered(s, n, t)
<1>1. /\ r \in Seq(S) /\ IsInjective(r) /\ Len(r) \in Nat /\ Len(r) < c
      /\ \A a, b : Before(r, a, b) => Before(s, a, b)
      /\ Len(s) # c => Range(r) = Range(s)
      /\ Len(s) = c =>
           /\ s # <<>> /\ Head(s) \in Range(s)
           /\ Range(r) = Range(s) \ {Head(s)}
           /\ \A a \in Range(r) : Before(s, Head(s), a)
  BY RoomProperties
<1>2. t = Append(r, n)
  OBVIOUS
<1>3. Range(r) \subseteq Range(s) /\ n \notin Range(r)
  BY <1>1
<1>4. t \in Seq(S) /\ Len(t) = Len(r) + 1
  BY <1>1, <1>2, AppendProperties
<1>5. /\ Range(t) = Range(r) \cup {n}
      /\ IsInjective(r) /\ n \notin Range(r) => IsInjective(t)
      /\ \A a, b : Before(t, a, b) <=> Before(r, a, b) \/ (a \in Range(r) /\ b = n)
  <2>1. r \in Seq(S) /\ n \in S
    BY <1>1
  <2> QED BY ONLY <2>1, <1>2, AppendOrder
<1>6. Len(t) <= c
  BY <1>1, <1>4
<1>7. /\ \A a, b : Before(t, a, b) => a \in Range(s) /\ b \in Range(t)
      /\ \A a : \A b \in Range(s) : Before(t, a, b) => Before(s, a, b)
  <2>1. \A a, b : Before(t, a, b) => b \in Range(t)
    BY DEF Before, Range
  <2>2. \A a, b : Before(s, a, b) => a \in Range(s)
    BY DEF Before, Range
  <2> QED BY <1>1, <1>3, <1>5, <2>1, <2>2
<1>8. ASSUME NEW h \in Range(s) \ Range(t), NEW a \in Range(t) \cap Range(s) PROVE Before(s, h, a)
  <2>1. Range(r) # Range(s)
    BY <1>5, <1>8
  <2>2. h = Head(s) /\ a \in Range(r)
    BY <1>1, <1>5, <1>8, <2>1
  <2> QED BY <1>1, <2>1, <2>2
<1>9. t \in Seq(S) /\ IsInjective(t) /\ n \in Range(t) /\ Range(t) \subseteq Range(s) \cup {n}
  BY <1>1, <1>3, <1>4, <1>5
<1>10. Entered(s, n, t)
  BY <1>7, <1>8, <1>9 DEF Entered
<1> QED BY <1>6, <1>9, <1>10

\* The TLB still has the pages used last when p gets an entry, given that the
\* pages in memory before are those that had been used, but for p and those evicted.
LEMMA InsertRecent ==
  ASSUME IInv, NEW p \in Pages, NEW f \in Frames, Hit(p) = {},
         NEW tlb \in Seq(Entry), IsInjective(tlb), Len(tlb) <= TLBSize,
         Range(tlb) \subseteq Range(TLB),
         \A a, b : Before(tlb, a, b) => Before(TLB, a, b),
         TLB' = TLB_insert(tlb, p, f), recent' = Touch(recent, p),
         Range(page_cache') \subseteq Range(page_cache) \cup {p},
         \A e \in Range(TLB) : e.page \in Range(page_cache') => e \in Range(tlb)
  PROVE  /\ RecentInv'
         /\ TLB' \in Seq(Entry) /\ IsInjective(TLB') /\ Len(TLB') <= TLBSize
         /\ Range(TLB') \subseteq Range(tlb) \cup {[page |-> p, frame |-> f]}
         /\ recent' \in Seq(Pages) /\ IsInjective(recent')
         /\ Range(page_cache') \subseteq Range(recent')
<1> DEFINE n == [page |-> p, frame |-> f]
<1>1. \A e \in Range(TLB) : e.page # p
  BY DEF Hit
<1>2. /\ TLB' \in Seq(Entry) /\ IsInjective(TLB') /\ Len(TLB') <= TLBSize
      /\ n \in Range(TLB') /\ Range(TLB') \subseteq Range(tlb) \cup {n}
      /\ \A a, b : Before(TLB', a, b) => a \in Range(tlb) /\ b \in Range(TLB')
      /\ \A a : \A b \in Range(tlb) : Before(TLB', a, b) => Before(tlb, a, b)
      /\ \A h \in Range(tlb) \ Range(TLB') : \A a \in Range(TLB') \cap Range(tlb) : Before(tlb, h, a)
  <2>1. n \in Entry /\ n.page = p
    BY DEF Entry
  <2>2. n \notin Range(tlb)
    BY <1>1, <2>1
  <2>3. TLBSize \in Nat /\ TLBSize # 0
    BY MemoryAssumption
  <2> DEFINE r == Room(tlb, TLBSize)
  <2>4. r = Room(tlb, TLBSize) /\ TLB' = Append(r, n)
    BY DEF TLB_insert
  <2> HIDE DEF n, r
  <2>5. TLB' \in Seq(Entry) /\ IsInjective(TLB') /\ Len(TLB') <= TLBSize /\ Entered(tlb, n, TLB')
    BY <2>1, <2>2, <2>3, <2>4, InsertProperties
  <2> QED BY <2>5 DEF Entered
<1>3. n.page = p
  OBVIOUS
<1> HIDE DEF n
<1>4. /\ recent' \in Seq(Pages) /\ IsInjective(recent') /\ Range(recent') = Range(recent) \cup {p}
      /\ \A a, b : Before(recent, a, b) /\ a # p /\ b # p => Before(recent', a, b)
      /\ \A a \in Range(recent) \ {p} : Before(recent', a, p)
  BY RecentTouched
<1>5. OrderInv /\ RecentInv
  BY DEF IInv
<1>6. \A a \in Range(TLB) : a.page \in Range(recent)
  BY <1>5, PageFacts DEF OrderInv
<1>7. \A a, b : Before(TLB, a, b) => a \in Range(TLB) /\ b \in Range(TLB)
  BY DEF Before, Range
<1>8. ASSUME NEW a, NEW b, Before(TLB, a, b) PROVE Before(recent', a.page, b.page)
  BY <1>1, <1>4, <1>5, <1>7, <1>8 DEF RecentInv
<1>9. ASSUME NEW a, NEW b, Before(TLB', a, b) PROVE Before(recent', a.page, b.page)
  <2>1. CASE b \in Range(tlb)
    BY <1>2, <1>8, <1>9, <2>1
  <2>2. CASE b = n
    BY <1>1, <1>2, <1>3, <1>4, <1>6, <1>9, <2>2
  <2> QED BY <1>2, <1>9, <2>1, <2>2
<1>10. ASSUME NEW e \in Range(TLB'), NEW q \in Range(page_cache'), Hit(q)' = {}
       PROVE  Before(recent', q, e.page)
  <2>1. q # p /\ q \in Range(page_cache) /\ q \in Range(recent)
    BY <1>2, <1>3, <1>5, <1>10 DEF Hit, OrderInv
  <2>2. CASE e = n
    BY <1>3, <1>4, <2>1, <2>2
  <2>3. CASE e # n /\ Hit(q) = {}
    <3>1. Before(recent, q, e.page) /\ e.page # p
      BY <1>1, <1>2, <1>5, <2>1, <2>3 DEF RecentInv
    <3> QED BY <1>4, <2>1, <3>1
  <2>4. CASE e # n /\ Hit(q) # {}
    <3>1. PICK h \in Range(TLB) : h.page = q
      BY <2>4 DEF Hit
    <3>2. h \in Range(tlb) \ Range(TLB')
      BY <1>10, <3>1 DEF Hit
    <3>3. Before(TLB, h, e)
      BY <1>2, <2>4, <3>2
    <3> QED BY <1>8, <3>1, <3>3
  <2> QED BY <2>2, <2>3, <2>4
<1>11. Range(page_cache') \subseteq Range(recent')
  BY <1>4, <1>5 DEF OrderInv
<1> QED BY <1>2, <1>4, <1>9, <1>10, <1>11 DEF RecentInv, n

\* A page in memory gets a translation, for which an older one may give way.
LEMMA PageHitStep ==
  ASSUME IInv, NEW p \in Pages, NEW v \in Writes \cup {Nil}, PageHit(p, v)
  PROVE  IInv'
<1> DEFINE f == page_table[p]
<1>1. /\ Hit(p) = {} /\ page_cache' = Touch(page_cache, p) /\ TLB' = TLB_insert(TLB, p, f)
      /\ dirty' = Dirtied(dirty, f, v) /\ Use(p, f, data[f], v) /\ UNCHANGED page_table
  BY DEF PageHit
<1>2. VMTypeOK /\ OneStory /\ TLBAgrees /\ OrderInv /\ RecentInv
  BY DEF IInv, StructuresAgree
<1>3. page_cache \in Seq(Pages) /\ IsInjective(page_cache)
  BY <1>2 DEF VMTypeOK, OneStory
<1>4. p \in Range(page_cache)
  <2>1. DOMAIN page_cache = 1..Len(page_cache)
    BY <1>3, LenProperties
  <2> QED BY <2>1 DEF PageHit, Contains, Range
<1>5. f \in Frames
  BY <1>4, PageFacts
<1>6. page_cache' \in Seq(Pages) /\ IsInjective(page_cache') /\ Range(page_cache') = Range(page_cache) \cup {p}
  BY <1>1, <1>3, TouchProperties
<1>7. Range(page_cache') = Range(page_cache)
  BY <1>4, <1>6
<1>8. Len(page_cache') = Len(page_cache)
  BY <1>1, <1>3, <1>4, TouchLength
<1>9. /\ page_table' \in [Pages -> Frames \cup {Nil}]
      /\ data' \in [Frames -> Pages \cup Writes \cup {Nil}]
      /\ dirty' \subseteq Frames
      /\ result' \in (Pages \X (Pages \cup Writes)) \cup {Nil}
      /\ OneStory' /\ CleanIsStored'
  BY <1>1, <1>4, <1>6, <1>7, HitUse
<1>10. TLB \in Seq(Entry) /\ IsInjective(TLB) /\ Len(TLB) <= TLBSize
  BY <1>2 DEF VMTypeOK, OrderInv
<1>11. recent' = Touch(recent, p)
  BY <1>1 DEF Use
<1>12. /\ RecentInv'
       /\ TLB' \in Seq(Entry) /\ IsInjective(TLB') /\ Len(TLB') <= TLBSize
       /\ Range(TLB') \subseteq Range(TLB) \cup {[page |-> p, frame |-> f]}
       /\ recent' \in Seq(Pages) /\ IsInjective(recent')
       /\ Range(page_cache') \subseteq Range(recent')
  BY <1>1, <1>5, <1>7, <1>10, <1>11, InsertRecent
<1>13. VMTypeOK'
  BY <1>6, <1>9, <1>12 DEF VMTypeOK
<1>14. TLBAgrees'
  BY <1>1, <1>2, <1>12 DEF TLBAgrees
<1>15. OrderInv'
  BY <1>2, <1>8, <1>12 DEF OrderInv
<1> QED BY <1>9, <1>12, <1>13, <1>14, <1>15 DEF IInv, StructuresAgree

-----------------------------------------------------------------------------
(* A page that is not in memory. *)

\* A page fault finds a frame: the victim's, which no other page has, or one
\* that is not valid, since there are fewer pages in memory than frames.
LEMMA FaultFrame ==
  ASSUME IInv, NEW f, f = FrameToInsert
  PROVE  /\ f \in Frames /\ Victims \subseteq Range(page_cache)
         /\ \A q \in Range(page_cache) \ Victims : page_table[q] # f
         /\ {g \in Frames : data[g] # Nil} \ {f} = {page_table[q] : q \in Range(page_cache) \ Victims}
<1>1. /\ page_cache \in Seq(Pages) /\ IsInjective(page_cache) /\ Len(page_cache) <= FrameCount
      /\ \A q, r \in Range(page_cache) : page_table[q] = page_table[r] => q = r
      /\ {g \in Frames : data[g] # Nil} = {page_table[q] : q \in Range(page_cache)}
  BY DEF IInv, StructuresAgree, VMTypeOK, OneStory, OrderInv
<1>2. FrameCount \in Nat /\ FrameCount # 0
  BY MemoryAssumption
<1>3. Len(page_cache) \in Nat
  BY <1>1, LenProperties
<1>4. DOMAIN page_cache = 1..Len(page_cache)
  BY <1>1, LenProperties
<1>5. CASE Len(page_cache) = FrameCount
  <2> DEFINE h == Head(page_cache)
  <2>1. h \in Range(page_cache)
    BY <1>1, <1>2, <1>5, RoomProperties
  <2>2. Victims = {h} /\ f = page_table[h]
    BY <1>5 DEF Victims, FrameToInsert
  <2> HIDE DEF h
  <2>3. f \in Frames
    BY <2>1, <2>2, PageFacts
  <2>4. \A q \in Range(page_cache) \ Victims : page_table[q] # f
    BY <1>1, <2>1, <2>2
  <2> QED BY <1>1, <2>1, <2>2, <2>3, <2>4
<1>6. CASE Len(page_cache) # FrameCount
  <2> DEFINE FreeFrames == {g \in Frames : data[g] = Nil}
  <2>1. Victims = {} /\ f = CHOOSE g \in Frames : data[g] = Nil /\ \A k \in Frames : data[k] = Nil => g <= k
    BY <1>6 DEF Victims, FrameToInsert
  <2>2. FreeFrames # {}
    <3> SUFFICES ASSUME FreeFrames = {} PROVE FALSE
      OBVIOUS
    <3> DEFINE m == [i \in 1..Len(page_cache) |-> page_table[page_cache[i]]]
    <3>1. Frames = {page_table[q] : q \in Range(page_cache)}
      BY <1>1
    <3>2. \A i \in 1..Len(page_cache) : page_cache[i] \in Range(page_cache)
      BY <1>4 DEF Range
    <3>3. m \in [1..Len(page_cache) -> Frames]
      BY <3>1, <3>2
    <3>4. \A g \in Frames : \E i \in 1..Len(page_cache) : m[i] = g
      BY <1>4, <3>1 DEF Range
    <3>5. ExistsSurjection(1..Len(page_cache), Frames)
      BY <3>3, <3>4 DEF ExistsSurjection, Surjection
    <3>6. Cardinality(Frames) <= Len(page_cache)
      BY <1>3, <3>5, FS_SurjCardinalityBound
    <3>7. Cardinality(0..(FrameCount - 1)) = FrameCount
      <4>1. 0 \in Int /\ FrameCount - 1 \in Int /\ ~(0 > FrameCount - 1)
        BY <1>2
      <4>2. Cardinality(0..(FrameCount - 1)) = FrameCount - 1 - 0 + 1
        BY <4>1, FS_Interval
      <4> QED BY <1>2, <4>2
    <3> QED BY <1>1, <1>2, <1>3, <1>6, <3>6, <3>7 DEF Frames
  <2>3. Min(FreeFrames) \in FreeFrames /\ \A k \in FreeFrames : Min(FreeFrames) <= k
    <3>1. FreeFrames \in SUBSET Nat
      BY <1>2 DEF Frames
    <3> QED BY <2>2, <3>1, MinNat
  <2>4. \E g \in Frames : data[g] = Nil /\ \A k \in Frames : data[k] = Nil => g <= k
    BY <2>3
  <2>5. f \in Frames /\ data[f] = Nil
    BY <2>1, <2>4
  <2>6. \A q \in Range(page_cache) : page_table[q] # f
    <3>1. Range(page_cache) \subseteq Pages
      BY PageFacts
    <3> QED BY <2>5, <3>1, PageFacts
  <2> QED BY <1>1, <2>1, <2>5, <2>6
<1> QED BY <1>5, <1>6

\* The pages in memory after a page fault
LEMMA FaultPages ==
  ASSUME IInv, NEW p \in Pages, p \notin Range(page_cache),
         page_cache' = Append(Room(page_cache, FrameCount), p)
  PROVE  /\ page_cache' \in Seq(Pages) /\ IsInjective(page_cache') /\ Len(page_cache') <= FrameCount
         /\ Range(page_cache') = (Range(page_cache) \ Victims) \cup {p}
<1> DEFINE r == Room(page_cache, FrameCount)
<1>1. page_cache \in Seq(Pages) /\ IsInjective(page_cache) /\ Len(page_cache) <= FrameCount
  BY DEF IInv, StructuresAgree, VMTypeOK, OneStory, OrderInv
<1>2. FrameCount \in Nat /\ FrameCount # 0
  BY MemoryAssumption
<1>3. r = Room(page_cache, FrameCount) /\ page_cache' = Append(r, p)
  OBVIOUS
<1> HIDE DEF r
<1>4. /\ r \in Seq(Pages) /\ IsInjective(r) /\ Len(r) \in Nat /\ Len(r) < FrameCount
      /\ Len(page_cache) # FrameCount => Range(r) = Range(page_cache)
      /\ Len(page_cache) = FrameCount => Range(r) = Range(page_cache) \ {Head(page_cache)}
  BY <1>1, <1>2, <1>3, RoomProperties
<1>5. Range(r) = Range(page_cache) \ Victims
  BY <1>4 DEF Victims
<1>6. page_cache' \in Seq(Pages) /\ IsInjective(page_cache') /\ Len(page_cache') <= FrameCount
  BY <1>1, <1>2, <1>3, InsertProperties
<1>7. Range(page_cache') = Range(r) \cup {p}
  <2>1. r \in Seq(Pages)
    BY <1>4
  <2> QED BY <1>3, <2>1, AppendOrder
<1> QED BY <1>5, <1>6, <1>7

\* A page fault leaves page table, order, frames and TLB in agreement.
LEMMA PageFaultStep ==
  ASSUME IInv, NEW p \in Pages, NEW v \in Writes \cup {Nil}, PageFault(p, v)
  PROVE  IInv'
<1> DEFINE f == FrameToInsert
<1>1. /\ Hit(p) = {} /\ page_table' = Mapped(p, f)
      /\ page_cache' = Append(Room(page_cache, FrameCount), p)
      /\ TLB' = TLB_insert(Shot, p, f) /\ dirty' = Dirtied(dirty \ {f}, f, v) /\ Use(p, f, p, v)
  BY DEF PageFault
<1>2. /\ f \in Frames /\ Victims \subseteq Range(page_cache)
      /\ \A q \in Range(page_cache) \ Victims : page_table[q] # f
      /\ {g \in Frames : data[g] # Nil} \ {f} = {page_table[q] : q \in Range(page_cache) \ Victims}
  BY FaultFrame
<1> HIDE DEF f
<1>3. VMTypeOK /\ OneStory /\ TLBAgrees /\ CleanIsStored
  BY DEF IInv, StructuresAgree
<1>4. p \notin Range(page_cache)
  <2>1. DOMAIN page_cache = 1..Len(page_cache)
    BY <1>3, LenProperties DEF VMTypeOK
  <2> QED BY <2>1 DEF PageFault, Contains, Range
<1>5. /\ page_cache' \in Seq(Pages) /\ IsInjective(page_cache') /\ Len(page_cache') <= FrameCount
      /\ Range(page_cache') = (Range(page_cache) \ Victims) \cup {p}
  BY <1>1, <1>4, FaultPages
<1>6. /\ \A q \in Pages : q \in Range(page_cache) <=> page_table[q] # Nil
      /\ Range(page_cache) \subseteq Pages /\ Nil \notin Pages \cup Writes \cup Frames
      /\ \A q \in Pages : page_table[q] # Nil => page_table[q] \in Frames
  BY PageFacts
<1>7. /\ \A e \in Range(TLB) : /\ e \in Entry /\ e.page \in Range(page_cache)
                               /\ e = [page |-> e.page, frame |-> page_table[e.page]]
  BY PageFacts
<1>8. /\ Shot \in Seq(Entry) /\ IsInjective(Shot) /\ Len(Shot) <= TLBSize
      /\ Range(Shot) = {e \in Range(TLB) : e.page \notin Victims}
      /\ \A a, b : Before(Shot, a, b) => Before(TLB, a, b)
  BY ShotProperties
<1>9. \A q \in Pages : page_table'[q] = IF q = p THEN f ELSE IF q \in Victims THEN Nil ELSE page_table[q]
  BY <1>1 DEF Mapped
<1>10. page_table' \in [Pages -> Frames \cup {Nil}]
  BY <1>1, <1>2, <1>3 DEF Mapped, VMTypeOK
<1>11. /\ data' = [data EXCEPT ![f] = IF v = Nil THEN p ELSE v]
       /\ result' = <<p, data'[f]>> /\ recent' = Touch(recent, p)
  BY <1>1 DEF Use
<1>12. /\ data'[f] = (IF v = Nil THEN p ELSE v) /\ data'[f] # Nil
       /\ \A g \in Frames : g # f => data'[g] = data[g]
  BY <1>2, <1>3, <1>6, <1>11 DEF VMTypeOK
<1>13. data' \in [Frames -> Pages \cup Writes \cup {Nil}]
  BY <1>2, <1>3, <1>6, <1>11 DEF VMTypeOK
<1>14. dirty \ {f} \subseteq dirty' /\ dirty' \subseteq Frames /\ (v # Nil => f \in dirty')
  BY <1>1, <1>2, <1>3 DEF Dirtied, VMTypeOK
<1>15. result' \in (Pages \X (Pages \cup Writes)) \cup {Nil}
  BY <1>11, <1>12
<1>16. \A e \in Range(TLB) : e.page \in Range(page_cache') => e \in Range(Shot)
  BY <1>1, <1>5, <1>8 DEF Hit
<1>17. /\ RecentInv'
       /\ TLB' \in Seq(Entry) /\ IsInjective(TLB') /\ Len(TLB') <= TLBSize
       /\ Range(TLB') \subseteq Range(Shot) \cup {[page |-> p, frame |-> f]}
       /\ recent' \in Seq(Pages) /\ IsInjective(recent')
       /\ Range(page_cache') \subseteq Range(recent')
  <2>1. Range(Shot) \subseteq Range(TLB) /\ Range(page_cache') \subseteq Range(page_cache) \cup {p}
    BY <1>5, <1>8
  <2>2. Shot \in Seq(Entry) /\ IsInjective(Shot) /\ Len(Shot) <= TLBSize
    BY <1>8
  <2>3. \A a, b : Before(Shot, a, b) => Before(TLB, a, b)
    BY <1>8
  <2> QED BY <1>1, <1>2, <1>11, <1>16, <2>1, <2>2, <2>3, InsertRecent
<1>18. VMTypeOK'
  BY <1>5, <1>10, <1>13, <1>14, <1>15, <1>17 DEF VMTypeOK
<1>19. OneStory'
  <2>1. \A q \in Pages : Contains(page_cache', q) <=> q \in Range(page_cache')
    <3>1. DOMAIN page_cache' = 1..Len(page_cache')
      BY <1>5, LenProperties
    <3> QED BY <3>1 DEF Contains, Range
  <2>2. \A q \in Pages : page_table'[q] # Nil <=> q \in Range(page_cache')
    BY <1>2, <1>5, <1>6, <1>9
  <2>3. \A q \in Range(page_cache) \ Victims : page_table'[q] = page_table[q] /\ q # p
    BY <1>4, <1>6, <1>9
  <2>4. page_table'[p] = f
    BY <1>9
  <2>5. \A q, r \in Range(page_cache') : page_table'[q] = page_table'[r] => q = r
    BY <1>2, <1>3, <1>5, <2>3, <2>4 DEF OneStory
  <2>6. {g \in Frames : data'[g] # Nil} = ({g \in Frames : data[g] # Nil} \ {f}) \cup {f}
    BY <1>2, <1>12
  <2>7. {page_table'[q] : q \in Range(page_cache')} =
          {page_table[q] : q \in Range(page_cache) \ Victims} \cup {f}
    BY <1>5, <2>3, <2>4
  <2>8. {g \in Frames : data'[g] # Nil} = {page_table'[q] : q \in Range(page_cache')}
    BY <1>2, <2>6, <2>7
  <2> QED BY <1>5, <2>1, <2>2, <2>5, <2>8 DEF OneStory
<1>20. TLBAgrees'
  <2> SUFFICES ASSUME NEW e \in Range(TLB') PROVE page_table'[e.page] = e.frame
    BY DEF TLBAgrees
  <2>1. CASE e = [page |-> p, frame |-> f]
    BY <1>9, <2>1
  <2>2. CASE e \in Range(Shot)
    <3>1. e \in Range(TLB) /\ e.page \notin Victims /\ e.page # p
      BY <1>1, <1>8, <2>2 DEF Hit
    <3> QED BY <1>3, <1>6, <1>7, <1>9, <3>1 DEF TLBAgrees
  <2> QED BY <1>17, <2>1, <2>2
<1>21. CleanIsStored'
  <2> SUFFICES ASSUME NEW q \in Pages, page_table'[q] \in Frames \ dirty' PROVE data'[page_table'[q]] = q
    BY DEF CleanIsStored
  <2>1. CASE q = p
    BY <1>9, <1>12, <1>14, <2>1
  <2>2. CASE q # p
    <3>1. q \notin Victims /\ page_table'[q] = page_table[q]
      BY <1>6, <1>9, <2>2
    <3>2. q \in Range(page_cache) \ Victims
      BY <1>6, <3>1
    <3>3. page_table[q] # f /\ page_table[q] \in Frames \ dirty
      BY <1>2, <1>14, <3>1, <3>2
    <3> QED BY <1>3, <1>12, <3>1, <3>3 DEF CleanIsStored
  <2> QED BY <2>1, <2>2
<1>22. OrderInv'
  BY <1>5, <1>17 DEF OrderInv
<1> QED BY <1>17, <1>18, <1>19, <1>20, <1>21, <1>22 DEF IInv, StructuresAgree

\* Every access keeps the invariant.
LEMMA InvariantHolds == VMSpec => []IInv
<1>1. ASSUME IInv, [VMNext]_VMvars PROVE IInv'
  <2>1. CASE UNCHANGED VMvars
    BY <1>1, <2>1 DEF IInv, StructuresAgree, VMTypeOK, OneStory, TLBAgrees, CleanIsStored,
      OrderInv, RecentInv, Hit, VMvars, memory
  <2>2. ASSUME NEW p \in Pages, NEW v \in Writes \cup {Nil}, TLBHit(p, v) PROVE IInv'
    BY <1>1, <2>2, TLBHitStep
  <2>3. ASSUME NEW p \in Pages, NEW v \in Writes \cup {Nil}, PageHit(p, v) PROVE IInv'
    BY <1>1, <2>3, PageHitStep
  <2>4. ASSUME NEW p \in Pages, NEW v \in Writes \cup {Nil}, PageFault(p, v) PROVE IInv'
    BY <1>1, <2>4, PageFaultStep
  <2>5. CASE Reopen
    BY <2>5, ReopenStep
  <2> QED BY <1>1, <2>1, <2>2, <2>3, <2>4, <2>5 DEF VMNext
<1> QED BY <1>1, VMInitInv, PTL DEF VMSpec

\* The page table, the order of pages, the frames and the TLB, which a page fault
\* of virtual_memory.c updates one after another, agree after every access.
THEOREM StructuresAgreeAlways == VMSpec => []StructuresAgree
<1>1. IInv => StructuresAgree
  BY DEF IInv
<1> QED BY <1>1, InvariantHolds, PTL

\* Of the pages in memory the TLB holds those used last, although a hit in the
\* TLB does not touch the order of pages, and an eviction takes from both.
THEOREM TLBIsRecentAlways == VMSpec => []TLBIsRecent
<1>1. IInv => TLBIsRecent
  BY RecentIsTLBIsRecent DEF IInv, StructuresAgree
<1> QED BY <1>1, InvariantHolds, PTL

-----------------------------------------------------------------------------
(* The virtual memory implements PagedMemory. *)

\* What a program sees
mem == [p \in Pages |-> IF page_table[p] = Nil THEN p ELSE data[page_table[p]]]

\* An access to a page in memory reads or writes that page and no other.
LEMMA HitMaps ==
  ASSUME IInv, NEW p \in Range(page_cache), NEW v \in Writes \cup {Nil},
         UNCHANGED page_table, Use(p, page_table[p], data[page_table[p]], v)
  PROVE  VMAbstract!Next
<1> DEFINE f == page_table[p]
<1>1. /\ \A q \in Pages : q \in Range(page_cache) <=> page_table[q] # Nil
      /\ Range(page_cache) \subseteq Pages /\ Nil \notin Pages \cup Writes \cup Frames
      /\ \A q \in Pages : page_table[q] # Nil => page_table[q] \in Frames
  BY PageFacts
<1>2. VMTypeOK /\ OneStory
  BY DEF IInv, StructuresAgree
<1>3. p \in Pages /\ f \in Frames /\ \A q \in Pages \ {p} : page_table[q] # f
  BY <1>1, <1>2 DEF OneStory
<1>4. data' = [data EXCEPT ![f] = IF v = Nil THEN data[f] ELSE v] /\ result' = <<p, data'[f]>>
  BY DEF Use
<1>5. /\ data'[f] = IF v = Nil THEN data[f] ELSE v
      /\ \A q \in Pages \ {p} : page_table[q] # Nil => data'[page_table[q]] = data[page_table[q]]
  BY <1>1, <1>2, <1>3, <1>4 DEF VMTypeOK
<1>6. mem[p] = data[f] /\ f # Nil
  BY <1>1, <1>3 DEF mem
<1> HIDE DEF f
<1>7. mem' = [q \in Pages |-> IF page_table[q] = Nil THEN q ELSE data'[page_table[q]]]
  BY DEF mem
<1>8. CASE v = Nil
  <2>1. mem' = mem /\ result' = <<p, mem[p]>>
    BY <1>4, <1>5, <1>6, <1>7, <1>8 DEF mem, f
  <2> QED BY <1>3, <2>1 DEF VMAbstract!Next, VMAbstract!Read, mem
<1>9. CASE v # Nil
  <2>1. /\ result' = <<p, v>> /\ page_table[p] # Nil /\ data'[page_table[p]] = v
        /\ \A q \in Pages \ {p} : page_table[q] # Nil => data'[page_table[q]] = data[page_table[q]]
    BY <1>4, <1>5, <1>6, <1>9 DEF f
  <2>2. mem' = [mem EXCEPT ![p] = v]
    BY <1>3, <1>7, <2>1 DEF mem
  <2> QED BY <1>3, <1>9, <2>1, <2>2 DEF VMAbstract!Next, VMAbstract!Write, mem
<1> QED BY <1>8, <1>9

\* A page fault reads or writes the page, and drops what was written to the victim.
LEMMA FaultMaps ==
  ASSUME IInv, NEW p \in Pages, NEW v \in Writes \cup {Nil}, PageFault(p, v)
  PROVE  VMAbstract!Next
<1> DEFINE f == FrameToInsert  x == IF v = Nil THEN p ELSE v
<1>1. page_table' = Mapped(p, f) /\ Use(p, f, p, v)
  BY DEF PageFault
<1>2. /\ f \in Frames /\ Victims \subseteq Range(page_cache)
      /\ \A q \in Range(page_cache) \ Victims : page_table[q] # f
  BY FaultFrame
<1> HIDE DEF f
<1>3. VMTypeOK
  BY DEF IInv, StructuresAgree
<1>4. p \notin Range(page_cache)
  <2>1. DOMAIN page_cache = 1..Len(page_cache)
    BY <1>3, LenProperties DEF VMTypeOK
  <2> QED BY <2>1 DEF PageFault, Contains, Range
<1>5. /\ \A q \in Pages : q \in Range(page_cache) <=> page_table[q] # Nil
      /\ Range(page_cache) \subseteq Pages /\ Nil \notin Pages \cup Writes \cup Frames
      /\ \A q \in Pages : page_table[q] # Nil => page_table[q] \in Frames
  BY PageFacts
<1>6. \A q \in Pages : page_table'[q] = IF q = p THEN f ELSE IF q \in Victims THEN Nil ELSE page_table[q]
  BY <1>1 DEF Mapped
<1>7. data' = [data EXCEPT ![f] = x] /\ result' = <<p, data'[f]>>
  BY <1>1 DEF Use
<1>8. data'[f] = x /\ \A g \in Frames : g # f => data'[g] = data[g]
  BY <1>2, <1>3, <1>7 DEF VMTypeOK
<1> HIDE DEF x
<1>9. ASSUME NEW q \in Pages
      PROVE  mem'[q] = IF q = p THEN x ELSE IF q \in Victims THEN q ELSE mem[q]
  <2>1. mem'[q] = IF page_table'[q] = Nil THEN q ELSE data'[page_table'[q]]
    BY DEF mem
  <2>2. mem[q] = IF page_table[q] = Nil THEN q ELSE data[page_table[q]]
    BY DEF mem
  <2>3. CASE q = p
    BY <1>2, <1>5, <1>6, <1>8, <2>1, <2>3
  <2>4. CASE q # p /\ q \in Victims
    BY <1>6, <2>1, <2>4
  <2>5. CASE q # p /\ q \notin Victims
    <3>1. page_table'[q] = page_table[q]
      BY <1>6, <2>5
    <3>2. page_table[q] # Nil => data'[page_table[q]] = data[page_table[q]]
      BY <1>2, <1>5, <1>8, <2>5
    <3> QED BY <2>1, <2>2, <2>5, <3>1, <3>2
  <2> QED BY <2>3, <2>4, <2>5
<1>10. mem' = [q \in Pages |-> IF q = p THEN x ELSE IF q \in Victims THEN q ELSE mem[q]]
  BY <1>9 DEF mem
<1>11. mem \in [Pages -> Pages \cup Writes \cup {Nil}] /\ mem[p] = p
  BY <1>3, <1>4, <1>5 DEF mem, VMTypeOK
<1>12. Victims = {} \/ \E h \in Pages \ {p} : Victims = {h}
  BY <1>2, <1>4, <1>5 DEF Victims
<1>13. CASE v = Nil
  <2>1. x = p /\ result' = <<p, mem[p]>>
    BY <1>7, <1>8, <1>11, <1>13 DEF x
  <2>2. CASE Victims = {}
    <3>1. mem' = mem
      BY <1>10, <1>11, <2>1, <2>2
    <3> QED BY <2>1, <3>1 DEF VMAbstract!Next, VMAbstract!Read, mem
  <2>3. ASSUME NEW h \in Pages \ {p}, Victims = {h} PROVE VMAbstract!Next
    <3>1. mem' = [mem EXCEPT ![h] = h]
      BY <1>10, <1>11, <2>1, <2>3
    <3> QED BY <2>1, <3>1 DEF VMAbstract!Next, VMAbstract!Read, mem
  <2> QED BY <1>12, <2>2, <2>3
<1>14. CASE v # Nil
  <2>1. x = v /\ v \in Writes /\ result' = <<p, v>>
    BY <1>7, <1>8, <1>14 DEF x
  <2>2. CASE Victims = {}
    <3>1. mem' = [mem EXCEPT ![p] = v]
      BY <1>10, <1>11, <2>1, <2>2
    <3> QED BY <2>1, <3>1 DEF VMAbstract!Next, VMAbstract!Write, mem
  <2>3. ASSUME NEW h \in Pages \ {p}, Victims = {h} PROVE VMAbstract!Next
    <3>1. mem' = [mem EXCEPT ![p] = v, ![h] = h]
      BY <1>10, <1>11, <2>1, <2>3
    <3> QED BY <2>1, <3>1 DEF VMAbstract!Next, VMAbstract!Write, mem
  <2> QED BY <1>12, <2>2, <2>3
<1> QED BY <1>13, <1>14

\* A program that reads and writes pages through virtual_memory.c sees a memory
\* in which a write stays until the page is evicted - and no longer, which is less
\* than the report promises - whatever frames, TLB entries and LRU orders did
\* meanwhile.
THEOREM VirtualMemoryImplementsMemory == VMSpec => ImplementsMemory
<1>1. VMInit => VMAbstract!Init
  BY DEF VMInit, VMAbstract!Init
<1>2. ASSUME IInv, [VMNext]_VMvars PROVE [VMAbstract!Next]_(VMAbstract!vars)
  <2>1. CASE UNCHANGED VMvars
    BY <2>1 DEF VMvars, memory, VMAbstract!vars
  <2>2. ASSUME NEW p \in Pages, NEW v \in Writes \cup {Nil}, TLBHit(p, v) PROVE VMAbstract!Next
    <3>1. PICK e \in Range(TLB) :
            e.page = p /\ Use(p, e.frame, data[e.frame], v) /\ UNCHANGED <<page_table, page_cache>>
      BY <2>2 DEF TLBHit, Hit
    <3>2. p \in Range(page_cache) /\ e.frame = page_table[p]
      BY <1>2, <3>1, PageFacts
    <3> QED BY <1>2, <3>1, <3>2, HitMaps
  <2>3. ASSUME NEW p \in Pages, NEW v \in Writes \cup {Nil}, PageHit(p, v) PROVE VMAbstract!Next
    <3>1. DOMAIN page_cache = 1..Len(page_cache)
      BY <1>2, LenProperties DEF IInv, StructuresAgree, VMTypeOK
    <3>2. p \in Range(page_cache) /\ Use(p, page_table[p], data[page_table[p]], v) /\ UNCHANGED page_table
      BY <2>3, <3>1 DEF PageHit, Contains, Range
    <3> QED BY <1>2, <3>2, HitMaps
  <2>4. ASSUME NEW p \in Pages, NEW v \in Writes \cup {Nil}, PageFault(p, v) PROVE VMAbstract!Next
    BY <1>2, <2>4, FaultMaps
  <2>5. CASE Reopen
    BY <2>5 DEF Reopen, VMAbstract!Next, VMAbstract!Reopen
  <2> QED BY <1>2, <2>1, <2>2, <2>3, <2>4, <2>5 DEF VMNext
<1> QED BY <1>1, <1>2, InvariantHolds, PTL DEF VMSpec, ImplementsMemory, VMAbstract!Spec

=============================================================================
