--------------------------- MODULE ScheduleProofs ---------------------------
(***************************************************************************)
(* Theorems about Schedule, for any number of tasks, bursts, quantum and   *)
(* priorities: each task gets its burst, no more, and its turn; none runs  *)
(* before a more urgent one; and no order of the tasks has a smaller sum   *)
(* of turnaround times than shortest job first.                            *)
(*                                                                         *)
(* The argument for the round robins: the list stays in the order of the   *)
(* file, so that the tasks before task in it are those that have had their *)
(* turn in this pass, whichever have left.  For shortest job first: let    *)
(* the cost of an order be what has been spent on turnaround times so far, *)
(* and what the tasks that are left would add to it in that order.  At the *)
(* start it is the sum for that order; running the shortest task does not  *)
(* increase it, for the others all wait for that task, but those that were *)
(* to run before it no longer make it wait; at the end it is the sum that  *)
(* shortest job first has.                                                 *)
(***************************************************************************)
EXTENDS Schedule, TLAPS, FiniteSetTheorems, SequenceTheorems

-----------------------------------------------------------------------------
(* Induction over natural numbers, by sets. *)

Less == {p \in Nat \X Nat : p[1] < p[2]}

\* A nonempty set of naturals has a least element, which is its Min.
LEMMA MinNat ==
  ASSUME NEW S \in SUBSET Nat, S # {}
  PROVE  Min(S) \in S /\ \A y \in S : Min(S) <= y
<1>1. IsWellFoundedOn(Less, Nat)
  BY NatLessThanWellFounded DEF OpToRel, Less
<1>2. PICK x \in S : \A y \in S : ~(<<y, x>> \in Less)
  BY <1>1, WFMin, Zenon
<1>3. ASSUME NEW y \in S PROVE x <= y
  <2>1. x \in Nat /\ y \in Nat
    OBVIOUS
  <2>2. <<y, x>> \in Less <=> y < x
    BY <2>1 DEF Less
  <2> QED BY <1>2, <2>1, <2>2
<1> QED BY <1>3 DEF Min

\* A set with 0 and with the successor of each of its naturals has all naturals.
LEMMA Induction ==
  ASSUME NEW S, 0 \in S, \A n \in Nat : n \in S => n + 1 \in S
  PROVE  \A n \in Nat : n \in S
<1> DEFINE T == Nat \ S
<1> SUFFICES ASSUME T # {} PROVE FALSE
  OBVIOUS
<1>1. T \in SUBSET Nat
  OBVIOUS
<1>2. PICK x \in T : \A y \in T : x <= y
  BY <1>1, MinNat
<1>3. x \in Nat /\ x # 0 /\ x - 1 \in Nat /\ x - 1 + 1 = x
  OBVIOUS
<1>4. x - 1 \in S
  BY <1>2, <1>3
<1> QED BY <1>3, <1>4

-----------------------------------------------------------------------------
(* Sums over the tasks. *)

\* s has the sums of the first values of f.
Sums(f, s) ==
  /\ s \in [0..Count -> Int] /\ s[0] = 0
  /\ \A t \in Tasks : s[t] = s[t - 1] + f[t]

\* They exist, and Sum is the last one.
LEMMA SumsExist ==
  ASSUME NEW f \in [Tasks -> Int]
  PROVE  \E s : Sums(f, s) /\ Sum(f) = s[Count]
<1>1. Count \in Nat
  BY ScheduleAssumption
<1> DEFINE Starts(m, s) == s[0] = 0 /\ \A k \in 1..m : s[k] = s[k - 1] + f[k]
           T == {m \in Nat : m <= Count => \E s \in [0..m -> Int] : Starts(m, s)}
<1>2. 0 \in T
  <2>1. [k \in 0..0 |-> 0] \in [0..0 -> Int] /\ Starts(0, [k \in 0..0 |-> 0])
    OBVIOUS
  <2> QED BY <2>1
<1>3. ASSUME NEW m \in Nat, m \in T PROVE m + 1 \in T
  <2> SUFFICES ASSUME m + 1 <= Count PROVE \E g \in [0..(m + 1) -> Int] : Starts(m + 1, g)
    OBVIOUS
  <2>1. PICK s \in [0..m -> Int] : Starts(m, s)
    BY <1>1, <1>3
  <2> DEFINE g == [k \in 0..(m + 1) |-> IF k = m + 1 THEN s[m] + f[m + 1] ELSE s[k]]
  <2>2. m + 1 \in Tasks /\ s[m] \in Int
    BY <1>1 DEF Tasks
  <2>3. g \in [0..(m + 1) -> Int]
    BY <2>2
  <2>4. ASSUME NEW k \in 1..(m + 1) PROVE g[k] = g[k - 1] + f[k]
    <3>1. CASE k = m + 1
      <4>1. k - 1 = m /\ m \in 0..(m + 1) /\ m # m + 1 /\ k \in 0..(m + 1)
        BY <3>1
      <4> QED BY <3>1, <4>1
    <3>2. CASE k # m + 1
      <4>1. k \in 1..m /\ k \in 0..(m + 1) /\ k - 1 \in 0..(m + 1) /\ k - 1 # m + 1
        BY <3>2
      <4>2. g[k] = s[k] /\ g[k - 1] = s[k - 1]
        BY <3>2, <4>1
      <4> QED BY <2>1, <4>1, <4>2
    <3> QED BY <3>1, <3>2
  <2>5. g[0] = 0
    BY <2>1
  <2> HIDE DEF g
  <2> QED BY <2>3, <2>4, <2>5
<1> HIDE DEF T
<1>4. Count \in T
  BY <1>1, <1>2, <1>3, Induction
<1>5. PICK s \in [0..Count -> Int] : s[0] = 0 /\ \A k \in 1..Count : s[k] = s[k - 1] + f[k]
  BY <1>1, <1>4 DEF T
<1> DEFINE Added(r, n) == IF n = 0 THEN 0 ELSE r[n - 1] + f[n]
<1>6. s = [n \in 0..Count |-> Added(s, n)]
  <2>1. \A n \in 0..Count : s[n] = Added(s, n)
    BY <1>1, <1>5
  <2> QED BY <1>5, <2>1
<1>7. ASSUME NEW r, r = [n \in 0..Count |-> Added(r, n)] PROVE r = s
  <2> DEFINE U == {k \in Nat : k <= Count => r[k] = s[k]}
  <2>1. 0 \in U
    <3>1. 0 \in 0..Count
      BY <1>1
    <3> QED BY <1>5, <1>7, <3>1
  <2>2. ASSUME NEW k \in Nat, k \in U PROVE k + 1 \in U
    <3> SUFFICES ASSUME k + 1 <= Count PROVE r[k + 1] = s[k + 1]
      OBVIOUS
    <3>1. k + 1 \in 0..Count /\ k + 1 \in 1..Count /\ k + 1 # 0 /\ k + 1 - 1 = k /\ r[k] = s[k]
      BY <1>1, <2>2
    <3>2. r[k + 1] = Added(r, k + 1)
      BY <1>7, <3>1
    <3>3. r[k + 1] = r[k] + f[k + 1]
      BY <3>1, <3>2
    <3> QED BY <1>5, <3>1, <3>3
  <2> HIDE DEF U
  <2>3. \A k \in Nat : k \in U
    BY <2>1, <2>2, Induction
  <2>4. \A k \in 0..Count : r[k] = s[k]
    BY <1>1, <2>3 DEF U
  <2>5. \A n \in 0..Count : Added(r, n) = Added(s, n)
    <3> SUFFICES ASSUME NEW n \in 0..Count, n # 0 PROVE Added(r, n) = Added(s, n)
      OBVIOUS
    <3>1. n - 1 \in 0..Count
      BY <1>1
    <3> QED BY <2>4, <3>1
  <2> QED BY <1>6, <1>7, <2>5
<1>8. Sum(f) = s[Count]
  BY <1>6, <1>7 DEF Sum
<1>9. Sums(f, s)
  BY <1>5 DEF Sums, Tasks
<1> QED BY <1>8, <1>9

\* A sum is an integer.
LEMMA SumInt ==
  ASSUME NEW f \in [Tasks -> Int]
  PROVE  Sum(f) \in Int
<1>1. Count \in Nat /\ Count \in 0..Count
  BY ScheduleAssumption
<1> QED BY <1>1, SumsExist DEF Sums

\* The step of an induction over the first sums.
LEMMA SumsStep ==
  ASSUME NEW f \in [Tasks -> Int], NEW s, Sums(f, s), NEW k \in Nat, k + 1 <= Count
  PROVE  /\ k + 1 \in Tasks /\ s[k + 1] = s[k] + f[k + 1]
         /\ s[k] \in Int /\ s[k + 1] \in Int /\ f[k + 1] \in Int
<1>1. Count \in Nat
  BY ScheduleAssumption
<1>2. k + 1 \in Tasks /\ k + 1 - 1 = k /\ k \in 0..Count /\ k + 1 \in 0..Count
  BY <1>1 DEF Tasks
<1> QED BY <1>2 DEF Sums

\* A sum of larger values is larger.
LEMMA SumLeq ==
  ASSUME NEW f \in [Tasks -> Int], NEW g \in [Tasks -> Int],
         \A t \in Tasks : f[t] <= g[t]
  PROVE  Sum(f) <= Sum(g)
<1>1. PICK s : Sums(f, s) /\ Sum(f) = s[Count]
  BY SumsExist
<1>2. PICK r : Sums(g, r) /\ Sum(g) = r[Count]
  BY SumsExist
<1> DEFINE T == {k \in Nat : k <= Count => s[k] <= r[k]}
<1>3. Count \in Nat
  BY ScheduleAssumption
<1>4. 0 \in T
  BY <1>1, <1>2 DEF Sums
<1>5. ASSUME NEW k \in Nat, k \in T PROVE k + 1 \in T
  <2> SUFFICES ASSUME k + 1 <= Count PROVE s[k + 1] <= r[k + 1]
    OBVIOUS
  <2>1. /\ k + 1 \in Tasks /\ s[k + 1] = s[k] + f[k + 1]
        /\ s[k] \in Int /\ s[k + 1] \in Int /\ f[k + 1] \in Int
    BY <1>1, SumsStep
  <2>2. /\ r[k + 1] = r[k] + g[k + 1]
        /\ r[k] \in Int /\ r[k + 1] \in Int /\ g[k + 1] \in Int
    BY <1>2, SumsStep
  <2>3. s[k] <= r[k]
    BY <1>3, <1>5
  <2> QED BY <2>1, <2>2, <2>3
<1> HIDE DEF T
<1>6. Count \in T
  BY <1>3, <1>4, <1>5, Induction
<1> QED BY <1>1, <1>2, <1>3, <1>6 DEF T

\* The sum of sums is the sum.
LEMMA SumAdd ==
  ASSUME NEW f \in [Tasks -> Int], NEW g \in [Tasks -> Int], NEW h \in [Tasks -> Int],
         \A t \in Tasks : h[t] = f[t] + g[t]
  PROVE  Sum(h) = Sum(f) + Sum(g)
<1>1. PICK s : Sums(f, s) /\ Sum(f) = s[Count]
  BY SumsExist
<1>2. PICK r : Sums(g, r) /\ Sum(g) = r[Count]
  BY SumsExist
<1>3. PICK q : Sums(h, q) /\ Sum(h) = q[Count]
  BY SumsExist
<1> DEFINE T == {k \in Nat : k <= Count => q[k] = s[k] + r[k]}
<1>4. Count \in Nat
  BY ScheduleAssumption
<1>5. 0 \in T
  BY <1>1, <1>2, <1>3 DEF Sums
<1>6. ASSUME NEW k \in Nat, k \in T PROVE k + 1 \in T
  <2> SUFFICES ASSUME k + 1 <= Count PROVE q[k + 1] = s[k + 1] + r[k + 1]
    OBVIOUS
  <2>1. /\ k + 1 \in Tasks /\ s[k + 1] = s[k] + f[k + 1]
        /\ s[k] \in Int /\ f[k + 1] \in Int
    BY <1>1, SumsStep
  <2>2. /\ r[k + 1] = r[k] + g[k + 1]
        /\ r[k] \in Int /\ g[k + 1] \in Int
    BY <1>2, SumsStep
  <2>3. q[k + 1] = q[k] + h[k + 1]
    BY <1>3, SumsStep
  <2>4. q[k] = s[k] + r[k]
    BY <1>4, <1>6
  <2> QED BY <2>1, <2>2, <2>3, <2>4
<1> HIDE DEF T
<1>7. Count \in T
  BY <1>4, <1>5, <1>6, Induction
<1> QED BY <1>1, <1>2, <1>3, <1>4, <1>7 DEF T

\* x for each task in S, and nothing for the others
Each(S, x) == [t \in Tasks |-> IF t \in S THEN x ELSE 0]

LEMMA SumEach ==
  ASSUME NEW S \in SUBSET Tasks, NEW x \in Int
  PROVE  Sum(Each(S, x)) = x * Cardinality(S) /\ Cardinality(S) \in Nat
<1>1. Count \in Nat
  BY ScheduleAssumption
<1>2. IsFiniteSet(Tasks)
  BY <1>1, FS_Interval DEF Tasks
<1>3. Each(S, x) \in [Tasks -> Int] /\ \A t \in Tasks : Each(S, x)[t] = IF t \in S THEN x ELSE 0
  BY DEF Each
<1>4. PICK s : Sums(Each(S, x), s) /\ Sum(Each(S, x)) = s[Count]
  BY <1>3, SumsExist
<1> DEFINE T == {k \in Nat : k <= Count => s[k] = x * Cardinality(S \cap 1..k)}
<1>5. ASSUME NEW k \in Nat PROVE IsFiniteSet(S \cap 1..k) /\ Cardinality(S \cap 1..k) \in Nat
  <2>1. S \cap 1..k \in SUBSET Tasks
    OBVIOUS
  <2> QED BY <1>2, <2>1, FS_Subset, FS_CardinalityType
<1>6. 0 \in T
  <2>1. S \cap 1..0 = {}
    OBVIOUS
  <2>2. Cardinality(S \cap 1..0) = 0
    BY <2>1, FS_EmptySet
  <2>3. s[0] = 0
    BY <1>4 DEF Sums
  <2> QED BY <2>2, <2>3
<1>7. ASSUME NEW k \in Nat, k \in T PROVE k + 1 \in T
  <2> SUFFICES ASSUME k + 1 <= Count PROVE s[k + 1] = x * Cardinality(S \cap 1..(k + 1))
    OBVIOUS
  <2>1. /\ k + 1 \in Tasks /\ s[k + 1] = s[k] + Each(S, x)[k + 1]
        /\ s[k] = x * Cardinality(S \cap 1..k)
    BY <1>1, <1>3, <1>4, <1>7, SumsStep
  <2>2. CASE k + 1 \in S
    <3>1. S \cap 1..(k + 1) = (S \cap 1..k) \cup {k + 1} /\ k + 1 \notin S \cap 1..k
      BY <2>2
    <3>2. Cardinality(S \cap 1..(k + 1)) = Cardinality(S \cap 1..k) + 1
      BY <1>5, <3>1, FS_AddElement
    <3>3. PICK c \in Nat : c = Cardinality(S \cap 1..k)
      BY <1>5
    <3>4. s[k + 1] = x * c + x /\ Cardinality(S \cap 1..(k + 1)) = c + 1
      BY <1>3, <2>1, <2>2, <3>2, <3>3
    <3>5. x * (c + 1) = x * c + x
      OBVIOUS
    <3> QED BY <3>4, <3>5
  <2>3. CASE k + 1 \notin S
    <3>1. S \cap 1..(k + 1) = S \cap 1..k
      BY <2>3
    <3>2. PICK c \in Nat : c = Cardinality(S \cap 1..k)
      BY <1>5
    <3>3. x * c \in Int
      OBVIOUS
    <3>4. s[k + 1] = s[k] + 0 /\ s[k] = x * c
      BY <1>3, <2>1, <2>3, <3>2
    <3>5. s[k + 1] = x * c
      BY <3>3, <3>4
    <3> QED BY <3>1, <3>2, <3>5
  <2> QED BY <2>2, <2>3
<1> HIDE DEF T
<1>8. Count \in T
  BY <1>1, <1>6, <1>7, Induction
<1>9. S \cap 1..Count = S
  BY DEF Tasks
<1>10. s[Count] = x * Cardinality(S \cap 1..Count)
  BY <1>1, <1>8 DEF T
<1>11. Cardinality(S) \in Nat
  BY <1>1, <1>5, <1>9
<1> QED BY <1>4, <1>9, <1>10, <1>11

\* A sum changes by as much as one of its values.
LEMMA SumUpdate ==
  ASSUME NEW f \in [Tasks -> Int], NEW g \in [Tasks -> Int],
         NEW t \in Tasks, \A u \in Tasks \ {t} : g[u] = f[u]
  PROVE  Sum(g) = Sum(f) + (g[t] - f[t])
<1>1. {t} \in SUBSET Tasks /\ g[t] - f[t] \in Int
  OBVIOUS
<1>2. Sum(Each({t}, g[t] - f[t])) = (g[t] - f[t]) * Cardinality({t})
  BY <1>1, SumEach
<1>3. Cardinality({t}) = 1
  BY FS_Singleton
<1>4. Sum(Each({t}, g[t] - f[t])) = g[t] - f[t]
  BY <1>1, <1>2, <1>3
<1>5. PICK e : e = Each({t}, g[t] - f[t])
  OBVIOUS
<1>6. e \in [Tasks -> Int]
  BY <1>5 DEF Each
<1>7. \A u \in Tasks : g[u] = f[u] + e[u]
  BY <1>5 DEF Each
<1>8. Sum(g) = Sum(f) + Sum(e)
  BY <1>6, <1>7, SumAdd
<1> QED BY <1>4, <1>5, <1>8

-----------------------------------------------------------------------------
(* Lists of tasks. *)

\* A sequence without its element i.
LEMMA RemoveAtElements ==
  ASSUME NEW S, NEW s \in Seq(S), NEW i \in 1..Len(s)
  PROVE  /\ RemoveAt(s, i) \in Seq(S)
         /\ Len(RemoveAt(s, i)) = Len(s) - 1
         /\ \A k \in 1..(Len(s) - 1) : RemoveAt(s, i)[k] = IF k < i THEN s[k] ELSE s[k + 1]
<1> DEFINE u == SubSeq(s, 1, i - 1)  w == SubSeq(s, i + 1, Len(s))
<1>1. Len(s) \in Nat /\ \A k \in 1..Len(s) : s[k] \in S
  BY ElementOfSeq, LenProperties
<1>2. i \in Int /\ i - 1 \in Int /\ i + 1 \in Int /\ 1 \in Int /\ Len(s) \in Int
  BY <1>1
<1>3. /\ u \in Seq(S) /\ Len(u) = i - 1
      /\ \A k \in 1..(i - 1) : u[k] = s[k]
  <2>1. \A k \in 1..(i - 1) : s[k] \in S
    BY <1>1
  <2>2. /\ u \in Seq(S) /\ Len(u) = IF 1 <= i - 1 THEN i - 1 - 1 + 1 ELSE 0
        /\ \A k \in 1..(i - 1 - 1 + 1) : u[k] = s[1 + k - 1]
    BY <1>2, <2>1, SubSeqProperties
  <2> QED BY <1>1, <1>2, <2>2
<1>4. /\ w \in Seq(S) /\ Len(w) = Len(s) - i
      /\ \A k \in 1..(Len(s) - i) : w[k] = s[i + k]
  <2>1. \A k \in (i + 1)..Len(s) : s[k] \in S
    BY <1>1
  <2>2. /\ w \in Seq(S) /\ Len(w) = IF i + 1 <= Len(s) THEN Len(s) - (i + 1) + 1 ELSE 0
        /\ \A k \in 1..(Len(s) - (i + 1) + 1) : w[k] = s[i + 1 + k - 1]
    BY <1>2, <2>1, SubSeqProperties
  <2> QED BY <1>1, <1>2, <2>2
<1>5. RemoveAt(s, i) = u \o w
  BY DEF RemoveAt
<1> HIDE DEF u, w
<1>6. /\ u \o w \in Seq(S) /\ Len(u \o w) = Len(u) + Len(w)
      /\ \A k \in 1..(Len(u) + Len(w)) : (u \o w)[k] = IF k <= Len(u) THEN u[k] ELSE w[k - Len(u)]
  BY <1>3, <1>4, ConcatProperties
<1>7. ASSUME NEW k \in 1..(Len(s) - 1) PROVE (u \o w)[k] = IF k < i THEN s[k] ELSE s[k + 1]
  <2>1. CASE k < i
    BY <1>1, <1>3, <1>4, <1>6, <2>1
  <2>2. CASE ~(k < i)
    <3>1. k - (i - 1) \in 1..(Len(s) - i) /\ i + (k - (i - 1)) = k + 1
      BY <1>1, <2>2
    <3>2. w[k - (i - 1)] = s[k + 1]
      BY <1>4, <3>1
    <3>3. k \in 1..(Len(u) + Len(w)) /\ ~(k <= Len(u))
      BY <1>1, <1>3, <1>4, <2>2
    <3> QED BY <1>3, <1>6, <2>2, <3>2, <3>3
  <2> QED BY <2>1, <2>2
<1>8. Len(u) + Len(w) = Len(s) - 1
  BY <1>1, <1>3, <1>4
<1> QED BY <1>6, <1>5, <1>7, <1>8

Increasing(l) == \A i, j \in DOMAIN l : i < j => l[i] < l[j]

\* A list of tasks in the order of the file
IsList(l) == l \in Seq(Tasks) /\ Increasing(l)

LEMMA Listed ==
  ASSUME NEW l, IsList(l)
  PROVE  /\ Len(l) \in Nat /\ DOMAIN l = 1..Len(l) /\ IsInjective(l)
         /\ \A i \in DOMAIN l : l[i] \in Nat /\ l[i] \in Tasks /\ l[i] # Nil
         /\ Range(l) \in SUBSET Tasks
<1>1. Len(l) \in Nat /\ DOMAIN l = 1..Len(l) /\ l \in Seq(Tasks)
  BY LenProperties DEF IsList
<1>2. \A i \in 1..Len(l) : l[i] \in Tasks
  BY <1>1, ElementOfSeq
<1>3. \A i \in DOMAIN l : l[i] \in Nat /\ l[i] \in Tasks /\ l[i] # Nil
  BY <1>1, <1>2, ScheduleAssumption DEF Tasks
<1>4. IsInjective(l)
  <2> SUFFICES ASSUME NEW i \in DOMAIN l, NEW j \in DOMAIN l, l[i] = l[j] PROVE i = j
    BY DEF IsInjective
  <2>1. (i < j => l[i] < l[j]) /\ (j < i => l[j] < l[i]) /\ i \in Nat /\ j \in Nat
    BY <1>1 DEF IsList, Increasing
  <2> QED BY <1>3, <2>1
<1> QED BY <1>1, <1>3, <1>4 DEF Range

PlaceIn(l, t) == SelectInSeq(l, LAMBDA u : u = t)

\* What is searched for is found where it is.
LEMMA PlaceOf ==
  ASSUME NEW l, IsList(l), NEW p \in DOMAIN l, NEW t, l[p] = t
  PROVE  PlaceIn(l, t) = p
<1>1. Len(l) \in Nat /\ DOMAIN l = 1..Len(l) /\ IsInjective(l)
  BY Listed
<1> DEFINE I == {k \in 1..Len(l) : l[k] = t}
<1>2. I = {p}
  BY <1>1 DEF IsInjective
<1>3. Min(I) = p /\ I # {}
  <2>1. I \in SUBSET Nat /\ I # {}
    BY <1>1, <1>2
  <2>2. Min(I) \in I
    BY <2>1, MinNat
  <2> QED BY <1>2, <2>2
<1>4. PlaceIn(l, t) = IF I # {} THEN Min(I) ELSE 0
  BY DEF PlaceIn, SelectInSeq
<1> QED BY <1>3, <1>4

\* n comes next behind t in l.
IsNext(l, t, n) ==
  IF n = Nil THEN \A u \in Range(l) : u <= t
  ELSE n \in Range(l) /\ t < n /\ \A u \in Range(l) : u <= t \/ n <= u

LEMMA NextTask ==
  ASSUME NEW l, IsList(l), NEW t \in Range(l), NEW r
  PROVE  IsNext(l, t, After(l, r, t))
<1>1. /\ Len(l) \in Nat /\ DOMAIN l = 1..Len(l)
      /\ \A i \in DOMAIN l : l[i] \in Nat /\ l[i] # Nil
  BY Listed
<1>2. PICK p \in DOMAIN l : l[p] = t
  BY DEF Range
<1>3. PlaceIn(l, t) = p
  BY <1>2, PlaceOf
<1>4. After(l, r, t) = IF p = Len(l) THEN Nil ELSE l[p + 1]
  BY <1>3 DEF After, PlaceIn
<1>5. \A i, j \in DOMAIN l : i < j => l[i] < l[j]
  BY DEF IsList, Increasing
<1>6. CASE p = Len(l)
  <2>1. ASSUME NEW i \in DOMAIN l PROVE l[i] <= t
    BY <1>1, <1>2, <1>5, <1>6
  <2> QED BY <1>4, <1>6, <2>1 DEF IsNext, Range
<1>7. CASE p # Len(l)
  <2>1. p + 1 \in DOMAIN l /\ p < p + 1
    BY <1>1, <1>7
  <2>2. l[p + 1] # Nil /\ l[p + 1] \in Range(l) /\ t < l[p + 1]
    BY <1>1, <1>2, <1>5, <2>1 DEF Range
  <2>3. ASSUME NEW i \in DOMAIN l PROVE l[i] <= t \/ l[p + 1] <= l[i]
    <3>1. CASE i <= p
      BY <1>1, <1>2, <1>5, <3>1
    <3>2. CASE ~(i <= p)
      <4>1. i = p + 1 \/ p + 1 < i
        BY <1>1, <3>2
      <4> QED BY <1>1, <1>5, <2>1, <4>1
    <3> QED BY <3>1, <3>2
  <2> QED BY <1>4, <1>7, <2>2, <2>3 DEF IsNext, Range
<1> QED BY <1>6, <1>7

LEMMA FirstTask ==
  ASSUME NEW l, IsList(l)
  PROVE  IF l = <<>> THEN First(l) = Nil /\ Range(l) = {}
         ELSE First(l) \in Range(l) /\ \A u \in Range(l) : First(l) <= u
<1>1. /\ Len(l) \in Nat /\ DOMAIN l = 1..Len(l) /\ l \in Seq(Tasks)
      /\ \A i \in DOMAIN l : l[i] \in Nat /\ l[i] # Nil
  BY Listed DEF IsList
<1>2. CASE l = <<>>
  BY <1>2 DEF First, Range
<1>3. CASE l # <<>>
  <2>1. Head(l) = l[1] /\ 1 \in DOMAIN l
    <3>1. Len(l) # 0
      BY <1>1, <1>3, EmptySeq
    <3> QED BY <1>1, <1>3, <3>1, HeadTailProperties
  <2>2. ASSUME NEW i \in DOMAIN l PROVE l[1] <= l[i]
    <3>1. i = 1 \/ 1 < i
      BY <1>1
    <3> QED BY <1>1, <2>1, <3>1 DEF IsList, Increasing
  <2> QED BY <1>3, <2>1, <2>2 DEF First, Range
<1> QED BY <1>2, <1>3

\* delete() takes out the task it is given, and nothing else.
LEMMA DeletedTask ==
  ASSUME NEW l, IsList(l), NEW t \in Range(l)
  PROVE  IsList(RemoveFirst(l, t)) /\ Range(RemoveFirst(l, t)) = Range(l) \ {t}
<1>1. /\ Len(l) \in Nat /\ DOMAIN l = 1..Len(l) /\ l \in Seq(Tasks) /\ IsInjective(l)
      /\ \A i \in DOMAIN l : l[i] \in Nat /\ l[i] # Nil
  BY Listed DEF IsList
<1>2. PICK p \in DOMAIN l : l[p] = t
  BY DEF Range
<1>3. PlaceIn(l, t) = p
  BY <1>2, PlaceOf
<1>4. RemoveFirst(l, t) = RemoveAt(l, p)
  BY <1>1, <1>2, <1>3 DEF RemoveFirst, PlaceIn
<1> DEFINE At(k) == IF k < p THEN k ELSE k + 1
<1>5. PICK r : r = RemoveAt(l, p)
  OBVIOUS
<1>6. /\ r \in Seq(Tasks) /\ Len(r) = Len(l) - 1 /\ DOMAIN r = 1..(Len(l) - 1)
      /\ \A k \in 1..(Len(l) - 1) : r[k] = IF k < p THEN l[k] ELSE l[k + 1]
  <2>1. p \in 1..Len(l)
    BY <1>1
  <2>2. /\ r \in Seq(Tasks) /\ Len(r) = Len(l) - 1
        /\ \A k \in 1..(Len(l) - 1) : r[k] = IF k < p THEN l[k] ELSE l[k + 1]
    BY <1>1, <1>5, <2>1, RemoveAtElements
  <2> QED BY <2>2, LenProperties
<1>7. ASSUME NEW k \in DOMAIN r PROVE At(k) \in DOMAIN l /\ At(k) # p /\ r[k] = l[At(k)]
  BY <1>1, <1>6
<1>8. ASSUME NEW i \in DOMAIN r, NEW j \in DOMAIN r, i < j PROVE r[i] < r[j]
  <2>1. At(i) < At(j)
    BY <1>1, <1>6, <1>8
  <2> QED BY <1>7, <2>1 DEF IsList, Increasing
<1>9. ASSUME NEW x \in Range(r) PROVE x \in Range(l) \ {t}
  <2>1. PICK k \in DOMAIN r : r[k] = x
    BY DEF Range
  <2>2. At(k) \in DOMAIN l /\ At(k) # p /\ x = l[At(k)]
    BY <1>7, <2>1
  <2> QED BY <1>1, <1>2, <2>2 DEF IsInjective, Range
<1>10. ASSUME NEW x \in Range(l) \ {t} PROVE x \in Range(r)
  <2>1. PICK j \in DOMAIN l : l[j] = x
    BY DEF Range
  <2>2. j # p
    BY <1>2, <2>1
  <2>3. \E k \in DOMAIN r : At(k) = j
    <3>1. CASE j < p
      BY <1>1, <1>6, <3>1
    <3>2. CASE ~(j < p)
      <4>1. j - 1 \in DOMAIN r /\ At(j - 1) = j
        BY <1>1, <1>6, <2>2, <3>2
      <4> QED BY <4>1
    <3> QED BY <3>1, <3>2
  <2> QED BY <1>7, <2>1, <2>3 DEF Range
<1> QED BY <1>4, <1>5, <1>6, <1>8, <1>9, <1>10 DEF IsList, Increasing

-----------------------------------------------------------------------------
(* The invariant. *)

RoundRobin == policy \in {"rr", "priority_rr"}

\* The file that was read, and the list in its order
Inputs ==
  /\ policy \in {"fcfs", "sjf", "priority", "rr", "priority_rr"}
  /\ priority \in [Tasks -> 1..MaxPriority]
  /\ total \in [Tasks -> 1..MaxBurst]
  /\ IsList(head)

\* What a task has had and what it still needs make its burst.
Consumed ==
  /\ time = Sum(ran)
  /\ \A t \in Tasks :
       IF t \in Left THEN ran[t] + burst[t] = total[t]
       ELSE ran[t] = total[t] /\ turnaround[t] # Nil /\ response[t] # Nil
  /\ ~RoundRobin => \A t \in Left : burst[t] = total[t]

\* Round robin looks at a task in the list.
TaskInv == RoundRobin => IF head = <<>> THEN task = Nil ELSE task \in Left

\* No task that is left has a higher priority than the one that is looked for,
\* and in a pass that was in vain so far none before task has that one.
LevelInv ==
  policy = "priority_rr" =>
    \A t \in Left :
      /\ level <= priority[t]
      /\ t < task /\ ~exist => priority[t] # level

\* Tasks that are due in this pass, and whether they have had their turn in it
IsDue(t) == policy = "rr" \/ priority[t] = level
Served(t) == IF IsDue(t) /\ t < task THEN 1 ELSE 0

\* Tasks that take turns have had as many, apart from the turn in this pass.
Alike(t, u) == policy = "rr" \/ priority[t] = priority[u]
TurnsInv ==
  RoundRobin =>
    \A t, u \in Left : Alike(t, u) => turns[t] - turns[u] = Served(t) - Served(u)

\* The first pass has come to task, with a quantum at most for each task before.
AnswerInv ==
  policy = "rr" =>
    \A t \in Tasks :
      IF response[t] = Nil
      THEN /\ task <= t /\ time <= (task - 1) * Quantum
           /\ \A u \in Tasks : task <= u => response[u] = Nil
      ELSE response[t] <= (t - 1) * Quantum

Inv == TypeOK /\ Inputs /\ Consumed /\ TaskInv /\ LevelInv /\ TurnsInv /\ AnswerInv

-----------------------------------------------------------------------------
(* Steps. *)

\* The parts of the type invariant that are about numbers.
LEMMA Numbers ==
  ASSUME Inv
  PROVE  /\ Count \in Nat /\ MaxBurst \in Nat /\ Quantum \in Nat \ {0} /\ MaxPriority \in Nat \ {0}
         /\ Nil \notin Nat /\ time \in Nat
         /\ Left \in SUBSET Tasks /\ Tasks \in SUBSET Nat
         /\ \A t \in Tasks :
              /\ t \in Nat /\ t # Nil /\ burst[t] \in Nat /\ burst[t] > 0
              /\ total[t] \in Nat /\ total[t] > 0 /\ total[t] <= MaxBurst
              /\ ran[t] \in Nat /\ turns[t] \in Nat /\ priority[t] \in Nat
              /\ priority[t] > 0 /\ priority[t] <= MaxPriority
<1>1. Count \in Nat /\ MaxBurst \in Nat /\ Quantum \in Nat \ {0} /\ MaxPriority \in Nat \ {0}
      /\ Nil \notin Nat
  BY ScheduleAssumption
<1>2. Left \in SUBSET Tasks
  BY Listed DEF Inv, Inputs, Left
<1>3. Count * MaxBurst \in Nat
  BY <1>1
<1>4. time \in Nat
  BY <1>3 DEF Inv, TypeOK, Time
<1>5. Tasks \in SUBSET Nat
  BY <1>1 DEF Tasks
<1>6. ASSUME NEW t \in Tasks
      PROVE  /\ t \in Nat /\ t # Nil /\ burst[t] \in Nat /\ burst[t] > 0
             /\ total[t] \in Nat /\ total[t] > 0 /\ total[t] <= MaxBurst
             /\ ran[t] \in Nat /\ turns[t] \in Nat /\ priority[t] \in Nat
             /\ priority[t] > 0 /\ priority[t] <= MaxPriority
  <2>1. burst[t] \in 1..MaxBurst /\ ran[t] \in 0..MaxBurst /\ turns[t] \in Nat
    BY DEF Inv, TypeOK
  <2>2. total[t] \in 1..MaxBurst /\ priority[t] \in 1..MaxPriority
    BY DEF Inv, Inputs
  <2> QED BY <1>1, <1>5, <2>1, <2>2
<1> QED BY <1>1, <1>2, <1>4, <1>5, <1>6

\* What runs changes the statistics, and leaves the list when it has its burst.
Runs(t, slice) ==
  /\ t \in Left /\ slice \in 1..burst[t]
  /\ run(t, slice)
  /\ policy' = policy /\ priority' = priority /\ total' = total
  /\ Left' = IF slice = burst[t] THEN Left \ {t} ELSE Left
  /\ \A u \in Left' : burst'[u] = IF u = t THEN burst[u] - slice ELSE burst[u]

\* The types of what run() sets.
StatsType ==
  /\ time \in Time
  /\ \A s \in {turnaround, response} : s \in [Tasks -> Time \cup {Nil}]
  /\ ran \in [Tasks -> 0..MaxBurst] /\ turns \in [Tasks -> Nat]

\* No more time goes by than tasks need.
LEMMA TimeBound ==
  ASSUME NEW f \in [Tasks -> 0..MaxBurst]
  PROVE  Sum(f) \in Time
<1>1. Count \in Nat /\ MaxBurst \in Nat
  BY ScheduleAssumption
<1> DEFINE z == Each({}, 0)  m == Each(Tasks, MaxBurst)
<1>2. z \in [Tasks -> Int] /\ m \in [Tasks -> Int] /\ f \in [Tasks -> Int]
  BY <1>1 DEF Each
<1>3. \A t \in Tasks : z[t] <= f[t] /\ f[t] <= m[t]
  BY <1>1 DEF Each
<1>4. Cardinality({}) = 0 /\ Cardinality(Tasks) = Count
  BY <1>1, FS_EmptySet, FS_Interval DEF Tasks
<1>5. Sum(z) = 0
  <2>1. {} \in SUBSET Tasks /\ 0 \in Int
    OBVIOUS
  <2>2. Sum(z) = 0 * Cardinality({})
    BY <2>1, SumEach
  <2> QED BY <1>4, <2>2
<1>6. Sum(m) = MaxBurst * Count
  <2>1. Tasks \in SUBSET Tasks /\ MaxBurst \in Int
    BY <1>1
  <2>2. Sum(m) = MaxBurst * Cardinality(Tasks)
    BY <2>1, SumEach
  <2> QED BY <1>4, <2>2
<1> HIDE DEF z, m
<1>7. Sum(z) <= Sum(f) /\ Sum(f) <= Sum(m) /\ Sum(f) \in Int
  BY <1>2, <1>3, SumLeq, SumInt
<1>8. MaxBurst * Count = Count * MaxBurst /\ Count * MaxBurst \in Int
  BY <1>1
<1> QED BY <1>5, <1>6, <1>7, <1>8 DEF Time

LEMMA RunsKeep ==
  ASSUME Inv, NEW t, NEW slice, Runs(t, slice)
  PROVE  /\ StatsType'
         /\ time' = Sum(ran)'
         /\ \A u \in Tasks :
              IF u \in Left' THEN ran'[u] + burst'[u] = total'[u]
              ELSE ran'[u] = total'[u] /\ turnaround'[u] # Nil /\ response'[u] # Nil
<1>1. t \in Left /\ t \in Tasks /\ slice \in Nat /\ slice > 0 /\ slice <= burst[t] /\ total' = total
  BY Numbers DEF Runs
<1>2. /\ response' = [response EXCEPT ![t] = IF @ = Nil THEN time ELSE @]
      /\ time' = time + slice
      /\ turnaround' = [turnaround EXCEPT ![t] = IF burst[t] = slice THEN time' ELSE @]
      /\ ran' = [ran EXCEPT ![t] = @ + slice]
      /\ turns' = [turns EXCEPT ![t] = @ + 1]
  BY DEF Runs, run
<1>3. /\ time \in Time /\ turnaround \in [Tasks -> Time \cup {Nil}]
      /\ response \in [Tasks -> Time \cup {Nil}]
      /\ ran \in [Tasks -> 0..MaxBurst] /\ turns \in [Tasks -> Nat]
  BY DEF Inv, TypeOK
<1>4. /\ time = Sum(ran)
      /\ \A u \in Tasks :
           IF u \in Left THEN ran[u] + burst[u] = total[u]
           ELSE ran[u] = total[u] /\ turnaround[u] # Nil /\ response[u] # Nil
  BY DEF Inv, Consumed
<1>5. ran' \in [Tasks -> 0..MaxBurst]
  <2>1. ran[t] + slice \in 0..MaxBurst
    BY <1>1, <1>4, Numbers
  <2> QED BY <1>2, <1>3, <2>1
<1>6. time' = Sum(ran')
  <2>1. ran \in [Tasks -> Int] /\ ran' \in [Tasks -> Int]
    BY <1>3, <1>5
  <2>2. \A u \in Tasks \ {t} : ran'[u] = ran[u]
    BY <1>2, <1>3
  <2>3. ran'[t] - ran[t] = slice
    BY <1>1, <1>2, <1>3
  <2>4. Sum(ran') = Sum(ran) + (ran'[t] - ran[t])
    BY <1>1, <2>1, <2>2, SumUpdate
  <2> QED BY <1>2, <1>4, <2>3, <2>4
<1>7. time' \in Time /\ time' # Nil /\ time # Nil
  <2>1. time' \in Time
    BY <1>5, <1>6, TimeBound
  <2> QED BY <1>1, <1>2, <2>1, Numbers
<1>8. turnaround' \in [Tasks -> Time \cup {Nil}] /\ response' \in [Tasks -> Time \cup {Nil}]
  BY <1>2, <1>3, <1>7
<1>9. turns' \in [Tasks -> Nat]
  <2>1. turns[t] + 1 \in Nat
    BY <1>1, <1>3
  <2> QED BY <1>2, <1>3, <2>1
<1>10. ASSUME NEW u \in Tasks
       PROVE  IF u \in Left' THEN ran'[u] + burst'[u] = total'[u]
              ELSE ran'[u] = total'[u] /\ turnaround'[u] # Nil /\ response'[u] # Nil
  <2>1. /\ Left' = IF slice = burst[t] THEN Left \ {t} ELSE Left
        /\ \A v \in Left' : burst'[v] = IF v = t THEN burst[v] - slice ELSE burst[v]
    BY DEF Runs
  <2>2. CASE u = t
    <3>1. ran'[u] = ran[t] + slice /\ ran[t] + burst[t] = total[t] /\ response'[u] # Nil
      BY <1>1, <1>2, <1>3, <1>4, <1>7, <2>2
    <3>2. CASE slice = burst[t]
      <4>1. turnaround'[u] # Nil
        BY <1>1, <1>2, <1>3, <1>7, <2>2, <3>2
      <4> QED BY <1>1, <2>1, <2>2, <3>1, <3>2, <4>1
    <3>3. CASE slice # burst[t]
      <4>1. u \in Left' /\ burst'[u] = burst[t] - slice
        BY <1>1, <2>1, <2>2, <3>3
      <4> QED BY <1>1, <2>2, <3>1, <4>1, Numbers
    <3> QED BY <3>2, <3>3
  <2>3. CASE u # t
    <3>1. ran'[u] = ran[u] /\ turnaround'[u] = turnaround[u] /\ response'[u] = response[u]
      BY <1>2, <1>3, <2>3
    <3>2. u \in Left' <=> u \in Left
      BY <2>1, <2>3
    <3>3. u \in Left' => burst'[u] = burst[u]
      BY <2>1, <2>3
    <3> QED BY <1>1, <1>4, <3>1, <3>2, <3>3
  <2> QED BY <2>2, <2>3
<1> QED BY <1>5, <1>6, <1>7, <1>8, <1>9, <1>10 DEF StatsType

\* schedule() of the programs that run a task to its end: it is the least urgent
\* that none is before.
ToEnd(t) ==
  /\ Runs(t, burst[t]) /\ ~RoundRobin
  /\ IsList(head') /\ burst' = burst /\ task' = task /\ level' = level /\ exist' = exist
  /\ policy = "sjf" => \A u \in Left : burst[t] <= burst[u]
  /\ policy = "priority" => \A u \in Left : priority[t] <= priority[u]

LEMMA RunToEndRuns ==
  ASSUME Inv, RunToEnd
  PROVE  \E t \in Left : ToEnd(t)
<1>1. /\ policy \in {"fcfs", "sjf", "priority"}
      /\ policy' = policy /\ priority' = priority /\ total' = total
      /\ burst' = burst /\ task' = task /\ level' = level /\ exist' = exist
  BY DEF RunToEnd, input
<1>2. PICK i \in DOMAIN head :
        /\ \A j \in DOMAIN head : Key(head[i]) < Key(head[j]) + (IF i <= j THEN 1 ELSE 0)
        /\ run(head[i], burst[head[i]])
        /\ head' = RemoveFirst(head, head[i])
  BY DEF RunToEnd
<1> DEFINE t == head[i]
<1>3. t \in Left /\ t \in Tasks /\ IsList(head)
  BY Listed DEF Inv, Inputs, Left, Range
<1>4. IsList(head') /\ Left' = Left \ {t}
  BY <1>2, <1>3, DeletedTask DEF Left
<1>5. Runs(t, burst[t])
  <2>1. burst[t] \in Nat /\ burst[t] > 0
    BY <1>3, Numbers
  <2>2. burst[t] \in 1..burst[t]
    BY <2>1
  <2> QED BY <1>1, <1>2, <1>3, <1>4, <2>2 DEF Runs
<1>6. \A j \in DOMAIN head : /\ head[j] \in Tasks /\ burst[head[j]] \in Nat /\ priority[head[j]] \in Nat
  BY <1>3, Listed, Numbers
<1>7. ASSUME policy = "sjf", NEW u \in Left PROVE burst[t] <= burst[u]
  <2>1. PICK j \in DOMAIN head : head[j] = u
    BY DEF Left, Range
  <2>2. Key(t) = burst[t] /\ Key(u) = burst[u]
    BY <1>7 DEF Key
  <2>3. burst[t] < burst[u] + (IF i <= j THEN 1 ELSE 0)
    BY <1>2, <2>1, <2>2
  <2> QED BY <1>6, <2>1, <2>3
<1>8. ASSUME policy = "priority", NEW u \in Left PROVE priority[t] <= priority[u]
  <2>1. PICK j \in DOMAIN head : head[j] = u
    BY DEF Left, Range
  <2>2. Key(t) = priority[t] /\ Key(u) = priority[u]
    BY <1>8 DEF Key
  <2>3. priority[t] < priority[u] + (IF i <= j THEN 1 ELSE 0)
    BY <1>2, <2>1, <2>2
  <2> QED BY <1>6, <2>1, <2>3
<1>9. ~RoundRobin
  BY <1>1 DEF RoundRobin
<1> HIDE DEF t
<1> QED BY <1>1, <1>3, <1>4, <1>5, <1>7, <1>8, <1>9 DEF ToEnd

\* schedule() of the round robins: task runs if it is due, n comes next.
Visits(n) ==
  /\ RoundRobin /\ task \in Left /\ level <= MaxPriority
  /\ IsList(head')
  /\ policy' = policy /\ priority' = priority /\ total' = total
  /\ \/ IsDue(task) /\ Runs(task, Slice(task))
     \/ ~IsDue(task) /\ UNCHANGED stats /\ Left' = Left /\ burst' = burst
  /\ burst' \in [Tasks -> 1..MaxBurst]
  /\ IsNext(head, task, n)
  /\ task' = IF n = Nil THEN First(head') ELSE n
  /\ level' = IF n = Nil /\ ~(exist \/ IsDue(task)) THEN level + 1 ELSE level
  /\ exist' = (n # Nil /\ (exist \/ IsDue(task)))

\* A slice is the quantum, or what is left of the burst.
LEMMA SliceOf ==
  ASSUME Inv, NEW t \in Left
  PROVE  /\ Slice(t) \in 1..burst[t]
         /\ Slice(t) = burst[t] <=> burst[t] <= Quantum
         /\ burst[t] > Quantum => Slice(t) = Quantum
         /\ Slice(t) <= Quantum
BY Numbers DEF Slice

LEMMA VisitVisits ==
  ASSUME Inv, Visit
  PROVE  \E n : Visits(n)
<1> DEFINE due  == policy = "rr" \/ priority[task] = level
           rest == IF due /\ burst[task] <= Quantum THEN RemoveFirst(head, task) ELSE head
           n    == After(head, rest, task)
           seen == exist \/ due
<1>1. /\ policy \in {"rr", "priority_rr"} /\ head # <<>> /\ level <= MaxPriority
      /\ policy' = policy /\ priority' = priority /\ total' = total
  BY DEF Visit, input
<1>2. /\ IF due THEN run(task, Slice(task)) ELSE UNCHANGED stats
      /\ burst' = IF due /\ burst[task] > Quantum
                  THEN [burst EXCEPT ![task] = @ - Quantum] ELSE burst
      /\ head' = rest
      /\ task' = IF n = Nil THEN First(rest) ELSE n
      /\ level' = IF n = Nil THEN NextLevel(seen) ELSE level
      /\ exist' = (n # Nil /\ seen)
  BY DEF Visit
<1>3. RoundRobin /\ task \in Left /\ task \in Tasks /\ IsList(head)
  BY <1>1, Numbers DEF Inv, TaskInv, RoundRobin, Inputs
<1>4. IsDue(task) <=> due
  BY DEF IsDue
<1>5. IsNext(head, task, n)
  BY <1>3, NextTask DEF Left
<1>6. IsList(rest) /\ Range(rest) = IF due /\ burst[task] <= Quantum THEN Left \ {task} ELSE Left
  BY <1>3, DeletedTask DEF Left
<1>7. Left' = IF due /\ burst[task] <= Quantum THEN Left \ {task} ELSE Left
  BY <1>2, <1>6 DEF Left
<1>8. burst' \in [Tasks -> 1..MaxBurst]
  <2>1. burst \in [Tasks -> 1..MaxBurst]
    BY DEF Inv, TypeOK
  <2>2. burst[task] > Quantum => burst[task] - Quantum \in 1..MaxBurst
    BY <1>3, <2>1, Numbers
  <2> QED BY <1>2, <2>1, <2>2
<1>9. ASSUME due PROVE Runs(task, Slice(task))
  <2>1. /\ Slice(task) \in 1..burst[task]
        /\ Slice(task) = burst[task] <=> burst[task] <= Quantum
        /\ burst[task] > Quantum => Slice(task) = Quantum
    BY <1>3, SliceOf
  <2>2. burst \in [Tasks -> 1..MaxBurst] /\ Left' \in SUBSET Tasks
    BY <1>7, Numbers DEF Inv, TypeOK
  <2>3. ASSUME NEW u \in Left'
        PROVE  burst'[u] = IF u = task THEN burst[u] - Slice(task) ELSE burst[u]
    <3>1. CASE burst[task] > Quantum
      BY <1>2, <1>9, <2>1, <2>2, <3>1
    <3>2. CASE ~(burst[task] > Quantum)
      <4>1. burst[task] <= Quantum
        BY <1>3, <3>2, Numbers
      <4>2. u # task /\ burst' = burst
        BY <1>2, <1>7, <1>9, <3>2, <4>1
      <4> QED BY <4>2
    <3> QED BY <3>1, <3>2
  <2>4. Left' = IF Slice(task) = burst[task] THEN Left \ {task} ELSE Left
    BY <1>7, <1>9, <2>1
  <2> QED BY <1>1, <1>2, <1>3, <1>9, <2>1, <2>3, <2>4 DEF Runs
<1>10. ASSUME ~due PROVE UNCHANGED stats /\ Left' = Left /\ burst' = burst
  BY <1>2, <1>7, <1>10
<1>11. level' = IF n = Nil /\ ~seen THEN level + 1 ELSE level
  BY <1>2 DEF NextLevel
<1>12. IsList(head') /\ task' = IF n = Nil THEN First(head') ELSE n
  BY <1>2, <1>6
<1>13. exist' = (n # Nil /\ seen) /\ (seen <=> exist \/ IsDue(task))
  BY <1>2, <1>4
<1> HIDE DEF due, rest, n, seen
<1> QED BY <1>1, <1>3, <1>4, <1>5, <1>8, <1>9, <1>10, <1>11, <1>12, <1>13 DEF Visits

-----------------------------------------------------------------------------
LEMMA InitInv == Init => Inv
<1> SUFFICES ASSUME Init PROVE Inv
  OBVIOUS
<1>1. Count \in Nat /\ MaxBurst \in Nat /\ Quantum \in Nat \ {0} /\ MaxPriority \in Nat \ {0}
      /\ Nil \notin Nat
  BY ScheduleAssumption
<1>2. /\ policy \in {"fcfs", "sjf", "priority", "rr", "priority_rr"}
      /\ priority \in [Tasks -> 1..MaxPriority] /\ total \in [Tasks -> 1..MaxBurst]
      /\ head = [t \in Tasks |-> t] /\ burst = total /\ task = First(head)
      /\ level = 1 /\ exist = FALSE /\ time = 0
      /\ turnaround = [t \in Tasks |-> Nil] /\ response = [t \in Tasks |-> Nil]
      /\ ran = [t \in Tasks |-> 0] /\ turns = [t \in Tasks |-> 0]
  BY DEF Init
<1>3. IsList(head)
  <2>1. head \in [1..Count -> Tasks]
    BY <1>2 DEF Tasks
  <2>2. head \in Seq(Tasks)
    BY <1>1, <2>1, SeqDef
  <2>3. DOMAIN head = Tasks /\ \A i \in DOMAIN head : head[i] = i
    BY <1>2
  <2> QED BY <2>2, <2>3 DEF IsList, Increasing
<1>4. Left = Tasks
  BY <1>2 DEF Left, Range
<1>5. Inputs
  BY <1>2, <1>3 DEF Inputs
<1>6. task \in Tasks \cup {Nil} /\ (head # <<>> => task \in Left) /\ (head = <<>> => task = Nil)
      /\ \A u \in Left : head # <<>> => task <= u
  BY <1>2, <1>3, <1>4, FirstTask DEF Left
<1>7. Sum(ran) = 0
  <2>1. {} \in SUBSET Tasks /\ 0 \in Int
    OBVIOUS
  <2>2. Sum(Each({}, 0)) = 0 * Cardinality({}) /\ Cardinality({}) = 0
    BY <2>1, SumEach, FS_EmptySet
  <2>3. ran = Each({}, 0)
    BY <1>2 DEF Each
  <2> QED BY <2>2, <2>3
<1>8. Consumed
  <2>1. ASSUME NEW t \in Tasks PROVE ran[t] + burst[t] = total[t]
    <3>1. ran[t] = 0 /\ burst[t] = total[t] /\ total[t] \in 1..MaxBurst
      BY <1>2
    <3> QED BY <1>1, <3>1
  <2> QED BY <1>2, <1>4, <1>7, <2>1 DEF Consumed
<1>9. TaskInv
  BY <1>6 DEF TaskInv
<1>10. \A t \in Left : head # <<>> /\ task \in Nat /\ ~(t < task)
  <2> SUFFICES ASSUME NEW t \in Left PROVE head # <<>> /\ task \in Nat /\ ~(t < task)
    OBVIOUS
  <2>1. head # <<>>
    BY DEF Left, Range
  <2>2. task \in Nat /\ t \in Nat
    BY <1>1, <1>4, <1>6, <2>1 DEF Tasks
  <2> QED BY <1>6, <2>1, <2>2
<1>11. LevelInv
  BY <1>1, <1>2, <1>4, <1>10 DEF LevelInv
<1>12. TurnsInv
  BY <1>2, <1>4, <1>10 DEF TurnsInv, Served
<1>13. AnswerInv
  <2> SUFFICES ASSUME policy = "rr", NEW t \in Tasks
               PROVE  /\ response[t] = Nil /\ task <= t /\ time <= (task - 1) * Quantum
                      /\ \A u \in Tasks : task <= u => response[u] = Nil
    BY DEF AnswerInv
  <2>1. task <= t /\ task \in Tasks
    <3>1. t \in Left /\ head # <<>>
      BY <1>4, <1>10
    <3> QED BY <1>4, <1>6, <3>1
  <2>2. task - 1 \in Nat
    BY <1>1, <2>1 DEF Tasks
  <2>3. (task - 1) * Quantum \in Nat
    BY <1>1, <2>2
  <2> QED BY <1>2, <2>1, <2>3
<1>14. TypeOK
  <2>1. time \in Time
    <3>1. Count * MaxBurst \in Nat
      BY <1>1
    <3> QED BY <1>2, <3>1 DEF Time
  <2>2. turnaround \in [Tasks -> Time \cup {Nil}] /\ response \in [Tasks -> Time \cup {Nil}]
    BY <1>2
  <2>3. ran \in [Tasks -> 0..MaxBurst] /\ turns \in [Tasks -> Nat]
    BY <1>1, <1>2
  <2>4. head \in Seq(Tasks) /\ IsInjective(head)
    BY <1>3, Listed DEF IsList
  <2>5. level \in 1..(MaxPriority + 1)
    BY <1>1, <1>2
  <2>6. exist \in BOOLEAN
    BY <1>2, Zenon
  <2> QED BY <2>6, <1>2, <1>6, <2>1, <2>2, <2>3, <2>4, <2>5 DEF TypeOK
<1> QED BY <1>5, <1>8, <1>9, <1>11, <1>12, <1>13, <1>14 DEF Inv

LEMMA ToEndKeeps ==
  ASSUME Inv, NEW t \in Left, ToEnd(t)
  PROVE  Inv'
<1>1. /\ Runs(t, burst[t]) /\ ~RoundRobin
      /\ IsList(head') /\ burst' = burst /\ task' = task /\ level' = level /\ exist' = exist
  BY DEF ToEnd
<1>2. /\ policy' = policy /\ priority' = priority /\ total' = total
      /\ Left' = Left \ {t}
  BY <1>1 DEF Runs
<1>3. policy' \notin {"rr", "priority_rr"}
  BY <1>1, <1>2 DEF RoundRobin
<1>4. StatsType' /\ time' = Sum(ran)'
      /\ \A u \in Tasks :
           IF u \in Left' THEN ran'[u] + burst'[u] = total'[u]
           ELSE ran'[u] = total'[u] /\ turnaround'[u] # Nil /\ response'[u] # Nil
  BY <1>1, RunsKeep
<1>5. Consumed'
  <2>1. \A u \in Left' : burst'[u] = total'[u]
    BY <1>1, <1>2 DEF Inv, Consumed
  <2> QED BY <1>4, <2>1 DEF Consumed
<1>6. TypeOK'
  <2>1. head' \in Seq(Tasks) /\ IsInjective(head')
    BY <1>1, Listed DEF IsList
  <2>2. /\ burst' \in [Tasks -> 1..MaxBurst] /\ task' \in Tasks \cup {Nil}
        /\ level' \in 1..(MaxPriority + 1) /\ exist' \in BOOLEAN
    BY <1>1 DEF Inv, TypeOK
  <2> QED BY <1>4, <2>1, <2>2 DEF TypeOK, StatsType
<1>7. Inputs'
  BY <1>1, <1>2 DEF Inv, Inputs
<1>8. TaskInv' /\ LevelInv' /\ TurnsInv' /\ AnswerInv'
  BY <1>3 DEF TaskInv, LevelInv, TurnsInv, AnswerInv, RoundRobin
<1> QED BY <1>5, <1>6, <1>7, <1>8 DEF Inv

-----------------------------------------------------------------------------
(* A visit of a round robin. *)

\* The task that is visited next is the one behind, or the first in the list.
LEMMA Moved ==
  ASSUME Inv, NEW n, Visits(n)
  PROVE  /\ Left' \in SUBSET Left /\ Left' \in SUBSET Tasks
         /\ task \in Tasks /\ task \in Nat
         /\ Left \ {task} \subseteq Left'
         /\ n = Nil => \A u \in Left : u <= task
         /\ n # Nil => /\ n \in Left' /\ n \in Nat /\ task < n /\ task' = n
                       /\ \A u \in Left : u <= task \/ n <= u
         /\ n = Nil => \A u \in Left' : task' \in Nat /\ task' <= u
         /\ IF head' = <<>> THEN task' = Nil /\ Left' = {} ELSE task' \in Left'
<1>1. /\ task \in Left /\ IsList(head') /\ IsNext(head, task, n)
      /\ task' = IF n = Nil THEN First(head') ELSE n
  BY DEF Visits
<1>2. Left' = Left \ {task} \/ Left' = Left
  BY DEF Visits, Runs
<1>3. Left \in SUBSET Tasks /\ Tasks \in SUBSET Nat
  BY Numbers
<1>4. IF n = Nil THEN \A u \in Left : u <= task
      ELSE n \in Left /\ task < n /\ \A u \in Left : u <= task \/ n <= u
  BY <1>1 DEF IsNext, Left
<1>5. task \in Tasks /\ task \in Nat
  BY <1>1, <1>3
<1>6. n # Nil => n \in Left' /\ n \in Nat
  <2> SUFFICES ASSUME n # Nil PROVE n \in Left' /\ n \in Nat
    OBVIOUS
  <2>1. n \in Left /\ n \in Nat /\ task < n
    BY <1>3, <1>4
  <2>2. n # task
    BY <1>5, <2>1
  <2> QED BY <1>2, <2>1, <2>2
<1>7. IF head' = <<>> THEN First(head') = Nil /\ Left' = {}
      ELSE First(head') \in Left' /\ \A u \in Left' : First(head') <= u
  BY <1>1, FirstTask DEF Left
<1>8. IF head' = <<>> THEN task' = Nil /\ Left' = {} ELSE task' \in Left'
  BY <1>1, <1>6, <1>7
<1>9. n = Nil => \A u \in Left' : task' \in Nat /\ task' <= u
  BY <1>1, <1>2, <1>3, <1>7
<1> QED BY <1>1, <1>2, <1>3, <1>4, <1>6, <1>5, <1>8, <1>9

\* What comes of the statistics.
LEMMA VisitStats ==
  ASSUME Inv, NEW n, Visits(n)
  PROVE  /\ StatsType'
         /\ time' = Sum(ran)'
         /\ \A u \in Tasks :
              IF u \in Left' THEN ran'[u] + burst'[u] = total'[u]
              ELSE ran'[u] = total'[u] /\ turnaround'[u] # Nil /\ response'[u] # Nil
<1>1. CASE IsDue(task) /\ Runs(task, Slice(task))
  BY <1>1, RunsKeep
<1>2. CASE ~IsDue(task) /\ UNCHANGED stats /\ Left' = Left /\ burst' = burst
  <2>1. /\ time' = time /\ turnaround' = turnaround /\ response' = response
        /\ ran' = ran /\ turns' = turns
    BY <1>2 DEF stats
  <2>2. total' = total
    BY DEF Visits
  <2>3. StatsType
    BY DEF Inv, TypeOK, StatsType
  <2>4. StatsType'
    BY <2>1, <2>3 DEF StatsType
  <2>5. time = Sum(ran)
        /\ \A u \in Tasks :
             IF u \in Left THEN ran[u] + burst[u] = total[u]
             ELSE ran[u] = total[u] /\ turnaround[u] # Nil /\ response[u] # Nil
    BY DEF Inv, Consumed
  <2> QED BY <1>2, <2>1, <2>2, <2>4, <2>5
<1> QED BY <1>1, <1>2 DEF Visits

LEMMA VisitType ==
  ASSUME Inv, NEW n, Visits(n)
  PROVE  TypeOK' /\ Inputs' /\ Consumed' /\ TaskInv'
<1>1. /\ RoundRobin /\ level <= MaxPriority /\ IsList(head')
      /\ policy' = policy /\ priority' = priority /\ total' = total
      /\ burst' \in [Tasks -> 1..MaxBurst]
      /\ level' = IF n = Nil /\ ~(exist \/ IsDue(task)) THEN level + 1 ELSE level
      /\ exist' = (n # Nil /\ (exist \/ IsDue(task)))
  BY DEF Visits
<1>2. /\ StatsType' /\ time' = Sum(ran)'
      /\ \A u \in Tasks :
           IF u \in Left' THEN ran'[u] + burst'[u] = total'[u]
           ELSE ran'[u] = total'[u] /\ turnaround'[u] # Nil /\ response'[u] # Nil
  BY VisitStats
<1>3. IF head' = <<>> THEN task' = Nil ELSE task' \in Left'
  BY Moved
<1>4. Left' \in SUBSET Tasks
  BY Moved
<1>5. level' \in 1..(MaxPriority + 1) /\ exist' \in BOOLEAN
  BY <1>1, Numbers DEF Inv, TypeOK
<1>6. head' \in Seq(Tasks) /\ IsInjective(head')
  BY <1>1, Listed DEF IsList
<1>7. TypeOK'
  BY <1>1, <1>2, <1>3, <1>4, <1>5, <1>6 DEF TypeOK, StatsType
<1>8. RoundRobin'
  BY <1>1 DEF RoundRobin
<1>9. Consumed'
  BY <1>2, <1>8 DEF Consumed
<1>10. TaskInv'
  BY <1>3 DEF TaskInv
<1>11. Inputs'
  BY <1>1 DEF Inv, Inputs
<1> QED BY <1>7, <1>9, <1>10, <1>11

\* Whether it is due, a task that stays has one turn more if it was visited.
LEMMA Turned ==
  ASSUME Inv, NEW n, Visits(n), NEW t \in Left'
  PROVE  /\ turns'[t] = turns[t] + (IF t = task /\ IsDue(task) THEN 1 ELSE 0)
         /\ turns[t] \in Nat /\ t \in Left /\ t \in Nat
<1>1. t \in Left /\ t \in Tasks /\ t \in Nat /\ task \in Tasks
  BY Moved, Numbers
<1>2. turns \in [Tasks -> Nat]
  BY DEF Inv, TypeOK
<1>3. CASE IsDue(task) /\ Runs(task, Slice(task))
  <2>1. turns' = [turns EXCEPT ![task] = @ + 1]
    BY <1>3 DEF Runs, run
  <2> QED BY <1>1, <1>2, <1>3, <2>1
<1>4. CASE ~IsDue(task) /\ UNCHANGED stats
  <2>1. turns' = turns
    BY <1>4 DEF stats
  <2> QED BY <1>1, <1>2, <1>4, <2>1
<1> QED BY <1>3, <1>4 DEF Visits

LEMMA VisitTurns ==
  ASSUME Inv, NEW n, Visits(n)
  PROVE  TurnsInv'
<1>1. /\ policy' = policy /\ priority' = priority
      /\ level' = IF n = Nil /\ ~(exist \/ IsDue(task)) THEN level + 1 ELSE level
  BY DEF Visits
<1>2. SUFFICES ASSUME NEW t \in Left', NEW u \in Left', Alike(t, u)
               PROVE  turns'[t] - turns'[u] = Served(t)' - Served(u)'
  BY <1>1 DEF TurnsInv, Alike
<1>3. /\ turns'[t] = turns[t] + (IF t = task /\ IsDue(task) THEN 1 ELSE 0)
      /\ turns[t] \in Nat /\ t \in Left /\ t \in Nat
  BY Turned
<1>4. /\ turns'[u] = turns[u] + (IF u = task /\ IsDue(task) THEN 1 ELSE 0)
      /\ turns[u] \in Nat /\ u \in Left /\ u \in Nat
  BY Turned
<1>5. turns[t] - turns[u] = Served(t) - Served(u)
  BY <1>2, <1>3, <1>4 DEF Inv, TurnsInv, Visits
<1>6. IsDue(t) <=> IsDue(u)
  BY <1>2 DEF Alike, IsDue
<1>7. task \in Nat
  BY Moved
<1>8. CASE n # Nil
  <2>1. /\ n \in Nat /\ task < n /\ task' = n
        /\ (t <= task \/ n <= t) /\ (u <= task \/ n <= u)
    BY <1>3, <1>4, <1>8, Moved
  <2>2. (t < n <=> t < task \/ t = task) /\ (u < n <=> u < task \/ u = task)
    BY <1>3, <1>4, <1>7, <2>1
  <2>3. (IsDue(t)' <=> IsDue(t)) /\ (IsDue(u)' <=> IsDue(u))
    BY <1>1, <1>8 DEF IsDue
  <2>4. /\ Served(t)' = (IF IsDue(t) /\ (t < task \/ t = task) THEN 1 ELSE 0)
        /\ Served(u)' = (IF IsDue(u) /\ (u < task \/ u = task) THEN 1 ELSE 0)
    BY <2>1, <2>2, <2>3 DEF Served
  <2> QED BY <1>3, <1>4, <1>5, <1>6, <1>7, <2>4 DEF Served
<1>9. CASE n = Nil
  <2>1. task' \in Nat /\ task' <= t /\ task' <= u /\ t <= task /\ u <= task
    BY <1>3, <1>4, <1>9, Moved
  <2>2. Served(t)' = 0 /\ Served(u)' = 0
    BY <1>3, <1>4, <2>1 DEF Served
  <2>3. /\ Served(t) = (IF IsDue(t) /\ t # task THEN 1 ELSE 0)
        /\ Served(u) = (IF IsDue(u) /\ u # task THEN 1 ELSE 0)
    BY <1>3, <1>4, <1>7, <2>1 DEF Served
  <2> QED BY <1>3, <1>4, <1>5, <1>6, <2>2, <2>3
<1> QED BY <1>8, <1>9

LEMMA VisitLevel ==
  ASSUME Inv, NEW n, Visits(n)
  PROVE  LevelInv'
<1>1. /\ policy' = policy /\ priority' = priority
      /\ level' = IF n = Nil /\ ~(exist \/ IsDue(task)) THEN level + 1 ELSE level
      /\ exist' = (n # Nil /\ (exist \/ IsDue(task)))
  BY DEF Visits
<1>2. SUFFICES ASSUME policy = "priority_rr", NEW t \in Left'
               PROVE  /\ level' <= priority[t]
                      /\ t < task' /\ ~exist' => priority[t] # level'
  BY <1>1 DEF LevelInv
<1>3. /\ t \in Left /\ t \in Nat /\ task \in Nat /\ priority[t] \in Nat /\ level \in Nat
  BY Moved, Numbers DEF Inv, TypeOK
<1>4. /\ level <= priority[t]
      /\ t < task /\ ~exist => priority[t] # level
  BY <1>2, <1>3 DEF Inv, LevelInv
<1>5. IsDue(task) <=> priority[task] = level
  BY <1>2 DEF IsDue
<1>6. CASE n # Nil
  <2>1. task' = n /\ n \in Nat /\ task < n /\ (t <= task \/ n <= t) /\ level' = level
    BY <1>1, <1>3, <1>6, Moved
  <2>2. t < task' => t < task \/ t = task
    BY <1>3, <2>1
  <2> QED BY <1>1, <1>4, <1>5, <1>6, <2>1, <2>2
<1>7. CASE n = Nil
  <2>1. task' \in Nat /\ task' <= t /\ t <= task
    BY <1>3, <1>7, Moved
  <2>2. ~(t < task')
    BY <1>3, <2>1
  <2>3. t < task \/ t = task
    BY <1>3, <2>1
  <2>4. CASE exist \/ IsDue(task)
    BY <1>1, <1>4, <2>2, <2>4
  <2>5. CASE ~(exist \/ IsDue(task))
    <3>1. level' = level + 1
      BY <1>1, <1>7, <2>5
    <3>2. priority[t] # level
      BY <1>4, <1>5, <2>3, <2>5
    <3> QED BY <1>3, <1>4, <2>2, <3>1, <3>2
  <2> QED BY <2>4, <2>5
<1> QED BY <1>6, <1>7

\* A quantum more for each task before
LEMMA Quanta ==
  ASSUME NEW t \in Nat, t > 0, NEW q \in Nat
  PROVE  (t - 1) * q \in Nat /\ (t + 1 - 1) * q = (t - 1) * q + q
<1>1. PICK m \in Nat : t = m + 1
  <2>1. t - 1 \in Nat /\ t = (t - 1) + 1
    OBVIOUS
  <2> QED BY <2>1
<1>2. m * q \in Nat /\ (m + 1) * q = m * q + q
  OBVIOUS
<1>3. t - 1 = m /\ t + 1 - 1 = m + 1
  BY <1>1
<1> QED BY <1>2, <1>3

LEMMA VisitAnswer ==
  ASSUME Inv, NEW n, Visits(n)
  PROVE  AnswerInv'
<1>1. SUFFICES ASSUME policy = "rr", NEW t \in Tasks
               PROVE  IF response'[t] = Nil
                      THEN /\ task' <= t /\ time' <= (task' - 1) * Quantum
                           /\ \A u \in Tasks : task' <= u => response'[u] = Nil
                      ELSE response'[t] <= (t - 1) * Quantum
  BY DEF AnswerInv, Visits
<1>2. Runs(task, Slice(task))
  BY <1>1 DEF Visits, IsDue
<1>3. /\ response' = [response EXCEPT ![task] = IF @ = Nil THEN time ELSE @]
      /\ time' = time + Slice(task)
  BY <1>2 DEF Runs, run
<1>4. /\ task \in Left /\ task \in Tasks /\ task \in Nat /\ task > 0
      /\ Quantum \in Nat /\ time \in Nat /\ time # Nil /\ t \in Nat
  BY <1>2, Numbers DEF Runs, Tasks
<1>5. Slice(task) \in Nat /\ Slice(task) <= Quantum
  BY <1>4, SliceOf, Numbers
<1>6. response \in [Tasks -> Time \cup {Nil}]
  BY DEF Inv, TypeOK
<1>7. \A u \in Tasks :
        IF response[u] = Nil
        THEN /\ task <= u /\ time <= (task - 1) * Quantum
             /\ \A v \in Tasks : task <= v => response[v] = Nil
        ELSE response[u] <= (u - 1) * Quantum
  BY <1>1 DEF Inv, AnswerInv
<1>8. response'[task] # Nil /\ \A u \in Tasks : u # task => response'[u] = response[u]
  BY <1>3, <1>4, <1>6
<1>9. CASE response'[t] # Nil
  <2>1. CASE response[t] # Nil
    <3>1. response'[t] = response[t]
      BY <1>3, <1>4, <1>6, <2>1
    <3> QED BY <1>7, <1>9, <2>1, <3>1
  <2>2. CASE response[t] = Nil
    <3>1. t = task
      BY <1>8, <1>9, <2>2
    <3>2. response'[t] = time /\ time <= (task - 1) * Quantum
      BY <1>3, <1>4, <1>6, <1>7, <2>2, <3>1
    <3> QED BY <1>9, <3>1, <3>2
  <2> QED BY <2>1, <2>2
<1>10. CASE response'[t] = Nil
  <2>1. t # task /\ response[t] = Nil
    BY <1>8, <1>10
  <2>2. /\ task <= t /\ time <= (task - 1) * Quantum
        /\ \A v \in Tasks : task <= v => response[v] = Nil
    BY <1>7, <2>1
  <2>3. \A v \in Tasks : task <= v => v \in Left
    BY <2>2 DEF Inv, Consumed
  <2>4. task + 1 \in Tasks /\ task + 1 <= t
    BY <1>4, <2>1, <2>2, ScheduleAssumption DEF Tasks
  <2>5. task + 1 \in Left /\ ~(task + 1 <= task)
    BY <1>4, <2>3, <2>4
  <2>6. n # Nil
    BY <2>5, Moved
  <2>7. n \in Nat /\ task < n /\ task' = n /\ n <= task + 1
    BY <2>5, <2>6, Moved
  <2>8. task' = task + 1
    BY <1>4, <2>7
  <2>9. (task - 1) * Quantum \in Nat /\ (task + 1 - 1) * Quantum = (task - 1) * Quantum + Quantum
    BY <1>4, Quanta
  <2>10. time' <= (task' - 1) * Quantum
    BY <1>3, <1>4, <1>5, <2>2, <2>8, <2>9
  <2>11. ASSUME NEW v \in Tasks, task' <= v PROVE response'[v] = Nil
    <3>1. v # task /\ task <= v
      BY <1>4, <2>8, <2>11, Numbers
    <3> QED BY <1>8, <2>2, <3>1
  <2> QED BY <1>10, <2>4, <2>8, <2>10, <2>11
<1> QED BY <1>9, <1>10

LEMMA InvStep == Inv /\ [Next]_vars => Inv'
<1> SUFFICES ASSUME Inv, [Next]_vars PROVE Inv'
  OBVIOUS
<1>1. CASE RunToEnd
  BY <1>1, RunToEndRuns, ToEndKeeps
<1>2. CASE Visit
  <2>1. PICK n : Visits(n)
    BY <1>2, VisitVisits
  <2> QED BY <2>1, VisitType, VisitTurns, VisitLevel, VisitAnswer DEF Inv
<1>3. CASE UNCHANGED vars
  <2>1. /\ policy' = policy /\ priority' = priority /\ total' = total /\ head' = head
        /\ burst' = burst /\ task' = task /\ level' = level /\ exist' = exist /\ time' = time
        /\ turnaround' = turnaround /\ response' = response /\ ran' = ran /\ turns' = turns
    BY <1>3 DEF vars, input, stats
  <2> QED BY <2>1 DEF Inv, TypeOK, Inputs, Consumed, TaskInv, LevelInv, TurnsInv, AnswerInv, Alike,
                      Served, IsDue, RoundRobin, Left
<1> QED BY <1>1, <1>2, <1>3 DEF Next

LEMMA InvHolds == Spec => []Inv
<1> QED BY InitInv, InvStep, PTL DEF Spec

-----------------------------------------------------------------------------
LEMMA InvDueServed == Inv => DueServed
<1> SUFFICES ASSUME Inv PROVE DueServed
  OBVIOUS
<1>1. TypeOK
  BY DEF Inv
<1>2. ExactlyItsBurst
  <2> SUFFICES ASSUME NEW t \in Tasks
               PROVE  /\ t \in Left => ran[t] < total[t]
                      /\ t \notin Left => ran[t] = total[t] /\ turnaround[t] # Nil
    BY DEF ExactlyItsBurst
  <2>1. burst[t] \in Nat /\ burst[t] > 0 /\ ran[t] \in Nat /\ total[t] \in Nat
    BY Numbers
  <2> QED BY <2>1 DEF Inv, Consumed
<1>3. FairTurns
  <2> SUFFICES ASSUME policy \in {"rr", "priority_rr"}, NEW i \in DOMAIN head, NEW j \in DOMAIN head,
                      i < j, policy = "rr" \/ priority[head[i]] = priority[head[j]]
               PROVE  turns[head[i]] - turns[head[j]] \in {0, 1}
    BY DEF FairTurns
  <2>1. head[i] < head[j] /\ head[i] \in Left /\ head[j] \in Left
    BY DEF Inv, Inputs, IsList, Increasing, Left, Range
  <2>2. head[i] \in Nat /\ head[j] \in Nat /\ turns[head[i]] \in Nat /\ turns[head[j]] \in Nat
    BY <2>1, Numbers
  <2>3. turns[head[i]] - turns[head[j]] = Served(head[i]) - Served(head[j])
    BY <2>1 DEF Inv, TurnsInv, RoundRobin, Alike
  <2>4. IsDue(head[i]) <=> IsDue(head[j])
    BY DEF IsDue
  <2>5. task \in Nat
    BY <2>1, Numbers DEF Inv, TaskInv, RoundRobin, Left, Range
  <2>6. Served(head[i]) - Served(head[j]) \in {0, 1}
    BY <2>1, <2>2, <2>4, <2>5 DEF Served
  <2> QED BY <2>3, <2>6
<1>4. AnsweredInTurn
  BY DEF AnsweredInTurn, Inv, AnswerInv
<1> QED BY <1>1, <1>2, <1>3, <1>4 DEF DueServed

\* Whichever scheduler it is, a task has had exactly its burst when it leaves the list,
\* tasks that take turns have had as many or one more in the order of the list, and each
\* task is answered after one quantum at most for each task before it.
THEOREM DueServedAlways == Spec => []DueServed
<1> QED BY InvHolds, InvDueServed, PTL

\* Only the most urgent of the tasks that are left have more time after a step.
LEMMA UrgentStep ==
  ASSUME Inv, [Next]_vars
  PROVE  \A t \in Tasks : ran'[t] > ran[t] /\ policy \in {"priority", "priority_rr"} => MostUrgent(t)
<1> SUFFICES ASSUME NEW t \in Tasks, ran'[t] > ran[t], policy \in {"priority", "priority_rr"}
             PROVE  MostUrgent(t)
  OBVIOUS
<1>1. ran \in [Tasks -> Nat] /\ ran[t] \in Nat
  BY Numbers DEF Inv, TypeOK
<1>2. CASE RunToEnd
  <2>1. PICK u \in Left : ToEnd(u)
    BY <1>2, RunToEndRuns
  <2>2. ran' = [ran EXCEPT ![u] = @ + burst[u]]
    BY <2>1 DEF ToEnd, Runs, run
  <2>3. t = u
    BY <1>1, <2>2
  <2>4. policy = "priority"
    BY <1>2 DEF RunToEnd
  <2> QED BY <2>1, <2>3, <2>4 DEF ToEnd, MostUrgent
<1>3. CASE Visit
  <2>1. PICK n : Visits(n)
    BY <1>3, VisitVisits
  <2>2. IsDue(task) /\ ran' = [ran EXCEPT ![task] = @ + Slice(task)]
    BY <1>1, <2>1 DEF Visits, Runs, run, stats
  <2>3. t = task
    BY <1>1, <2>2
  <2>4. policy = "priority_rr"
    BY <1>3 DEF Visit
  <2>5. priority[t] = level
    BY <2>2, <2>3, <2>4 DEF IsDue
  <2> QED BY <2>4, <2>5 DEF Inv, LevelInv, MostUrgent
<1>4. CASE UNCHANGED vars
  <2>1. ran' = ran
    BY <1>4 DEF vars, stats
  <2> QED BY <1>1, <2>1
<1> QED BY <1>2, <1>3, <1>4 DEF Next

\* The programs with priorities run a task only when none with a higher one is left.
THEOREM PriorityKeptAlways == Spec => PriorityKept
<1>1. Inv /\ [Next]_vars =>
        [\A t \in Tasks : ran'[t] > ran[t] /\ policy \in {"priority", "priority_rr"} =>
           MostUrgent(t)]_vars
  BY UrgentStep
<1> QED BY <1>1, InvHolds, PTL DEF Spec, PriorityKept

-----------------------------------------------------------------------------
(* Shortest job first. *)

\* The tasks that are left in an order, from its place i
Remaining(order, i) == {j \in Tasks : i <= j /\ order[j] \in Left}

\* What has been spent on turnaround times, and what the tasks that are left add in
\* this order: each counts for itself and for all that are left behind it.
Spent == [t \in Tasks |-> IF t \in Left THEN 0 ELSE turnaround[t]]
Ahead(order) ==
  [i \in Tasks |-> IF order[i] \in Left
                   THEN time + Cardinality(Remaining(order, i)) * total[order[i]] ELSE 0]
Cost(order) == Sum(Spent) + Sum(Ahead(order))

\* The sum of turnaround times when tasks run in this order
InOrder(order) == [i \in Tasks |-> (Count + 1 - i) * total[order[i]]]

CostInv == policy = "sjf" => \A order \in Orders : Cost(order) <= Sum(InOrder(order))

LEMMA RemainingFinite ==
  ASSUME NEW order, NEW i
  PROVE  IsFiniteSet(Remaining(order, i)) /\ Cardinality(Remaining(order, i)) \in Nat
<1>1. Count \in Int /\ 1 \in Int
  BY ScheduleAssumption
<1>2. IsFiniteSet(Tasks)
  BY <1>1, FS_Interval DEF Tasks
<1>3. Remaining(order, i) \in SUBSET Tasks
  BY DEF Remaining
<1> QED BY <1>2, <1>3, FS_Subset, FS_CardinalityType

\* An order has each task.
LEMMA OrderHas ==
  ASSUME NEW order \in Orders, NEW t \in Tasks
  PROVE  \E k \in Tasks : order[k] = t
<1>1. Count \in Int /\ 1 \in Int
  BY ScheduleAssumption
<1>2. IsFiniteSet(Tasks)
  BY <1>1, FS_Interval DEF Tasks
<1>3. SUFFICES ASSUME \A k \in Tasks : order[k] # t PROVE FALSE
  OBVIOUS
<1>4. order \in [Tasks -> Tasks \ {t}] /\ IsInjective(order)
  BY <1>3 DEF Orders
<1>5. IsFiniteSet(Tasks \ {t}) /\ Cardinality(Tasks \ {t}) = Cardinality(Tasks) - 1
      /\ Cardinality(Tasks) \in Nat
  BY <1>2, FS_RemoveElement, FS_CardinalityType
<1>6. Cardinality(Tasks \ {t}) < Cardinality(Tasks)
  BY <1>5
<1>7. \E x, y \in Tasks : x # y /\ order[x] = order[y]
  BY <1>2, <1>4, <1>5, <1>6, FS_PigeonHole
<1> QED BY <1>4, <1>7 DEF IsInjective

\* A natural number of tasks that need as long
LEMMA Product == \A m, y \in Nat : /\ m * y \in Nat /\ (m + 1) * y = m * y + y
                                   /\ m > 0 => (m - 1) * y = m * y - y /\ m * y >= y
<1> SUFFICES ASSUME NEW m \in Nat, NEW y \in Nat
             PROVE  /\ m * y \in Nat /\ (m + 1) * y = m * y + y
                    /\ m > 0 => (m - 1) * y = m * y - y /\ m * y >= y
  OBVIOUS
<1>1. m * y \in Nat /\ (m + 1) * y = m * y + y
  OBVIOUS
<1>2. ASSUME m > 0 PROVE (m - 1) * y = m * y - y /\ m * y >= y
  <2>1. PICK n \in Nat : m = n + 1
    <3>1. m - 1 \in Nat /\ m = (m - 1) + 1
      BY <1>2
    <3> QED BY <3>1
  <2>2. n * y \in Nat /\ (n + 1) * y = n * y + y
    OBVIOUS
  <2>3. m - 1 = n
    BY <2>1
  <2> QED BY <2>1, <2>2, <2>3
<1> QED BY <1>1, <1>2

CostType ==
  /\ Spent \in [Tasks -> Int]
  /\ \A order \in Orders :
       /\ Ahead(order) \in [Tasks -> Int] /\ InOrder(order) \in [Tasks -> Int]
       /\ \A i \in Tasks : order[i] \in Tasks /\ total[order[i]] \in Nat

LEMMA InvCostType == Inv => CostType
<1> SUFFICES ASSUME Inv PROVE CostType
  OBVIOUS
<1>1. Spent \in [Tasks -> Int]
  <2>1. ASSUME NEW t \in Tasks, t \notin Left PROVE turnaround[t] \in Int
    <3>1. turnaround[t] # Nil /\ turnaround[t] \in Time \cup {Nil}
      BY <2>1 DEF Inv, Consumed, TypeOK
    <3> QED BY <3>1 DEF Time
  <2> QED BY <2>1 DEF Spent
<1>2. ASSUME NEW order \in Orders, NEW i \in Tasks
      PROVE  order[i] \in Tasks /\ total[order[i]] \in Nat
  BY Numbers DEF Orders
<1>3. ASSUME NEW order \in Orders PROVE Ahead(order) \in [Tasks -> Int]
  <2> SUFFICES ASSUME NEW i \in Tasks
               PROVE  time + Cardinality(Remaining(order, i)) * total[order[i]] \in Int
    BY DEF Ahead
  <2>1. PICK m \in Nat : m = Cardinality(Remaining(order, i))
    BY RemainingFinite
  <2>2. PICK y \in Nat : y = total[order[i]]
    BY <1>2
  <2>3. m * y \in Nat /\ time \in Nat
    BY Product, Numbers
  <2> QED BY <2>1, <2>2, <2>3
<1>4. ASSUME NEW order \in Orders PROVE InOrder(order) \in [Tasks -> Int]
  <2> SUFFICES ASSUME NEW i \in Tasks PROVE (Count + 1 - i) * total[order[i]] \in Int
    BY DEF InOrder
  <2>1. PICK m \in Nat : m = Count + 1 - i
    BY Numbers DEF Tasks
  <2>2. PICK y \in Nat : y = total[order[i]]
    BY <1>2
  <2>3. m * y \in Nat
    BY Product
  <2> QED BY <2>1, <2>2, <2>3
<1> QED BY <1>1, <1>2, <1>3, <1>4 DEF CostType

\* At the start the cost of an order is its sum of turnaround times.
LEMMA CostInit == Init => CostInv
<1> SUFFICES ASSUME Init, NEW order \in Orders PROVE Cost(order) <= Sum(InOrder(order))
  BY DEF CostInv
<1>1. Inv
  BY InitInv
<1>2. /\ Spent \in [Tasks -> Int] /\ Ahead(order) \in [Tasks -> Int]
      /\ InOrder(order) \in [Tasks -> Int]
      /\ \A i \in Tasks : order[i] \in Tasks /\ total[order[i]] \in Nat
  BY <1>1, InvCostType DEF CostType
<1>3. Left = Tasks /\ time = 0
  BY DEF Init, Left, Range
<1>4. Count \in Nat
  BY ScheduleAssumption
<1>5. Sum(Spent) = 0
  <2>1. {} \in SUBSET Tasks /\ 0 \in Int
    OBVIOUS
  <2>2. Sum(Each({}, 0)) = 0 * Cardinality({}) /\ Cardinality({}) = 0
    BY <2>1, SumEach, FS_EmptySet
  <2>3. Spent = Each({}, 0)
    BY <1>3 DEF Each, Spent
  <2> QED BY <2>2, <2>3
<1>6. ASSUME NEW i \in Tasks PROVE Cardinality(Remaining(order, i)) = Count + 1 - i
  <2>1. Remaining(order, i) = i..Count
    BY <1>2, <1>3, <1>4 DEF Remaining, Tasks
  <2>2. i \in Int /\ Count \in Int /\ i <= Count
    BY <1>4 DEF Tasks
  <2>3. Cardinality(i..Count) = IF i > Count THEN 0 ELSE Count - i + 1
    BY <2>2, FS_Interval
  <2> QED BY <2>1, <2>2, <2>3
<1>7. Ahead(order) = InOrder(order)
  <2> SUFFICES ASSUME NEW i \in Tasks
               PROVE  (IF order[i] \in Left
                       THEN time + Cardinality(Remaining(order, i)) * total[order[i]] ELSE 0)
                      = (Count + 1 - i) * total[order[i]]
    BY DEF Ahead, InOrder
  <2>1. PICK m \in Nat : m = Count + 1 - i
    BY <1>4 DEF Tasks
  <2>2. PICK y \in Nat : y = total[order[i]]
    BY <1>2
  <2>3. m * y \in Nat
    BY Product
  <2>4. order[i] \in Left /\ Cardinality(Remaining(order, i)) = m
    BY <1>2, <1>3, <1>6, <2>1
  <2> QED BY <1>3, <2>1, <2>2, <2>3, <2>4
<1>8. Sum(InOrder(order)) \in Int
  BY <1>2, SumInt
<1> QED BY <1>5, <1>7, <1>8 DEF Cost

\* Running the shortest task does not increase the cost of any order.
LEMMA CostStep ==
  ASSUME Inv, Inv', policy = "sjf", NEW t \in Left, ToEnd(t), NEW order \in Orders
  PROVE  Cost(order)' <= Cost(order)
<1>1. /\ Runs(t, burst[t])
      /\ \A u \in Left : burst[t] <= burst[u]
  BY DEF ToEnd
<1>2. /\ total' = total /\ Left' = Left \ {t}
      /\ time' = time + burst[t]
      /\ turnaround' = [turnaround EXCEPT ![t] = IF burst[t] = burst[t] THEN time' ELSE @]
  BY <1>1 DEF Runs, run
<1>3. \A u \in Left : burst[u] = total[u]
  BY DEF ToEnd, Inv, Consumed
<1>4. PICK x \in Nat : x = total[t]
  BY Numbers
<1>5. /\ time' = time + x /\ time \in Nat
      /\ turnaround' = [turnaround EXCEPT ![t] = time + x]
      /\ \A u \in Left : x <= total[u]
  BY <1>1, <1>2, <1>3, <1>4, Numbers
<1>6. /\ Spent \in [Tasks -> Int] /\ Ahead(order) \in [Tasks -> Int]
      /\ \A i \in Tasks : order[i] \in Tasks /\ total[order[i]] \in Nat
  BY InvCostType DEF CostType
<1>7. Spent' \in [Tasks -> Int] /\ Ahead(order)' \in [Tasks -> Int]
  <2>1. CostType'
    BY InvCostType, PTL
  <2> QED BY <2>1 DEF CostType, Orders, Tasks
<1> DEFINE spent == Spent'  b == Ahead(order)'  a == Ahead(order)
\* The task that has run pays for itself.
<1>8. Sum(spent) = Sum(Spent) + (time + x)
  <2>1. /\ Spent = [u \in Tasks |-> IF u \in Left THEN 0 ELSE turnaround[u]]
        /\ spent = [u \in Tasks |-> IF u \in Left' THEN 0 ELSE turnaround'[u]]
    BY DEF Spent, Tasks
  <2>2. turnaround \in [Tasks -> Time \cup {Nil}] /\ t \in Tasks
    BY Numbers DEF Inv, TypeOK
  <2>3. spent[t] = time + x /\ Spent[t] = 0
    BY <1>2, <1>5, <2>1, <2>2
  <2>4. \A u \in Tasks \ {t} : spent[u] = Spent[u]
    BY <1>2, <1>5, <2>1, <2>2
  <2> HIDE DEF spent
  <2>5. Sum(spent) = Sum(Spent) + (spent[t] - Spent[t])
    BY <1>6, <1>7, <2>2, <2>4, SumUpdate DEF spent
  <2> QED BY <1>4, <1>5, <2>3, <2>5
<1>9. PICK k \in Tasks : order[k] = t
  BY Numbers, OrderHas
<1> DEFINE Later == {j \in Tasks : k < j /\ order[j] \in Left}
<1>10. /\ Remaining(order, k) = Later \cup {k} /\ k \notin Later /\ Later \in SUBSET Tasks
  BY <1>9, Numbers DEF Remaining
<1>11. PICK c \in Nat : c = Cardinality(Later) /\ Cardinality(Remaining(order, k)) = c + 1
  <2>1. Tasks \in SUBSET Nat /\ IsFiniteSet(Remaining(order, k))
    BY Numbers, RemainingFinite
  <2>2. Later \in SUBSET Remaining(order, k)
    BY <1>10
  <2> HIDE DEF Later
  <2>3. IsFiniteSet(Later) /\ Cardinality(Later) \in Nat
    BY <2>1, <2>2, FS_Subset, FS_CardinalityType
  <2>4. Cardinality(Later \cup {k}) = Cardinality(Later) + 1
    BY <1>10, <2>3, FS_AddElement
  <2> QED BY <1>10, <2>3, <2>4
<1>12. (c + 1) * x \in Nat /\ c * x \in Nat /\ (c + 1) * x = c * x + x
  BY <1>4, <1>11, Product
<1>13. PICK z \in Int : z = 0 - (time + (c + 1) * x)
  BY <1>5, <1>12
<1> DEFINE d == Each(Later, x)
           e == Each({k}, z)
           h == [i \in Tasks |-> a[i] + d[i]]
           g == [i \in Tasks |-> h[i] + e[i]]
<1>14. /\ a = [i \in Tasks |-> IF order[i] \in Left
                              THEN time + Cardinality(Remaining(order, i)) * total[order[i]] ELSE 0]
       /\ b = [i \in Tasks |-> IF order[i] \in Left'
                              THEN time' + Cardinality(Remaining(order, i)') * total'[order[i]] ELSE 0]
  BY DEF Ahead, Tasks
<1>15. /\ \A i \in Tasks : d[i] = IF i \in Later THEN x ELSE 0
       /\ \A i \in Tasks : e[i] = IF i = k THEN z ELSE 0
       /\ d \in [Tasks -> Int] /\ e \in [Tasks -> Int]
  BY <1>4, <1>5, <1>12 DEF Each
<1>16. /\ Sum(d) = x * c
       /\ Sum(e) = z
  <2>1. x \in Int /\ {k} \in SUBSET Tasks
    BY <1>4
  <2>2. Sum(d) = x * Cardinality(Later)
    BY <1>10, <2>1, SumEach
  <2>3. Sum(e) = z * Cardinality({k}) /\ Cardinality({k}) = 1
    BY <2>1, SumEach, FS_Singleton
  <2> QED BY <1>11, <2>1, <2>2, <2>3
<1> HIDE DEF d, e, a, b, Later, spent
<1>17. /\ h \in [Tasks -> Int] /\ g \in [Tasks -> Int]
       /\ a \in [Tasks -> Int] /\ b \in [Tasks -> Int]
  BY <1>6, <1>7, <1>15 DEF a, b
<1>18. ASSUME NEW i \in Tasks PROVE b[i] <= g[i]
  <2>1. g[i] = a[i] + d[i] + e[i] /\ a[i] \in Int /\ d[i] \in Int /\ e[i] \in Int
    BY <1>15, <1>17
  <2>2. order[i] \in Tasks /\ order \in [Tasks -> Tasks] /\ IsInjective(order)
    BY <1>6 DEF Orders
  <2>3. CASE i = k
    <3>1. b[i] = 0
      BY <1>2, <1>9, <1>14, <2>3
    <3>2. a[i] = time + (c + 1) * x
      BY <1>4, <1>9, <1>11, <1>14, <2>3
    <3>3. d[i] = 0 /\ e[i] = z
      BY <1>10, <1>15, <2>3
    <3> QED BY <1>5, <1>12, <1>13, <2>1, <3>1, <3>2, <3>3
  <2>4. CASE i # k /\ order[i] \notin Left
    <3>1. b[i] = 0 /\ a[i] = 0 /\ i \notin Later
      BY <1>2, <1>14, <2>4 DEF Later
    <3>2. d[i] = 0 /\ e[i] = 0
      BY <1>15, <2>4, <3>1
    <3> QED BY <2>1, <3>1, <3>2
  <2>5. CASE i # k /\ order[i] \in Left
    <3>1. order[i] # t /\ order[i] \in Left'
      BY <1>2, <1>9, <2>2, <2>5 DEF IsInjective
    <3>2. PICK y \in Nat : y = total[order[i]] /\ x <= y
      BY <1>5, <1>6, <2>5
    <3>3. PICK m \in Nat : m = Cardinality(Remaining(order, i)) /\ IsFiniteSet(Remaining(order, i))
      BY RemainingFinite
    <3>4. a[i] = time + m * y
      BY <1>14, <2>5, <3>2, <3>3
    <3>5. b[i] = time + x + Cardinality(Remaining(order, i)') * y
      BY <1>2, <1>5, <1>14, <3>1, <3>2
    <3>6. Remaining(order, i)' = {j \in Tasks : i <= j /\ order[j] \in Left \ {t}}
      BY <1>2 DEF Remaining, Tasks
    <3>7. e[i] = 0 /\ m * y \in Nat
      BY <1>15, <2>5, <3>2, <3>3, Product
    <3>8. CASE i < k
      <4>1. Remaining(order, i)' = Remaining(order, i) \ {k} /\ k \in Remaining(order, i)
        BY <1>9, <2>2, <3>6, <3>8, Numbers DEF Remaining, IsInjective
      <4>2. Cardinality(Remaining(order, i)') = m - 1
        BY <3>3, <4>1, FS_RemoveElement
      <4>3. m > 0
        BY <3>3, <4>1, FS_EmptySet
      <4>4. (m - 1) * y = m * y - y
        BY <3>2, <3>3, <4>3, Product
      <4>5. i \notin Later
        BY <3>8, Numbers DEF Later
      <4>6. d[i] = 0
        BY <1>15, <4>5
      <4>7. b[i] = time + x + (m * y - y)
        BY <3>5, <4>2, <4>4
      <4> QED BY <1>4, <1>5, <2>1, <3>2, <3>4, <3>7, <4>6, <4>7
    <3>9. CASE ~(i < k)
      <4>1. k < i
        BY <2>5, <3>9, Numbers
      <4>2. Remaining(order, i)' = Remaining(order, i)
        <5>1. \A j \in Tasks : i <= j => j # k
          BY <4>1, Numbers
        <5>2. \A j \in Tasks : i <= j => order[j] # t
          BY <1>9, <2>2, <5>1 DEF IsInjective
        <5> QED BY <3>6, <5>2 DEF Remaining
      <4>3. d[i] = x
        BY <1>15, <2>5, <4>1 DEF Later
      <4>4. b[i] = time + x + m * y
        BY <3>3, <3>5, <4>2
      <4> QED BY <1>4, <1>5, <2>1, <3>4, <3>7, <4>3, <4>4
    <3> QED BY <3>8, <3>9
  <2> QED BY <2>3, <2>4, <2>5
<1>19. Sum(h) = Sum(a) + Sum(d) /\ Sum(g) = Sum(h) + Sum(e)
  <2>1. /\ \A i \in Tasks : h[i] = a[i] + d[i]
        /\ \A i \in Tasks : g[i] = h[i] + e[i]
    OBVIOUS
  <2> HIDE DEF h, g
  <2>2. Sum(h) = Sum(a) + Sum(d)
    BY <1>15, <1>17, <2>1, SumAdd
  <2>3. Sum(g) = Sum(h) + Sum(e)
    BY <1>15, <1>17, <2>1, SumAdd
  <2> QED BY <2>2, <2>3
<1> HIDE DEF h, g
<1>20. Sum(b) <= Sum(g) /\ Sum(b) \in Int /\ Sum(a) \in Int /\ Sum(Spent) \in Int
  BY <1>6, <1>17, <1>18, SumLeq, SumInt
<1>21. x * c = c * x
  BY <1>4, <1>11
<1>22. Sum(b) <= Sum(a) - (time + x)
  BY <1>4, <1>5, <1>12, <1>16, <1>19, <1>20, <1>21, <1>13
<1>23. Cost(order) = Sum(Spent) + Sum(a) /\ Cost(order)' = Sum(spent) + Sum(b)
  BY DEF Cost, a, b, spent
<1> QED BY <1>4, <1>5, <1>8, <1>20, <1>22, <1>23

LEMMA CostInvStep == Inv /\ CostInv /\ [Next]_vars => CostInv'
<1> SUFFICES ASSUME Inv, CostInv, [Next]_vars PROVE CostInv'
  OBVIOUS
<1>1. Inv'
  BY InvStep
<1>2. policy' = policy /\ total' = total
  BY DEF Next, RunToEnd, Visit, vars, input
<1>3. SUFFICES ASSUME policy = "sjf", NEW order \in Orders
               PROVE  Cost(order)' <= Sum(InOrder(order))
  <2>1. \A order : InOrder(order)' = InOrder(order)
    BY <1>2 DEF InOrder, Tasks
  <2> QED BY <1>2, <2>1 DEF CostInv, Orders, Tasks
<1>4. Cost(order) <= Sum(InOrder(order))
  BY <1>3 DEF CostInv
<1>5. Cost(order) \in Int /\ Cost(order)' \in Int /\ Sum(InOrder(order)) \in Int
  <2>1. CostType /\ CostType'
    BY <1>1, InvCostType, PTL
  <2>2. /\ Spent \in [Tasks -> Int] /\ Ahead(order) \in [Tasks -> Int]
        /\ InOrder(order) \in [Tasks -> Int]
        /\ Spent' \in [Tasks -> Int] /\ Ahead(order)' \in [Tasks -> Int]
    BY <2>1 DEF CostType, Orders, Tasks
  <2>3. /\ Sum(Spent) \in Int /\ Sum(Ahead(order)) \in Int /\ Sum(InOrder(order)) \in Int
        /\ Sum(Spent') \in Int /\ Sum(Ahead(order)') \in Int
    BY <2>2, SumInt
  <2> QED BY <2>3 DEF Cost
<1>6. Cost(order)' <= Cost(order)
  <2>1. CASE RunToEnd
    BY <1>1, <1>3, <2>1, RunToEndRuns, CostStep
  <2>2. CASE Visit
    BY <1>3, <2>2 DEF Visit
  <2>3. CASE UNCHANGED vars
    <3>1. /\ head' = head /\ turnaround' = turnaround /\ time' = time /\ total' = total
      BY <2>3 DEF vars, input, stats
    <3>2. Spent' = Spent /\ Ahead(order)' = Ahead(order)
      BY <3>1 DEF Spent, Ahead, Remaining, Left, Tasks
    <3>3. Cost(order)' = Cost(order)
      BY <3>2 DEF Cost
    <3> QED BY <1>5, <3>3
  <2> QED BY <2>1, <2>2, <2>3 DEF Next
<1> QED BY <1>4, <1>5, <1>6

LEMMA InvShortestIsBest == Inv /\ CostInv => ShortestIsBest
<1> SUFFICES ASSUME Inv, CostInv, policy = "sjf", head = <<>>, NEW order \in Orders
             PROVE  Sum(turnaround) <= Sum([i \in Tasks |-> (Count + 1 - i) * total[order[i]]])
  BY DEF ShortestIsBest
<1>1. Left = {}
  BY DEF Left, Range
<1>2. Spent = turnaround
  BY <1>1 DEF Spent, Inv, TypeOK
<1>3. Sum(Ahead(order)) = 0
  <2>1. {} \in SUBSET Tasks /\ 0 \in Int
    OBVIOUS
  <2>2. Sum(Each({}, 0)) = 0 * Cardinality({}) /\ Cardinality({}) = 0
    BY <2>1, SumEach, FS_EmptySet
  <2>3. Ahead(order) = Each({}, 0)
    BY <1>1 DEF Each, Ahead
  <2> QED BY <2>2, <2>3
<1>4. Cost(order) <= Sum(InOrder(order))
  BY DEF CostInv
<1>5. Sum(Spent) \in Int
  BY InvCostType, SumInt DEF CostType
<1>6. Cost(order) = Sum(turnaround)
  BY <1>2, <1>3, <1>5 DEF Cost
<1> QED BY <1>4, <1>6 DEF InOrder

\* No order of the tasks has a smaller sum of turnaround times than that in which
\* shortest job first has run them.
THEOREM ShortestIsBestAlways == Spec => []ShortestIsBest
<1> QED BY InvShortestIsBest, CostInit, CostInvStep, InvHolds, PTL DEF Spec

=============================================================================
