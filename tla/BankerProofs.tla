---------------------------- MODULE BankerProofs ----------------------------
(***************************************************************************)
(* Theorems about Banker, for any customers, resources and units: no       *)
(* command loses a unit or makes the state safe or unsafe, and the search  *)
(* of check_safe refuses exactly what would leave no order to finish in.   *)
(*                                                                         *)
(* The argument: a command moves units between the bank and a customer,    *)
(* and claims against them, so that the total and what each customer may   *)
(* hold in all stay.  In a state that commands lead to, all can finish if  *)
(* and only if no customer may hold more than the total: it is so at the   *)
(* start, and each command keeps it.  In i passes the search finds the     *)
(* first i customers of any order in which all can finish, and those it    *)
(* finds can finish in the order it found them.                            *)
(*                                                                         *)
(* Sums over the customers and the search are recursive functions, whose   *)
(* existence is proved first.  Induction is over sets of naturals: one     *)
(* with 0 and all successors has no least natural outside it.              *)
(***************************************************************************)
EXTENDS Banker, TLAPS, FiniteSetTheorems

-----------------------------------------------------------------------------
(* Induction over natural numbers, by sets. *)

Less == {p \in Nat \X Nat : p[1] < p[2]}

\* A set with 0 and with the successor of each of its naturals has all naturals.
LEMMA Induction ==
  ASSUME NEW S, 0 \in S, \A n \in Nat : n \in S => n + 1 \in S
  PROVE  \A n \in Nat : n \in S
<1> DEFINE T == Nat \ S
<1> SUFFICES ASSUME T # {} PROVE FALSE
  OBVIOUS
<1>1. IsWellFoundedOn(Less, Nat)
  BY NatLessThanWellFounded DEF OpToRel, Less
<1>2. PICK x \in T : \A y \in T : ~(<<y, x>> \in Less)
  BY <1>1, WFMin, Zenon
<1>3. x \in Nat /\ x # 0 /\ x - 1 \in Nat /\ x - 1 + 1 = x
  OBVIOUS
<1>4. <<x - 1, x>> \in Less
  BY <1>3 DEF Less
<1>5. x - 1 \in S
  BY <1>2, <1>3, <1>4
<1> QED BY <1>3, <1>5

\* f starts with b and goes on by h.
Iterates(f, S, b, n, h) ==
  /\ f \in [0..n -> S] /\ f[0] = b
  /\ \A k \in 1..n : f[k] = h[k][f[k - 1]]

\* A function may be defined by its first value and each next one from the last.
LEMMA Recursion ==
  ASSUME NEW S, NEW b \in S, NEW n \in Nat, NEW h \in [1..n -> [S -> S]]
  PROVE  \E f : Iterates(f, S, b, n, h)
<1> DEFINE Upto(m, f) == f[0] = b /\ \A k \in 1..m : f[k] = h[k][f[k - 1]]
           T == {m \in Nat : m <= n => \E f \in [0..m -> S] : Upto(m, f)}
<1>1. 0 \in T
  <2>1. [k \in 0..0 |-> b] \in [0..0 -> S] /\ Upto(0, [k \in 0..0 |-> b])
    OBVIOUS
  <2> QED BY <2>1
<1>2. ASSUME NEW m \in Nat, m \in T PROVE m + 1 \in T
  <2> SUFFICES ASSUME m + 1 <= n PROVE \E g \in [0..(m + 1) -> S] : Upto(m + 1, g)
    OBVIOUS
  <2>1. PICK f \in [0..m -> S] : Upto(m, f)
    BY <1>2
  <2> DEFINE g == [k \in 0..(m + 1) |-> IF k = m + 1 THEN h[m + 1][f[m]] ELSE f[k]]
  <2>2. m + 1 \in 1..n /\ f[m] \in S
    OBVIOUS
  <2>3. g \in [0..(m + 1) -> S]
    BY <2>2
  <2>4. ASSUME NEW k \in 1..(m + 1) PROVE g[k] = h[k][g[k - 1]]
    <3>1. CASE k = m + 1
      <4>1. k - 1 = m /\ m \in 0..(m + 1) /\ m # m + 1 /\ k \in 0..(m + 1)
        BY <3>1
      <4> QED BY <3>1, <4>1
    <3>2. CASE k # m + 1
      <4>1. k \in 1..m /\ k \in 0..(m + 1) /\ k - 1 \in 0..(m + 1) /\ k - 1 # m + 1
        BY <3>2
      <4>2. g[k] = f[k] /\ g[k - 1] = f[k - 1]
        BY <3>2, <4>1
      <4> QED BY <2>1, <4>1, <4>2
    <3> QED BY <3>1, <3>2
  <2>5. g[0] = b
    BY <2>1
  <2> HIDE DEF g
  <2> QED BY <2>3, <2>4, <2>5
<1> HIDE DEF T
<1>3. n \in T
  BY <1>1, <1>2, Induction
<1> QED BY <1>3 DEF T, Iterates

-----------------------------------------------------------------------------
(* What customers hold. *)

\* s has the sums of the values of g.
Sums(g, s) ==
  /\ s \in [0..N -> Int] /\ s[0] = 0
  /\ \A c \in Customers : s[c] = s[c - 1] + g[c]

\* The units of r that each customer adds to what those in F hold
Part(alloc, F, r) == [c \in Customers |-> IF c \in F THEN alloc[c][r] ELSE 0]

\* A sum exists, and Held is the last one.
LEMMA HeldSums ==
  ASSUME NEW alloc, NEW F, NEW r, Part(alloc, F, r) \in [Customers -> Int]
  PROVE  \E s : Sums(Part(alloc, F, r), s) /\ Held(alloc, F, r) = s[N]
<1> DEFINE g == Part(alloc, F, r)
           h == [k \in 1..N |-> [x \in Int |-> x + g[k]]]
<1>1. N \in Nat
  BY BankerAssumption
<1>2. h \in [1..N -> [Int -> Int]]
  BY DEF Customers
<1>3. \A k \in 1..N, x \in Int : h[k][x] = x + g[k]
  BY DEF Customers
<1>4. \A k \in 1..N : g[k] = IF k \in F THEN alloc[k][r] ELSE 0
  BY DEF Part, Customers
<1> HIDE DEF h, g
<1>5. PICK s \in [0..N -> Int] : s[0] = 0 /\ \A k \in 1..N : s[k] = h[k][s[k - 1]]
  <2>1. 0 \in Int
    OBVIOUS
  <2>2. \E s : Iterates(s, Int, 0, N, h)
    BY <1>1, <1>2, <2>1, Recursion
  <2> QED BY <2>2 DEF Iterates
<1>6. \A k \in 1..N : k - 1 \in 0..N /\ k \in 0..N
  BY <1>1
<1>7. \A k \in 1..N : s[k] = s[k - 1] + IF k \in F THEN alloc[k][r] ELSE 0
  BY <1>3, <1>4, <1>5, <1>6
<1> DEFINE Added(f, c) == IF c = 0 THEN 0 ELSE f[c - 1] + IF c \in F THEN alloc[c][r] ELSE 0
<1>8. s = [c \in 0..N |-> Added(s, c)]
  <2>1. \A c \in 0..N : s[c] = Added(s, c)
    BY <1>1, <1>5, <1>7
  <2> QED BY <1>5, <2>1
<1>9. ASSUME NEW f, f = [c \in 0..N |-> Added(f, c)] PROVE f = s
  <2> DEFINE T == {k \in Nat : k <= N => f[k] = s[k]}
  <2>1. 0 \in T
    <3>1. 0 \in 0..N
      BY <1>1
    <3> QED BY <1>5, <1>9, <3>1
  <2>2. ASSUME NEW k \in Nat, k \in T PROVE k + 1 \in T
    <3> SUFFICES ASSUME k + 1 <= N PROVE f[k + 1] = s[k + 1]
      OBVIOUS
    <3>1. k + 1 \in 0..N /\ k + 1 \in 1..N /\ k + 1 # 0 /\ k + 1 - 1 = k /\ f[k] = s[k]
      BY <1>1, <2>2
    <3>2. f[k + 1] = Added(f, k + 1)
      BY <1>9, <3>1
    <3>3. f[k + 1] = f[k] + IF k + 1 \in F THEN alloc[k + 1][r] ELSE 0
      BY <3>1, <3>2
    <3> QED BY <1>7, <3>1, <3>3
  <2> HIDE DEF T
  <2>3. \A k \in Nat : k \in T
    BY <2>1, <2>2, Induction
  <2>4. \A k \in 0..N : f[k] = s[k]
    BY <1>1, <2>3 DEF T
  <2>5. \A c \in 0..N : Added(f, c) = Added(s, c)
    <3> SUFFICES ASSUME NEW c \in 0..N, c # 0 PROVE Added(f, c) = Added(s, c)
      OBVIOUS
    <3>1. c - 1 \in 0..N
      BY <1>1
    <3> QED BY <2>4, <3>1
  <2> QED BY <1>8, <1>9, <2>5
<1>10. Held(alloc, F, r) = s[N]
  BY <1>8, <1>9 DEF Held
<1>11. Sums(g, s)
  BY <1>1, <1>4, <1>5, <1>6, <1>7 DEF Sums, Customers
<1> QED BY <1>10, <1>11 DEF g

\* A sum of larger values is larger.
LEMMA SumsMonotone ==
  ASSUME NEW g \in [Customers -> Int], NEW h \in [Customers -> Int],
         \A c \in Customers : g[c] <= h[c],
         NEW s, Sums(g, s), NEW t, Sums(h, t)
  PROVE  s[N] <= t[N]
<1> DEFINE T == {k \in Nat : k <= N => s[k] <= t[k]}
<1>1. N \in Nat
  BY BankerAssumption
<1>2. 0 \in T
  BY DEF Sums
<1>3. ASSUME NEW k \in Nat, k \in T PROVE k + 1 \in T
  <2> SUFFICES ASSUME k + 1 <= N PROVE s[k + 1] <= t[k + 1]
    OBVIOUS
  <2>1. k + 1 \in Customers /\ k + 1 - 1 = k /\ k \in 0..N
    BY <1>1 DEF Customers
  <2>2. s[k + 1] = s[k] + g[k + 1] /\ t[k + 1] = t[k] + h[k + 1]
    BY <2>1 DEF Sums
  <2>3. s[k] \in Int /\ t[k] \in Int /\ g[k + 1] \in Int /\ h[k + 1] \in Int /\ g[k + 1] <= h[k + 1]
    BY <2>1 DEF Sums
  <2>4. s[k] <= t[k]
    BY <1>1, <1>3, <2>1
  <2> QED BY <2>2, <2>3, <2>4
<1> HIDE DEF T
<1>4. N \in T
  BY <1>1, <1>2, <1>3, Induction
<1> QED BY <1>1, <1>4 DEF T

\* A sum changes by as much as one of its values.
LEMMA SumsUpdate ==
  ASSUME NEW g \in [Customers -> Int], NEW h \in [Customers -> Int],
         NEW c \in Customers, \A d \in Customers \ {c} : h[d] = g[d],
         NEW s, Sums(g, s), NEW t, Sums(h, t)
  PROVE  t[N] = s[N] + (h[c] - g[c])
<1> DEFINE T == {k \in Nat : k <= N => t[k] = s[k] + IF k < c THEN 0 ELSE h[c] - g[c]}
<1>1. N \in Nat /\ c \in 1..N
  BY BankerAssumption DEF Customers
<1>2. 0 \in T
  BY <1>1 DEF Sums
<1>3. ASSUME NEW k \in Nat, k \in T PROVE k + 1 \in T
  <2> SUFFICES ASSUME k + 1 <= N PROVE t[k + 1] = s[k + 1] + IF k + 1 < c THEN 0 ELSE h[c] - g[c]
    OBVIOUS
  <2>1. k + 1 \in Customers /\ k + 1 - 1 = k /\ k \in 0..N /\ k + 1 \in 0..N
    BY <1>1 DEF Customers
  <2>2. /\ s[k + 1] = s[k] + g[k + 1] /\ t[k + 1] = t[k] + h[k + 1] /\ s[k] \in Int /\ t[k] \in Int
        /\ g[k + 1] \in Int /\ h[k + 1] \in Int /\ g[c] \in Int /\ h[c] \in Int
    BY <2>1 DEF Sums
  <2>3. t[k] = s[k] + IF k < c THEN 0 ELSE h[c] - g[c]
    BY <1>1, <1>3, <2>1
  <2>4. CASE k + 1 = c
    BY <1>1, <2>2, <2>3, <2>4
  <2>5. CASE k + 1 # c
    BY <1>1, <2>1, <2>2, <2>3, <2>5
  <2> QED BY <2>4, <2>5
<1> HIDE DEF T
<1>4. N \in T
  BY <1>1, <1>2, <1>3, Induction
<1> QED BY <1>1, <1>4 DEF T

\* Amounts of each resource, and what each customer has of them
Amounts == [Resources -> Nat]
Holdings == [Customers -> Amounts]

\* What is held is no less than nothing.
LEMMA HeldType ==
  ASSUME NEW alloc \in Holdings, NEW F, NEW r \in Resources
  PROVE  Held(alloc, F, r) \in Nat
<1> DEFINE g == Part(alloc, F, r)
           z == [c \in Customers |-> 0]
           zeros == [c \in 0..N |-> 0]
<1>1. g \in [Customers -> Int] /\ z \in [Customers -> Int] /\ \A c \in Customers : z[c] <= g[c]
  BY DEF Part, Holdings, Amounts
<1>2. Sums(z, zeros) /\ zeros[N] = 0 /\ N \in Nat
  BY BankerAssumption DEF Sums, Customers
<1>3. PICK s : Sums(g, s) /\ Held(alloc, F, r) = s[N]
  BY <1>1, HeldSums
<1> HIDE DEF g, z, zeros
<1>4. zeros[N] <= s[N]
  BY <1>1, <1>2, <1>3, SumsMonotone
<1>5. s[N] \in Int
  BY <1>2, <1>3 DEF Sums
<1> QED BY <1>2, <1>3, <1>4, <1>5

\* More customers hold more.
LEMMA HeldMonotone ==
  ASSUME NEW alloc \in Holdings, NEW F, NEW G, F \cap Customers \subseteq G, NEW r \in Resources
  PROVE  Held(alloc, F, r) <= Held(alloc, G, r)
<1> DEFINE g == Part(alloc, F, r)  h == Part(alloc, G, r)
<1>1. g \in [Customers -> Int] /\ h \in [Customers -> Int] /\ \A c \in Customers : g[c] <= h[c]
  BY DEF Part, Holdings, Amounts
<1>2. PICK s : Sums(g, s) /\ Held(alloc, F, r) = s[N]
  BY <1>1, HeldSums
<1>3. PICK t : Sums(h, t) /\ Held(alloc, G, r) = t[N]
  BY <1>1, HeldSums
<1> HIDE DEF g, h
<1> QED BY <1>1, <1>2, <1>3, SumsMonotone

\* What is held changes with what one customer holds.
LEMMA HeldUpdate ==
  ASSUME NEW alloc \in Holdings, NEW new \in Holdings, NEW c \in Customers,
         \A d \in Customers \ {c} : new[d] = alloc[d], NEW F, NEW r \in Resources
  PROVE  Held(new, F, r) = Held(alloc, F, r) + IF c \in F THEN new[c][r] - alloc[c][r] ELSE 0
<1> DEFINE g == Part(alloc, F, r)  h == Part(new, F, r)
<1>1. /\ g \in [Customers -> Int] /\ h \in [Customers -> Int] /\ \A d \in Customers \ {c} : h[d] = g[d]
      /\ h[c] - g[c] = IF c \in F THEN new[c][r] - alloc[c][r] ELSE 0
  BY DEF Part, Holdings, Amounts
<1>2. PICK s : Sums(g, s) /\ Held(alloc, F, r) = s[N]
  BY <1>1, HeldSums
<1>3. PICK t : Sums(h, t) /\ Held(new, F, r) = t[N]
  BY <1>1, HeldSums
<1> HIDE DEF g, h
<1>4. t[N] = s[N] + (h[c] - g[c])
  BY <1>1, <1>2, <1>3, SumsUpdate
<1> QED BY <1>1, <1>2, <1>3, <1>4

\* One customer more adds what it holds.
LEMMA HeldAdd ==
  ASSUME NEW alloc \in Holdings, NEW F, NEW c \in Customers \ F, NEW r \in Resources
  PROVE  Held(alloc, F \cup {c}, r) = Held(alloc, F, r) + alloc[c][r]
<1> DEFINE g == Part(alloc, F, r)  h == Part(alloc, F \cup {c}, r)
<1>1. /\ g \in [Customers -> Int] /\ h \in [Customers -> Int] /\ \A d \in Customers \ {c} : h[d] = g[d]
      /\ h[c] - g[c] = alloc[c][r]
  BY DEF Part, Holdings, Amounts
<1>2. PICK s : Sums(g, s) /\ Held(alloc, F, r) = s[N]
  BY <1>1, HeldSums
<1>3. PICK t : Sums(h, t) /\ Held(alloc, F \cup {c}, r) = t[N]
  BY <1>1, HeldSums
<1> HIDE DEF g, h
<1>4. t[N] = s[N] + (h[c] - g[c])
  BY <1>1, <1>2, <1>3, SumsUpdate
<1> QED BY <1>1, <1>2, <1>3, <1>4

\* Customers that have nothing hold nothing.
LEMMA HeldNothing ==
  ASSUME NEW r \in Resources
  PROVE  Held([c \in Customers |-> Zero], Customers, r) = 0
<1> DEFINE alloc == [c \in Customers |-> Zero]
           g == Part(alloc, Customers, r)
           zeros == [c \in 0..N |-> 0]
<1>1. g \in [Customers -> Int] /\ (\A c \in Customers : g[c] = 0) /\ N \in Nat
  BY BankerAssumption DEF Part, Zero
<1>2. Sums(g, zeros) /\ zeros[N] = 0
  BY <1>1 DEF Sums, Customers
<1>3. PICK s : Sums(g, s) /\ Held(alloc, Customers, r) = s[N]
  BY <1>1, HeldSums
<1> HIDE DEF g, zeros
<1>4. s[N] <= zeros[N] /\ zeros[N] <= s[N] /\ s[N] \in Int
  <2>1. s[N] \in Int
    BY <1>1, <1>3 DEF Sums
  <2>2. \A c \in Customers : g[c] <= g[c]
    BY <1>1
  <2> QED BY <1>1, <1>2, <1>3, <2>1, <2>2, SumsMonotone
<1> QED BY <1>2, <1>3, <1>4

\* The vectors of the model
LEMMA Vectors ==
  /\ \A v : v \in Vector <=> v \in Amounts /\ v \preceq Units
  /\ Units \in Amounts /\ Zero \in Vector
<1>1. Units \in [Resources -> Nat]
  BY BankerAssumption
<1>2. ASSUME NEW v \in Vector PROVE v \in Amounts /\ v \preceq Units
  <2>1. v \in [Resources -> UNION {0..Units[r] : r \in Resources}] /\ v \preceq Units
    BY <1>2 DEF Vector
  <2>2. UNION {0..Units[r] : r \in Resources} \subseteq Nat
    BY <1>1
  <2> QED BY <2>1, <2>2 DEF Amounts
<1>3. ASSUME NEW v \in Amounts, v \preceq Units PROVE v \in Vector
  <2>1. \A r \in Resources : v[r] \in 0..Units[r]
    BY <1>1, <1>3 DEF Amounts, \preceq
  <2>2. v \in [Resources -> UNION {0..Units[r] : r \in Resources}]
    BY <2>1 DEF Amounts
  <2> QED BY <1>3, <2>2 DEF Vector
<1>4. Zero \in Amounts /\ Zero \preceq Units
  BY <1>1 DEF Zero, Amounts, \preceq
<1> QED BY <1>1, <1>2, <1>3, <1>4 DEF Amounts

-----------------------------------------------------------------------------
(* Whether all customers can finish. *)

\* If whoever can get what it needs after others still can, all can finish.
LEMMA CompletableKept ==
  ASSUME NEW a, NEW h, NEW n, NEW a2, NEW h2, NEW n2,
         \A F \in SUBSET Customers : \A d \in Customers \ F :
           n[d] \preceq Work(a, h, F) => n2[d] \preceq Work(a2, h2, F),
         Completable(a, h, n)
  PROVE  Completable(a2, h2, n2)
<1>1. PICK order \in Orders : \A i \in Customers :
        n[order[i]] \preceq Work(a, h, {order[j] : j \in 1..(i - 1)})
  BY DEF Completable
<1>2. order \in [Customers -> Customers] /\ \A i, j \in Customers : order[i] = order[j] => i = j
  BY <1>1 DEF Orders, Bijection, Injection, IsInjective
<1>3. ASSUME NEW i \in Customers
      PROVE  n2[order[i]] \preceq Work(a2, h2, {order[j] : j \in 1..(i - 1)})
  <2> DEFINE F == {order[j] : j \in 1..(i - 1)}
  <2>1. \A j \in 1..(i - 1) : j \in Customers /\ j # i
    BY BankerAssumption DEF Customers
  <2>2. F \in SUBSET Customers /\ order[i] \in Customers \ F
    BY <1>2, <2>1
  <2>3. n[order[i]] \preceq Work(a, h, F)
    BY <1>1
  <2> HIDE DEF F
  <2>4. n2[order[i]] \preceq Work(a2, h2, F)
    BY <2>2, <2>3
  <2> QED BY <2>4 DEF F
<1> QED BY <1>1, <1>3 DEF Completable

\* What a customer releases it may claim again: all can still finish.
LEMMA ReleaseKeeps ==
  ASSUME NEW a \in Amounts, NEW h \in Holdings, NEW n \in Holdings,
         NEW c \in Customers, NEW q \in Amounts, q \preceq h[c],
         Completable(a, h, n)
  PROVE  Completable(a (+) q, [h EXCEPT ![c] = @ (-) q], [n EXCEPT ![c] = @ (+) q])
<1> DEFINE a2 == a (+) q  h2 == [h EXCEPT ![c] = @ (-) q]  n2 == [n EXCEPT ![c] = @ (+) q]
<1>1. /\ a2 \in Amounts /\ h2 \in Holdings
      /\ \A r \in Resources : a2[r] = a[r] + q[r] /\ h2[c][r] = h[c][r] - q[r] /\ n2[c][r] = n[c][r] + q[r]
  BY DEF (+), (-), \preceq, Amounts, Holdings
<1>2. \A d \in Customers \ {c} : h2[d] = h[d] /\ n2[d] = n[d]
  BY DEF Holdings
<1> HIDE DEF a2, h2, n2
<1>3. ASSUME NEW F \in SUBSET Customers, NEW d \in Customers \ F, n[d] \preceq Work(a, h, F)
      PROVE  n2[d] \preceq Work(a2, h2, F)
  <2> SUFFICES ASSUME NEW r \in Resources PROVE n2[d][r] <= a2[r] + Held(h2, F, r)
    BY DEF \preceq, Work
  <2>1. n[d][r] <= a[r] + Held(h, F, r)
    BY <1>3 DEF \preceq, Work
  <2>2. Held(h2, F, r) = Held(h, F, r) + IF c \in F THEN h2[c][r] - h[c][r] ELSE 0
    BY <1>1, <1>2, HeldUpdate
  <2>3. Held(h, F, r) \in Nat
    BY HeldType
  <2>4. a[r] \in Nat /\ q[r] \in Nat /\ h[c][r] \in Nat /\ n[d][r] \in Nat /\ n[c][r] \in Nat
    BY DEF Amounts, Holdings
  <2>5. a2[r] + Held(h2, F, r) = a[r] + Held(h, F, r) + IF c \in F THEN 0 ELSE q[r]
    BY <1>1, <2>2, <2>3, <2>4
  <2>6. CASE d = c
    BY <1>1, <1>3, <2>1, <2>3, <2>4, <2>5, <2>6
  <2>7. CASE d # c
    BY <1>2, <2>1, <2>3, <2>4, <2>5, <2>7
  <2> QED BY <2>6, <2>7
<1>4. Completable(a2, h2, n2)
  BY <1>3, CompletableKept
<1> QED BY <1>4 DEF a2, h2, n2

\* So may what a customer that needs no more gives back.
LEMMA FinishKeeps ==
  ASSUME NEW a \in Amounts, NEW h \in Holdings, NEW n \in Holdings,
         NEW c \in Customers, n[c] = Zero, Completable(a, h, n)
  PROVE  Completable(a (+) h[c], [h EXCEPT ![c] = Zero], n)
<1> DEFINE a2 == a (+) h[c]  h2 == [h EXCEPT ![c] = Zero]
<1>1. /\ a2 \in Amounts /\ h2 \in Holdings
      /\ \A r \in Resources : a2[r] = a[r] + h[c][r] /\ h2[c][r] = 0
  BY DEF (+), Zero, Amounts, Holdings
<1>2. \A d \in Customers \ {c} : h2[d] = h[d]
  BY DEF Holdings
<1> HIDE DEF a2, h2
<1>3. ASSUME NEW F \in SUBSET Customers, NEW d \in Customers \ F, n[d] \preceq Work(a, h, F)
      PROVE  n[d] \preceq Work(a2, h2, F)
  <2> SUFFICES ASSUME NEW r \in Resources PROVE n[d][r] <= a2[r] + Held(h2, F, r)
    BY DEF \preceq, Work
  <2>1. n[d][r] <= a[r] + Held(h, F, r)
    BY <1>3 DEF \preceq, Work
  <2>2. Held(h2, F, r) = Held(h, F, r) + IF c \in F THEN h2[c][r] - h[c][r] ELSE 0
    BY <1>1, <1>2, HeldUpdate
  <2>3. Held(h, F, r) \in Nat
    BY HeldType
  <2>4. a[r] \in Nat /\ h[c][r] \in Nat /\ n[d][r] \in Nat
    BY DEF Amounts, Holdings
  <2> QED BY <1>1, <2>1, <2>2, <2>3, <2>4
<1>4. Completable(a2, h2, n)
  BY <1>3, CompletableKept
<1> QED BY <1>4 DEF a2, h2

\* A customer can only finish if its claim is not more than there is in all.
LEMMA CompletableIsFeasible ==
  ASSUME NEW a \in Amounts, NEW h \in Holdings, NEW n \in Holdings, Completable(a, h, n),
         NEW c \in Customers, NEW r \in Resources
  PROVE  h[c][r] + n[c][r] <= a[r] + Held(h, Customers, r)
<1>1. PICK order \in Orders : \A i \in Customers :
        n[order[i]] \preceq Work(a, h, {order[j] : j \in 1..(i - 1)})
  BY DEF Completable
<1>2. /\ order \in [Customers -> Customers] /\ \A i, j \in Customers : order[i] = order[j] => i = j
      /\ \A d \in Customers : \E i \in Customers : order[i] = d
  BY <1>1 DEF Orders, Bijection, Injection, IsInjective, Surjection
<1>3. PICK i \in Customers : order[i] = c
  BY <1>2
<1> DEFINE F == {order[j] : j \in 1..(i - 1)}
<1>4. \A j \in 1..(i - 1) : j \in Customers /\ j # i
  BY BankerAssumption DEF Customers
<1>5. c \in Customers \ F /\ F \cup {c} \subseteq Customers
  BY <1>2, <1>3, <1>4
<1>6. n[c][r] <= a[r] + Held(h, F, r)
  BY <1>1, <1>3 DEF \preceq, Work
<1> HIDE DEF F
<1>7. Held(h, F \cup {c}, r) = Held(h, F, r) + h[c][r]
  BY <1>5, HeldAdd
<1>8. Held(h, F \cup {c}, r) <= Held(h, Customers, r)
  <2>1. (F \cup {c}) \cap Customers \subseteq Customers
    OBVIOUS
  <2> QED BY <2>1, HeldMonotone
<1>9. Held(h, F, r) \in Nat /\ Held(h, Customers, r) \in Nat
  BY HeldType
<1>10. a[r] \in Nat /\ h[c][r] \in Nat /\ n[c][r] \in Nat
  BY DEF Amounts, Holdings
<1> QED BY <1>6, <1>7, <1>8, <1>9, <1>10

\* If each claim can be met from what is there, all can finish, in any order.
LEMMA FeasibleIsCompletable ==
  ASSUME NEW a \in Amounts, NEW h \in Holdings, NEW n \in Holdings,
         \A c \in Customers : n[c] \preceq a
  PROVE  Completable(a, h, n)
<1> DEFINE order == [c \in Customers |-> c]
<1>1. order \in Orders
  BY DEF Orders, Bijection, Injection, IsInjective, Surjection
<1>2. ASSUME NEW i \in Customers PROVE n[order[i]] \preceq Work(a, h, {order[j] : j \in 1..(i - 1)})
  <2> DEFINE F == {order[j] : j \in 1..(i - 1)}
  <2>1. order[i] = i
    OBVIOUS
  <2> HIDE DEF F, order
  <2>2. ASSUME NEW r \in Resources PROVE n[i][r] <= a[r] + Held(h, F, r)
    <3>1. Held(h, F, r) \in Nat /\ a[r] \in Nat /\ n[i][r] \in Nat /\ n[i][r] <= a[r]
      BY HeldType DEF \preceq, Amounts, Holdings
    <3> QED BY <3>1
  <2> QED BY <2>1, <2>2 DEF \preceq, Work, F
<1> HIDE DEF order
<1> QED BY <1>1, <1>2 DEF Completable

-----------------------------------------------------------------------------
(* The search of check_safe. *)

\* The customer of turn k, and what its turn makes of those that have finished
Visited(k) == ((k - 1) % N) + 1
After(a, h, n, F, c) == F \cup {d \in {c} : n[d] \preceq Work(a, h, F)}

\* The turns are visits of customers, and each pass visits each of them.
LEMMA Turns ==
  /\ Visits \in Nat
  /\ \A k \in 1..Visits : Visited(k) \in Customers
  /\ \A i \in 0..(N - 1), c \in Customers : i * N + c \in 1..Visits /\ Visited(i * N + c) = c
<1>1. N \in Nat
  BY BankerAssumption
<1>2. Visits \in Nat
  BY <1>1 DEF Visits
<1>3. ASSUME NEW k \in 1..Visits PROVE Visited(k) \in Customers
  <2>1. N # 0
    BY <1>1, <1>3 DEF Visits
  <2>2. k - 1 \in Int
    BY <1>2
  <2>3. (k - 1) % N \in 0..(N - 1)
    BY <1>1, <2>1, <2>2
  <2> QED BY <1>1, <2>3 DEF Visited, Customers
<1>4. ASSUME NEW i \in 0..(N - 1), NEW c \in Customers
      PROVE  i * N + c \in 1..Visits /\ Visited(i * N + c) = c
  <2>1. c \in 1..N /\ N > 0 /\ i \in Nat /\ i <= N - 1
    BY <1>1 DEF Customers
  <2>2. i * N >= 0 /\ i * N <= (N - 1) * N
    BY <1>1, <2>1
  <2>3. (N - 1) * N + N = N * N
    BY <1>1
  <2>4. i * N + c \in 1..Visits
    BY <1>1, <2>1, <2>2, <2>3 DEF Visits
  <2> DEFINE x == i * N + c - 1  q == x \div N  m == x % N
  <2>5. x \in Nat
    BY <1>1, <2>1, <2>2
  <2>6. q \in Int /\ m \in 0..(N - 1) /\ x = N * q + m
    BY <1>1, <2>1, <2>5
  <2>7. N * (i - q) = m - (c - 1)
    BY <1>1, <2>1, <2>6
  <2> HIDE DEF m, q
  <2>8. m - (c - 1) < N /\ m - (c - 1) > -N
    BY <1>1, <2>1, <2>6
  <2>9. i - q = 0
    <3> DEFINE z == i - q
    <3>1. z \in Int /\ N * z < N /\ N * z > -N
      BY <1>1, <2>1, <2>6, <2>7, <2>8
    <3> HIDE DEF z
    <3>2. CASE z >= 1
      <4>1. N * z >= N * 1
        BY <1>1, <2>1, <3>1, <3>2
      <4> QED BY <1>1, <3>1, <4>1
    <3>3. CASE z <= -1
      <4>1. N * z <= N * (-1)
        BY <1>1, <2>1, <3>1, <3>3
      <4> QED BY <1>1, <3>1, <4>1
    <3> QED BY <3>1, <3>2, <3>3 DEF z
  <2>10. m = c - 1
    BY <1>1, <2>1, <2>6, <2>7, <2>9
  <2>11. (i * N + c - 1) % N = c - 1
    BY <2>10 DEF m
  <2> QED BY <1>1, <2>1, <2>4, <2>11 DEF Visited
<1> QED BY <1>2, <1>3, <1>4

\* The sets of customers that have finished after each turn
Search(a, h, n, f) ==
  /\ f \in [0..Visits -> SUBSET Customers] /\ f[0] = {}
  /\ \A k \in 1..Visits : f[k] = After(a, h, n, f[k - 1], Visited(k))

\* The search comes to an end, and tells whether all have finished.
LEMMA SearchEnds ==
  ASSUME NEW a, NEW h, NEW n
  PROVE  \E f : Search(a, h, n, f) /\ (check_safe(a, h, n) <=> f[Visits] = Customers)
<1> DEFINE w == [k \in 1..Visits |-> [F \in SUBSET Customers |-> After(a, h, n, F, Visited(k))]]
<1>1. Visits \in Nat /\ \A k \in 1..Visits : Visited(k) \in Customers
  BY Turns
<1>2. w \in [1..Visits -> [SUBSET Customers -> SUBSET Customers]]
  BY <1>1 DEF After
<1>3. \A k \in 1..Visits, F \in SUBSET Customers : w[k][F] = After(a, h, n, F, Visited(k))
  OBVIOUS
<1> HIDE DEF w
<1>4. PICK f \in [0..Visits -> SUBSET Customers] :
        f[0] = {} /\ \A k \in 1..Visits : f[k] = w[k][f[k - 1]]
  <2>1. {} \in SUBSET Customers
    OBVIOUS
  <2>2. \E f : Iterates(f, SUBSET Customers, {}, Visits, w)
    BY <1>1, <1>2, <2>1, Recursion
  <2> QED BY <2>2 DEF Iterates
<1>5. \A k \in 1..Visits : k - 1 \in 0..Visits /\ k \in 0..Visits
  BY <1>1
<1>6. \A k \in 1..Visits : f[k] = After(a, h, n, f[k - 1], Visited(k))
  BY <1>3, <1>4, <1>5
<1> DEFINE Turn(g, k) ==
      IF k = 0 THEN {} ELSE UNION {After(a, h, n, F, ((k - 1) % N) + 1) : F \in {g[k - 1]}}
<1>7. \A g : \A k : k # 0 => Turn(g, k) = After(a, h, n, g[k - 1], Visited(k))
  BY DEF Visited
<1>8. f = [k \in 0..Visits |-> Turn(f, k)]
  <2>1. \A k \in 0..Visits : f[k] = Turn(f, k)
    <3> SUFFICES ASSUME NEW k \in 0..Visits PROVE f[k] = Turn(f, k)
      OBVIOUS
    <3>1. CASE k = 0
      BY <1>4, <3>1
    <3>2. CASE k # 0
      <4>1. k \in 1..Visits
        BY <1>1, <3>2
      <4> HIDE DEF Turn
      <4> QED BY <1>6, <1>7, <3>2, <4>1
    <3> QED BY <3>1, <3>2
  <2> HIDE DEF Turn
  <2> QED BY <1>4, <2>1
<1>9. ASSUME NEW g, g = [k \in 0..Visits |-> Turn(g, k)] PROVE g = f
  <2> DEFINE T == {k \in Nat : k <= Visits => g[k] = f[k]}
  <2>1. 0 \in T
    <3>1. 0 \in 0..Visits
      BY <1>1
    <3> QED BY <1>4, <1>9, <3>1
  <2>2. ASSUME NEW k \in Nat, k \in T PROVE k + 1 \in T
    <3> SUFFICES ASSUME k + 1 <= Visits PROVE g[k + 1] = f[k + 1]
      OBVIOUS
    <3>1. k + 1 \in 0..Visits /\ k + 1 \in 1..Visits /\ k + 1 # 0 /\ k + 1 - 1 = k /\ g[k] = f[k]
      BY <1>1, <2>2
    <3> HIDE DEF Turn
    <3>2. g[k + 1] = Turn(g, k + 1)
      BY <1>9, <3>1
    <3>3. g[k + 1] = After(a, h, n, g[k], Visited(k + 1))
      BY <1>7, <3>1, <3>2
    <3> QED BY <1>6, <3>1, <3>3
  <2> HIDE DEF T
  <2>3. \A k \in Nat : k \in T
    BY <2>1, <2>2, Induction
  <2>4. \A k \in 0..Visits : g[k] = f[k]
    BY <1>1, <2>3 DEF T
  <2> HIDE DEF Turn
  <2>5. g \in [0..Visits -> {g[k] : k \in 0..Visits}] /\ DOMAIN g = 0..Visits
    BY <1>9
  <2>6. g = [k \in 0..Visits |-> g[k]] /\ f = [k \in 0..Visits |-> f[k]]
    BY <1>4, <2>5
  <2> QED BY <2>4, <2>6
<1>10. check_safe(a, h, n) <=> f[Visits] = Customers
  <2> DEFINE finish == CHOOSE g : g = [k \in 0..Visits |-> Turn(g, k)]
  <2>1. check_safe(a, h, n) <=> finish[Visits] = Customers
    BY Zenon DEF check_safe, After
  <2> HIDE DEF Turn
  <2>2. finish = f
    BY <1>8, <1>9
  <2> QED BY <2>1, <2>2
<1>11. Search(a, h, n, f)
  BY <1>4, <1>6 DEF Search
<1> QED BY <1>10, <1>11

\* Customers that have finished stay so.
LEMMA SearchGrows ==
  ASSUME NEW a, NEW h, NEW n, NEW f, Search(a, h, n, f), NEW j \in 0..Visits
  PROVE  \A k \in j..Visits : f[j] \subseteq f[k]
<1> DEFINE T == {k \in Nat : k <= Visits /\ j <= k => f[j] \subseteq f[k]}
<1>1. Visits \in Nat
  BY Turns
<1>2. 0 \in T
  BY <1>1
<1>3. ASSUME NEW k \in Nat, k \in T PROVE k + 1 \in T
  <2> SUFFICES ASSUME k + 1 <= Visits, j <= k + 1 PROVE f[j] \subseteq f[k + 1]
    OBVIOUS
  <2>1. k + 1 \in 1..Visits /\ k + 1 - 1 = k
    BY <1>1
  <2>2. f[k] \subseteq f[k + 1]
    BY <2>1 DEF Search, After
  <2>3. CASE j = k + 1
    BY <2>3
  <2>4. CASE j # k + 1
    <3>1. f[j] \subseteq f[k]
      BY <1>1, <1>3, <2>1, <2>4
    <3> QED BY <2>2, <3>1
  <2> QED BY <2>3, <2>4
<1> HIDE DEF T
<1>4. \A k \in Nat : k \in T
  BY <1>2, <1>3, Induction
<1> QED BY <1>1, <1>4 DEF T

\* If all can finish in some order, the search finds as many of them in i passes
\* as the first i in that order.
LEMMA SearchFinds ==
  ASSUME NEW a \in Amounts, NEW h \in Holdings, NEW n \in Holdings, NEW f, Search(a, h, n, f),
         Completable(a, h, n)
  PROVE  f[Visits] = Customers
<1>1. PICK order \in Orders : \A i \in Customers :
        n[order[i]] \preceq Work(a, h, {order[j] : j \in 1..(i - 1)})
  BY DEF Completable
<1>2. order \in [Customers -> Customers] /\ \A d \in Customers : \E i \in Customers : order[i] = d
  BY <1>1 DEF Orders, Bijection, Injection, Surjection
<1>3. N \in Nat /\ Visits \in Nat /\ Visits = N * N
  BY BankerAssumption, Turns DEF Visits
<1> DEFINE Prefix(i) == {order[j] : j \in 1..i}
           T == {i \in Nat : i <= N => \A k \in 0..Visits : i * N <= k => Prefix(i) \subseteq f[k]}
<1>4. 0 \in T
  OBVIOUS
<1>5. ASSUME NEW i \in Nat, i \in T PROVE i + 1 \in T
  <2> SUFFICES ASSUME i + 1 <= N, NEW k \in 0..Visits, (i + 1) * N <= k
               PROVE  Prefix(i + 1) \subseteq f[k]
    OBVIOUS
  <2> DEFINE c == order[i + 1]  turn == i * N + c
  <2>1. i \in 0..(N - 1) /\ i + 1 \in Customers /\ i + 1 - 1 = i
    BY <1>3 DEF Customers
  <2>2. c \in Customers
    BY <1>2, <2>1
  <2>3. turn \in 1..Visits /\ Visited(turn) = c
    BY <2>1, <2>2, Turns
  <2>4. c \in Nat /\ 1 <= c /\ c <= N
    BY <1>3, <2>2 DEF Customers
  <2> HIDE DEF c
  <2>5. i * N \in Nat /\ (i + 1) * N = i * N + N
    BY <1>3, <2>1
  <2>6. turn - 1 \in 0..Visits /\ i * N <= turn - 1 /\ turn <= k /\ i * N <= k
    BY <1>3, <2>3, <2>4, <2>5
  <2>7. Prefix(i) \subseteq f[turn - 1] /\ Prefix(i) \subseteq f[k]
    BY <1>3, <1>5, <2>1, <2>6
  <2>8. n[c] \preceq Work(a, h, Prefix(i))
    BY <1>1, <2>1 DEF c
  <2>9. n[c] \preceq Work(a, h, f[turn - 1])
    <3> SUFFICES ASSUME NEW r \in Resources PROVE n[c][r] <= a[r] + Held(h, f[turn - 1], r)
      BY DEF \preceq, Work
    <3>1. n[c][r] <= a[r] + Held(h, Prefix(i), r)
      BY <2>8 DEF \preceq, Work
    <3> DEFINE F == Prefix(i)  G == f[turn - 1]
    <3>2. F \cap Customers \subseteq G
      BY <2>7
    <3> HIDE DEF F, G
    <3>3. Held(h, F, r) <= Held(h, G, r) /\ Held(h, F, r) \in Nat /\ Held(h, G, r) \in Nat
      BY <3>2, HeldMonotone, HeldType
    <3>4. a[r] \in Nat /\ n[c][r] \in Nat
      BY <2>2 DEF Amounts, Holdings
    <3>5. n[c][r] <= a[r] + Held(h, F, r)
      BY <3>1 DEF F
    <3>6. n[c][r] <= a[r] + Held(h, G, r)
      BY <3>3, <3>4, <3>5
    <3> QED BY <3>6 DEF G
  <2>10. c \in f[turn]
    BY <2>3, <2>9 DEF Search, After
  <2>11. f[turn] \subseteq f[k]
    BY <1>3, <2>3, <2>6, SearchGrows
  <2>12. Prefix(i + 1) \subseteq Prefix(i) \cup {c}
    <3>1. \A j \in 1..(i + 1) : j \in 1..i \/ j = i + 1
      OBVIOUS
    <3> QED BY <3>1 DEF c
  <2> HIDE DEF Prefix
  <2> QED BY <2>7, <2>10, <2>11, <2>12
<1> HIDE DEF T
<1>6. N \in T
  BY <1>3, <1>4, <1>5, Induction
<1>7. Prefix(N) \subseteq f[Visits]
  BY <1>3, <1>6 DEF T
<1>8. Customers \subseteq Prefix(N)
  BY <1>2 DEF Customers
<1>9. f[Visits] \subseteq Customers
  BY <1>3 DEF Search
<1> QED BY <1>7, <1>8, <1>9

\* o is an order of m customers, those in F, in which each can finish.
Finishes(a, h, n, F, m, o) ==
  /\ m \in Nat /\ o \in Bijection(1..m, F)
  /\ \A i \in 1..m : n[o[i]] \preceq Work(a, h, {o[j] : j \in 1..(i - 1)})

\* One more may follow.
LEMMA FinishesNext ==
  ASSUME NEW a, NEW h, NEW n, NEW F, NEW m, NEW o, Finishes(a, h, n, F, m, o),
         NEW c, c \notin F, n[c] \preceq Work(a, h, F)
  PROVE  \E p : Finishes(a, h, n, F \cup {c}, m + 1, p)
<1> DEFINE p == [i \in 1..(m + 1) |-> IF i = m + 1 THEN c ELSE o[i]]
<1>1. /\ m \in Nat /\ o \in [1..m -> F]
      /\ \A i, j \in 1..m : o[i] = o[j] => i = j
      /\ \A d \in F : \E i \in 1..m : o[i] = d
  BY DEF Finishes, Bijection, Injection, IsInjective, Surjection
<1>2. m + 1 \in 1..(m + 1) /\ \A i \in 1..(m + 1) : i = m + 1 \/ (i \in 1..m /\ i # m + 1)
  BY <1>1
<1>3. p[m + 1] = c /\ \A i \in 1..m : i \in 1..(m + 1) /\ p[i] = o[i]
  BY <1>1
<1>4. p \in [1..(m + 1) -> F \cup {c}]
  BY <1>1, <1>2
<1> HIDE DEF p
<1>5. \A i, j \in 1..(m + 1) : p[i] = p[j] => i = j
  BY <1>1, <1>2, <1>3
<1>6. \A d \in F \cup {c} : \E i \in 1..(m + 1) : p[i] = d
  BY <1>1, <1>2, <1>3
<1>7. p \in Bijection(1..(m + 1), F \cup {c})
  BY <1>4, <1>5, <1>6 DEF Bijection, Injection, IsInjective, Surjection
<1>8. ASSUME NEW i \in 1..(m + 1)
      PROVE  n[p[i]] \preceq Work(a, h, {p[j] : j \in 1..(i - 1)})
  <2>1. \A j \in 1..(i - 1) : j \in 1..m
    BY <1>1
  <2>2. {p[j] : j \in 1..(i - 1)} = {o[j] : j \in 1..(i - 1)}
    BY <1>3, <2>1
  <2>3. CASE i = m + 1
    <3>1. {o[j] : j \in 1..(i - 1)} = F
      BY <1>1, <2>3
    <3> QED BY <1>3, <2>2, <2>3, <3>1
  <2>4. CASE i # m + 1
    <3>1. i \in 1..m
      BY <1>2, <2>4
    <3>2. n[o[i]] \preceq Work(a, h, {o[j] : j \in 1..(i - 1)})
      BY <3>1 DEF Finishes
    <3> QED BY <1>3, <2>2, <3>1, <3>2
  <2> QED BY <2>3, <2>4
<1>9. Finishes(a, h, n, F \cup {c}, m + 1, p)
  <2>1. m + 1 \in Nat
    BY <1>1
  <2> QED BY <1>7, <1>8, <2>1 DEF Finishes
<1> QED BY <1>9

\* Those that the search has found can finish in the order it found them.
LEMMA SearchSound ==
  ASSUME NEW a, NEW h, NEW n, NEW f, Search(a, h, n, f), f[Visits] = Customers
  PROVE  Completable(a, h, n)
<1> DEFINE T == {k \in Nat : k <= Visits => \E m, o : Finishes(a, h, n, f[k], m, o)}
<1>1. N \in Nat /\ Visits \in Nat
  BY BankerAssumption, Turns
<1>2. 0 \in T
  <2> DEFINE o == [i \in 1..0 |-> 0]
  <2>1. o \in Bijection(1..0, {})
    BY DEF Bijection, Injection, IsInjective, Surjection
  <2> HIDE DEF o
  <2>2. Finishes(a, h, n, {}, 0, o)
    BY <2>1 DEF Finishes
  <2>3. f[0] = {}
    BY DEF Search
  <2>4. \E m, p : Finishes(a, h, n, f[0], m, p)
    BY <2>2, <2>3
  <2> QED BY <2>4
<1>3. ASSUME NEW k \in Nat, k \in T PROVE k + 1 \in T
  <2> SUFFICES ASSUME k + 1 <= Visits PROVE \E m, o : Finishes(a, h, n, f[k + 1], m, o)
    OBVIOUS
  <2>1. k + 1 \in 1..Visits /\ k + 1 - 1 = k
    BY <1>1
  <2>2. PICK m, o : Finishes(a, h, n, f[k], m, o)
    BY <1>1, <1>3
  <2> DEFINE c == Visited(k + 1)
  <2>3. f[k + 1] = f[k] \cup {d \in {c} : n[d] \preceq Work(a, h, f[k])}
    BY <2>1 DEF Search, After
  <2> HIDE DEF c
  <2>4. CASE c \notin f[k] /\ n[c] \preceq Work(a, h, f[k])
    <3>1. f[k + 1] = f[k] \cup {c}
      BY <2>3, <2>4
    <3>2. \E p : Finishes(a, h, n, f[k] \cup {c}, m + 1, p)
      BY <2>2, <2>4, FinishesNext
    <3> QED BY <3>1, <3>2
  <2>5. CASE ~(c \notin f[k] /\ n[c] \preceq Work(a, h, f[k]))
    <3>1. f[k + 1] = f[k]
      BY <2>3, <2>5
    <3> QED BY <2>2, <3>1
  <2> QED BY <2>4, <2>5
<1> HIDE DEF T
<1>4. Visits \in T
  BY <1>1, <1>2, <1>3, Induction
<1>5. PICK m, o : Finishes(a, h, n, Customers, m, o)
  BY <1>1, <1>4 DEF T
<1>6. m = N
  <2>1. m \in Nat /\ ExistsBijection(1..m, Customers)
    BY <1>5 DEF Finishes, ExistsBijection
  <2>2. Cardinality(Customers) = m
    BY <2>1, FS_CountingElements
  <2>3. 1 \in Int /\ N \in Int
    BY <1>1
  <2>4. Cardinality(1..N) = IF 1 > N THEN 0 ELSE N - 1 + 1
    BY <2>3, FS_Interval
  <2> QED BY <1>1, <2>2, <2>4 DEF Customers
<1>7. o \in Orders
  BY <1>5, <1>6 DEF Finishes, Orders, Customers
<1> QED BY <1>5, <1>6, <1>7 DEF Finishes, Completable, Customers

\* The pass-by-pass search decides whether all can finish.
LEMMA SearchDecides ==
  ASSUME NEW a \in Amounts, NEW h \in Holdings, NEW n \in Holdings
  PROVE  check_safe(a, h, n) <=> Completable(a, h, n)
<1>1. PICK f : Search(a, h, n, f) /\ (check_safe(a, h, n) <=> f[Visits] = Customers)
  BY SearchEnds
<1>2. Completable(a, h, n) => f[Visits] = Customers
  BY <1>1, SearchFinds
<1>3. f[Visits] = Customers => Completable(a, h, n)
  BY <1>1, SearchSound
<1> QED BY <1>1, <1>2, <1>3

-----------------------------------------------------------------------------
(* What the steps of the commands do to the arrays. *)

\* Units have moved between the bank and customer c: there are as many in all,
\* and nobody's claim has changed.
Moved(c, a, h, n, a1, h1, n1) ==
  /\ a1 \in Amounts /\ h1 \in Holdings /\ n1 \in Holdings
  /\ \A r \in Resources : a1[r] + Held(h1, Customers, r) = a[r] + Held(h, Customers, r)
  /\ \A d \in Customers : h1[d] (+) n1[d] = h[d] (+) n[d]
  /\ \A d \in Customers \ {c} : h1[d] = h[d] /\ n1[d] = n[d]

\* Customer c has given all it held back.
Returned(c, a, h, a1, h1) ==
  /\ a1 \in Amounts /\ h1 \in Holdings /\ h1[c] = Zero
  /\ \A r \in Resources : /\ a1[r] + Held(h1, Customers, r) = a[r] + Held(h, Customers, r)
                          /\ h[c][r] <= a[r] + Held(h, Customers, r)
  /\ \A d \in Customers \ {c} : h1[d] = h[d]

\* A grant moves units from the bank to a customer, and a claim to a holding.
LEMMA GrantMoves ==
  ASSUME NEW a \in Amounts, NEW h \in Holdings, NEW n \in Holdings, NEW c \in Customers,
         NEW q \in Amounts, q \preceq n[c], q \preceq a,
         NEW a1, a1 = a (-) q, NEW h1, h1 = [h EXCEPT ![c] = @ (+) q],
         NEW n1, n1 = [n EXCEPT ![c] = @ (-) q]
  PROVE  Moved(c, a, h, n, a1, h1, n1)
<1>1. /\ h[c] \in Amounts /\ n[c] \in Amounts
      /\ h1[c] = h[c] (+) q /\ n1[c] = n[c] (-) q
      /\ \A d \in Customers \ {c} : h1[d] = h[d] /\ n1[d] = n[d]
  BY DEF Holdings
<1>2. a1 \in Amounts /\ h1[c] \in Amounts /\ n1[c] \in Amounts
  BY <1>1 DEF Amounts, (+), (-), \preceq
<1>3. h1 \in Holdings /\ n1 \in Holdings
  BY <1>2, <1>1 DEF Holdings
<1>4. ASSUME NEW r \in Resources PROVE a1[r] + Held(h1, Customers, r) = a[r] + Held(h, Customers, r)
  <2>1. Held(h1, Customers, r) = Held(h, Customers, r) + (h1[c][r] - h[c][r])
    <3>1. h1 \in Holdings /\ \A d \in Customers \ {c} : h1[d] = h[d]
      BY <1>1, <1>3
    <3>2. ASSUME NEW F, c \in F PROVE Held(h1, F, r) = Held(h, F, r) + (h1[c][r] - h[c][r])
      <4>1. Held(h1, F, r) = Held(h, F, r) + IF c \in F THEN h1[c][r] - h[c][r] ELSE 0
        BY ONLY <3>1, HeldUpdate
      <4> QED BY <3>2, <4>1
    <3> QED BY <3>2
  <2>2. /\ a1[r] = a[r] - q[r] /\ h1[c][r] = h[c][r] + q[r]
        /\ a[r] \in Nat /\ q[r] \in Nat /\ h[c][r] \in Nat
    BY <1>1 DEF Amounts, (+), (-)
  <2>3. Held(h, Customers, r) \in Nat
    BY HeldType
  <2> QED BY <2>1, <2>2, <2>3
<1>5. h1[c] (+) n1[c] = h[c] (+) n[c]
  BY <1>1 DEF Amounts, (+), (-)
<1>6. \A d \in Customers : h1[d] (+) n1[d] = h[d] (+) n[d]
  BY <1>1, <1>5
<1> QED BY <1>1, <1>2, <1>3, <1>4, <1>6 DEF Moved

\* A release moves units back, and a holding to a claim.
LEMMA ReleaseMoves ==
  ASSUME NEW a \in Amounts, NEW h \in Holdings, NEW n \in Holdings, NEW c \in Customers,
         NEW q \in Amounts, q \preceq h[c],
         NEW a1, a1 = a (+) q, NEW h1, h1 = [h EXCEPT ![c] = @ (-) q],
         NEW n1, n1 = [n EXCEPT ![c] = @ (+) q]
  PROVE  Moved(c, a, h, n, a1, h1, n1)
<1>1. /\ h[c] \in Amounts /\ n[c] \in Amounts
      /\ h1[c] = h[c] (-) q /\ n1[c] = n[c] (+) q
      /\ \A d \in Customers \ {c} : h1[d] = h[d] /\ n1[d] = n[d]
  BY DEF Holdings
<1>2. a1 \in Amounts /\ h1[c] \in Amounts /\ n1[c] \in Amounts
  BY <1>1 DEF Amounts, (+), (-), \preceq
<1>3. h1 \in Holdings /\ n1 \in Holdings
  BY <1>2, <1>1 DEF Holdings
<1>4. ASSUME NEW r \in Resources PROVE a1[r] + Held(h1, Customers, r) = a[r] + Held(h, Customers, r)
  <2>1. Held(h1, Customers, r) = Held(h, Customers, r) + (h1[c][r] - h[c][r])
    <3>1. h1 \in Holdings /\ \A d \in Customers \ {c} : h1[d] = h[d]
      BY <1>1, <1>3
    <3>2. ASSUME NEW F, c \in F PROVE Held(h1, F, r) = Held(h, F, r) + (h1[c][r] - h[c][r])
      <4>1. Held(h1, F, r) = Held(h, F, r) + IF c \in F THEN h1[c][r] - h[c][r] ELSE 0
        BY ONLY <3>1, HeldUpdate
      <4> QED BY <3>2, <4>1
    <3> QED BY <3>2
  <2>2. /\ a1[r] = a[r] + q[r] /\ h1[c][r] = h[c][r] - q[r]
        /\ a[r] \in Nat /\ q[r] \in Nat /\ h[c][r] \in Nat
    BY <1>1 DEF Amounts, (+), (-)
  <2>3. Held(h, Customers, r) \in Nat
    BY HeldType
  <2> QED BY <2>1, <2>2, <2>3
<1>5. h1[c] (+) n1[c] = h[c] (+) n[c]
  BY <1>1 DEF Amounts, (+), (-)
<1>6. \A d \in Customers : h1[d] (+) n1[d] = h[d] (+) n[d]
  BY <1>1, <1>5
<1> QED BY <1>1, <1>2, <1>3, <1>4, <1>6 DEF Moved

\* A customer that finishes gives all it holds back, which was not more than
\* there is in all.
LEMMA FinishMoves ==
  ASSUME NEW a \in Amounts, NEW h \in Holdings, NEW c \in Customers,
         NEW a1, a1 = a (+) h[c], NEW h1, h1 = [h EXCEPT ![c] = Zero]
  PROVE  Returned(c, a, h, a1, h1)
<1>1. h[c] \in Amounts /\ h1[c] = Zero /\ \A d \in Customers \ {c} : h1[d] = h[d]
  BY DEF Holdings
<1>2. a1 \in Amounts /\ Zero \in Amounts
  BY <1>1 DEF Amounts, (+), Zero
<1>3. h1 \in Holdings
  BY <1>2, <1>1 DEF Holdings
<1>4. ASSUME NEW r \in Resources
      PROVE  /\ a1[r] + Held(h1, Customers, r) = a[r] + Held(h, Customers, r)
             /\ h[c][r] <= a[r] + Held(h, Customers, r)
  <2>1. Held(h1, Customers, r) = Held(h, Customers, r) + (h1[c][r] - h[c][r])
    <3>1. h1 \in Holdings /\ \A d \in Customers \ {c} : h1[d] = h[d]
      BY <1>1, <1>3
    <3>2. ASSUME NEW F, c \in F PROVE Held(h1, F, r) = Held(h, F, r) + (h1[c][r] - h[c][r])
      <4>1. Held(h1, F, r) = Held(h, F, r) + IF c \in F THEN h1[c][r] - h[c][r] ELSE 0
        BY ONLY <3>1, HeldUpdate
      <4> QED BY <3>2, <4>1
    <3> QED BY <3>2
  <2>2. a1[r] = a[r] + h[c][r] /\ h1[c][r] = 0 /\ a[r] \in Nat /\ h[c][r] \in Nat
    BY <1>1 DEF Amounts, (+), Zero
  <2>3. Held(h, Customers, r) \in Nat /\ Held(h1, Customers, r) \in Nat
    BY <1>3, HeldType
  <2> QED BY <2>1, <2>2, <2>3
<1> QED BY <1>1, <1>2, <1>3, <1>4 DEF Returned

-----------------------------------------------------------------------------
(* The inductive invariant. *)

\* No customer claims more than there is in all.
Feasible == \A c \in Customers, r \in Resources : maximum[c][r] <= InAll(r)

\* There is no more in all than at the start, and all can finish as long as each
\* could if it were alone.
IInv ==
  /\ ArraysAgree
  /\ \A r \in Resources : InAll(r) <= Units[r]
  /\ Feasible => CanAllFinish

\* The types that the invariant gives
LEMMA Types ==
  ASSUME IInv
  PROVE  /\ available \in Amounts /\ allocation \in Holdings /\ need \in Holdings /\ maximum \in Holdings
         /\ \A c \in Customers : maximum[c] \preceq Units /\ maximum[c] = allocation[c] (+) need[c]
<1>1. TypeOK /\ ClaimsAgree
  BY DEF IInv, ArraysAgree
<1>2. Vector \subseteq Amounts /\ \A v \in Vector : v \preceq Units
  BY Vectors
<1> QED BY <1>1, <1>2 DEF TypeOK, ClaimsAgree, Holdings

\* Arrays whose claims and total are within the bounds are as TypeOK says.
LEMMA TypesSuffice ==
  ASSUME NEW a \in Amounts, NEW h \in Holdings, NEW n \in Holdings, NEW m \in Holdings,
         \A c \in Customers : m[c] \preceq Units /\ m[c] = h[c] (+) n[c],
         \A r \in Resources : a[r] + Held(h, Customers, r) <= Units[r]
  PROVE  a \in Vector /\ \A v \in {m, h, n} : v \in [Customers -> Vector]
<1>1. Units \in Amounts
  BY Vectors
<1>2. a \preceq Units
  <2> SUFFICES ASSUME NEW r \in Resources PROVE a[r] <= Units[r]
    BY DEF \preceq
  <2>1. /\ a[r] \in Nat /\ Units[r] \in Nat /\ Held(h, Customers, r) \in Nat
        /\ a[r] + Held(h, Customers, r) <= Units[r]
    BY <1>1, HeldType DEF Amounts
  <2> QED BY <2>1
<1>3. ASSUME NEW c \in Customers PROVE h[c] \preceq Units /\ n[c] \preceq Units
  <2> SUFFICES ASSUME NEW r \in Resources PROVE h[c][r] <= Units[r] /\ n[c][r] <= Units[r]
    BY DEF \preceq
  <2>1. /\ h[c][r] \in Nat /\ n[c][r] \in Nat /\ Units[r] \in Nat
        /\ m[c][r] = h[c][r] + n[c][r] /\ m[c][r] <= Units[r]
    BY <1>1 DEF Holdings, Amounts, \preceq, (+)
  <2> QED BY <2>1
<1>4. \A c \in Customers : m[c] \in Vector /\ h[c] \in Vector /\ n[c] \in Vector
  BY <1>3, Vectors DEF Holdings
<1>5. a \in Vector
  BY <1>2, Vectors
<1> QED BY <1>4, <1>5 DEF Holdings

\* The claims of the program's arguments are the first needs.
LEMMA InitInv == Init => IInv
<1> SUFFICES ASSUME Init PROVE IInv
  OBVIOUS
<1>1. Vector \subseteq Amounts /\ Zero \in Vector /\ Zero \in Amounts /\ \A v \in Vector : v \preceq Units
  BY Vectors
<1>2. available \in Amounts /\ allocation \in Holdings /\ need \in Holdings /\ maximum \in Holdings
  BY <1>1 DEF Init, Holdings
<1>3. \A c \in Customers : allocation[c] = Zero /\ need[c] = maximum[c]
  BY DEF Init
<1>4. ASSUME NEW c \in Customers PROVE maximum[c] \preceq Units /\ maximum[c] = allocation[c] (+) need[c]
  <2>1. maximum[c] \preceq Units
    BY <1>1 DEF Init
  <2>2. maximum[c] \in [Resources -> Nat]
    BY <1>2 DEF Holdings, Amounts
  <2>3. maximum[c] = Zero (+) maximum[c]
    BY <2>2 DEF (+), Zero
  <2> QED BY <1>3, <2>1, <2>3
<1>5. \A r \in Resources : InAll(r) = available[r]
  <2> SUFFICES ASSUME NEW r \in Resources PROVE InAll(r) = available[r]
    OBVIOUS
  <2>1. Held(allocation, Customers, r) = 0
    BY HeldNothing DEF Init
  <2>2. available[r] \in Nat
    BY <1>2 DEF Amounts
  <2> QED BY <2>1, <2>2 DEF InAll
<1>6. \A r \in Resources : InAll(r) <= Units[r]
  BY <1>1, <1>5 DEF Init, \preceq
<1>7. TypeOK
  <2>1. \A r \in Resources : available[r] + Held(allocation, Customers, r) <= Units[r]
    BY <1>6 DEF InAll
  <2> QED BY <1>2, <1>4, <2>1, TypesSuffice DEF TypeOK
<1>8. ClaimsAgree
  BY <1>3, <1>4 DEF ClaimsAgree
<1>9. Feasible => CanAllFinish
  <2> SUFFICES ASSUME Feasible PROVE CanAllFinish
    OBVIOUS
  <2>1. \A c \in Customers : need[c] \preceq available
    BY <1>3, <1>5 DEF Feasible, \preceq
  <2> QED BY <1>2, <2>1, FeasibleIsCompletable DEF CanAllFinish
<1> QED BY <1>6, <1>7, <1>8, <1>9 DEF IInv, ArraysAgree

\* What a step has to keep for the invariant, and for what BankKept says.
Kept ==
  /\ available' \in Amounts /\ allocation' \in Holdings /\ need' \in Holdings /\ maximum' \in Holdings
  /\ \A c \in Customers :
       /\ maximum[c]' = allocation[c]' (+) need[c]'
       /\ need[c]' = Zero => maximum[c]' = Zero
       /\ \/ maximum[c]' = maximum[c]
          \/ maximum[c]' = Zero /\ \A r \in Resources : maximum[c][r] <= InAll(r)
  /\ \A r \in Resources : InAll(r)' = InAll(r)
  /\ CanAllFinish => CanAllFinish'

\* It is enough.
LEMMA KeptKeeps ==
  ASSUME IInv, Kept
  PROVE  IInv' /\ Conserved /\ SafetyKept
<1>1. /\ available \in Amounts /\ allocation \in Holdings /\ need \in Holdings /\ maximum \in Holdings
      /\ \A c \in Customers : maximum[c] \preceq Units /\ maximum[c] = allocation[c] (+) need[c]
  BY Types
<1>2. Zero \in Amounts /\ Zero \preceq Units
  BY Vectors
<1>3. \A c \in Customers : maximum[c]' \preceq Units /\ maximum[c]' = allocation[c]' (+) need[c]'
  BY <1>1, <1>2 DEF Kept
<1>4. \A r \in Resources : InAll(r)' = InAll(r) /\ InAll(r) <= Units[r]
  BY DEF Kept, IInv
<1>5. /\ available' \in Amounts /\ allocation' \in Holdings /\ need' \in Holdings /\ maximum' \in Holdings
  BY DEF Kept
<1>6. TypeOK'
  <2>1. \A r \in Resources : available'[r] + Held(allocation', Customers, r) <= Units[r]
    BY <1>4 DEF InAll
  <2> QED BY <1>3, <1>5, <2>1, TypesSuffice DEF TypeOK
<1>7. ClaimsAgree'
  BY DEF Kept, ClaimsAgree
<1>8. Feasible' => Feasible
  BY <1>4 DEF Kept, Feasible
<1>9. CanAllFinish' => Feasible'
  <2> SUFFICES ASSUME CanAllFinish', NEW c \in Customers, NEW r \in Resources
               PROVE  maximum'[c][r] <= available'[r] + Held(allocation', Customers, r)
    BY DEF Feasible, InAll
  <2>1. Completable(available', allocation', need')
    BY DEF CanAllFinish
  <2>2. allocation'[c][r] + need'[c][r] <= available'[r] + Held(allocation', Customers, r)
    BY <1>5, <2>1, CompletableIsFeasible
  <2>3. maximum'[c][r] = allocation'[c][r] + need'[c][r]
    BY <1>3 DEF (+)
  <2> QED BY <2>2, <2>3
<1>10. (Feasible => CanAllFinish) /\ (CanAllFinish => CanAllFinish')
  BY DEF IInv, Kept
<1>11. SafetyKept
  <2>1. CanAllFinish' <=> CanAllFinish
    BY <1>8, <1>9, <1>10
  <2>2. CanAllFinish' \in BOOLEAN /\ CanAllFinish \in BOOLEAN
    BY DEF CanAllFinish, Completable
  <2> QED BY <2>1, <2>2 DEF SafetyKept
<1>12. Conserved
  BY <1>4 DEF Conserved
<1>13. \A r \in Resources : InAll(r)' <= Units[r]
  BY <1>4
<1>14. Feasible' => CanAllFinish'
  BY <1>8, <1>10
<1> QED BY <1>6, <1>7, <1>11, <1>12, <1>13, <1>14 DEF IInv, ArraysAgree

\* RQ: a request that is granted, at once or when the customer finishes with it,
\* or refused.
LEMMA RequestKeeps ==
  ASSUME IInv, NEW c \in Customers, NEW q \in Vector, Request(c, q)
  PROVE  Kept
<1> DEFINE given == Granted(c, q)
           a1 == available (-) given
           h1 == [allocation EXCEPT ![c] = @ (+) given]
           n1 == [need EXCEPT ![c] = @ (-) given]
<1>1. /\ available \in Amounts /\ allocation \in Holdings /\ need \in Holdings /\ maximum \in Holdings
      /\ \A d \in Customers : maximum[d] = allocation[d] (+) need[d]
  BY Types
<1>2. q \in Amounts /\ Zero \in Amounts /\ q \preceq need[c]
  BY Vectors DEF Request
<1>3. h1[c] = allocation[c] (+) given /\ n1[c] = need[c] (-) given
  BY <1>1 DEF Holdings
<1>4. /\ available' = a1 (+) (IF n1[c] = Zero THEN h1[c] ELSE Zero)
      /\ allocation' = [allocation EXCEPT ![c] = Left(h1[c], n1[c])]
      /\ need' = n1
      /\ maximum' = [maximum EXCEPT ![c] = Left(@, n1[c])]
  BY <1>3 DEF Request
<1>5. /\ given \in Amounts /\ given \preceq need[c] /\ given \preceq available
      /\ given = Zero \/ check_safe(a1, h1, n1)
  <2>1. Zero \preceq need[c] /\ Zero \preceq available
    BY <1>1 DEF Holdings, Amounts, Zero, \preceq
  <2> QED BY <1>2, <2>1 DEF Granted
<1> HIDE DEF given
<1>6. /\ a1 \in Amounts /\ h1 \in Holdings /\ n1 \in Holdings
      /\ \A r \in Resources : a1[r] + Held(h1, Customers, r) = available[r] + Held(allocation, Customers, r)
      /\ \A d \in Customers : h1[d] (+) n1[d] = allocation[d] (+) need[d]
      /\ \A d \in Customers \ {c} : h1[d] = allocation[d] /\ n1[d] = need[d]
  <2>1. /\ available \in Amounts /\ allocation \in Holdings /\ need \in Holdings /\ given \in Amounts
        /\ given \preceq need[c] /\ given \preceq available
    BY <1>1, <1>5
  <2>2. /\ a1 = available (-) given /\ h1 = [allocation EXCEPT ![c] = @ (+) given]
        /\ n1 = [need EXCEPT ![c] = @ (-) given]
    OBVIOUS
  <2> HIDE DEF a1, h1, n1
  <2>3. Moved(c, available, allocation, need, a1, h1, n1)
    BY <2>1, <2>2, GrantMoves
  <2> QED BY <2>3 DEF Moved
<1>7. CanAllFinish => Completable(a1, h1, n1)
  <2>1. CASE given = Zero
    <3>1. a1 = available
      BY <1>1, <2>1 DEF Amounts, Zero, (-)
    <3>2. allocation[c] (+) Zero = allocation[c] /\ need[c] (-) Zero = need[c]
      BY <1>1 DEF Holdings, Amounts, Zero, (-), (+)
    <3>3. h1 = allocation /\ n1 = need
      BY <1>1, <2>1, <3>2 DEF Holdings
    <3> QED BY <3>1, <3>3 DEF CanAllFinish
  <2>2. CASE check_safe(a1, h1, n1)
    BY <1>6, <2>2, SearchDecides
  <2> QED BY <1>5, <2>1, <2>2
<1>8. [allocation EXCEPT ![c] = Left(h1[c], n1[c])] = [h1 EXCEPT ![c] = Left(h1[c], n1[c])]
  BY <1>1 DEF Holdings
<1> HIDE DEF a1, h1, n1
<1>9. CASE n1[c] # Zero
  <2>1. a1 (+) Zero = a1
    BY <1>6 DEF Amounts, Zero, (+)
  <2>2. available' = a1
    BY <1>4, <1>9, <2>1
  <2>3. [h1 EXCEPT ![c] = h1[c]] = h1 /\ [maximum EXCEPT ![c] = maximum[c]] = maximum
    BY <1>1, <1>6 DEF Holdings
  <2>4. allocation' = h1 /\ maximum' = maximum /\ need' = n1
    BY <1>4, <1>8, <1>9, <2>3 DEF Left
  <2>5. \A d \in Customers : maximum[d]' = allocation[d]' (+) need[d]'
    BY <1>1, <1>6, <2>4
  <2>6. \A d \in Customers : need[d]' = Zero => maximum[d]' = Zero
    BY <1>6, <1>9, <2>4 DEF IInv, ArraysAgree, ClaimsAgree
  <2>7. \A r \in Resources : InAll(r)' = InAll(r)
    BY <1>6, <2>2, <2>4 DEF InAll
  <2>8. CanAllFinish => CanAllFinish'
    BY <1>7, <2>2, <2>4 DEF CanAllFinish
  <2> QED BY <1>1, <1>6, <2>2, <2>4, <2>5, <2>6, <2>7, <2>8 DEF Kept
<1>10. CASE n1[c] = Zero
  <2>1. available' = a1 (+) h1[c] /\ allocation' = [h1 EXCEPT ![c] = Zero] /\ need' = n1
    BY <1>4, <1>8, <1>10 DEF Left
  <2>2. maximum'[c] = Zero /\ (\A d \in Customers \ {c} : maximum'[d] = maximum[d]) /\ maximum' \in Holdings
    BY <1>1, <1>2, <1>4, <1>10 DEF Left, Holdings
  <2>3. /\ available' \in Amounts /\ allocation' \in Holdings /\ allocation'[c] = Zero
        /\ \A r \in Resources :
             /\ available'[r] + Held(allocation', Customers, r) = a1[r] + Held(h1, Customers, r)
             /\ h1[c][r] <= a1[r] + Held(h1, Customers, r)
        /\ \A d \in Customers \ {c} : allocation'[d] = h1[d]
    <3>1. a1 \in Amounts /\ h1 \in Holdings
      BY <1>6
    <3>2. Returned(c, a1, h1, available', allocation')
      BY <3>1, <2>1, FinishMoves
    <3> QED BY <3>2 DEF Returned
  <2>4. maximum[c] = h1[c]
    <3>1. h1[c] (+) Zero = h1[c]
      BY <1>6 DEF Holdings, Amounts, Zero, (+)
    <3> QED BY <1>1, <1>6, <1>10, <3>1
  <2>5. \A d \in Customers : maximum'[d] = allocation'[d] (+) need'[d]
    <3>1. Zero (+) Zero = Zero
      BY DEF Zero, (+)
    <3> QED BY <1>1, <1>6, <1>10, <2>1, <2>2, <2>3, <3>1
  <2>6. \A d \in Customers : need'[d] = Zero => maximum'[d] = Zero
    BY <1>6, <2>1, <2>2 DEF IInv, ArraysAgree, ClaimsAgree
  <2>7. \A r \in Resources : InAll(r)' = InAll(r)
    BY <1>6, <2>3 DEF InAll
  <2>8. \A d \in Customers :
          maximum'[d] = maximum[d] \/ (maximum'[d] = Zero /\ \A r \in Resources : maximum[d][r] <= InAll(r))
    BY <1>6, <2>2, <2>3, <2>4 DEF InAll
  <2>9. CanAllFinish => CanAllFinish'
    <3> SUFFICES ASSUME CanAllFinish PROVE Completable(available', allocation', need')
      BY DEF CanAllFinish
    <3>1. Completable(a1 (+) h1[c], [h1 EXCEPT ![c] = Zero], n1)
      BY <1>6, <1>7, <1>10, FinishKeeps
    <3> QED BY <2>1, <3>1
  <2> QED BY <1>6, <2>1, <2>2, <2>3, <2>5, <2>6, <2>7, <2>8, <2>9 DEF Kept
<1> QED BY <1>9, <1>10

\* RL
LEMMA ReleaseKept ==
  ASSUME IInv, NEW c \in Customers, NEW q \in Vector, release_resources(c, q)
  PROVE  Kept
<1>1. /\ available \in Amounts /\ allocation \in Holdings /\ need \in Holdings /\ maximum \in Holdings
      /\ \A d \in Customers : maximum[d] = allocation[d] (+) need[d]
  BY Types
<1>2. q \in Amounts /\ q \preceq allocation[c]
  BY Vectors DEF release_resources
<1>3. /\ available' = available (+) q
      /\ allocation' = [allocation EXCEPT ![c] = @ (-) q]
      /\ need' = [need EXCEPT ![c] = @ (+) q] /\ maximum' = maximum
  BY DEF release_resources
<1>4. /\ available' \in Amounts /\ allocation' \in Holdings /\ need' \in Holdings
      /\ \A r \in Resources : available'[r] + Held(allocation', Customers, r) = available[r] + Held(allocation, Customers, r)
      /\ \A d \in Customers : allocation'[d] (+) need'[d] = allocation[d] (+) need[d]
      /\ \A d \in Customers \ {c} : allocation'[d] = allocation[d] /\ need'[d] = need[d]
  <2>1. available \in Amounts /\ allocation \in Holdings /\ need \in Holdings
    BY <1>1
  <2>2. Moved(c, available, allocation, need, available', allocation', need')
    BY <2>1, <1>2, <1>3, ReleaseMoves
  <2> QED BY <2>2 DEF Moved
<1>5. CanAllFinish => CanAllFinish'
  <2> SUFFICES ASSUME CanAllFinish PROVE Completable(available', allocation', need')
    BY DEF CanAllFinish
  <2>1. Completable(available, allocation, need)
    BY DEF CanAllFinish
  <2> QED BY <1>1, <1>2, <1>3, <2>1, ReleaseKeeps
<1>6. \A d \in Customers : maximum'[d] = allocation'[d] (+) need'[d]
  BY <1>1, <1>3, <1>4
<1>7. ASSUME NEW d \in Customers, need'[d] = Zero PROVE maximum'[d] = Zero
  <2>1. need[d] = Zero
    <3>1. CASE d # c
      BY <1>4, <1>7, <3>1
    <3>2. CASE d = c
      <4>1. need[c] (+) q = Zero
        BY <1>1, <1>3, <1>7, <3>2 DEF Holdings
      <4>2. ASSUME NEW r \in Resources PROVE need[c][r] = 0
        <5>1. need[c][r] + q[r] = 0 /\ need[c][r] \in Nat /\ q[r] \in Nat
          <6>1. (need[c] (+) q)[r] = need[c][r] + q[r]
            BY DEF (+)
          <6> QED BY <1>1, <1>2, <4>1, <6>1 DEF Holdings, Amounts, Zero
        <5> QED BY <5>1
      <4> QED BY <1>1, <3>2, <4>2 DEF Holdings, Amounts, Zero
    <3> QED BY <3>1, <3>2
  <2> QED BY <1>3, <2>1 DEF IInv, ArraysAgree, ClaimsAgree
<1>8. \A r \in Resources : InAll(r)' = InAll(r)
  BY <1>4 DEF InAll
<1> QED BY <1>1, <1>3, <1>4, <1>5, <1>6, <1>7, <1>8 DEF Kept

\* A command keeps the invariant and all that BankKept says.
LEMMA StepKeeps ==
  ASSUME IInv, [Next]_vars
  PROVE  IInv' /\ [Conserved /\ SafetyKept]_vars
<1>1. CASE UNCHANGED vars
  BY <1>1 DEF IInv, ArraysAgree, TypeOK, ClaimsAgree, InAll, Feasible, CanAllFinish, vars
<1>2. CASE Next
  <2>1. PICK c \in Customers, q \in Vector : Request(c, q) \/ release_resources(c, q)
    BY <1>2 DEF Next
  <2>2. Kept
    BY <2>1, RequestKeeps, ReleaseKept
  <2> QED BY <2>2, KeptKeeps
<1> QED BY <1>1, <1>2

\* The arrays agree, no unit is made, and feasible claims can all be met.
LEMMA InvariantHolds == Spec => []IInv
BY InitInv, StepKeeps, PTL DEF Spec

-----------------------------------------------------------------------------
\* The four arrays of banker.c agree after any commands: no customer holds or
\* claims what is not there, and one that needs no more has nothing.
THEOREM ArraysAgreeAlways == Spec => []ArraysAgree
<1>1. IInv => ArraysAgree
  BY DEF IInv
<1> QED BY <1>1, InvariantHolds, PTL

\* No command of main() loses or makes a unit of a resource, and none leads from
\* a state in which all customers can finish to one where they cannot, or back.
THEOREM BankKeptAlways == Spec => BankKept
BY InvariantHolds, StepKeeps, PTL DEF Spec, BankKept

\* request_resources refuses what is available exactly if there would be no order
\* left in which all customers can finish: the passes of check_safe, which take
\* customers as they come, miss none.
THEOREM RefusesOnlyUnsafeAlways == Spec => []RefusesOnlyUnsafe
<1>1. ASSUME IInv PROVE RefusesOnlyUnsafe
  <2> SUFFICES ASSUME NEW c \in Customers, NEW q \in Vector,
                      q # Zero, q \preceq need[c], q \preceq available
               PROVE  Granted(c, q) = q <=>
                        Completable(available (-) q, [allocation EXCEPT ![c] = @ (+) q],
                                    [need EXCEPT ![c] = @ (-) q])
    BY DEF RefusesOnlyUnsafe
  <2> DEFINE a1 == available (-) q
             h1 == [allocation EXCEPT ![c] = @ (+) q]
             n1 == [need EXCEPT ![c] = @ (-) q]
  <2>1. available \in Amounts /\ allocation \in Holdings /\ need \in Holdings /\ q \in Amounts
    BY <1>1, Types, Vectors
  <2>2. Granted(c, q) = q <=> check_safe(a1, h1, n1)
    BY DEF Granted
  <2>3. a1 = available (-) q /\ h1 = [allocation EXCEPT ![c] = @ (+) q] /\ n1 = [need EXCEPT ![c] = @ (-) q]
    OBVIOUS
  <2> HIDE DEF a1, h1, n1
  <2>4. Moved(c, available, allocation, need, a1, h1, n1)
    BY <2>1, <2>3, GrantMoves
  <2>5. check_safe(a1, h1, n1) <=> Completable(a1, h1, n1)
    BY <2>4, SearchDecides DEF Moved
  <2> QED BY <2>2, <2>5 DEF a1, h1, n1
<1> QED BY <1>1, InvariantHolds, PTL

=============================================================================
