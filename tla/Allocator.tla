----------------------------- MODULE Allocator -----------------------------
(***************************************************************************)
(* allocator.c, freelist.c, alloclist.c and policy.c of Operating System,  *)
(* Project 7, under the commands of main.c, which runs one at a time.      *)
(***************************************************************************)
EXTENDS Integers, SequencesExt

CONSTANTS Names,  \* block names
          Size,   \* MEMORY_SIZE
          Page,   \* PAGE_SIZE
          Nobody

ASSUME AllocatorAssumption ==
  /\ \E k \in 0..Page : Page = 2 ^ k   \* allocator_internal_roundup is a mask
  /\ Page \in Nat \ {0}
  /\ Size \in Nat \ {0} /\ Size % Page = 0
  /\ Nobody \notin Names

VARIABLES byAddress,  \* freelist: the nodes along next, and along larger
          bySize,
          blocks,     \* alloclist: the block of each name in use
          refused     \* size of the request that was refused last, or 0

vars == <<byAddress, bySize, blocks, refused>>

Block == [address : 0..(Size - 1), size : 1..Size]
Free == Range(byAddress)
Used == Range(blocks)
End(b) == b.address + b.size
Cells(b) == b.address..(End(b) - 1)

Paged(b) == b.address % Page = 0 /\ b.size % Page = 0 /\ End(b) <= Size

TypeOK ==
  /\ \A list \in {byAddress, bySize} : list \in Seq({b \in Block : Paged(b)})
  /\ DOMAIN blocks \subseteq Names
  /\ Used \subseteq {b \in Block : Paged(b)}
  /\ refused \in 0..Size

\* freelist_create
Init ==
  /\ byAddress = <<[address |-> 0, size |-> Size]>>
  /\ bySize = byAddress
  /\ blocks = <<>>
  /\ refused = 0

\* allocator_internal_roundup
Roundup(size) == ((size + Page - 1) \div Page) * Page

\* The first node of a list that passes the test, if there is one.
FirstOf(list, Test(_)) ==
  LET i == SelectInSeq(list, Test) IN IF i = 0 THEN {} ELSE {list[i]}

\* first_fit, best_fit and worst_fit: the node that is chosen for a size.
Chosen(policy, size) ==
  LET Fits(node) == node.size >= size
  IN  CASE policy = "F" -> FirstOf(byAddress, Fits)
        [] policy = "B" -> FirstOf(bySize, Fits)
        [] policy = "W" -> {bySize[i] : i \in {j \in DOMAIN bySize : j = Len(bySize) /\ Fits(bySize[j])}}

\* A node goes into a list before the first one that passes the test.
InsertBefore(list, node, Test(_)) ==
  LET i == SelectInSeq(list, Test)
  IN  IF i = 0 THEN Append(list, node) ELSE InsertAt(list, i, node)

\* Mutant of Sorted: the test of the loop is turned round.
SortedLate(list, node) == InsertBefore(list, node, LAMBDA m : m.size <= node.size)

\* freelist_internal_sort, into the list without the node
Sorted(list, node) == InsertBefore(list, node, LAMBDA m : m.size >= node.size)

\* What is left of a node whose front is allocated.
Rest(node, size) == [address |-> node.address + size, size |-> node.size - size]

freelist_alloc(node, size) ==
  IF node.size > size
  THEN /\ byAddress' = ReplaceAll(byAddress, node, Rest(node, size))
       /\ bySize'    = Sorted(RemoveFirst(bySize, node), Rest(node, size))
  ELSE /\ byAddress' = RemoveFirst(byAddress, node)
       /\ bySize'    = RemoveFirst(bySize, node)

\* RQ, with main's checks of name and size, and allocator_alloc
Request(name, size, policy) ==
  /\ name \notin DOMAIN blocks
  /\ LET rounded == Roundup(size)
         chosen  == Chosen(policy, rounded)
     IN  \/ /\ chosen = {}
            /\ refused' = rounded
            /\ UNCHANGED <<byAddress, bySize, blocks>>
         \/ \E node \in chosen :
              /\ freelist_alloc(node, rounded)
              /\ blocks' = [n \in DOMAIN blocks \cup {name} |->
                             IF n = name THEN [address |-> node.address, size |-> rounded]
                             ELSE blocks[n]]
              /\ refused' = 0

Touching(list, i) == End(list[i]) = list[i + 1].address

\* Mutant of MergedFrom: no merge with the nodes before.
NothingBefore(list, i) == i

\* The two loops of freelist_internal_merge: the first and the last node that
\* are merged with the one at place i.
MergedFrom(list, i) == CHOOSE k \in 1..i :
  /\ \A j \in k..(i - 1) : Touching(list, j)
  /\ k > 1 => ~ Touching(list, k - 1)
MergedTo(list, i) == CHOOSE k \in i..Len(list) :
  /\ \A j \in i..(k - 1) : Touching(list, j)
  /\ k < Len(list) => ~ Touching(list, k)

\* The order by size without the nodes at from..to of a list, which
\* freelist_internal_remove and freelist_internal_sort unlink one by one.
Detached(list, from, to) ==
  LET left[k \in (from - 1)..to] ==
        IF k < from THEN bySize ELSE RemoveFirst(left[k - 1], list[k])
  IN  left[to]

\* freelist_free with freelist_internal_insert and freelist_internal_merge
freelist_free(b) ==
  LET list == InsertBefore(byAddress, b, LAMBDA m : m.address >= b.address)
      i    == SelectInSeq(list, LAMBDA m : m = b)
      from == MergedFrom(list, i)
      to   == MergedTo(list, i)
      node == [address |-> list[from].address, size |-> End(list[to]) - list[from].address]
  IN  /\ byAddress' = SubSeq(list, 1, from - 1) \o <<node>> \o SubSeq(list, to + 1, Len(list))
      /\ bySize'    = Sorted(Detached(list, from, to), node)

\* RL and allocator_free
Release(name) ==
  /\ name \in DOMAIN blocks
  /\ freelist_free(blocks[name])
  /\ blocks' = Restrict(blocks, DOMAIN blocks \ {name})
  /\ refused' = 0

Next == \E name \in Names :
  \/ \E size \in 1..Size, policy \in {"F", "B", "W"} : Request(name, size, policy)
  \/ Release(name)

Spec == Init /\ [][Next]_vars

\* Every cell belongs to exactly one block or one free node: allocating splits
\* and freeing merges without losing a cell or giving it away twice.
Tiled ==
  \A i \in 0..(Size - 1) :
    Cardinality({n \in DOMAIN blocks : i \in Cells(blocks[n])})
      + Cardinality({f \in DOMAIN byAddress : i \in Cells(byAddress[f])}) = 1

\* No two free nodes touch.  The loop of freelist_internal_merge follows a node
\* it has just freed, which is harmless only because no third node touches.
Coalesced == \A f, g \in Free : End(f) # g.address

\* However blocks come and go, the two orders hold the same nodes once each, by
\* address and by size.
OrdersAgree ==
  /\ Len(bySize) = Len(byAddress)
  /\ Range(bySize) = Free
  /\ IsSorted(byAddress, LAMBDA a, b : a.address < b.address)
  /\ \A i, j \in DOMAIN bySize : i < j => bySize[i].size <= bySize[j].size

\* The lists and the blocks agree after any sequence of commands: they divide the
\* memory, with free neighbours merged and both orders kept.
ListsAgree == TypeOK /\ Tiled /\ Coalesced /\ OrdersAgree

\* Each policy chooses what its name says among all the free nodes, although it
\* looks at one end of one list, and finds a node if there is one.
PolicyKept ==
  \A size \in {Roundup(s) : s \in 1..Size} :
    LET fit == {f \in Free : f.size >= size}
        Best(policy, Better(_, _)) ==
          IF fit = {} THEN Chosen(policy, size) = {}
          ELSE \E f \in fit : Chosen(policy, size) = {f} /\ \A g \in fit : Better(f, g)
    IN  /\ Best("F", LAMBDA f, g : f.address <= g.address)
        /\ Best("B", LAMBDA f, g : f.size <= g.size)
        /\ Best("W", LAMBDA f, g : f.size >= g.size)

\* The lists and blocks implement a memory of pages, in which a request fails
\* only if no run of free cells is long enough.
OwnerOf(i) ==
  LET n == {m \in DOMAIN blocks : i * Page \in Cells(blocks[m])}
  IN  IF n = {} THEN Nobody ELSE CHOOSE m \in n : TRUE
Abstract == INSTANCE Heap WITH Pages   <- Size \div Page,
                               owner   <- [i \in 0..(Size \div Page - 1) |-> OwnerOf(i)],
                               refused <- refused \div Page
ImplementsHeap == Abstract!Spec

=============================================================================
