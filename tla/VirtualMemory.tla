--------------------------- MODULE VirtualMemory ---------------------------
(***************************************************************************)
(* virtual_memory.c, LRU_cache.c, TLB.c and physical_memory.c of Operating *)
(* System, Project 8.  An LRU cache is a sequence, the least recent first. *)
(* A page has one byte: offsets play no part in what is found where.       *)
(***************************************************************************)
EXTENDS Integers, SequencesExt

CONSTANTS Pages,       \* page numbers; the store holds the page itself
          FrameCount,  \* frame_capacity
          TLBSize,     \* TLB_size
          Writes,      \* data that a program writes
          Nil

ASSUME MemoryAssumption ==
  /\ FrameCount \in Nat \ {0}
  /\ TLBSize \in Nat \ {0}
  /\ Nil \notin Pages \cup Writes \cup (0..FrameCount)

VARIABLES page_table,  \* the frame of each page, Nil while not valid
          page_cache,  \* LRU cache of the pages that are in memory
          TLB,         \* LRU cache of translations
          data,        \* what each frame holds, Nil while not valid
          dirty,       \* the frames whose dirty bit is set
          result,      \* the page used last, with what was read or written, or Nil
          recent       \* history: pages by their last use, the latest last

memory == <<page_table, page_cache, data, dirty>>
VMvars == <<memory, TLB, result, recent>>

Frames == 0..(FrameCount - 1)
Entry == [page : Pages, frame : Frames]

VMTypeOK ==
  /\ page_table \in [Pages -> Frames \cup {Nil}]
  /\ page_cache \in Seq(Pages)
  /\ TLB \in Seq(Entry) /\ Len(TLB) <= TLBSize
  /\ data \in [Frames -> Pages \cup Writes \cup {Nil}]
  /\ dirty \subseteq Frames
  /\ result \in (Pages \X (Pages \cup Writes)) \cup {Nil}
  /\ recent \in Seq(Pages)

\* virtual_memory_create
VMInit ==
  /\ page_table = [p \in Pages |-> Nil]
  /\ page_cache = <<>>
  /\ TLB = <<>>
  /\ data = [f \in Frames |-> Nil]
  /\ dirty = {}
  /\ result = Nil
  /\ recent = <<>>

\* Mutant of Touch: what is used stays where it is.
TouchInPlace(cache, x) == IF Contains(cache, x) THEN cache ELSE Append(cache, x)

\* LRU_cache_query of what is there, LRU_cache_insert of what is not
Touch(cache, x) == Append(RemoveFirst(cache, x), x)

\* The translation of a page, if the TLB has it.
Hit(p) == {e \in Range(TLB) : e.page = p}

\* Room for one more: the least recent gives way when a cache is full.
Room(cache, capacity) == IF Len(cache) = capacity THEN Tail(cache) ELSE cache

TLB_insert(tlb, p, f) == Append(Room(tlb, TLBSize), [page |-> p, frame |-> f])

\* physical_memory_write sets the dirty bit.
Dirtied(bits, f, v) == IF v = Nil THEN bits ELSE bits \cup {f}

\* virtual_memory_read (v is Nil) and virtual_memory_write, in the frame found:
\* what the frame holds before is `there`.
Use(p, f, there, v) ==
  /\ data' = [data EXCEPT ![f] = IF v = Nil THEN there ELSE v]
  /\ result' = <<p, data'[f]>>
  /\ recent' = Touch(recent, p)

\* The TLB knows the frame.  The order of page_cache is left as it is.
TLBHit(p, v) == \E e \in Hit(p) :
  /\ TLB' = Touch(TLB, e)
  /\ dirty' = Dirtied(dirty, e.frame, v)
  /\ Use(p, e.frame, data[e.frame], v)
  /\ UNCHANGED <<page_table, page_cache>>

\* The page is in memory.
PageHit(p, v) ==
  /\ Hit(p) = {}
  /\ Contains(page_cache, p)
  /\ page_cache' = Touch(page_cache, p)
  /\ TLB' = TLB_insert(TLB, p, page_table[p])
  /\ dirty' = Dirtied(dirty, page_table[p], v)
  /\ Use(p, page_table[p], data[page_table[p]], v)
  /\ UNCHANGED page_table

\* LRU_cache_full and LRU_cache_least_recently_used: the page that is evicted
Victims == IF Len(page_cache) = FrameCount THEN {Head(page_cache)} ELSE {}

\* Mutant of Shot: the translation of an evicted page stays.
ShotNever == TLB

\* TLB_remove of the page that is evicted.
Shot == RemoveFirstMatch(TLB, LAMBDA e : e.page \in Victims)

\* The frame of the victim, or else the first that is not valid.
FrameToInsert ==
  IF Victims # {} THEN page_table[Head(page_cache)]
  ELSE CHOOSE f \in Frames : data[f] = Nil /\ \A g \in Frames : data[g] = Nil => f <= g

\* Mutant of Mapped: the victim's entry stays valid.
MappedToo(p, f) == [page_table EXCEPT ![p] = f]

\* The page table when p has got frame f.
Mapped(p, f) ==
  [q \in Pages |-> IF q = p THEN f ELSE IF q \in Victims THEN Nil ELSE page_table[q]]

\* A page fault: the victim loses its frame, its translation and its place in
\* the cache, and the page is read from the store.  The store is opened to be
\* read only, so that writing a dirty victim back has no effect.
PageFault(p, v) ==
  /\ Hit(p) = {}
  /\ ~ Contains(page_cache, p)
  /\ LET f == FrameToInsert
     IN  /\ page_table' = Mapped(p, f)
         /\ page_cache' = Append(Room(page_cache, FrameCount), p)
         /\ TLB' = TLB_insert(Shot, p, f)
         /\ dirty' = Dirtied(dirty \ {f}, f, v)
         /\ Use(p, f, p, v)

\* virtual_memory_destroy, whose writes are in vain as well, and _create
Reopen ==
  /\ page_table' = [p \in Pages |-> Nil]
  /\ data' = [f \in Frames |-> Nil]
  /\ page_cache' = <<>>
  /\ TLB' = <<>>
  /\ recent' = <<>>
  /\ dirty' = {}
  /\ result' = Nil

VMNext ==
  \/ \E p \in Pages, v \in Writes \cup {Nil} : TLBHit(p, v) \/ PageHit(p, v) \/ PageFault(p, v)
  \/ Reopen

VMSpec == VMInit /\ [][VMNext]_VMvars

\* The page table, the LRU order of pages and the frames always tell the same
\* story, although each is updated apart: a page is in the order, once, exactly
\* while it has a frame, no two share one, and no frame is lost.
OneStory ==
  /\ \A p \in Pages : page_table[p] # Nil <=> Contains(page_cache, p)
  /\ IsInjective(page_cache)
  /\ \A p, q \in Range(page_cache) : page_table[p] = page_table[q] => p = q
  /\ {f \in Frames : data[f] # Nil} = {page_table[p] : p \in Range(page_cache)}

\* No translation outlives the page's stay in its frame.
TLBAgrees == \A e \in Range(TLB) : page_table[e.page] = e.frame

\* A frame that is not dirty holds what the store holds.
CleanIsStored == \A p \in Pages :
  page_table[p] \in Frames \ dirty => data[page_table[p]] = p

\* The structures that a page fault updates one after another agree, with each
\* other and with the store.
StructuresAgree == VMTypeOK /\ OneStory /\ TLBAgrees /\ CleanIsStored

\* Of the pages in memory, the TLB holds those used last, in the order of their
\* use, whatever evictions have taken from it.
TLBIsRecent ==
  LET Later(p, q) == \E i, j \in DOMAIN recent : i > j /\ recent[i] = p /\ recent[j] = q
  IN  /\ \A i, j \in DOMAIN TLB : i > j => Later(TLB[i].page, TLB[j].page)
      /\ \A e \in Range(TLB), q \in Range(page_cache) : Hit(q) = {} => Later(e.page, q)

\* Reads get what was written last, until the page is evicted: the frames, the TLB
\* and the LRU orders mix up no two pages, and an access loses no page but the one
\* that it evicts.  That one's writes are lost, which WritesSurvive is about.
VMAbstract == INSTANCE PagedMemory WITH
  mem <- [p \in Pages |-> IF page_table[p] = Nil THEN p ELSE data[page_table[p]]]
ImplementsMemory == VMAbstract!Spec

\* "If the frame is dirty, write back to the backing store" (report/report.typ:265),
\* which virtual_memory_get_physical_address does when it evicts a page: what was
\* written to the page is there when it is used again.
WritesSurvive == VMAbstract!KeptSpec

=============================================================================
