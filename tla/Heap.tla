-------------------------------- MODULE Heap --------------------------------
(***************************************************************************)
(* What a program that uses the allocator of Operating System, Project 7,  *)
(* relies on: each page of the memory has one owner, a block is a run of   *)
(* free pages, and a request fails only if there is no run that is long    *)
(* enough.                                                                 *)
(***************************************************************************)
EXTENDS Integers

CONSTANTS Names,  \* names of blocks
          Pages,  \* how many there are
          Nobody

VARIABLES owner,   \* the owner of each page
          refused  \* the size that the last command asked for in vain, in pages, or 0

vars == <<owner, refused>>

Index == 0..(Pages - 1)

Init == owner = [i \in Index |-> Nobody] /\ refused = 0

IsRun(i, size) == i + size <= Pages /\ \A j \in i..(i + size - 1) : owner[j] = Nobody

\* A program gets a free run.
Allocate(n, i, size) ==
  /\ \A j \in Index : owner[j] # n
  /\ IsRun(i, size)
  /\ owner' = [j \in Index |-> IF j \in i..(i + size - 1) THEN n ELSE owner[j]]
  /\ refused' = 0

Refuse(size) ==
  /\ \A i \in Index : ~ IsRun(i, size)
  /\ refused' = size
  /\ UNCHANGED owner

Free(n) ==
  /\ owner' = [j \in Index |-> IF owner[j] = n THEN Nobody ELSE owner[j]]
  /\ refused' = 0

Next ==
  \/ \E n \in Names, i \in Index, size \in 1..Pages : Allocate(n, i, size)
  \/ \E size \in 1..Pages : Refuse(size)
  \/ \E n \in Names : Free(n)

Spec == Init /\ [][Next]_vars

=============================================================================
