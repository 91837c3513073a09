---------------------------- MODULE PagedMemory ----------------------------
(***************************************************************************)
(* What a program sees of the virtual memory of Operating System, Project  *)
(* 8.  Spec is what the program keeps: a read gets what was written last,  *)
(* unless the page has been evicted since, because another page was used   *)
(* or the memory was destroyed; then the page is as it is in the backing   *)
(* store, which is never written.  KeptSpec is what its report promises: a *)
(* dirty page that is evicted is written back, so that an eviction is not  *)
(* seen at all.                                                            *)
(***************************************************************************)
CONSTANTS Pages,   \* page numbers; a page number is also the page's own data
          Writes,  \* data that a program writes
          Nil

VARIABLES mem,    \* the data of each page
          result  \* the page used last, with what was read or written, or Nil

vars == <<mem, result>>

Init == mem = [p \in Pages |-> p] /\ result = Nil

Read(p) ==
  /\ result' = <<p, mem[p]>>
  /\ \/ UNCHANGED mem
     \/ \E q \in Pages \ {p} : mem' = [mem EXCEPT ![q] = q]

Write(p, v) ==
  /\ result' = <<p, v>>
  /\ \/ mem' = [mem EXCEPT ![p] = v]
     \/ \E q \in Pages \ {p} : mem' = [mem EXCEPT ![p] = v, ![q] = q]

Reopen == mem' = [p \in Pages |-> p] /\ result' = Nil

Next ==
  \/ \E p \in Pages : Read(p) \/ \E v \in Writes : Write(p, v)
  \/ Reopen

Spec == Init /\ [][Next]_vars

\* Only a write to a page changes what will be read from it.
KeptNext ==
  \/ \E p \in Pages :
       \/ result' = <<p, mem[p]>> /\ UNCHANGED mem
       \/ \E v \in Writes : result' = <<p, v>> /\ mem' = [mem EXCEPT ![p] = v]
  \/ Reopen

KeptSpec == Init /\ [][KeptNext]_vars

=============================================================================
