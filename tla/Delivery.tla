------------------------------ MODULE Delivery ------------------------------
(***************************************************************************)
(* What a file transfer promises to the user who typed client-request:     *)
(* the destination holds a prefix of the file, which only grows, and the   *)
(* finish callback is made at most once, when it holds all of it; after    *)
(* that it is left alone.  An error may be reported at any time, and need  *)
(* not be the end: the last retry of a request may run out while its       *)
(* answer is being taken.                                                  *)
(***************************************************************************)
EXTENDS Integers, Sequences

CONSTANTS User,         \* those who download
          Path,         \* what they may ask for
          Text(_),      \* the contents of a file
          None          \* nothing asked for yet

VARIABLES wanted,       \* the file last asked for
          destination,  \* what has been written
          result        \* the callbacks made since then

deliveryVars == <<wanted, destination, result>>

Init ==
  /\ wanted = [u \in User |-> None]
  /\ destination = [u \in User |-> <<>>]
  /\ result = [u \in User |-> {}]

\* The user asks for f.
Ask(u, f) ==
  /\ wanted[u] = None \/ result[u] # {}
  /\ wanted' = [wanted EXCEPT ![u] = f]
  /\ result' = [result EXCEPT ![u] = {}]
  /\ UNCHANGED destination

Running(u) == wanted[u] # None /\ "finished" \notin result[u]

\* The destination is opened, and truncated.
Open(u) ==
  /\ Running(u)
  /\ destination' = [destination EXCEPT ![u] = <<>>]
  /\ result' \in {result, [result EXCEPT ![u] = @ \cup {"failed"}]}
  /\ UNCHANGED wanted

\* Some more of the file is written.
Extend(u) ==
  /\ Running(u)
  /\ \E n \in (Len(destination[u]) + 1)..Len(Text(wanted[u])) :
       destination' = [destination EXCEPT ![u] = SubSeq(Text(wanted[u]), 1, n)]
  /\ UNCHANGED <<wanted, result>>

Finish(u) ==
  /\ Running(u)
  /\ destination[u] = Text(wanted[u])
  /\ result' = [result EXCEPT ![u] = @ \cup {"finished"}]
  /\ UNCHANGED <<wanted, destination>>

Fail(u) ==
  /\ wanted[u] # None
  /\ result' = [result EXCEPT ![u] = @ \cup {"failed"}]
  /\ UNCHANGED <<wanted, destination>>

Next ==
  \E u \in User :
    \/ \E f \in Path : Ask(u, f)
    \/ Open(u) \/ Extend(u) \/ Finish(u) \/ Fail(u)

Spec == Init /\ [][Next]_deliveryVars

=============================================================================
