----------------------------- MODULE MCTransfer -----------------------------
(* Transfer for TLC: files by length, and a bound on the downloads. *)
EXTENDS Transfer

CONSTANTS c1, c2, fA, fB, fM

\* Two files that exist, and one that does not.
Lengths == [f \in File |-> IF f = fA THEN 2 ELSE 1]
Triples == [f \in File |-> IF f = fA THEN 3 ELSE 1]

\* Two downloads in all, of one client or of two, which are alike: c1 begins.
InTurn == downloads[c2] <= downloads[c1] /\ downloads[c1] + downloads[c2] <= 2
MCNext ==
  \/ \E c \in Client : \/ Ask(c) /\ InTurn'
                       \/ Woken(c)
  \/ Progress
  \/ Environment
MCSpec == Init /\ [][MCNext]_vars /\ Fairness

=============================================================================
