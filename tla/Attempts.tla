------------------------------ MODULE Attempts ------------------------------
(***************************************************************************)
(* What Channel::send promises its caller: a datagram is put on the wire   *)
(* at most 1 + retries times, none of them after terminate(), and the      *)
(* timeout is declared only when all attempts have been made, to an entry  *)
(* that was given retries and has not been terminated.                     *)
(***************************************************************************)
EXTENDS Naturals

CONSTANTS Id, Budgets     \* Budgets: the possible numbers of attempts

VARIABLES status, budget, attempts

attemptsVars == <<status, budget, attempts>>

Init ==
  /\ status = [h \in Id |-> "unused"]
  /\ budget = [h \in Id |-> 0]
  /\ attempts = [h \in Id |-> 0]

Begin(h, n) ==
  /\ status[h] = "unused"
  /\ status' = [status EXCEPT ![h] = "active"]
  /\ budget' = [budget EXCEPT ![h] = n]
  /\ UNCHANGED attempts

Attempt(h) ==
  /\ status[h] = "active"
  /\ attempts[h] < budget[h]
  /\ attempts' = [attempts EXCEPT ![h] = @ + 1]
  /\ UNCHANGED <<status, budget>>

Cancel(h) ==
  /\ status[h] = "active"
  /\ status' = [status EXCEPT ![h] = "cancelled"]
  /\ UNCHANGED <<budget, attempts>>

Expire(h) ==
  /\ status[h] = "active"
  /\ attempts[h] = budget[h]
  /\ budget[h] > 1
  /\ status' = [status EXCEPT ![h] = "expired"]
  /\ UNCHANGED <<budget, attempts>>

Next ==
  \E h \in Id :
    \/ \E n \in Budgets : Begin(h, n)
    \/ Attempt(h) \/ Cancel(h) \/ Expire(h)

Spec == Init /\ [][Next]_attemptsVars

=============================================================================
