------------------------------ MODULE TaskQueue ------------------------------
(***************************************************************************)
(* What a bounded task queue promises: a task that is put in is handed to  *)
(* one runner, in the order of arrival, and the queue never holds more     *)
(* than its capacity.                                                      *)
(***************************************************************************)
EXTENDS Naturals, Sequences

CONSTANTS Task, Runner, Capacity, None

VARIABLES queue,    \* tasks in order of arrival
          holding,  \* the task each runner has, or None
          finished  \* the tasks that were run

vars == <<queue, holding, finished>>

Init ==
  /\ queue    = <<>>
  /\ holding  = [r \in Runner |-> None]
  /\ finished = {}

Accept(t) ==
  /\ Len(queue) < Capacity
  /\ t \notin finished
  /\ \A r \in Runner : holding[r] # t
  /\ \A i \in 1..Len(queue) : queue[i] # t
  /\ queue' = Append(queue, t)
  /\ UNCHANGED <<holding, finished>>

Start(r) ==
  /\ queue # <<>>
  /\ holding[r] = None
  /\ holding' = [holding EXCEPT ![r] = Head(queue)]
  /\ queue' = Tail(queue)
  /\ UNCHANGED finished

Finish(r) ==
  /\ holding[r] # None
  /\ finished' = finished \cup {holding[r]}
  /\ holding' = [holding EXCEPT ![r] = None]
  /\ UNCHANGED queue

Next ==
  \/ \E t \in Task : Accept(t)
  \/ \E r \in Runner : Start(r) \/ Finish(r)

Spec == Init /\ [][Next]_vars

=============================================================================
