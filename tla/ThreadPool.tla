----------------------------- MODULE ThreadPool -----------------------------
(***************************************************************************)
(* threadpool.c and client.c of Operating System, Project 5: a ring of     *)
(* tasks behind two semaphores and the mutex queueLock, which each thread  *)
(* holds for one critical section that does not block, so a critical       *)
(* section is one step.  A submitter calls pool_submit for its tasks in    *)
(* order and tries again when it is refused; the client has one, a program *)
(* that uses threadpool.h may have several.                                *)
(***************************************************************************)
EXTENDS Integers, FiniteSets

CONSTANTS Submitter,   \* threads that call pool_submit
          Worker,      \* workerBee
          QueueSize,   \* QUEUE_SIZE
          MaxTasks,    \* bound: tasks of each submitter
          Nil

ASSUME PoolAssumption ==
  /\ IsFiniteSet(Submitter)
  /\ IsFiniteSet(Worker)
  /\ QueueSize \in Nat \ {0}
  /\ MaxTasks \in Nat
  /\ Nil \notin Submitter \X (1..MaxTasks)

VARIABLES tasks,     \* taskQueue.tasks, front and rear
          front,
          rear,
          occupied,  \* the two semaphores
          vacancy,
          at,        \* where each submitter is in pool_submit
          next,      \* the number of its next task
          place,     \* where each worker is in its loop
          held,      \* the worker's local copy of a task
          ran,       \* history: the tasks executed
          down       \* pool_shutdown was called

queueVars == <<tasks, front, rear>>
vars == <<queueVars, occupied, vacancy, at, next, place, held, ran, down>>

Task == Submitter \X (1..MaxTasks)
Slot == 0..QueueSize

TypeOK ==
  /\ tasks    \in [Slot -> Task \cup {Nil}]
  /\ front    \in Slot
  /\ rear     \in Slot
  /\ occupied \in 0..QueueSize
  /\ vacancy  \in 0..QueueSize
  /\ at       \in [Submitter -> {"idle", "wait", "put", "post"}]
  /\ next     \in [Submitter -> 1..(MaxTasks + 1)]
  /\ place    \in [Worker -> {"wait", "take", "post", "run", "cancelled"}]
  /\ held     \in [Worker -> Task \cup {Nil}]
  /\ ran      \subseteq Task
  /\ down     \in BOOLEAN

\* pool_init
Init ==
  /\ tasks    = [i \in Slot |-> Nil]
  /\ front    = 0
  /\ rear     = 0
  /\ occupied = 0
  /\ vacancy  = QueueSize
  /\ at       = [s \in Submitter |-> "idle"]
  /\ next     = [s \in Submitter |-> 1]
  /\ place    = [w \in Worker |-> "wait"]
  /\ held     = [w \in Worker |-> Nil]
  /\ ran      = {}
  /\ down     = FALSE

\* Mutant of Succ: the ring is one slot shorter than its semaphore says.
SuccEarly(i) == IF i >= QueueSize - 1 THEN 0 ELSE i + 1

\* Mutant of Succ: the ring is one slot longer than its array.
SuccLate(i) == IF i > QueueSize THEN 0 ELSE i + 1

\* (i + 1) % (QUEUE_SIZE + 1)
Succ(i) == IF i = QueueSize THEN 0 ELSE i + 1

\* The number of tasks between front and rear.
Count == IF rear >= front THEN rear - front ELSE rear - front + QueueSize + 1

-----------------------------------------------------------------------------
(* pool_submit and the enqueue() it calls. *)

\* The queue is not full: the lock is released, and enqueue() begins.  A full
\* queue changes nothing, and the submitter tries again.
Check(s) ==
  /\ at[s] = "idle"
  /\ next[s] <= MaxTasks
  /\ Succ(rear) # front
  /\ at' = [at EXCEPT ![s] = "wait"]
  /\ UNCHANGED <<queueVars, occupied, vacancy, next, place, held, ran, down>>

WaitVacancy(s) ==
  /\ at[s] = "wait"
  /\ vacancy > 0
  /\ vacancy' = vacancy - 1
  /\ at' = [at EXCEPT ![s] = "put"]
  /\ UNCHANGED <<queueVars, occupied, next, place, held, ran, down>>

Put(s) ==
  /\ at[s] = "put"
  /\ tasks' = [tasks EXCEPT ![rear] = <<s, next[s]>>]
  /\ rear' = Succ(rear)
  /\ at' = [at EXCEPT ![s] = "post"]
  /\ UNCHANGED <<front, occupied, vacancy, next, place, held, ran, down>>

\* Mutant of PostOccupied: the other semaphore is posted.
PostOther(s) ==
  /\ at[s] = "post"
  /\ vacancy' = vacancy + 1
  /\ at' = [at EXCEPT ![s] = "idle"]
  /\ next' = [next EXCEPT ![s] = @ + 1]
  /\ UNCHANGED <<queueVars, occupied, place, held, ran, down>>

\* pool_submit returns 1.
PostOccupied(s) ==
  /\ at[s] = "post"
  /\ occupied' = occupied + 1
  /\ at' = [at EXCEPT ![s] = "idle"]
  /\ next' = [next EXCEPT ![s] = @ + 1]
  /\ UNCHANGED <<queueVars, vacancy, place, held, ran, down>>

submit(s) == Check(s) \/ WaitVacancy(s) \/ Put(s) \/ PostOccupied(s)

-----------------------------------------------------------------------------
(* worker and the dequeue() it calls. *)

\* Mutant of WaitOccupied: the slot is given away before it is read.
WaitOccupiedEarly(w) ==
  /\ place[w] = "wait"
  /\ occupied > 0
  /\ occupied' = occupied - 1
  /\ vacancy' = vacancy + 1
  /\ place' = [place EXCEPT ![w] = "take"]
  /\ UNCHANGED <<queueVars, at, next, held, ran, down>>

WaitOccupied(w) ==
  /\ place[w] = "wait"
  /\ occupied > 0
  /\ occupied' = occupied - 1
  /\ place' = [place EXCEPT ![w] = "take"]
  /\ UNCHANGED <<queueVars, vacancy, at, next, held, ran, down>>

Take(w) ==
  /\ place[w] = "take"
  /\ held' = [held EXCEPT ![w] = tasks[front]]
  /\ front' = Succ(front)
  /\ place' = [place EXCEPT ![w] = "post"]
  /\ UNCHANGED <<tasks, rear, occupied, vacancy, at, next, ran, down>>

PostVacancy(w) ==
  /\ place[w] = "post"
  /\ vacancy' = vacancy + 1
  /\ place' = [place EXCEPT ![w] = "run"]
  /\ UNCHANGED <<queueVars, occupied, at, next, held, ran, down>>

execute(w) ==
  /\ place[w] = "run"
  /\ ran' = ran \cup {held[w]}
  /\ held' = [held EXCEPT ![w] = Nil]
  /\ place' = [place EXCEPT ![w] = "wait"]
  /\ UNCHANGED <<queueVars, occupied, vacancy, at, next, down>>

worker(w) == WaitOccupied(w) \/ Take(w) \/ PostVacancy(w) \/ execute(w)

-----------------------------------------------------------------------------
(* The end of client.c. *)

\* pool_shutdown, called when every task was accepted: the semaphores are
\* destroyed, which wakes nobody, and the cancellations are requested.
Shutdown ==
  /\ ~down
  /\ \A s \in Submitter : next[s] = MaxTasks + 1
  /\ down' = TRUE
  /\ UNCHANGED <<queueVars, occupied, vacancy, at, next, place, held, ran>>

\* A worker ends where the cancellation, or the end of the process, finds it.
Cancel(w) ==
  /\ down
  /\ place[w] # "cancelled"
  /\ place' = [place EXCEPT ![w] = "cancelled"]
  /\ UNCHANGED <<queueVars, occupied, vacancy, at, next, held, ran, down>>

Next ==
  \/ \E s \in Submitter : submit(s)
  \/ \E w \in Worker : worker(w) \/ Cancel(w)
  \/ Shutdown

Spec == Init /\ [][Next]_vars

\* Every thread runs on as far as its semaphore lets it; nobody need shut down.
Fairness ==
  /\ \A s \in Submitter : WF_vars(submit(s))
  /\ \A w \in Worker : WF_vars(worker(w))

FairSpec == Spec /\ Fairness

-----------------------------------------------------------------------------

\* The semaphores promise no more than the ring has: a vacancy is a slot that
\* enqueue() may overwrite, an occupied one holds a task that dequeue() may take,
\* whatever threads are between a semaphore and the queue.
PromisesKept ==
  /\ occupied <= Count
  /\ vacancy + Count <= QueueSize

\* pool_submit returns, though after its check for a full queue it may have to
\* wait in enqueue() for a vacancy that others have taken.
SubmitReturns == \A s \in Submitter : at[s] = "wait" ~> at[s] = "idle"

\* A task that pool_submit accepted is executed, unless the pool is shut down.
AcceptedRuns ==
  \A t \in Task : t[2] < next[t[1]] ~> (t \in ran \/ down)

\* Callers are served: every call of pool_submit returns, and what it accepted runs.
CallersServed == SubmitReturns /\ AcceptedRuns

-----------------------------------------------------------------------------
(* The tasks in the ring are those of the abstract queue. *)

Waiting == [i \in 1..Count |-> tasks[(front + i - 1) % (QueueSize + 1)]]

Q == INSTANCE TaskQueue WITH
       Runner <- Worker, Capacity <- QueueSize, None <- Nil,
       queue <- Waiting, holding <- held, finished <- ran

ImplementsTaskQueue == Q!Spec

=============================================================================
