--------------------------- MODULE ThreadPoolProofs ---------------------------
(***************************************************************************)
(* PromisesKept of ThreadPool, and that it implements TaskQueue, for any   *)
(* number of submitters, workers and slots.  PromisesKept is not           *)
(* inductive: a thread that has passed one semaphore and not yet posted    *)
(* the other stands for a task or a slot that neither counts, so the       *)
(* invariant counts the threads in between.                                *)
(***************************************************************************)
EXTENDS ThreadPool, TLAPS, FiniteSetTheorems, SequenceTheorems

\* How many threads of S are at place r.
Number(f, S, r) == Cardinality({y \in S : f[y] = r})

TasksBalance ==
  occupied + Number(at, Submitter, "post") + Number(place, Worker, "take") <= Count

SlotsBalance ==
  vacancy + Count + Number(at, Submitter, "put") + Number(place, Worker, "post")
    <= QueueSize

\* A submitter inside pool_submit has a task left to submit.
Counted == \A s \in Submitter : at[s] # "idle" => next[s] <= MaxTasks

\* Slot i is between front and rear.
InUse(i) == IF front <= rear THEN front <= i /\ i < rear ELSE front <= i \/ i < rear

\* A slot between front and rear holds a task, and so does a worker that took one.
Filled == \A i \in Slot : InUse(i) => tasks[i] \in Task
Carried == \A w \in Worker : place[w] \in {"post", "run"} => held[w] \in Task

Inv == TypeOK /\ Counted /\ Filled /\ Carried /\ TasksBalance /\ SlotsBalance

-----------------------------------------------------------------------------

LEMMA CountType ==
  ASSUME TypeOK
  PROVE  Count \in 0..QueueSize
BY PoolAssumption DEF TypeOK, Slot, Count

\* The numbers in the invariant are natural numbers.
LEMMA NumberType ==
  ASSUME TypeOK, NEW r
  PROVE  Number(at, Submitter, r) \in Nat /\ Number(place, Worker, r) \in Nat
<1>1. /\ IsFiniteSet({s \in Submitter : at[s] = r})
      /\ IsFiniteSet({w \in Worker : place[w] = r})
  BY PoolAssumption, FS_Subset
<1> QED
  BY <1>1, FS_CardinalityType DEF Number

\* A thread that moves is counted at its new place and no more at its old one.
LEMMA SubmitterMoved ==
  ASSUME TypeOK, NEW s \in Submitter, NEW q \in {"idle", "wait", "put", "post"},
         at' = [at EXCEPT ![s] = q]
  PROVE  \A r : /\ at[s] = r => Number(at, Submitter, r) >= 1
                /\ at[s] = r /\ q # r =>
                     Number(at, Submitter, r)' = Number(at, Submitter, r) - 1
                /\ at[s] # r /\ q = r =>
                     Number(at, Submitter, r)' = Number(at, Submitter, r) + 1
                /\ at[s] # r /\ q # r =>
                     Number(at, Submitter, r)' = Number(at, Submitter, r)
<1> SUFFICES ASSUME NEW r
             PROVE  /\ at[s] = r => Number(at, Submitter, r) >= 1
                    /\ at[s] = r /\ q # r =>
                         Number(at, Submitter, r)' = Number(at, Submitter, r) - 1
                    /\ at[s] # r /\ q = r =>
                         Number(at, Submitter, r)' = Number(at, Submitter, r) + 1
                    /\ at[s] # r /\ q # r =>
                         Number(at, Submitter, r)' = Number(at, Submitter, r)
  OBVIOUS
<1> DEFINE A == {y \in Submitter : at[y] = r}
           B == {y \in Submitter : at'[y] = r}
<1>1. at'[s] = q /\ \A y \in Submitter \ {s} : at'[y] = at[y]
  BY DEF TypeOK
<1>2. Number(at, Submitter, r) = Cardinality(A) /\ Number(at, Submitter, r)' = Cardinality(B)
  BY DEF Number
<1>3. IsFiniteSet(A) /\ Cardinality(A) \in Nat
  BY PoolAssumption, FS_Subset, FS_CardinalityType
<1>4. ASSUME at[s] = r
      PROVE  Cardinality(A) >= 1
  <2>1. A # {}
    BY <1>4
  <2> QED
    BY <1>3, <2>1, FS_EmptySet
<1>5. ASSUME at[s] = r, q # r
      PROVE  Cardinality(B) = Cardinality(A) - 1
  <2>1. B = A \ {s} /\ s \in A
    BY <1>1, <1>5
  <2> QED
    BY <1>3, <2>1, FS_RemoveElement
<1>6. ASSUME at[s] # r, q = r
      PROVE  Cardinality(B) = Cardinality(A) + 1
  <2>1. B = A \cup {s} /\ s \notin A
    BY <1>1, <1>6
  <2> QED
    BY <1>3, <2>1, FS_AddElement
<1>7. ASSUME at[s] # r, q # r
      PROVE  B = A
  BY <1>1, <1>7
<1> QED
  BY <1>2, <1>4, <1>5, <1>6, <1>7

LEMMA WorkerMoved ==
  ASSUME TypeOK, NEW w \in Worker, NEW q \in {"wait", "take", "post", "run", "cancelled"},
         place' = [place EXCEPT ![w] = q]
  PROVE  \A r : /\ place[w] = r => Number(place, Worker, r) >= 1
                /\ place[w] = r /\ q # r =>
                     Number(place, Worker, r)' = Number(place, Worker, r) - 1
                /\ place[w] # r /\ q = r =>
                     Number(place, Worker, r)' = Number(place, Worker, r) + 1
                /\ place[w] # r /\ q # r =>
                     Number(place, Worker, r)' = Number(place, Worker, r)
<1> SUFFICES ASSUME NEW r
             PROVE  /\ place[w] = r => Number(place, Worker, r) >= 1
                    /\ place[w] = r /\ q # r =>
                         Number(place, Worker, r)' = Number(place, Worker, r) - 1
                    /\ place[w] # r /\ q = r =>
                         Number(place, Worker, r)' = Number(place, Worker, r) + 1
                    /\ place[w] # r /\ q # r =>
                         Number(place, Worker, r)' = Number(place, Worker, r)
  OBVIOUS
<1> DEFINE A == {y \in Worker : place[y] = r}
           B == {y \in Worker : place'[y] = r}
<1>1. place'[w] = q /\ \A y \in Worker \ {w} : place'[y] = place[y]
  BY DEF TypeOK
<1>2. Number(place, Worker, r) = Cardinality(A) /\ Number(place, Worker, r)' = Cardinality(B)
  BY DEF Number
<1>3. IsFiniteSet(A) /\ Cardinality(A) \in Nat
  BY PoolAssumption, FS_Subset, FS_CardinalityType
<1>4. ASSUME place[w] = r
      PROVE  Cardinality(A) >= 1
  <2>1. A # {}
    BY <1>4
  <2> QED
    BY <1>3, <2>1, FS_EmptySet
<1>5. ASSUME place[w] = r, q # r
      PROVE  Cardinality(B) = Cardinality(A) - 1
  <2>1. B = A \ {w} /\ w \in A
    BY <1>1, <1>5
  <2> QED
    BY <1>3, <2>1, FS_RemoveElement
<1>6. ASSUME place[w] # r, q = r
      PROVE  Cardinality(B) = Cardinality(A) + 1
  <2>1. B = A \cup {w} /\ w \notin A
    BY <1>1, <1>6
  <2> QED
    BY <1>3, <2>1, FS_AddElement
<1>7. ASSUME place[w] # r, q # r
      PROVE  B = A
  BY <1>1, <1>7
<1> QED
  BY <1>2, <1>4, <1>5, <1>6, <1>7

-----------------------------------------------------------------------------

LEMMA InitInv == Init => Inv
<1> SUFFICES ASSUME Init
             PROVE  Inv
  OBVIOUS
<1>1. TypeOK
  <2>1. 0 \in Slot /\ QueueSize \in 0..QueueSize /\ 0 \in 0..QueueSize
    BY PoolAssumption DEF Slot
  <2>2. 1 \in 1..(MaxTasks + 1)
    BY PoolAssumption
  <2> QED
    BY <2>1, <2>2 DEF Init, TypeOK
<1>2. \A p \in {"put", "post"} : {s \in Submitter : at[s] = p} = {}
  BY DEF Init
<1>3. \A p \in {"take", "post"} : {w \in Worker : place[w] = p} = {}
  BY DEF Init
<1>4. /\ Number(at, Submitter, "put") = 0
      /\ Number(at, Submitter, "post") = 0
      /\ Number(place, Worker, "take") = 0
      /\ Number(place, Worker, "post") = 0
  BY <1>2, <1>3, FS_EmptySet DEF Number
<1>5. Count = 0 /\ occupied = 0 /\ vacancy = QueueSize
  BY PoolAssumption DEF Init, Count
<1>6. Counted /\ Filled /\ Carried
  BY PoolAssumption DEF Init, Counted, Filled, Carried, InUse, Slot
<1> QED
  BY <1>1, <1>4, <1>5, <1>6, PoolAssumption DEF Inv, TasksBalance, SlotsBalance

\* Each step of pool_submit; a Put adds the task its vacancy has room for.
LEMMA SubmitStep ==
  ASSUME Inv, NEW s \in Submitter, submit(s)
  PROVE  Inv'
<1> DEFINE P == {"idle", "wait", "put", "post"}
<1>1. /\ at \in [Submitter -> P]
      /\ occupied \in Nat /\ vacancy \in Nat /\ QueueSize \in Nat
      /\ \A p \in P : Number(at, Submitter, p) \in Nat
      /\ \A p \in {"take", "post"} : Number(place, Worker, p) \in Nat
      /\ Count \in 0..QueueSize
  BY NumberType, CountType, PoolAssumption DEF Inv, TypeOK
<1>2. UNCHANGED <<place, held, ran, down>>
  BY DEF submit, Check, WaitVacancy, Put, PostOccupied
<1>3. \A p \in {"take", "post"} : Number(place, Worker, p)' = Number(place, Worker, p)
  BY <1>2 DEF Number
<1>4. Carried'
  BY <1>2 DEF Inv, Carried
<1>5. CASE Check(s)
  <2>1. at' = [at EXCEPT ![s] = "wait"] /\ at[s] = "idle"
    BY <1>5 DEF Check
  <2>2. UNCHANGED <<tasks, front, rear, occupied, vacancy, next, Count>>
    BY <1>5 DEF Check, queueVars, Count
  <2>3. TypeOK'
    BY <1>2, <2>1, <2>2 DEF Inv, TypeOK
  <2>4. \A p \in {"put", "post"} : Number(at, Submitter, p)' = Number(at, Submitter, p)
    BY <2>1, SubmitterMoved DEF Inv
  <2>5. Counted'
    BY <1>5, <2>1 DEF Inv, TypeOK, Counted, Check
  <2>6. Filled'
    BY <2>2 DEF Inv, Filled, InUse
  <2> QED
    BY <1>3, <2>2, <2>3, <2>4, <2>5, <2>6, <1>4 DEF Inv, TasksBalance, SlotsBalance
<1>6. CASE WaitVacancy(s)
  <2>1. at' = [at EXCEPT ![s] = "put"] /\ at[s] = "wait"
    BY <1>6 DEF WaitVacancy
  <2>2. UNCHANGED <<tasks, front, rear, occupied, next, Count>>
    BY <1>6 DEF WaitVacancy, queueVars, Count
  <2>3. vacancy' = vacancy - 1 /\ vacancy > 0
    BY <1>6 DEF WaitVacancy
  <2>4. TypeOK'
    BY <1>1, <1>2, <2>1, <2>2, <2>3 DEF Inv, TypeOK
  <2>5. /\ Number(at, Submitter, "put")' = Number(at, Submitter, "put") + 1
        /\ Number(at, Submitter, "post")' = Number(at, Submitter, "post")
    BY <2>1, SubmitterMoved DEF Inv
  <2>6. Counted'
    BY <2>1, <2>2 DEF Inv, TypeOK, Counted
  <2>7. Filled'
    BY <2>2 DEF Inv, Filled, InUse
  <2> QED
    BY <1>1, <1>3, <2>2, <2>3, <2>4, <2>5, <2>6, <2>7, <1>4 DEF Inv, TasksBalance, SlotsBalance
<1>7. CASE Put(s)
  <2>1. at' = [at EXCEPT ![s] = "post"] /\ at[s] = "put"
    BY <1>7 DEF Put
  <2>2. UNCHANGED <<front, occupied, vacancy, next>>
    BY <1>7 DEF Put
  <2>3. tasks' = [tasks EXCEPT ![rear] = <<s, next[s]>>] /\ rear' = Succ(rear)
    BY <1>7 DEF Put
  <2>4. /\ Number(at, Submitter, "put") >= 1
        /\ Number(at, Submitter, "put")' = Number(at, Submitter, "put") - 1
        /\ Number(at, Submitter, "post")' = Number(at, Submitter, "post") + 1
    BY <2>1, SubmitterMoved DEF Inv
  <2>5. Count < QueueSize
    BY <1>1, <2>4 DEF Inv, SlotsBalance
  <2>6. Count' = Count + 1 /\ rear' \in Slot
    BY <1>1, <2>2, <2>3, <2>5, PoolAssumption DEF Inv, TypeOK, Slot, Count, Succ
  <2>7. <<s, next[s]>> \in Task
    BY <2>1, PoolAssumption DEF Inv, TypeOK, Counted, Task
  <2>8. TypeOK'
    BY <1>2, <2>1, <2>2, <2>3, <2>6, <2>7 DEF Inv, TypeOK
  <2>9. Counted'
    BY <2>1, <2>2 DEF Inv, TypeOK, Counted
  <2>10. Filled'
    <3> SUFFICES ASSUME NEW i \in Slot, InUse(i)'
                 PROVE  tasks'[i] \in Task
      BY DEF Filled
    <3>1. i = rear \/ InUse(i)
      BY <1>1, <2>2, <2>3, <2>5, PoolAssumption DEF Inv, TypeOK, Slot, InUse, Succ, Count
    <3> QED
      BY <2>3, <2>7, <3>1 DEF Inv, TypeOK, Filled
  <2> QED
    BY <1>1, <1>3, <2>2, <2>4, <2>6, <2>8, <2>9, <2>10, <1>4 DEF Inv, TasksBalance, SlotsBalance
<1>8. CASE PostOccupied(s)
  <2>1. at' = [at EXCEPT ![s] = "idle"] /\ at[s] = "post"
    BY <1>8 DEF PostOccupied
  <2>2. UNCHANGED <<tasks, front, rear, vacancy, Count>>
    BY <1>8 DEF PostOccupied, queueVars, Count
  <2>3. occupied' = occupied + 1 /\ next' = [next EXCEPT ![s] = @ + 1]
    BY <1>8 DEF PostOccupied
  <2>4. /\ Number(at, Submitter, "post") >= 1
        /\ Number(at, Submitter, "post")' = Number(at, Submitter, "post") - 1
        /\ Number(at, Submitter, "put")' = Number(at, Submitter, "put")
    BY <2>1, SubmitterMoved DEF Inv
  <2>5. occupied' \in 0..QueueSize
    BY <1>1, <2>3, <2>4 DEF Inv, TasksBalance
  <2>6. next[s] \in 1..MaxTasks
    BY <2>1, PoolAssumption DEF Inv, TypeOK, Counted
  <2>7. TypeOK'
    BY <1>2, <2>1, <2>2, <2>3, <2>5, <2>6, PoolAssumption DEF Inv, TypeOK
  <2>8. Counted'
    BY <2>1, <2>3 DEF Inv, TypeOK, Counted
  <2>9. Filled'
    BY <2>2 DEF Inv, Filled, InUse
  <2> QED
    BY <1>1, <1>3, <2>2, <2>3, <2>4, <2>7, <2>8, <2>9, <1>4 DEF Inv, TasksBalance, SlotsBalance
<1> QED
  BY <1>5, <1>6, <1>7, <1>8 DEF submit

\* Each step of a worker; a Take removes a task its semaphore promised.
LEMMA WorkerStep ==
  ASSUME Inv, NEW w \in Worker, worker(w) \/ Cancel(w)
  PROVE  Inv'
<1>1. /\ occupied \in Nat /\ vacancy \in Nat /\ QueueSize \in Nat
      /\ \A p \in {"put", "post"} : Number(at, Submitter, p) \in Nat
      /\ \A p \in {"take", "post"} : Number(place, Worker, p) \in Nat
      /\ Count \in 0..QueueSize
  BY NumberType, CountType, PoolAssumption DEF Inv, TypeOK
<1>2. UNCHANGED <<tasks, rear, at, next, down>>
  BY DEF worker, WaitOccupied, Take, PostVacancy, execute, Cancel, queueVars
<1>3. /\ Counted'
      /\ \A p \in {"put", "post"} : Number(at, Submitter, p)' = Number(at, Submitter, p)
  BY <1>2 DEF Inv, Counted, Number
<1>4. CASE WaitOccupied(w)
  <2>1. place' = [place EXCEPT ![w] = "take"] /\ place[w] = "wait"
    BY <1>4 DEF WaitOccupied
  <2>2. occupied' = occupied - 1 /\ occupied > 0
    BY <1>4 DEF WaitOccupied
  <2>3. UNCHANGED <<front, vacancy, held, ran, Count>>
    BY <1>4 DEF WaitOccupied, queueVars, Count
  <2>4. /\ Number(place, Worker, "take")' = Number(place, Worker, "take") + 1
        /\ Number(place, Worker, "post")' = Number(place, Worker, "post")
    BY <2>1, WorkerMoved DEF Inv
  <2>5. TypeOK'
    BY <1>1, <1>2, <2>1, <2>2, <2>3 DEF Inv, TypeOK
  <2>6. Filled'
    BY <1>2, <2>3 DEF Inv, Filled, InUse
  <2>7. Carried'
    BY <2>1, <2>3 DEF Inv, TypeOK, Carried
  <2> QED
    BY <1>1, <1>3, <2>2, <2>3, <2>4, <2>5, <2>6, <2>7 DEF Inv, TasksBalance, SlotsBalance
<1>5. CASE Take(w)
  <2>1. place' = [place EXCEPT ![w] = "post"] /\ place[w] = "take"
    BY <1>5 DEF Take
  <2>2. held' = [held EXCEPT ![w] = tasks[front]] /\ front' = Succ(front)
    BY <1>5 DEF Take
  <2>3. UNCHANGED <<occupied, vacancy, ran>>
    BY <1>5 DEF Take
  <2>4. /\ Number(place, Worker, "take") >= 1
        /\ Number(place, Worker, "take")' = Number(place, Worker, "take") - 1
        /\ Number(place, Worker, "post")' = Number(place, Worker, "post") + 1
    BY <2>1, WorkerMoved DEF Inv
  <2>5. Count > 0
    BY <1>1, <2>4 DEF Inv, TasksBalance
  <2>6. Count' = Count - 1 /\ front' \in Slot
    BY <1>1, <1>2, <2>2, <2>5, PoolAssumption DEF Inv, TypeOK, Slot, Count, Succ
  <2>7. TypeOK'
    BY <1>2, <2>1, <2>2, <2>3, <2>6 DEF Inv, TypeOK
  <2>8. Filled'
    BY <1>1, <1>2, <2>2, <2>5, PoolAssumption
    DEF Inv, TypeOK, Slot, Filled, InUse, Succ, Count
  <2>9. Carried'
    <3>1. tasks[front] \in Task
      BY <1>1, <2>5 DEF Inv, TypeOK, Slot, Filled, InUse, Count
    <3> QED
      BY <2>1, <2>2, <3>1 DEF Inv, TypeOK, Carried
  <2> QED
    BY <1>1, <1>3, <2>3, <2>4, <2>6, <2>7, <2>8, <2>9 DEF Inv, TasksBalance, SlotsBalance
<1>6. CASE PostVacancy(w)
  <2>1. place' = [place EXCEPT ![w] = "run"] /\ place[w] = "post"
    BY <1>6 DEF PostVacancy
  <2>2. vacancy' = vacancy + 1
    BY <1>6 DEF PostVacancy
  <2>3. UNCHANGED <<front, occupied, held, ran, Count>>
    BY <1>6 DEF PostVacancy, queueVars, Count
  <2>4. /\ Number(place, Worker, "post") >= 1
        /\ Number(place, Worker, "post")' = Number(place, Worker, "post") - 1
        /\ Number(place, Worker, "take")' = Number(place, Worker, "take")
    BY <2>1, WorkerMoved DEF Inv
  <2>5. vacancy' \in 0..QueueSize
    BY <1>1, <2>2, <2>4 DEF Inv, SlotsBalance
  <2>6. TypeOK'
    BY <1>2, <2>1, <2>2, <2>3, <2>5 DEF Inv, TypeOK
  <2>7. Filled'
    BY <1>2, <2>3 DEF Inv, Filled, InUse
  <2>8. Carried'
    BY <2>1, <2>3 DEF Inv, TypeOK, Carried
  <2> QED
    BY <1>1, <1>3, <2>2, <2>3, <2>4, <2>6, <2>7, <2>8 DEF Inv, TasksBalance, SlotsBalance
<1>7. CASE execute(w)
  <2>1. place' = [place EXCEPT ![w] = "wait"] /\ place[w] = "run"
    BY <1>7 DEF execute
  <2>2. UNCHANGED <<front, occupied, vacancy, Count>>
    BY <1>7 DEF execute, queueVars, Count
  <2>3. /\ Number(place, Worker, "post")' = Number(place, Worker, "post")
        /\ Number(place, Worker, "take")' = Number(place, Worker, "take")
    BY <2>1, WorkerMoved DEF Inv
  <2>4. held[w] \in Task
    BY <2>1 DEF Inv, Carried
  <2>5. TypeOK'
    BY <1>2, <1>7, <2>1, <2>2, <2>4 DEF Inv, TypeOK, execute
  <2>6. Filled'
    BY <1>2, <2>2 DEF Inv, Filled, InUse
  <2>7. Carried'
    BY <1>7, <2>1 DEF Inv, TypeOK, Carried, execute
  <2> QED
    BY <1>1, <1>3, <2>2, <2>3, <2>5, <2>6, <2>7 DEF Inv, TasksBalance, SlotsBalance
<1>8. CASE Cancel(w)
  <2>1. place' = [place EXCEPT ![w] = "cancelled"]
    BY <1>8 DEF Cancel
  <2>2. UNCHANGED <<front, occupied, vacancy, held, ran, Count>>
    BY <1>8 DEF Cancel, queueVars, Count
  <2>3. ASSUME NEW p \in {"take", "post"}
        PROVE  /\ Number(place, Worker, p)' \in Int
               /\ Number(place, Worker, p)' <= Number(place, Worker, p)
    <3>1. \/ Number(place, Worker, p)' = Number(place, Worker, p) - 1
          \/ Number(place, Worker, p)' = Number(place, Worker, p)
      BY <2>1, WorkerMoved DEF Inv
    <3> QED
      BY <1>1, <3>1
  <2>4. TypeOK'
    BY <1>2, <2>1, <2>2 DEF Inv, TypeOK
  <2>5. Filled'
    BY <1>2, <2>2 DEF Inv, Filled, InUse
  <2>6. Carried'
    BY <2>1, <2>2 DEF Inv, TypeOK, Carried
  <2> QED
    BY <1>1, <1>3, <2>2, <2>3, <2>4, <2>5, <2>6 DEF Inv, TasksBalance, SlotsBalance
<1> QED
  BY <1>4, <1>5, <1>6, <1>7, <1>8 DEF worker

-----------------------------------------------------------------------------

LEMMA NextInv ==
  ASSUME Inv, [Next]_vars
  PROVE  Inv'
<1>1. CASE \E s \in Submitter : submit(s)
  BY <1>1, SubmitStep
<1>2. CASE \E w \in Worker : worker(w) \/ Cancel(w)
  BY <1>2, WorkerStep
<1>3. ASSUME Shutdown \/ UNCHANGED vars
      PROVE  Inv'
  <2>1. UNCHANGED <<tasks, front, rear, occupied, vacancy, at, next, place, held, ran>>
    BY <1>3 DEF Shutdown, vars, queueVars
  <2>2. down' \in BOOLEAN
    BY <1>3 DEF Shutdown, vars, Inv, TypeOK
  <2>3. TypeOK' /\ Counted' /\ Filled' /\ Carried'
    BY <2>1, <2>2 DEF Inv, TypeOK, Counted, Filled, InUse, Carried
  <2>4. UNCHANGED <<Count, Number(at, Submitter, "put"), Number(at, Submitter, "post"),
                    Number(place, Worker, "take"), Number(place, Worker, "post")>>
    BY <2>1 DEF Number, Count
  <2>5. TasksBalance' /\ SlotsBalance'
    BY <2>1, <2>4 DEF Inv, TasksBalance, SlotsBalance
  <2> QED
    BY <2>3, <2>5 DEF Inv
<1> QED
  BY <1>1, <1>2, <1>3 DEF Next

LEMMA InvHolds == Spec => []Inv
BY InitInv, NextInv, PTL DEF Spec

\* The ring's indices, both semaphores and every thread's task stay what the code
\* declares, so neither enqueue() nor dequeue() leaves the array of the ring.
THEOREM TypeCorrect == Spec => []TypeOK
<1>1. Inv => TypeOK
  BY DEF Inv
<1> QED
  BY <1>1, InvHolds, PTL

\* However many threads stand between a semaphore and the queue, enqueue() never
\* overwrites a waiting task and dequeue() never takes from an empty ring.
THEOREM PromisesKeptAlways == Spec => []PromisesKept
<1>1. Inv => PromisesKept
  BY NumberType, CountType, PoolAssumption
  DEF Inv, TypeOK, TasksBalance, SlotsBalance, PromisesKept
<1> QED
  BY <1>1, InvHolds, PTL

-----------------------------------------------------------------------------
(* The ring implements the abstract queue.  That no task enters it twice   *)
(* follows from the numbers: a task in the ring, with a worker or run has  *)
(* been put in by its submitter, and the next Put is of a later one.       *)

\* Task t was put in the ring by its submitter.
Issued(t) == t[2] < next[t[1]] \/ (t[2] = next[t[1]] /\ at[t[1]] = "post")

RingIssued == \A i \in Slot : InUse(i) => Issued(tasks[i])
HeldIssued == \A w \in Worker : held[w] # Nil => Issued(held[w])
RanIssued  == \A t \in ran : Issued(t)

\* A worker that is to take a task has none.
EmptyHanded == \A w \in Worker : place[w] \in {"wait", "take"} => held[w] = Nil

Fresh == RingIssued /\ HeldIssued /\ RanIssued /\ EmptyHanded

\* The i-th slot from f on, and the n tasks from slot f on in ring t.
SlotAt(f, i) == IF f + i - 1 <= QueueSize THEN f + i - 1 ELSE f + i - 1 - (QueueSize + 1)
From(t, f, n) == [i \in 1..n |-> t[SlotAt(f, i)]]

\* The same in the words of Waiting.
Ring(t, f, n) == [i \in 1..n |-> t[(f + i - 1) % (QueueSize + 1)]]

\* Ring u has task e behind the n tasks of t; t without its first task.
Behind(t, u, f, n, e) == From(u, f, n + 1) = Append(From(t, f, n), e)
WithoutFirst(t, f, n) ==
  /\ From(t, f, n) # <<>>
  /\ Head(From(t, f, n)) = t[f]
  /\ Tail(From(t, f, n)) = From(t, Succ(f), n - 1)

\* A remainder below twice the divisor.
LEMMA Modulus ==
  ASSUME NEW q \in Nat, NEW j \in 0..(2 * q + 1)
  PROVE  j % (q + 1) = IF j <= q THEN j ELSE j - (q + 1)
<1>1. CASE j <= q
  BY <1>1
<1>2. CASE j > q
  BY <1>2
<1> QED
  BY <1>1, <1>2

LEMMA SlotAtModulus ==
  ASSUME NEW f \in Slot, NEW i \in 1..QueueSize
  PROVE  (f + i - 1) % (QueueSize + 1) = SlotAt(f, i) /\ SlotAt(f, i) \in Slot
<1>1. PICK j : j = f + i - 1
  OBVIOUS
<1>2. QueueSize \in Nat /\ j \in 0..(2 * QueueSize + 1)
  BY <1>1, PoolAssumption DEF Slot
<1>3. j % (QueueSize + 1) = IF j <= QueueSize THEN j ELSE j - (QueueSize + 1)
  BY <1>2, Modulus
<1>4. SlotAt(f, i) = IF j <= QueueSize THEN j ELSE j - (QueueSize + 1)
  BY <1>1, <1>2 DEF SlotAt, Slot
<1> QED
  BY <1>1, <1>2, <1>3, <1>4 DEF Slot

LEMMA FromModulus ==
  ASSUME NEW t, NEW f \in Slot, NEW n \in 0..QueueSize
  PROVE  Ring(t, f, n) = From(t, f, n)
<1>1. ASSUME NEW i \in 1..n
      PROVE  t[(f + i - 1) % (QueueSize + 1)] = t[SlotAt(f, i)]
  <2>1. i \in 1..QueueSize
    BY PoolAssumption
  <2> QED
    BY <2>1, SlotAtModulus
<1> QED
  BY <1>1 DEF From, Ring

\* Writing the slot behind the last task appends to the sequence.
LEMMA FromAppend ==
  ASSUME NEW T, NEW t \in [Slot -> T], NEW f \in Slot, NEW n \in 0..(QueueSize - 1),
         NEW e \in T, NEW u, u = [t EXCEPT ![SlotAt(f, n + 1)] = e]
  PROVE  Behind(t, u, f, n, e)
<1>1. QueueSize \in Nat /\ n \in Nat /\ n + 1 \in Nat /\ f \in Nat
  BY PoolAssumption DEF Slot
<1>2. \A i \in 1..(n + 1) : SlotAt(f, i) \in Slot
  <2> TAKE i \in 1..(n + 1)
  <2>1. i \in 1..QueueSize
    BY <1>1
  <2> QED
    BY <2>1, SlotAtModulus
<1>3. n + 1 \in 1..(n + 1)
  BY <1>1
<1>4. \A i \in 1..n : i \in 1..(n + 1) /\ SlotAt(f, i) # SlotAt(f, n + 1)
  BY <1>1 DEF SlotAt, Slot
<1>5. u[SlotAt(f, n + 1)] = e
  BY <1>2, <1>3
<1>6. \A i \in 1..n : u[SlotAt(f, i)] = t[SlotAt(f, i)]
  BY <1>2, <1>4
<1> DEFINE s == From(t, f, n)
<1>7. s \in Seq(T) /\ Len(s) = n /\ \A i \in 1..n : s[i] = t[SlotAt(f, i)]
  <2>1. \A i \in 1..n : t[SlotAt(f, i)] \in T
    BY <1>2, <1>4
  <2>2. s \in [1..n -> T]
    BY <2>1 DEF From
  <2> QED
    BY <1>1, <2>2 DEF From
<1> HIDE DEF s
<1>8. /\ Append(s, e) \in [1..(n + 1) -> T]
      /\ Append(s, e)[n + 1] = e
      /\ \A i \in 1..n : Append(s, e)[i] = s[i]
  <2>1. Append(s, e) \in Seq(T) /\ Len(Append(s, e)) = n + 1
    BY <1>1, <1>7
  <2>2. Append(s, e) \in [1..(n + 1) -> T]
    BY <2>1, LenProperties
  <2> QED
    BY <1>1, <1>7, <2>2
<1>9. ASSUME NEW i \in 1..(n + 1)
      PROVE  u[SlotAt(f, i)] = Append(s, e)[i]
  <2>1. CASE i = n + 1
    BY <1>5, <1>8, <2>1
  <2>2. CASE i # n + 1
    <3>1. i \in 1..n
      BY <1>1, <2>2
    <3> QED
      BY <1>6, <1>7, <1>8, <3>1
  <2> QED
    BY <2>1, <2>2
<1>10. From(u, f, n + 1) = Append(s, e)
  BY <1>8, <1>9 DEF From
<1> QED
  BY <1>10 DEF s, Behind

\* Moving the front on by one leaves the rest of the sequence.
LEMMA FromTail ==
  ASSUME NEW T, NEW t, NEW f \in Slot, NEW n \in 1..QueueSize,
         \A i \in 1..n : t[SlotAt(f, i)] \in T
  PROVE  WithoutFirst(t, f, n)
<1>1. QueueSize \in Nat /\ n \in Nat /\ n - 1 \in Nat /\ f \in Nat /\ 1 \in 1..n
  BY PoolAssumption DEF Slot
<1>2. SlotAt(f, 1) = f
  BY <1>1 DEF SlotAt, Slot
<1>3. \A i \in 1..(n - 1) : i + 1 \in 1..n /\ SlotAt(Succ(f), i) = SlotAt(f, i + 1)
  BY <1>1 DEF SlotAt, Succ, Slot
<1> DEFINE s == From(t, f, n)
<1>4. s \in Seq(T) /\ Len(s) = n /\ \A i \in 1..n : s[i] = t[SlotAt(f, i)]
  <2>1. s \in [1..n -> T]
    BY DEF From
  <2> QED
    BY <1>1, <2>1 DEF From
<1> HIDE DEF s
<1>5. s # <<>> /\ Head(s) = s[1]
  BY <1>1, <1>4
<1>6. /\ Tail(s) \in [1..(n - 1) -> T]
      /\ \A i \in 1..(n - 1) : Tail(s)[i] = s[i + 1]
  <2>1. Tail(s) \in Seq(T) /\ Len(Tail(s)) = n - 1
    BY <1>1, <1>4
  <2>2. Tail(s) \in [1..(n - 1) -> T]
    BY <2>1, LenProperties
  <2> QED
    BY <1>1, <1>4, <2>2
<1>7. \A i \in 1..(n - 1) : s[i + 1] = t[SlotAt(Succ(f), i)]
  BY <1>3, <1>4
<1>8. Tail(s) = From(t, Succ(f), n - 1)
  BY <1>6, <1>7 DEF From
<1> QED
  BY <1>1, <1>2, <1>4, <1>5, <1>8 DEF s, WithoutFirst

-----------------------------------------------------------------------------

LEMMA InitFresh == Init => Fresh
BY PoolAssumption
DEF Init, Fresh, RingIssued, HeldIssued, RanIssued, EmptyHanded, InUse, Slot

\* What was put in stays put in, whoever moves.
LEMMA IssuedStays ==
  ASSUME Inv, NEW t \in Task, Issued(t),
         \/ UNCHANGED <<at, next>>
         \/ \E s \in Submitter : submit(s)
  PROVE  Issued(t)'
<1>1. CASE UNCHANGED <<at, next>>
  BY <1>1 DEF Issued
<1>2. ASSUME NEW s \in Submitter, submit(s)
      PROVE  Issued(t)'
  <2>1. /\ t[1] \in Submitter /\ t[2] \in Int
        /\ next[t[1]] \in Int /\ at \in [Submitter -> {"idle", "wait", "put", "post"}]
        /\ next \in [Submitter -> 1..(MaxTasks + 1)]
    BY PoolAssumption DEF Task, Inv, TypeOK
  <2>2. CASE PostOccupied(s)
    <3>1. at' = [at EXCEPT ![s] = "idle"] /\ next' = [next EXCEPT ![s] = @ + 1]
      BY <2>2 DEF PostOccupied
    <3>2. CASE t[1] = s
      <4>1. next'[t[1]] = next[t[1]] + 1
        BY <2>1, <3>1, <3>2
      <4> QED
        BY <2>1, <4>1 DEF Issued
    <3>3. CASE t[1] # s
      <4>1. next'[t[1]] = next[t[1]] /\ at'[t[1]] = at[t[1]]
        BY <2>1, <3>1, <3>3
      <4> QED
        BY <4>1 DEF Issued
    <3> QED
      BY <3>2, <3>3
  <2>3. CASE Check(s) \/ WaitVacancy(s) \/ Put(s)
    <3>1. next' = next /\ (at[t[1]] = "post" => at'[t[1]] = "post")
      BY <2>1, <2>3 DEF Check, WaitVacancy, Put
    <3> QED
      BY <3>1 DEF Issued
  <2> QED
    BY <1>2, <2>2, <2>3 DEF submit
<1> QED
  BY <1>1, <1>2

\* The task a submitter is about to put in was not put in before.
LEMMA NotIssued ==
  ASSUME Inv, NEW s \in Submitter, at[s] = "put"
  PROVE  <<s, next[s]>> \in Task /\ ~Issued(<<s, next[s]>>)
BY PoolAssumption DEF Inv, TypeOK, Counted, Task, Issued

\* Put fills a free slot of the ring: the one behind its last task.
LEMMA PutSlot ==
  ASSUME Inv, NEW s \in Submitter, Put(s)
  PROVE  /\ Count < QueueSize
         /\ Count' = Count + 1
         /\ SlotAt(front, Count + 1) = rear
         /\ \A i \in Slot : InUse(i)' => i = rear \/ InUse(i)
<1>1. at[s] = "put" /\ front' = front /\ rear' = Succ(rear)
  BY DEF Put
<1>2. Count \in 0..QueueSize /\ QueueSize \in Nat \ {0} /\ front \in Slot /\ rear \in Slot
  BY CountType, PoolAssumption DEF Inv, TypeOK
<1>3. Number(at, Submitter, "put") >= 1
  <2>1. IsFiniteSet({y \in Submitter : at[y] = "put"}) /\ {y \in Submitter : at[y] = "put"} # {}
    BY <1>1, PoolAssumption, FS_Subset
  <2> QED
    BY <2>1, FS_EmptySet, FS_CardinalityType DEF Number
<1>4. Count < QueueSize
  BY <1>2, <1>3, NumberType DEF Inv, TypeOK, SlotsBalance
<1>5. Count' = Count + 1 /\ SlotAt(front, Count + 1) = rear
  BY <1>1, <1>2, <1>4 DEF Slot, Count, Succ, SlotAt
<1>6. \A i \in Slot : InUse(i)' => i = rear \/ InUse(i)
  BY <1>1, <1>2, <1>4 DEF Slot, InUse, Succ, Count
<1> QED
  BY <1>4, <1>5, <1>6

\* Take finds a task at the front.
LEMMA TakeSlot ==
  ASSUME Inv, NEW w \in Worker, Take(w)
  PROVE  /\ Count > 0
         /\ Count' = Count - 1
         /\ InUse(front)
         /\ \A i \in Slot : InUse(i)' => InUse(i)
<1>1. place[w] = "take" /\ front' = Succ(front) /\ rear' = rear
  BY DEF Take
<1>2. Count \in 0..QueueSize /\ QueueSize \in Nat \ {0} /\ front \in Slot /\ rear \in Slot
  BY CountType, PoolAssumption DEF Inv, TypeOK
<1>3. Number(place, Worker, "take") >= 1
  <2>1. IsFiniteSet({y \in Worker : place[y] = "take"}) /\ {y \in Worker : place[y] = "take"} # {}
    BY <1>1, PoolAssumption, FS_Subset
  <2> QED
    BY <2>1, FS_EmptySet, FS_CardinalityType DEF Number
<1>4. Count > 0
  BY <1>2, <1>3, NumberType DEF Inv, TypeOK, TasksBalance
<1>5. Count' = Count - 1
  BY <1>1, <1>2, <1>4 DEF Slot, Count, Succ
<1>6. InUse(front) /\ \A i \in Slot : InUse(i)' => InUse(i)
  BY <1>1, <1>2, <1>4 DEF Slot, InUse, Succ, Count
<1> QED
  BY <1>4, <1>5, <1>6

LEMMA NextFresh ==
  ASSUME Inv, Fresh, [Next]_vars
  PROVE  Fresh'
<1>1. ASSUME NEW s \in Submitter, submit(s)
      PROVE  Fresh'
  <2>1. UNCHANGED <<front, place, held, ran>>
    BY <1>1 DEF submit, Check, WaitVacancy, Put, PostOccupied, queueVars
  <2>2. ASSUME NEW t \in Task, Issued(t)
        PROVE  Issued(t)'
    BY <1>1, <2>2, IssuedStays
  <2>3. HeldIssued' /\ RanIssued' /\ EmptyHanded'
    BY <2>1, <2>2 DEF Inv, TypeOK, Fresh, HeldIssued, RanIssued, EmptyHanded
  <2>4. RingIssued'
    <3>1. CASE Put(s)
      <4> SUFFICES ASSUME NEW i \in Slot, InUse(i)'
                   PROVE  Issued(tasks[i])'
        BY DEF RingIssued
      <4>1. tasks' = [tasks EXCEPT ![rear] = <<s, next[s]>>]
        BY <3>1 DEF Put
      <4>2. CASE i = rear
        <5>1. tasks'[i] = <<s, next[s]>> /\ next' = next /\ at'[s] = "post"
          BY <3>1, <4>1, <4>2 DEF Put, Inv, TypeOK
        <5> QED
          BY <5>1 DEF Issued
      <4>3. CASE i # rear
        <5>1. InUse(i) /\ tasks'[i] = tasks[i]
          BY <3>1, <4>1, <4>3, PutSlot DEF Inv, TypeOK
        <5>2. PICK t \in Task : t = tasks[i] /\ Issued(t)
          BY <5>1 DEF Inv, Filled, Fresh, RingIssued
        <5>3. Issued(t)'
          BY <2>2, <5>2
        <5> QED
          BY <5>1, <5>2, <5>3 DEF Issued
      <4> QED
        BY <4>2, <4>3
    <3>2. CASE Check(s) \/ WaitVacancy(s) \/ PostOccupied(s)
      <4>1. UNCHANGED <<tasks, front, rear>>
        BY <3>2 DEF Check, WaitVacancy, PostOccupied, queueVars
      <4> QED
        BY <2>2, <4>1 DEF Inv, Filled, Fresh, RingIssued, InUse
    <3> QED
      BY <1>1, <3>1, <3>2 DEF submit
  <2> QED
    BY <2>3, <2>4 DEF Fresh
<1>2. ASSUME NEW w \in Worker, worker(w) \/ Cancel(w)
      PROVE  Fresh'
  <2>1. UNCHANGED <<tasks, rear, at, next>>
    BY <1>2 DEF worker, WaitOccupied, Take, PostVacancy, execute, Cancel, queueVars
  <2>2. \A t : Issued(t)' = Issued(t)
    BY <2>1 DEF Issued
  <2>3. CASE Take(w)
    <3>1. /\ held' = [held EXCEPT ![w] = tasks[front]]
          /\ place' = [place EXCEPT ![w] = "post"]
          /\ ran' = ran
      BY <2>3 DEF Take
    <3>2. Issued(tasks[front])
      BY <2>3, TakeSlot DEF Inv, TypeOK, Fresh, RingIssued
    <3>3. RingIssued'
      BY <2>1, <2>2, <2>3, TakeSlot DEF Fresh, RingIssued
    <3>4. HeldIssued'
      BY <2>2, <3>1, <3>2 DEF Inv, TypeOK, Fresh, HeldIssued
    <3>5. RanIssued' /\ EmptyHanded'
      BY <2>2, <3>1 DEF Inv, TypeOK, Fresh, RanIssued, EmptyHanded
    <3> QED
      BY <3>3, <3>4, <3>5 DEF Fresh
  <2>4. CASE WaitOccupied(w) \/ PostVacancy(w) \/ Cancel(w)
    <3>1. /\ UNCHANGED <<front, held, ran>>
          /\ \/ place' = [place EXCEPT ![w] = "take"] /\ place[w] = "wait"
             \/ place' = [place EXCEPT ![w] = "run"]
             \/ place' = [place EXCEPT ![w] = "cancelled"]
      BY <2>4 DEF WaitOccupied, PostVacancy, Cancel, queueVars
    <3>2. RingIssued' /\ HeldIssued' /\ RanIssued'
      BY <2>1, <2>2, <3>1 DEF Fresh, RingIssued, HeldIssued, RanIssued, InUse
    <3>3. EmptyHanded'
      BY <3>1 DEF Inv, TypeOK, Fresh, EmptyHanded
    <3> QED
      BY <3>2, <3>3 DEF Fresh
  <2>5. CASE execute(w)
    <3>1. /\ held' = [held EXCEPT ![w] = Nil]
          /\ place' = [place EXCEPT ![w] = "wait"] /\ place[w] = "run"
          /\ ran' = ran \cup {held[w]} /\ front' = front
      BY <2>5 DEF execute, queueVars
    <3>2. held[w] # Nil
      BY <3>1, PoolAssumption DEF Inv, Carried, Task
    <3>3. RingIssued' /\ HeldIssued' /\ EmptyHanded'
      BY <2>1, <2>2, <3>1
      DEF Inv, TypeOK, Fresh, RingIssued, HeldIssued, EmptyHanded, InUse
    <3>4. RanIssued'
      BY <2>2, <3>1, <3>2 DEF Fresh, RanIssued, HeldIssued
    <3> QED
      BY <3>3, <3>4 DEF Fresh
  <2> QED
    BY <1>2, <2>3, <2>4, <2>5 DEF worker
<1>3. ASSUME Shutdown \/ UNCHANGED vars
      PROVE  Fresh'
  <2>1. UNCHANGED <<tasks, front, rear, at, next, place, held, ran>>
    BY <1>3 DEF Shutdown, vars, queueVars
  <2> QED
    BY <2>1 DEF Fresh, RingIssued, HeldIssued, RanIssued, EmptyHanded, Issued, InUse
<1> QED
  BY <1>1, <1>2, <1>3 DEF Next

-----------------------------------------------------------------------------

LEMMA WaitingFrom ==
  ASSUME Inv
  PROVE  /\ Waiting = From(tasks, front, Count)
         /\ \A i \in 1..Count : SlotAt(front, i) \in Slot /\ InUse(SlotAt(front, i))
         /\ Waiting \in Seq(Task) /\ Len(Waiting) = Count
         /\ \A i \in 1..Count : Waiting[i] = tasks[SlotAt(front, i)]
<1>1. Count \in 0..QueueSize /\ QueueSize \in Nat /\ front \in Slot /\ rear \in Slot
  BY CountType, PoolAssumption DEF Inv, TypeOK
<1>2. Waiting = From(tasks, front, Count)
  <2>1. Waiting = Ring(tasks, front, Count)
    BY DEF Waiting, Ring
  <2> QED
    BY <1>1, <2>1, FromModulus
<1>3. ASSUME NEW i \in 1..Count
      PROVE  SlotAt(front, i) \in Slot /\ InUse(SlotAt(front, i))
  <2>1. i \in 1..QueueSize
    BY <1>1
  <2>2. SlotAt(front, i) \in Slot
    BY <1>1, <2>1, SlotAtModulus
  <2>3. InUse(SlotAt(front, i))
    BY <1>1 DEF Slot, SlotAt, InUse, Count
  <2> QED
    BY <2>2, <2>3
<1>4. \A i \in 1..Count : tasks[SlotAt(front, i)] \in Task
  BY <1>3 DEF Inv, Filled
<1>5. From(tasks, front, Count) \in [1..Count -> Task]
  BY <1>4 DEF From
<1>6. Waiting \in Seq(Task) /\ Len(Waiting) = Count
  BY <1>1, <1>2, <1>5
<1>7. \A i \in 1..Count : Waiting[i] = tasks[SlotAt(front, i)]
  BY <1>2 DEF From
<1> QED
  BY <1>2, <1>3, <1>6, <1>7

LEMMA InitRefines == Init => Q!Init
<1> SUFFICES ASSUME Init
             PROVE  Q!Init
  OBVIOUS
<1>1. Inv
  BY InitInv
<1>2. Count = 0
  BY PoolAssumption DEF Init, Count
<1>3. Waiting = <<>>
  BY <1>1, <1>2, WaitingFrom
<1> QED
  BY <1>3 DEF Init, Q!Init

\* A Put accepts its task.
LEMMA PutRefines ==
  ASSUME Inv, Inv', Fresh, NEW s \in Submitter, Put(s)
  PROVE  Q!Next
<1> DEFINE t == <<s, next[s]>>
<1>1. at[s] = "put" /\ tasks' = [tasks EXCEPT ![rear] = t] /\ front' = front
  BY DEF Put
<1>2. t \in Task /\ ~Issued(t)
  BY <1>1, NotIssued
<1> HIDE DEF t
<1>3. /\ Count < QueueSize /\ Count' = Count + 1 /\ SlotAt(front, Count + 1) = rear
      /\ Count \in 0..QueueSize /\ QueueSize \in Nat /\ Count \in Nat
  BY PutSlot, CountType, PoolAssumption DEF Inv
<1>4. Waiting' = From(tasks', front, Count + 1)
  <2>1. front \in Slot /\ Count + 1 \in 0..QueueSize
    BY <1>3 DEF Inv, TypeOK
  <2>2. Waiting' = Ring(tasks', front, Count + 1)
    BY <1>1, <1>3 DEF Waiting, Ring
  <2> QED
    BY <2>1, <2>2, FromModulus
<1>5. From(tasks', front, Count + 1) = Append(From(tasks, front, Count), t)
  <2>1. tasks \in [Slot -> Task \cup {Nil}] /\ front \in Slot /\ t \in Task \cup {Nil}
    BY <1>2 DEF Inv, TypeOK
  <2>2. Count \in 0..(QueueSize - 1)
    BY <1>3
  <2>3. tasks' = [tasks EXCEPT ![SlotAt(front, Count + 1)] = t]
    BY <1>1, <1>3
  <2>4. Behind(tasks, tasks', front, Count, t)
    BY <2>1, <2>2, <2>3, FromAppend
  <2> QED
    BY <2>4 DEF Behind
<1>6. Waiting' = Append(Waiting, t)
  BY <1>4, <1>5, WaitingFrom
<1>7. Len(Waiting) < QueueSize
  BY <1>3, WaitingFrom
<1>8. t \notin ran /\ \A w \in Worker : held[w] # t
  BY <1>2, PoolAssumption DEF Fresh, RanIssued, HeldIssued, Task
<1>9. \A i \in 1..Len(Waiting) : Waiting[i] # t
  BY <1>2, WaitingFrom DEF Fresh, RingIssued
<1>10. UNCHANGED <<held, ran>>
  BY DEF Put
<1>11. Q!Accept(t)
  BY <1>6, <1>7, <1>8, <1>9, <1>10 DEF Q!Accept
<1> QED
  BY <1>2, <1>11 DEF Q!Next

\* A Take starts the task that waited longest.
LEMMA TakeRefines ==
  ASSUME Inv, Inv', Fresh, NEW w \in Worker, Take(w)
  PROVE  Q!Next
<1>1. /\ place[w] = "take" /\ held' = [held EXCEPT ![w] = tasks[front]]
      /\ UNCHANGED <<tasks, ran>> /\ front' = Succ(front)
  BY DEF Take
<1>2. /\ Count > 0 /\ Count' = Count - 1 /\ Count \in 1..QueueSize
      /\ front \in Slot
  BY TakeSlot, CountType, PoolAssumption DEF Inv, TypeOK
<1>3. Waiting' = From(tasks, Succ(front), Count - 1)
  <2>1. Succ(front) \in Slot /\ Count - 1 \in 0..QueueSize
    BY <1>2, PoolAssumption DEF Slot, Succ
  <2>2. Waiting' = Ring(tasks, Succ(front), Count - 1)
    BY <1>1, <1>2 DEF Waiting, Ring
  <2> QED
    BY <2>1, <2>2, FromModulus
<1>4. \A i \in 1..Count : tasks[SlotAt(front, i)] \in Task
  BY WaitingFrom DEF Inv, Filled
<1>5. /\ From(tasks, front, Count) # <<>>
      /\ Head(From(tasks, front, Count)) = tasks[front]
      /\ Tail(From(tasks, front, Count)) = From(tasks, Succ(front), Count - 1)
  <2>1. WithoutFirst(tasks, front, Count)
    BY <1>2, <1>4, FromTail
  <2> QED
    BY <2>1 DEF WithoutFirst
<1>6. Waiting # <<>> /\ Head(Waiting) = tasks[front] /\ Waiting' = Tail(Waiting)
  BY <1>3, <1>5, WaitingFrom
<1>7. held[w] = Nil
  BY <1>1 DEF Fresh, EmptyHanded
<1>8. Q!Start(w)
  BY <1>1, <1>6, <1>7 DEF Q!Start
<1> QED
  BY <1>8 DEF Q!Next

LEMMA NextRefines ==
  ASSUME Inv, Inv', Fresh, [Next]_vars
  PROVE  [Q!Next]_(Q!vars)
<1>1. ASSUME UNCHANGED <<tasks, front, rear>>
      PROVE  Waiting' = Waiting
  BY <1>1 DEF Waiting, Count
<1>2. ASSUME NEW s \in Submitter, submit(s)
      PROVE  [Q!Next]_(Q!vars)
  <2>1. CASE Put(s)
    BY <2>1, PutRefines
  <2>2. CASE Check(s) \/ WaitVacancy(s) \/ PostOccupied(s)
    BY <1>1, <2>2 DEF Check, WaitVacancy, PostOccupied, queueVars, Q!vars
  <2> QED
    BY <1>2, <2>1, <2>2 DEF submit
<1>3. ASSUME NEW w \in Worker, worker(w) \/ Cancel(w)
      PROVE  [Q!Next]_(Q!vars)
  <2>1. CASE Take(w)
    BY <2>1, TakeRefines
  <2>2. CASE WaitOccupied(w) \/ PostVacancy(w) \/ Cancel(w)
    BY <1>1, <2>2 DEF WaitOccupied, PostVacancy, Cancel, queueVars, Q!vars
  <2>3. CASE execute(w)
    <3>1. held[w] # Nil
      BY <2>3, PoolAssumption DEF execute, Inv, Carried, Task
    <3>2. Q!Finish(w)
      BY <1>1, <2>3, <3>1 DEF execute, queueVars, Q!Finish
    <3> QED
      BY <3>2 DEF Q!Next
  <2> QED
    BY <1>3, <2>1, <2>2, <2>3 DEF worker
<1>4. ASSUME Shutdown \/ UNCHANGED vars
      PROVE  [Q!Next]_(Q!vars)
  BY <1>1, <1>4 DEF Shutdown, vars, queueVars, Q!vars
<1> QED
  BY <1>2, <1>3, <1>4 DEF Next

\* The ring behind the two semaphores is a bounded first-in first-out queue: each
\* task that enqueue() writes goes to one worker, once, in the order of arrival,
\* though a worker may take it before its submitter has posted the semaphore.
THEOREM PoolImplementsTaskQueue == Spec => ImplementsTaskQueue
<1>1. Init => Inv /\ Fresh
  BY InitInv, InitFresh
<1>2. Inv /\ Fresh /\ [Next]_vars => (Inv /\ Fresh)'
  BY NextInv, NextFresh
<1>3. Inv /\ Fresh /\ Inv' /\ [Next]_vars => [Q!Next]_(Q!vars)
  BY NextRefines
<1> QED
  BY <1>1, <1>2, <1>3, InitRefines, PTL DEF Spec, Q!Spec, ImplementsTaskQueue

=============================================================================
