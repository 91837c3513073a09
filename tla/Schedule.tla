------------------------------ MODULE Schedule ------------------------------
(***************************************************************************)
(* The five schedulers of Operating System, Project 4 (schedule_fcfs.c,    *)
(* schedule_sjf.c, schedule_priority.c, schedule_rr.c and                  *)
(* schedule_priority_rr.c) over list.c and CPU.c.  A step is one round of  *)
(* the loop in schedule(): one task is looked at, and may run.             *)
(***************************************************************************)
EXTENDS Integers, SequencesExt

CONSTANTS Count,        \* bound: task_count
          MaxBurst,     \* bound: units of time that a task needs
          Quantum,      \* TIME_QUANTUM
          MaxPriority,  \* MAX_PRIORITY, with MIN_PRIORITY 1
          Nil

ASSUME ScheduleAssumption ==
  /\ Count \in Nat /\ MaxBurst \in Nat
  /\ Quantum \in Nat \ {0} /\ MaxPriority \in Nat \ {0}
  /\ Nil \notin Nat

VARIABLES policy,      \* which of the five programs it is
          priority,    \* of each task, from the file
          total,       \* the burst of each task in the file
          head,        \* the list of tasks
          burst,       \* Task.burst, of which round robin takes its slices
          task,        \* the task that round robin looks at next
          level,       \* the variable priority of schedule_priority_rr.c
          exist,       \* its variable exist
          time,        \* CPU.c: the time, and the statistics of each task
          turnaround,
          response,
          ran,         \* history: units that each task has had
          turns        \* history: how often it was run

input == <<policy, priority, total>>
stats == <<time, turnaround, response, ran, turns>>
vars == <<input, head, burst, task, level, exist, stats>>

Tasks == 1..Count   \* by tid, in the order of the file
Time == 0..(Count * MaxBurst)

TypeOK ==
  /\ head \in Seq(Tasks) /\ IsInjective(head)
  /\ burst \in [Tasks -> 1..MaxBurst]
  /\ task \in Tasks \cup {Nil}
  /\ level \in 1..(MaxPriority + 1) /\ exist \in BOOLEAN
  /\ time \in Time
  /\ \A s \in {turnaround, response} : s \in [Tasks -> Time \cup {Nil}]
  /\ ran \in [Tasks -> 0..MaxBurst] /\ turns \in [Tasks -> Nat]

First(list) == IF list = <<>> THEN Nil ELSE Head(list)

\* add() for each task, and the reversal of the list at the start of schedule().
\* Names are distinct, so that delete() finds the task it is given.
Init ==
  /\ policy \in {"fcfs", "sjf", "priority", "rr", "priority_rr"}
  /\ priority \in [Tasks -> 1..MaxPriority]
  /\ total \in [Tasks -> 1..MaxBurst]
  /\ head = [t \in Tasks |-> t]
  /\ burst = total
  /\ task = First(head)
  /\ level = 1 /\ exist = FALSE
  /\ time = 0
  /\ turnaround = [t \in Tasks |-> Nil]
  /\ response = [t \in Tasks |-> Nil]
  /\ ran = [t \in Tasks |-> 0]
  /\ turns = [t \in Tasks |-> 0]

\* run()
run(t, slice) ==
  /\ response' = [response EXCEPT ![t] = IF @ = Nil THEN time ELSE @]
  /\ time' = time + slice
  /\ turnaround' = [turnaround EXCEPT ![t] = IF burst[t] = slice THEN time' ELSE @]
  /\ ran' = [ran EXCEPT ![t] = @ + slice]
  /\ turns' = [turns EXCEPT ![t] = @ + 1]

\* Mutant of Key: the shortest and the most urgent come last.
KeyReversed(t) == CASE policy = "fcfs" -> 0
                    [] policy = "sjf" -> - burst[t]
                    [] policy = "priority" -> - priority[t]

\* What the three programs that run a task to its end compare.
Key(t) == CASE policy = "fcfs" -> 0
            [] policy = "sjf" -> burst[t]
            [] policy = "priority" -> priority[t]

\* schedule() of these: the first task in the list with the least key.
RunToEnd ==
  /\ policy \in {"fcfs", "sjf", "priority"}
  /\ \E i \in DOMAIN head :
       /\ \A j \in DOMAIN head : Key(head[i]) < Key(head[j]) + (IF i <= j THEN 1 ELSE 0)
       /\ run(head[i], burst[head[i]])
       /\ head' = RemoveFirst(head, head[i])
  /\ UNCHANGED <<input, burst, task, level, exist>>

\* Mutant of After: the list is looked at from its beginning after a deletion.
AfterRest(list, rest, t) ==
  LET i == SelectInSeq(rest, LAMBDA u : u = t)
  IN  IF i = 0 \/ i = Len(rest) THEN Nil ELSE rest[i + 1]

\* The task behind t, before what is left of the list is known.
After(list, rest, t) ==
  LET i == SelectInSeq(list, LAMBDA u : u = t)
  IN  IF i = Len(list) THEN Nil ELSE list[i + 1]

Slice(t) == IF burst[t] <= Quantum THEN burst[t] ELSE Quantum

\* Mutant of NextLevel: each priority has one pass.
NextLevelAlways(seen) == level + 1

\* schedule_priority_rr.c goes on to the next priority after a pass in vain.
NextLevel(seen) == IF seen THEN level ELSE level + 1

\* schedule() of the two round robins: the next task runs for a quantum or to
\* its end, if it has the priority that is looked for.
Visit ==
  /\ policy \in {"rr", "priority_rr"}
  /\ head # <<>>
  /\ level <= MaxPriority
  /\ LET due  == policy = "rr" \/ priority[task] = level
         rest == IF due /\ burst[task] <= Quantum THEN RemoveFirst(head, task) ELSE head
         next == After(head, rest, task)
         seen == exist \/ due
     IN  /\ IF due THEN run(task, Slice(task)) ELSE UNCHANGED stats
         /\ burst' = IF due /\ burst[task] > Quantum
                     THEN [burst EXCEPT ![task] = @ - Quantum] ELSE burst
         /\ head' = rest
         /\ task' = IF next = Nil THEN First(rest) ELSE next
         /\ level' = IF next = Nil THEN NextLevel(seen) ELSE level
         /\ exist' = (next # Nil /\ seen)
  /\ UNCHANGED input

Next == RunToEnd \/ Visit

Spec == Init /\ [][Next]_vars /\ WF_vars(Next)

Left == Range(head)

\* A task leaves the list when it has had exactly its burst, however that was
\* cut up, and the statistics have been taken.
ExactlyItsBurst == \A t \in Tasks :
  /\ t \in Left => ran[t] < total[t]
  /\ t \notin Left => ran[t] = total[t] /\ turnaround[t] # Nil

\* Round robin gives tasks equal numbers of turns, in the order of the list; with
\* priorities, the tasks of one priority.
FairTurns ==
  policy \in {"rr", "priority_rr"} =>
    \A i, j \in DOMAIN head :
      i < j /\ (policy = "rr" \/ priority[head[i]] = priority[head[j]]) =>
        turns[head[i]] - turns[head[j]] \in {0, 1}

\* A task runs only when no task with a higher priority (a lower number) is left.
MostUrgent(t) == \A u \in Left : priority[t] <= priority[u]
PriorityKept ==
  [][\A t \in Tasks : ran'[t] > ran[t] /\ policy \in {"priority", "priority_rr"} =>
       MostUrgent(t)]_vars

\* Each task is answered at the latest after one quantum for each task before it.
AnsweredInTurn ==
  policy = "rr" => \A t \in Tasks : response[t] # Nil => response[t] <= (t - 1) * Quantum

\* Each task gets what is due to it: its burst, no more, and its turn.
DueServed == TypeOK /\ ExactlyItsBurst /\ FairTurns /\ AnsweredInTurn

\* No order has a smaller sum of turnaround times than shortest job first.
Sum(f) ==
  LET s[n \in 0..Count] == IF n = 0 THEN 0 ELSE s[n - 1] + f[n] IN s[Count]
Orders == {order \in [Tasks -> Tasks] : IsInjective(order)}
ShortestIsBest ==
  policy = "sjf" /\ head = <<>> =>
    \A order \in Orders :
      Sum(turnaround) <= Sum([i \in Tasks |-> (Count + 1 - i) * total[order[i]]])

\* Every task comes to its end.
AllFinish == <>(head = <<>>)

=============================================================================
