------------------------------- MODULE Channel -------------------------------
(***************************************************************************)
(* class Channel with class Timer: the retransmission machinery under the  *)
(* file transfer, thread by thread.  Channel::sender is run for one entry  *)
(* by the thread that called send() and by the detached thread of the      *)
(* entry's timer; it holds mMutex while it looks the entry up and sends,   *)
(* and lets go of it before it calls back.  terminate() may come from any  *)
(* thread at any time.                                                     *)
(***************************************************************************)
EXTENDS Integers

CONSTANTS MaxHandles,   \* bound: calls of send()
          RetryChoice,  \* the retries callers ask for (0: Channel.h's default)
          Nil

ASSUME ChannelAssumption ==
  /\ MaxHandles \in Nat
  /\ RetryChoice \subseteq Nat
  /\ Nil \notin [tries : Nat, retries : Nat]

VARIABLES mTasks,    \* the entry of each handle, or Nil
          mHandle,   \* the next handle
          running,   \* *mRunning of each entry's timer
          left,      \* iterations the timer thread has not finished
          pc,        \* where the two threads of each entry are
          sent,      \* datagrams put on the wire for each handle
          timeouts,  \* timeout callbacks made for each handle
          asked      \* history: the retries each handle was given

vars == <<mTasks, mHandle, running, left, pc, sent, timeouts, asked>>

Handle == 1..MaxHandles
Thread == {"caller", "timer"}
Place  == {"none", "sleep", "sender", "retry", "timeout", "done"}

TypeOK ==
  /\ mTasks   \in [Handle -> [tries : Nat, retries : Nat] \cup {Nil}]
  /\ mHandle  \in 1..(MaxHandles + 1)
  /\ running  \in [Handle -> BOOLEAN]
  /\ left     \in [Handle -> Nat]
  /\ pc       \in [Handle -> [Thread -> Place]]
  /\ sent     \in [Handle -> Nat]
  /\ timeouts \in [Handle -> Nat]
  /\ asked    \in [Handle -> Nat]

Init ==
  /\ mTasks   = [h \in Handle |-> Nil]
  /\ mHandle  = 1
  /\ running  = [h \in Handle |-> FALSE]
  /\ left     = [h \in Handle |-> 0]
  /\ pc       = [h \in Handle |-> [t \in Thread |-> "none"]]
  /\ sent     = [h \in Handle |-> 0]
  /\ timeouts = [h \in Handle |-> 0]
  /\ asked    = [h \in Handle |-> 0]

-----------------------------------------------------------------------------

\* The caller goes on to its own call of sender(), the timer thread sleeps.
Launched == [t \in Thread |-> IF t = "caller" THEN "sender" ELSE "sleep"]

\* Mutant of send: the timer fires once more than it should.
SendRepeatsMore(r) ==
  /\ mHandle <= MaxHandles
  /\ mTasks' = [mTasks EXCEPT ![mHandle] = [tries |-> 0, retries |-> r]]
  /\ running' = [running EXCEPT ![mHandle] = TRUE]
  /\ left' = [left EXCEPT ![mHandle] = r + 2]
  /\ pc' = [pc EXCEPT ![mHandle] = Launched]
  /\ mHandle' = mHandle + 1
  /\ asked' = [asked EXCEPT ![mHandle] = r]
  /\ UNCHANGED <<sent, timeouts>>

\* Mutant of send: the timer fires only as often as there are retries.
SendRepeatsLess(r) ==
  /\ mHandle <= MaxHandles
  /\ mTasks' = [mTasks EXCEPT ![mHandle] = [tries |-> 0, retries |-> r]]
  /\ running' = [running EXCEPT ![mHandle] = TRUE]
  /\ left' = [left EXCEPT ![mHandle] = r]
  /\ pc' = [pc EXCEPT ![mHandle] = Launched]
  /\ mHandle' = mHandle + 1
  /\ asked' = [asked EXCEPT ![mHandle] = r]
  /\ UNCHANGED <<sent, timeouts>>

\* send(): the entry is made and its timer started in one critical section;
\* the caller goes on to its own first call of sender().
send(r) ==
  /\ mHandle <= MaxHandles
  /\ mTasks' = [mTasks EXCEPT ![mHandle] = [tries |-> 0, retries |-> r]]
  /\ running' = [running EXCEPT ![mHandle] = TRUE]
  /\ left' = [left EXCEPT ![mHandle] = r + 1]
  /\ pc' = [pc EXCEPT ![mHandle] = Launched]
  /\ mHandle' = mHandle + 1
  /\ asked' = [asked EXCEPT ![mHandle] = r]
  /\ UNCHANGED <<sent, timeouts>>

\* The timer is cancelled and the entry erased, if there is one.
terminate(h) ==
  /\ mTasks[h] # Nil
  /\ running' = [running EXCEPT ![h] = FALSE]
  /\ mTasks' = [mTasks EXCEPT ![h] = Nil]
  /\ UNCHANGED <<mHandle, left, pc, sent, timeouts, asked>>

\* The timer thread wakes up, and looks whether it was cancelled meanwhile.
Wake(h) ==
  /\ pc[h]["timer"] = "sleep"
  /\ pc' = [pc EXCEPT ![h]["timer"] = IF running[h] THEN "sender" ELSE "done"]
  /\ UNCHANGED <<mTasks, mHandle, running, left, sent, timeouts, asked>>

\* Mutant of Return: the timer's loop tests its count after the last turn.
ReturnLate(h, t) ==
  IF t = "caller"
  THEN pc' = [pc EXCEPT ![h][t] = "done"] /\ UNCHANGED left
  ELSE /\ left' = [left EXCEPT ![h] = @ - 1]
       /\ pc' = [pc EXCEPT ![h][t] = IF left[h] >= 0 /\ running[h] THEN "sleep" ELSE "done"]

\* sender() returns to its thread; a timer loops while repetitions are left.
Return(h, t) ==
  IF t = "caller"
  THEN pc' = [pc EXCEPT ![h][t] = "done"] /\ UNCHANGED left
  ELSE /\ left' = [left EXCEPT ![h] = @ - 1]
       /\ pc' = [pc EXCEPT ![h][t] = IF left[h] > 1 /\ running[h] THEN "sleep" ELSE "done"]

\* sender() finds no entry, or one sent once without retries: nothing to do.
Ignore(h, t) ==
  /\ pc[h][t] = "sender"
  /\ mTasks[h] # Nil => mTasks[h].tries > mTasks[h].retries /\ mTasks[h].retries = 0
  /\ Return(h, t)
  /\ UNCHANGED <<mTasks, mHandle, running, sent, timeouts, asked>>

\* Mutant of Transmit: tries are compared after they are counted.
TransmitAgain(h, t) ==
  /\ pc[h][t] = "sender"
  /\ mTasks[h] # Nil
  /\ mTasks[h].tries <= mTasks[h].retries + 1
  /\ sent' = [sent EXCEPT ![h] = @ + 1]
  /\ mTasks' = [mTasks EXCEPT ![h].tries = @ + 1]
  /\ IF mTasks[h].tries # 0
     THEN pc' = [pc EXCEPT ![h][t] = "retry"] /\ UNCHANGED left
     ELSE Return(h, t)
  /\ UNCHANGED <<mHandle, running, timeouts, asked>>

\* sender() puts the datagram on the wire; from the second time on it lets go
\* of the lock to call onRetry.
Transmit(h, t) ==
  /\ pc[h][t] = "sender"
  /\ mTasks[h] # Nil
  /\ mTasks[h].tries <= mTasks[h].retries
  /\ sent' = [sent EXCEPT ![h] = @ + 1]
  /\ mTasks' = [mTasks EXCEPT ![h].tries = @ + 1]
  /\ IF mTasks[h].tries # 0
     THEN pc' = [pc EXCEPT ![h][t] = "retry"] /\ UNCHANGED left
     ELSE Return(h, t)
  /\ UNCHANGED <<mHandle, running, timeouts, asked>>

\* sender() finds the tries used up, and lets go of the lock to call onTimeout;
\* the entry stays in mTasks.
Expire(h, t) ==
  /\ pc[h][t] = "sender"
  /\ mTasks[h] # Nil
  /\ mTasks[h].tries > mTasks[h].retries
  /\ mTasks[h].retries # 0
  /\ pc' = [pc EXCEPT ![h][t] = "timeout"]
  /\ UNCHANGED <<mTasks, mHandle, running, left, sent, timeouts, asked>>

\* The callback runs without the lock.
Callback(h, t) ==
  /\ pc[h][t] \in {"retry", "timeout"}
  /\ timeouts' = IF pc[h][t] = "timeout" THEN [timeouts EXCEPT ![h] = @ + 1] ELSE timeouts
  /\ Return(h, t)
  /\ UNCHANGED <<mTasks, mHandle, running, sent, asked>>

sender(h, t) == Ignore(h, t) \/ Transmit(h, t) \/ Expire(h, t) \/ Callback(h, t)

Next ==
  \/ \E r \in RetryChoice : send(r)
  \/ \E h \in Handle : terminate(h) \/ Wake(h)
  \/ \E h \in Handle, t \in Thread : sender(h, t)

Spec == Init /\ [][Next]_vars

\* The caller and the timer thread keep running; nobody need call terminate().
Fairness ==
  /\ \A h \in Handle : WF_vars(Wake(h))
  /\ \A h \in Handle, t \in Thread : WF_vars(sender(h, t))

FairSpec == Spec /\ Fairness

-----------------------------------------------------------------------------

\* Thread t is about to make the timeout callback.
Expiring(h, t) == IF pc[h][t] = "timeout" THEN 1 ELSE 0

\* The timeout callbacks made or about to be made.
Expiries(h) == timeouts[h] + Expiring(h, "caller") + Expiring(h, "timer")

\* onTimeout is called at most once for an entry, though the caller of send()
\* and the timer thread may reach the last call of sender() in either order; and
\* only for one that was given retries, all of which have been sent by then.
TimeoutOnce ==
  \A h \in Handle :
    /\ Expiries(h) <= 1
    /\ Expiries(h) = 1 => asked[h] # 0 /\ sent[h] = asked[h] + 1

\* An entry with retries that is not terminated is retransmitted until its
\* tries are used up and then reported: onTimeout is never forgotten.
Unanswered(h) == mTasks[h] # Nil /\ mTasks[h].retries # 0
Reported == \A h \in Handle : Unanswered(h) ~> (~Unanswered(h) \/ timeouts[h] = 1)

\* The threads of an entry end, so a process does not collect sleeping timers.
ThreadsEnd ==
  \A h \in Handle : h < mHandle ~> \A t \in Thread : pc[h][t] = "done"

\* Entries come to an end: the timeout is reported, and then no thread is left.
EntriesEnd == Reported /\ ThreadsEnd

-----------------------------------------------------------------------------
(* The entry is expired when sender() has decided so. *)

Expired(h) == timeouts[h] > 0 \/ \E t \in Thread : pc[h][t] = "timeout"

Status(h) ==
  IF h >= mHandle THEN "unused"
  ELSE IF Expired(h) THEN "expired"
  ELSE IF mTasks[h] = Nil THEN "cancelled" ELSE "active"

A == INSTANCE Attempts WITH
       Id <- Handle, Budgets <- {r + 1 : r \in RetryChoice},
       status <- [h \in Handle |-> Status(h)],
       budget <- [h \in Handle |-> IF h < mHandle THEN asked[h] + 1 ELSE 0],
       attempts <- sent

ImplementsAttempts == A!Spec

=============================================================================
