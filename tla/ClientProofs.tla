---------------------------- MODULE ClientProofs ----------------------------
(***************************************************************************)
(* Theorems about the two clients that share their state between threads.  *)
(*                                                                         *)
(* ClientThreads, for any number of arriving messages: the queue serves    *)
(* wait(), although the lock is given back between the steps that find,    *)
(* take and pop a message and mState changes without it.  Only the command *)
(* line thread pops, and while it holds the lock nothing is pushed; what   *)
(* is pushed later goes behind the front; and it falls asleep only over a  *)
(* queue it has emptied under the lock.                                    *)
(*                                                                         *)
(* SocketClient, for any hosts, requests and connects: a worker never      *)
(* outlives its task, its connection or the client, and a result is        *)
(* reported once, for the task it is the result of.  Whoever joins a       *)
(* worker holds mMutex, so that what it visits is its own; a worker that   *)
(* has not answered has no result, and the monitor pops only what has one; *)
(* and a connection whose flag is down gets no worker any more.            *)
(***************************************************************************)
EXTENDS ClientThreads, SocketClient, TLAPS, SequenceTheorems, WellFoundedInduction

-----------------------------------------------------------------------------
(* ClientThreads. *)

\* Where the command line thread holds mMutex.
CTLockInv == held <=> app \in {"check", "sleep", "found", "answer"}

\* dispatch() sends each of its two requests once.
RequestInv ==
  app = "dispatch" =>
    /\ mState = "Query" => sending = 0
    /\ mState = "Get" => sending = 1

Front == mProtocols # <<>> /\ Head(mProtocols) \in {Wanted, "Error"}

\* What wait() has found stays in front while it decides what to return.
FrontInv ==
  /\ app = "found" => mState = "Idle" \/ Front
  /\ app = "answer" => Front

\* The predicate leaves nothing in a queue that has nothing for it, and what
\* comes while the command line thread sleeps is announced.
EmptyInv ==
  app = "sleep" \/ (app = "asleep" /\ receiver = "idle") => mProtocols = <<>>

CTInv == QueueServesWait /\ CTLockInv /\ RequestInv /\ FrontInv /\ EmptyInv

-----------------------------------------------------------------------------
(* Operators. *)

Less == {p \in Nat \X Nat : p[1] < p[2]}

\* The predicate stops at the first message that is of use to it.
LEMMA EarliestIsUseful ==
  ASSUME CTTypeOK, Useful # {}
  PROVE  /\ Earliest \in 1..Len(mProtocols) /\ Len(mProtocols) \in Nat
         /\ mProtocols[Earliest] \in {Wanted, "Error"}
<1>1. Len(mProtocols) \in Nat /\ DOMAIN mProtocols = 1..Len(mProtocols)
  BY LenProperties DEF CTTypeOK
<1>2. Useful \in SUBSET Nat
  BY <1>1 DEF Useful
<1>3. IsWellFoundedOn(Less, Nat)
  BY NatLessThanWellFounded DEF OpToRel, Less
<1>4. PICK i \in Useful : \A j \in Useful : ~(<<j, i>> \in Less)
  BY <1>2, <1>3, WFMin, Zenon
<1>5. ASSUME NEW j \in Useful PROVE i <= j
  <2>1. i \in Nat /\ j \in Nat
    BY <1>2
  <2>2. <<j, i>> \in Less <=> j < i
    BY <2>1 DEF Less
  <2> QED BY <1>4, <2>1, <2>2
<1>6. Earliest \in Useful
  BY <1>5 DEF Earliest
<1> QED BY <1>1, <1>6 DEF Useful

\* What the predicate leaves has that message in front.
LEMMA CheckedQueue ==
  ASSUME CTTypeOK, Useful # {}, NEW q, q = SubSeq(mProtocols, Earliest, Len(mProtocols))
  PROVE  q \in Seq(MessageType) /\ q # <<>> /\ Head(q) \in {Wanted, "Error"}
<1>1. /\ mProtocols \in Seq(MessageType) /\ Len(mProtocols) \in Nat
      /\ Earliest \in 1..Len(mProtocols) /\ mProtocols[Earliest] \in {Wanted, "Error"}
  BY EarliestIsUseful DEF CTTypeOK
<1>2. Head(q) = mProtocols[Earliest]
  BY <1>1, HeadTailOfSubSeq
<1>3. \A i \in Earliest..Len(mProtocols) : mProtocols[i] \in MessageType
  BY <1>1, ElementOfSeq
<1>4. q \in Seq(MessageType) /\ Len(q) = Len(mProtocols) - Earliest + 1
  BY <1>1, <1>3, SubSeqProperties
<1>5. Len(q) # 0
  BY <1>1, <1>4
<1>6. q # <<>>
  BY <1>5
<1> QED BY <1>1, <1>2, <1>4, <1>6

\* What arrives goes behind the front.
LEMMA PushedQueue ==
  ASSUME CTTypeOK, NEW t \in MessageType, Push(t)
  PROVE  /\ mProtocols' \in Seq(MessageType) /\ mProtocols' # <<>>
         /\ mProtocols # <<>> => Head(mProtocols') = Head(mProtocols)
BY AppendProperties, HeadTailAppend DEF CTTypeOK, Push

-----------------------------------------------------------------------------
LEMMA CTInitInv == CTInit => CTInv
<1> SUFFICES ASSUME CTInit PROVE CTInv
  OBVIOUS
<1>1. CTTypeOK
  <2>1. mProtocols \in Seq(MessageType) /\ arrivals \in 0..MaxArrivals
    BY ArrivalsAssumption, EmptySeq DEF CTInit
  <2>2. timer \in [Handle -> {"off", "counting", "expired", "stopping", "notify", "done"}]
    BY DEF CTInit
  <2>3. mHandle \in 0..2 /\ sending \in 0..2 /\ live \subseteq Handle
    BY DEF CTInit
  <2>4. held \in BOOLEAN
    BY DEF CTInit
  <2>5. /\ mState \in {"Idle", "Query", "Size", "Get", "Start", "Data", "Error"}
        /\ app \in {"dispatch", "store", "set", "lock", "check", "sleep", "asleep",
                     "found", "answer", "take", "done"}
        /\ receiver \in {"idle", "notify"}
    BY DEF CTInit
  <2> QED BY <2>1, <2>2, <2>3, <2>5, <2>4 DEF CTTypeOK
<1> QED BY <1>1 DEF CTInit, CTInv, QueueServesWait, FrontIsAnswer, NoMissedMessage, CTLockInv, RequestInv,
           FrontInv, EmptyInv

LEMMA CTTypeStep == CTInv /\ [CTNext]_CTvars => CTTypeOK'
<1> SUFFICES ASSUME CTInv, [CTNext]_CTvars PROVE CTTypeOK'
  OBVIOUS
<1> USE DEF CTInv, QueueServesWait
<1>1. mProtocols # <<>> => Tail(mProtocols) \in Seq(MessageType)
  BY HeadTailProperties DEF CTTypeOK
<1>2. CASE DispatchReturns \/ DispatchWaits \/ StoreHandle \/ SetState \/ Lock \/ Sleep \/ Found
  BY <1>2 DEF DispatchReturns, DispatchWaits, StoreHandle, SetState, Lock, Sleep, Found, CTTypeOK,
              Wanted, Handle
<1>3. CASE SendRequest
  <2>1. sending' \in Handle /\ sending' \in 0..2
    BY <1>3 DEF SendRequest, RequestInv, Handle
  <2> QED BY <1>3, <2>1 DEF SendRequest, CTTypeOK
<1>4. CASE Check
  <2>1. mProtocols' \in Seq(MessageType)
    <3>1. mProtocols' = mProtocols \/ mProtocols' = <<>>
          \/ (Useful # {} /\ mProtocols' = SubSeq(mProtocols, Earliest, Len(mProtocols)))
      BY <1>4 DEF Check
    <3>2. <<>> \in Seq(MessageType) /\ mProtocols \in Seq(MessageType)
      BY EmptySeq DEF CTTypeOK
    <3> QED BY <3>1, <3>2, CheckedQueue
  <2> QED BY <1>4, <2>1 DEF Check, CTTypeOK
<1>5. CASE Answer
  BY <1>5 DEF Answer, Cancel, CTTypeOK
<1>6. CASE Take
  BY <1>1, <1>6 DEF Take, FrontIsAnswer, After, Awaiting, Wanted, CTTypeOK
<1>7. CASE HandleError
  BY <1>1, <1>7 DEF HandleError, FrontIsAnswer, CTTypeOK
<1>8. ASSUME NEW t \in MessageType, Push(t) PROVE CTTypeOK'
  <2>1. arrivals' \in 0..MaxArrivals
    BY <1>8, ArrivalsAssumption DEF Push, CTTypeOK
  <2> QED BY <1>8, <2>1, PushedQueue DEF Push, CTTypeOK
<1>9. CASE ReceiverNotifies
  BY <1>9 DEF ReceiverNotifies, NotifyOne, CTTypeOK
<1>10. ASSUME NEW h \in Handle, onTimeout(h) PROVE CTTypeOK'
  BY <1>10 DEF onTimeout, Expire, TimeoutTerminates, TimeoutStops, TimeoutNotifies, Cancel, NotifyOne, CTTypeOK
<1>11. CASE UNCHANGED CTvars
  BY <1>11 DEF CTvars, CTTypeOK
<1> QED BY <1>2, <1>3, <1>4, <1>5, <1>6, <1>7, <1>8, <1>9, <1>10, <1>11 DEF CTNext, AppStep

LEMMA CTControlStep == CTInv /\ [CTNext]_CTvars => CTLockInv' /\ RequestInv'
<1> SUFFICES ASSUME CTInv, [CTNext]_CTvars PROVE CTLockInv' /\ RequestInv'
  OBVIOUS
<1> USE DEF CTInv, QueueServesWait, CTLockInv, RequestInv, CTTypeOK
<1>1. CASE AppStep
  BY <1>1 DEF AppStep, DispatchReturns, DispatchWaits, SendRequest, StoreHandle, SetState, Lock, Check,
              Sleep, Found, Answer, Take, HandleError, Wanted, After, Awaiting
<1>2. ASSUME NEW t \in MessageType, Push(t) PROVE CTLockInv' /\ RequestInv'
  BY <1>2 DEF Push
<1>3. CASE ReceiverNotifies
  BY <1>3 DEF ReceiverNotifies, NotifyOne
<1>4. ASSUME NEW h \in Handle, onTimeout(h) PROVE CTLockInv' /\ RequestInv'
  BY <1>4 DEF onTimeout, Expire, TimeoutTerminates, TimeoutStops, TimeoutNotifies, NotifyOne
<1>5. CASE UNCHANGED CTvars
  BY <1>5 DEF CTvars
<1> QED BY <1>1, <1>2, <1>3, <1>4, <1>5 DEF CTNext

LEMMA CTQueueStep == CTInv /\ [CTNext]_CTvars => FrontInv' /\ FrontIsAnswer' /\ EmptyInv'
<1> SUFFICES ASSUME CTInv, [CTNext]_CTvars PROVE FrontInv' /\ FrontIsAnswer' /\ EmptyInv'
  OBVIOUS
<1> USE DEF CTInv, QueueServesWait, CTLockInv, FrontInv, FrontIsAnswer, EmptyInv, Front, Wanted
<1>1. CASE AppStep /\ ~Check
  BY <1>1 DEF AppStep, DispatchReturns, DispatchWaits, SendRequest, StoreHandle, SetState, Lock,
              Sleep, Found, Answer, Take, HandleError, After, Awaiting
<1>2. CASE Check
  BY <1>2, CheckedQueue DEF Check
<1>3. ASSUME NEW t \in MessageType, Push(t) PROVE FrontInv' /\ FrontIsAnswer' /\ EmptyInv'
  BY <1>3, PushedQueue DEF Push
<1>4. CASE ReceiverNotifies
  BY <1>4 DEF ReceiverNotifies, NotifyOne
<1>5. ASSUME NEW h \in Handle, onTimeout(h) PROVE FrontInv' /\ FrontIsAnswer' /\ EmptyInv'
  BY <1>5 DEF onTimeout, Expire, TimeoutTerminates, TimeoutStops, TimeoutNotifies, NotifyOne
<1>6. CASE UNCHANGED CTvars
  BY <1>6 DEF CTvars
<1> QED BY <1>1, <1>2, <1>3, <1>4, <1>5, <1>6 DEF CTNext

LEMMA CTInductiveStep == CTInv /\ [CTNext]_CTvars => CTInv'
<1>1. EmptyInv' => NoMissedMessage'
  <2>1. mProtocols' = <<>> => Useful' = {}
    BY DEF Useful
  <2> QED BY <2>1 DEF EmptyInv, NoMissedMessage
<1> QED BY <1>1, CTTypeStep, CTControlStep, CTQueueStep DEF CTInv, QueueServesWait

-----------------------------------------------------------------------------
\* However messages and timeouts come between the steps of wait(), the message it
\* found is still in front when it is taken, and none is slept over.
THEOREM QueueServesWaitAlways == CTSpec => []QueueServesWait
<1>1. CTInv => QueueServesWait
  BY DEF CTInv
<1> QED BY <1>1, CTInitInv, CTInductiveStep, PTL DEF CTSpec

-----------------------------------------------------------------------------
(* SocketClient. *)

\* The calls of the user's thread that hold mMutex, and the steps of the
\* destructor after it has given it back.
Holding == {"disconnect", "stop", "join"}
Ending  == {"clear", "notify", "wait", "stopped"}

\* mMutex is where the two threads that take it say it is.
LockInv ==
  /\ mMutex = "user" <=> user \in Holding
  /\ mMutex = "monitor" <=> monitor \in {"next", "join", "start"}

\* What connect() finds of a host is what disconnect() leaves.
UnconnectedInv ==
  /\ \A h \in Host \ connected : tasks[h] = <<>> /\ result[h] = None /\ ~running[h]
  /\ user \in {"disconnect", "join"} => ~running[visited]

\* A worker that has not answered has no result yet, and a connection whose
\* worker has been joined gets a new one only without a result.
AnswerInv ==
  /\ \A h \in Host :
       /\ worker[h] \in {"start", "receive", "write"} => result[h] = None
       /\ worker[h] = "none" /\ running[h] => result[h] = None
       /\ result[h] # None => tasks[h] # <<>>
       /\ result[h] = TRUE => file[Head(tasks[h])] # "absent"
  /\ monitor = "join" =>
       result[visited] = None /\ worker[visited] \in {"close", "notify", "done"}

\* The destructor still visits whatever has a worker or may get one.
StopInv ==
  /\ user \in {"stop", "join"} =>
       \A h \in Host :
         /\ running[h] => h \in todo
         /\ worker[h] # "none" => h \in todo \/ (user = "join" /\ h = visited)
  /\ user \in Ending => \A h \in Host : ~running[h]

\* No task is in two places of the queues.
QueueInv ==
  /\ \A h \in Host : \A k \in 1..Len(tasks[h]) : tasks[h][k] <= requests
  /\ \A i \in 1..Len(reports) : reports[i].task <= requests
  /\ \A g, h \in Host : \A k \in 1..Len(tasks[g]), l \in 1..Len(tasks[h]) :
       tasks[g][k] = tasks[h][l] => g = h /\ k = l

IInv ==
  /\ WorkersAreOwned /\ ResultsAreOwn
  /\ LockInv /\ UnconnectedInv /\ AnswerInv /\ StopInv /\ QueueInv
-----------------------------------------------------------------------------
(* Operators: what the calls do to the queue of a connection. *)

\* request() puts a task at the end: the front of a queue that has one stays.
LEMMA RequestTasks ==
  ASSUME TypeOK, NEW h \in Host, request(h)
  PROVE  /\ requests' \in Task /\ requests' = requests + 1
         /\ tasks' \in [Host -> Seq(Task)]
         /\ \A g \in Host \ {h} : tasks'[g] = tasks[g]
         /\ tasks'[h] # <<>> /\ Len(tasks'[h]) = Len(tasks[h]) + 1
         /\ tasks[h] # <<>> => Head(tasks'[h]) = Head(tasks[h])
         /\ \A k \in 1..Len(tasks[h]) : tasks'[h][k] = tasks[h][k]
         /\ tasks'[h][Len(tasks[h]) + 1] = requests'
<1>1. requests' \in Task /\ requests' = requests + 1
  BY BoundsAssumption DEF request, TypeOK, Task
<1>2. tasks[h] \in Seq(Task) /\ tasks' = [tasks EXCEPT ![h] = Append(tasks[h], requests')]
  BY DEF request, TypeOK
<1>3. tasks'[h] = Append(tasks[h], requests') /\ \A g \in Host \ {h} : tasks'[g] = tasks[g]
  BY <1>2 DEF TypeOK
<1>4. Append(tasks[h], requests') \in Seq(Task)
  BY <1>1, <1>2, AppendProperties
<1>5. tasks' \in [Host -> Seq(Task)]
  BY <1>2, <1>4 DEF TypeOK
<1> QED BY <1>1, <1>2, <1>3, <1>5, AppendProperties, HeadTailAppend

\* monitor() pops the task it reports.
LEMMA ReportTasks ==
  ASSUME TypeOK, AnswerInv, NEW h \in Host, Report(h)
  PROVE  /\ result[h] \in BOOLEAN /\ worker[h] \notin {"none", "start", "receive", "write"}
         /\ tasks[h] # <<>> /\ Head(tasks[h]) \in Task /\ Head(tasks[h]) = tasks[h][1]
         /\ tasks' \in [Host -> Seq(Task)]
         /\ \A g \in Host \ {h} : tasks'[g] = tasks[g]
         /\ Len(tasks[h]) \in Nat /\ 1 <= Len(tasks[h])
         /\ Len(tasks'[h]) = Len(tasks[h]) - 1
         /\ \A k \in 1..Len(tasks'[h]) : tasks'[h][k] = tasks[h][k + 1]
<1>1. result[h] # None /\ worker[h] # "none" /\ result[h] \in BOOLEAN
  BY DEF Report, Callback, Finished, TypeOK
<1>2. tasks[h] # <<>> /\ tasks[h] \in Seq(Task)
  BY <1>1 DEF AnswerInv, TypeOK
<1>3. tasks' = [tasks EXCEPT ![h] = Tail(tasks[h])]
  BY DEF Report
<1>4. tasks'[h] = Tail(tasks[h]) /\ \A g \in Host \ {h} : tasks'[g] = tasks[g]
  BY <1>3 DEF TypeOK
<1>5. tasks' \in [Host -> Seq(Task)]
  BY <1>2, <1>3, HeadTailProperties DEF TypeOK
<1>6. Len(tasks[h]) \in Nat /\ 1 <= Len(tasks[h]) /\ Head(tasks[h]) = tasks[h][1]
  BY <1>2, EmptySeq
<1> QED BY <1>1, <1>2, <1>4, <1>5, <1>6, HeadTailProperties DEF AnswerInv

\* ... and what it reports is added at the end.
LEMMA ReportReports ==
  ASSUME TypeOK, AnswerInv, NEW h \in Host, Report(h)
  PROVE  /\ reports' \in Seq(Result) /\ Len(reports) \in Nat
         /\ Len(reports') = Len(reports) + 1
         /\ \A i \in 1..Len(reports) : reports'[i] = reports[i]
         /\ reports'[Len(reports) + 1] = [task |-> Head(tasks[h]), ok |-> result[h]]
<1>1. [task |-> Head(tasks[h]), ok |-> result[h]] \in Result
  BY ReportTasks DEF Result
<1> QED BY <1>1, AppendProperties, LenProperties DEF Report, Callback, TypeOK

-----------------------------------------------------------------------------
(* The inductive invariant. *)

LEMMA InitInv == Init => IInv
<1> SUFFICES ASSUME Init PROVE IInv
  OBVIOUS
<1>1. visited \in Host
  BY NameAssumption DEF Init
<1>2. TypeOK
  BY <1>1, BoundsAssumption DEF Init, TypeOK, Task, Result
<1>3. LockInv /\ UnconnectedInv /\ AnswerInv /\ StopInv
  BY NameAssumption DEF Init, LockInv, UnconnectedInv, AnswerInv, StopInv, Holding, Ending
<1>4. /\ \A h \in Host : tasks[h] = <<>> /\ Len(tasks[h]) = 0
      /\ Len(reports) = 0
  BY DEF Init
<1>5. QueueInv
  BY <1>4 DEF QueueInv
<1>6. WorkersAreOwned /\ ResultsAreOwn
  BY <1>2, <1>4 DEF Init, WorkersAreOwned, WorkerHasTask, NoThreadLeft, ResultsAreOwn,
                    SuccessIsItsOwn, ReportedOnce
<1> QED BY <1>3, <1>5, <1>6 DEF IInv

LEMMA TypeStep == TypeOK /\ AnswerInv /\ WorkerHasTask /\ [Next]_vars => TypeOK'
<1> SUFFICES ASSUME TypeOK, AnswerInv, WorkerHasTask, [Next]_vars PROVE TypeOK'
  OBVIOUS
<1>1. ASSUME NEW h \in Host, connect(h) PROVE TypeOK'
  BY <1>1, BoundsAssumption DEF connect, TypeOK, monitorVars, fileVars
<1>2. ASSUME NEW h \in Host, request(h) PROVE TypeOK'
  <2>1. tasks' \in [Host -> Seq(Task)] /\ requests' \in 0..MaxRequests
    BY <1>2, RequestTasks, BoundsAssumption DEF Task
  <2> QED BY <1>2, <2>1 DEF request, notify_one, fileVars, TypeOK
<1>3. ASSUME NEW h \in Host, disconnect(h) PROVE TypeOK'
  BY <1>3 DEF disconnect, TypeOK, fileVars
<1>4. CASE Disconnected
  <2>1. tasks' \in [Host -> Seq(Task)]
    BY <1>4 DEF Disconnected, TypeOK
  <2> QED BY <1>4, <2>1 DEF Disconnected, monitorVars, fileVars, TypeOK
<1>5. CASE JoinWorker \/ Unlock \/ StopMonitor \/ NotifyMonitor \/ JoinMonitor \/ Stop
  BY <1>5 DEF JoinWorker, Unlock, StopMonitor, NotifyMonitor, JoinMonitor, Stop, notify_one,
               connectionVars, monitorVars, fileVars, TypeOK
<1>6. ASSUME NEW h \in Host, StopWorker(h) PROVE TypeOK'
  BY <1>6 DEF StopWorker, fileVars, TypeOK
<1>7. ASSUME NEW h \in Host, Report(h) PROVE TypeOK'
  BY <1>7, ReportTasks, ReportReports DEF Report, Callback, TypeOK, userVars, fileVars
<1>8. ASSUME NEW h \in Host, Pass(h) PROVE TypeOK'
  BY <1>8 DEF Pass, TypeOK, connectionVars, userVars, fileVars
<1>9. CASE TestRunning \/ Wait \/ Wake \/ Join \/ Start \/ Leave \/ SpuriousWake
  BY <1>9 DEF TestRunning, Wait, Wake, Join, Start, Leave, SpuriousWake, connectionVars,
              userVars, fileVars, TypeOK
<1>10. ASSUME NEW h \in Host, Send(h) PROVE TypeOK'
  <2>1. Head(tasks[h]) \in Task
    BY <1>10, HeadTailProperties DEF Send, Goes, TypeOK, WorkerHasTask
  <2> QED BY <1>10, <2>1 DEF Send, Goes, connectionVars, userVars, TypeOK
<1>11. ASSUME NEW h \in Host, Quit(h) \/ ReceiveFile(h) \/ Notify(h) PROVE TypeOK'
  BY <1>11 DEF Quit, ReceiveFile, Notify, Goes, notify_one, connectionVars, userVars, fileVars, TypeOK
<1>12. ASSUME NEW h \in Host, Write(h) \/ Close(h) \/ Fail(h) PROVE TypeOK'
  <2>1. file' \in [Task -> {"absent", "open", "cut", "saved"}]
    BY <1>12 DEF Write, Close, Fail, fileVars, TypeOK
  <2>2. result' \in [Host -> BOOLEAN \cup {None}]
    BY <1>12 DEF Write, Close, Fail, TypeOK
  <2>3. worker' \in [Host -> {"none", "start", "receive", "write", "close", "notify", "done"}]
    BY <1>12 DEF Write, Close, Fail, Goes, TypeOK
  <2> QED BY <1>12, <2>1, <2>2, <2>3 DEF Write, Close, Fail, Goes, connectionVars, userVars, fileVars, TypeOK
<1>13. CASE UNCHANGED vars
  BY <1>13 DEF vars, connectionVars, monitorVars, userVars, fileVars, TypeOK
<1> QED BY <1>1, <1>2, <1>3, <1>4, <1>7, <1>8, <1>9, <1>10, <1>11, <1>13,
       <1>5, <1>6, <1>12 DEF Next, User, UserReturns, MonitorSteps, Worker, Proceeds

LEMMA LockStep == TypeOK /\ LockInv /\ [Next]_vars => LockInv'
<1> SUFFICES ASSUME TypeOK, LockInv, [Next]_vars PROVE LockInv'
  OBVIOUS
<1> USE DEF LockInv, Holding, TypeOK
<1>1. CASE User
  BY <1>1 DEF User, UserReturns, Disconnected, JoinWorker, Unlock, StopMonitor, NotifyMonitor,
              JoinMonitor, StopWorker, Stop, connect, request, disconnect, notify_one, monitorVars
<1>2. CASE MonitorSteps
  BY <1>2 DEF MonitorSteps, TestRunning, Wait, Wake, Join, Start, Leave, Report, Callback, Pass, userVars
<1>3. CASE SpuriousWake
  BY <1>3 DEF SpuriousWake, userVars
<1>4. ASSUME NEW h \in Host, Worker(h) PROVE LockInv'
  BY <1>4 DEF Worker, Proceeds, Send, Quit, ReceiveFile, Write, Close, Fail, Notify, Goes, notify_one, userVars
<1>5. CASE UNCHANGED vars
  BY <1>5 DEF vars, userVars
<1> QED BY <1>1, <1>2, <1>3, <1>4, <1>5 DEF Next

LEMMA UnconnectedStep ==
  TypeOK /\ LockInv /\ UnconnectedInv /\ WorkerHasTask /\ [Next]_vars => UnconnectedInv'
<1> SUFFICES ASSUME TypeOK, LockInv, UnconnectedInv, WorkerHasTask, [Next]_vars
             PROVE  UnconnectedInv'
  OBVIOUS
<1> USE DEF UnconnectedInv, TypeOK, LockInv, Holding
<1>1. CASE Stop \/ \E h \in Host : connect(h) \/ request(h) \/ disconnect(h)
  BY <1>1 DEF Stop, connect, request, disconnect, connectionVars
<1>2. CASE JoinWorker \/ Unlock \/ StopMonitor \/ NotifyMonitor \/ JoinMonitor
  BY <1>2 DEF JoinWorker, Unlock, StopMonitor, NotifyMonitor, JoinMonitor, connectionVars, monitorVars
<1>3. ASSUME NEW h \in Host, StopWorker(h) PROVE UnconnectedInv'
  BY <1>3 DEF StopWorker
<1>4. CASE Disconnected
  BY <1>4 DEF Disconnected
<1>5. ASSUME NEW h \in Host, Report(h) PROVE UnconnectedInv'
  BY <1>5 DEF Report, Callback, Finished, userVars
<1>6. CASE TestRunning \/ Wait \/ Wake \/ Join \/ Start \/ Leave \/ SpuriousWake \/ (\E h \in Host : Pass(h))
  BY <1>6 DEF TestRunning, Wait, Wake, Join, Start, Leave, SpuriousWake, Pass, connectionVars, userVars
<1>7. ASSUME NEW h \in Host, Worker(h) PROVE UnconnectedInv'
  BY <1>7 DEF Worker, Proceeds, Send, Quit, ReceiveFile, Write, Close, Fail, Notify, Goes,
              WorkerHasTask, connectionVars, userVars
<1>8. CASE UNCHANGED vars
  BY <1>8 DEF vars, connectionVars, monitorVars, userVars
<1> QED BY <1>1, <1>5, <1>6, <1>7, <1>8, <1>2, <1>4, <1>3
        DEF Next, User, UserReturns, MonitorSteps

LEMMA StopStep ==
  TypeOK /\ LockInv /\ UnconnectedInv /\ WorkerHasTask /\ StopInv /\ NoThreadLeft /\ [Next]_vars
    => StopInv' /\ NoThreadLeft'
<1> SUFFICES ASSUME TypeOK, LockInv, UnconnectedInv, WorkerHasTask, StopInv, NoThreadLeft, [Next]_vars
             PROVE  StopInv' /\ NoThreadLeft'
  OBVIOUS
<1> USE DEF StopInv, NoThreadLeft, TypeOK, LockInv, Holding, Ending
<1>1. CASE Stop \/ \E h \in Host : connect(h) \/ request(h) \/ disconnect(h)
  BY <1>1 DEF Stop, connect, request, disconnect, connectionVars, monitorVars, UnconnectedInv,
              WorkerHasTask
<1>2. CASE UserReturns
  BY <1>2 DEF UserReturns, Disconnected, JoinWorker, Unlock, StopMonitor, NotifyMonitor,
              JoinMonitor, StopWorker, connectionVars, monitorVars
<1>3. CASE MonitorSteps \/ SpuriousWake
  BY <1>3 DEF MonitorSteps, TestRunning, Wait, Wake, Join, Start, MayStart, Leave, SpuriousWake,
              Report, Callback, Pass, connectionVars, userVars
<1>4. ASSUME NEW h \in Host, Worker(h) PROVE StopInv' /\ NoThreadLeft'
  BY <1>4 DEF Worker, Proceeds, Send, Quit, ReceiveFile, Write, Close, Fail, Notify, Goes,
              connectionVars, userVars
<1>5. CASE UNCHANGED vars
  BY <1>5 DEF vars, connectionVars, monitorVars, userVars
<1> QED BY <1>1, <1>2, <1>3, <1>4, <1>5 DEF Next, User

LEMMA TaskStep ==
  TypeOK /\ UnconnectedInv /\ AnswerInv /\ WorkerHasTask /\ [Next]_vars => WorkerHasTask'
<1> SUFFICES ASSUME TypeOK, UnconnectedInv, AnswerInv, WorkerHasTask, [Next]_vars
             PROVE  WorkerHasTask'
  OBVIOUS
<1> USE DEF WorkerHasTask
<1>1. CASE Stop \/ \E h \in Host : connect(h) \/ disconnect(h)
  BY <1>1 DEF Stop, connect, disconnect, connectionVars, fileVars
<1>2. ASSUME NEW h \in Host, request(h) PROVE WorkerHasTask'
  BY <1>2, RequestTasks DEF request, fileVars
<1>3. CASE Disconnected
  BY <1>3 DEF Disconnected, fileVars, TypeOK
<1>4. CASE UserReturns /\ ~Disconnected
  BY <1>4 DEF UserReturns, JoinWorker, Unlock, StopMonitor, NotifyMonitor, JoinMonitor,
              StopWorker, connectionVars, fileVars, TypeOK
<1>5. ASSUME NEW h \in Host, Report(h) PROVE WorkerHasTask'
  BY <1>5, ReportTasks DEF Report, Callback, fileVars
<1>6. CASE Start
  BY <1>6 DEF Start, MayStart, connectionVars, fileVars, UnconnectedInv, TypeOK
<1>7. CASE TestRunning \/ Wait \/ Wake \/ Join \/ Leave \/ SpuriousWake \/ (\E h \in Host : Pass(h))
  BY <1>7 DEF TestRunning, Wait, Wake, Join, Leave, SpuriousWake, Pass, connectionVars, fileVars, TypeOK
<1>8. ASSUME NEW h \in Host, Worker(h) PROVE WorkerHasTask'
  BY <1>8 DEF Worker, Proceeds, Send, Quit, ReceiveFile, Write, Close, Fail, Notify, Goes,
              connectionVars, fileVars, TypeOK
<1>9. CASE UNCHANGED vars
  BY <1>9 DEF vars, connectionVars, fileVars
<1> QED BY <1>1, <1>2, <1>3, <1>4, <1>5, <1>6, <1>7, <1>8, <1>9 DEF Next, User, MonitorSteps

\* A file that is there stays there.
LEMMA FileStays ==
  ASSUME TypeOK, [Next]_vars, NEW t \in Task, file[t] # "absent"
  PROVE  file'[t] # "absent"
<1>1. CASE User \/ MonitorSteps \/ SpuriousWake
  BY <1>1 DEF User, UserReturns, Disconnected, JoinWorker, Unlock, StopMonitor, NotifyMonitor,
              JoinMonitor, StopWorker, Stop, connect, request, disconnect, MonitorSteps,
              TestRunning, Wait, Wake, Join, Start, Leave, Report, Callback, Pass, SpuriousWake, fileVars
<1>2. ASSUME NEW h \in Host, Worker(h) PROVE file'[t] # "absent"
  BY <1>2 DEF Worker, Proceeds, Send, Quit, ReceiveFile, Write, Close, Fail, Notify, Goes, fileVars, TypeOK
<1>3. CASE UNCHANGED vars
  BY <1>3 DEF vars, fileVars
<1> QED BY <1>1, <1>2, <1>3 DEF Next

LEMMA AnswerStep ==
  TypeOK /\ LockInv /\ UnconnectedInv /\ AnswerInv /\ WorkerHasTask /\ [Next]_vars => AnswerInv'
<1> SUFFICES ASSUME TypeOK, LockInv, UnconnectedInv, AnswerInv, WorkerHasTask, [Next]_vars
             PROVE  AnswerInv'
  OBVIOUS
<1>1. ASSUME UNCHANGED tasks, NEW h \in Host, result[h] = TRUE
      PROVE  file'[Head(tasks'[h])] # "absent"
  <2>1. tasks[h] # <<>> /\ file[Head(tasks[h])] # "absent"
    BY <1>1, NameAssumption DEF AnswerInv
  <2>2. Head(tasks[h]) \in Task
    BY <2>1, HeadTailProperties DEF TypeOK
  <2> QED BY <1>1, <2>1, <2>2, FileStays
<1>2. CASE Stop
  BY <1>2 DEF Stop, connectionVars, fileVars, AnswerInv
<1>3. ASSUME NEW h \in Host, connect(h) PROVE AnswerInv'
  BY <1>3 DEF connect, monitorVars, fileVars, UnconnectedInv, AnswerInv, TypeOK
<1>4. ASSUME NEW h \in Host, disconnect(h) PROVE AnswerInv'
  <2>1. monitor # "join"
    BY <1>4 DEF disconnect, LockInv
  <2> QED BY <1>4, <2>1 DEF disconnect, fileVars, AnswerInv, TypeOK
<1>5. ASSUME NEW h \in Host, request(h) PROVE AnswerInv'
  <2>1. UNCHANGED <<worker, result, running, visited, file>> /\ (monitor' = "join" => monitor = "join")
    BY <1>5 DEF request, fileVars, notify_one
  <2>2. \A g \in Host : /\ tasks[g] # <<>> => tasks'[g] # <<>> /\ Head(tasks'[g]) = Head(tasks[g])
    BY <1>5, RequestTasks
  <2> QED BY <2>1, <2>2, NameAssumption DEF AnswerInv
<1>6. CASE Disconnected
  BY <1>6, NameAssumption DEF Disconnected, monitorVars, fileVars, LockInv, Holding, AnswerInv, TypeOK
<1>7. CASE JoinWorker
  <2>1. ~running[visited]
    BY <1>7 DEF JoinWorker, UnconnectedInv
  <2> QED BY <1>7, <2>1 DEF JoinWorker, connectionVars, monitorVars, fileVars, LockInv, Holding, AnswerInv, TypeOK
<1>8. CASE Unlock \/ StopMonitor \/ NotifyMonitor \/ JoinMonitor \/ \E h \in Host : StopWorker(h)
  BY <1>8 DEF Unlock, StopMonitor, NotifyMonitor, JoinMonitor, StopWorker, notify_one, connectionVars,
              monitorVars, fileVars, LockInv, Holding, AnswerInv, TypeOK
<1>9. ASSUME NEW h \in Host, Report(h) PROVE AnswerInv'
  <2>1. UNCHANGED <<worker, running, file>> /\ monitor' = "join" /\ visited' = h
        /\ result' = [result EXCEPT ![h] = None]
    BY <1>9 DEF Report, Callback, fileVars
  <2>2. worker[h] \in {"close", "notify", "done"} /\ \A g \in Host \ {h} : tasks'[g] = tasks[g]
    BY <1>9, ReportTasks DEF TypeOK
  <2> QED BY <2>1, <2>2, NameAssumption DEF AnswerInv, TypeOK
<1>10. CASE Join
  BY <1>10 DEF Join, connectionVars, fileVars, AnswerInv, TypeOK
<1>11. CASE Start
  BY <1>11 DEF Start, MayStart, connectionVars, fileVars, AnswerInv, TypeOK
<1>12. CASE TestRunning \/ Wait \/ Wake \/ Leave \/ SpuriousWake \/ (\E h \in Host : Pass(h))
  BY <1>12 DEF TestRunning, Wait, Wake, Leave, SpuriousWake, Pass, connectionVars, fileVars, AnswerInv
<1>13. ASSUME NEW h \in Host, Send(h) \/ Quit(h) \/ ReceiveFile(h) \/ Notify(h) PROVE AnswerInv'
  BY <1>13 DEF Send, Quit, ReceiveFile, Notify, Goes, notify_one, connectionVars, fileVars, AnswerInv, TypeOK
<1>14. ASSUME NEW h \in Host, Write(h) PROVE AnswerInv'
  <2>1. /\ worker[h] = "write" /\ worker' = [worker EXCEPT ![h] = "close"]
        /\ result' = [result EXCEPT ![h] = TRUE] /\ file' = [file EXCEPT ![job[h]] = "open"]
        /\ UNCHANGED <<tasks, running, monitor, visited>>
    BY <1>14 DEF Write, Goes, connectionVars
  <2>2. tasks[h] # <<>> /\ job[h] = Head(tasks[h]) /\ job[h] \in Task
    BY <2>1, HeadTailProperties DEF WorkerHasTask, TypeOK
  <2>3. file'[Head(tasks'[h])] # "absent"
    BY <2>1, <2>2 DEF TypeOK
  <2>4. ASSUME NEW g \in Host, result'[g] = TRUE PROVE file'[Head(tasks'[g])] # "absent"
    BY <1>1, <2>1, <2>3, <2>4 DEF TypeOK
  <2> QED BY <2>1, <2>2, <2>4 DEF AnswerInv, TypeOK
<1>15. ASSUME NEW h \in Host, Close(h) PROVE AnswerInv'
  <2>1. /\ worker[h] = "close" /\ worker' = [worker EXCEPT ![h] = "notify"]
        /\ UNCHANGED <<tasks, running, monitor, visited, result>>
    BY <1>15 DEF Close, Goes, connectionVars
  <2>2. ASSUME NEW g \in Host, result'[g] = TRUE PROVE file'[Head(tasks'[g])] # "absent"
    BY <1>1, <2>1, <2>2
  <2> QED BY <2>1, <2>2 DEF AnswerInv, TypeOK
<1>16. ASSUME NEW h \in Host, Fail(h) PROVE AnswerInv'
  <2>1. PICK from \in {"start", "receive", "write"} :
          worker[h] = from /\ worker' = [worker EXCEPT ![h] = "notify"]
    BY <1>16 DEF Fail, Goes
  <2>2. result' = [result EXCEPT ![h] = FALSE] /\ UNCHANGED <<tasks, running, monitor, visited, file>>
    BY <1>16 DEF Fail, Goes, connectionVars, fileVars
  <2>3. tasks[h] # <<>>
    BY <2>1 DEF WorkerHasTask
  <2> QED BY <2>1, <2>2, <2>3 DEF AnswerInv, TypeOK
<1>17. CASE UNCHANGED vars
  BY <1>17 DEF vars, connectionVars, monitorVars, fileVars, AnswerInv
<1> QED BY <1>2, <1>5, <1>6, <1>7, <1>8, <1>9, <1>10, <1>11, <1>12, <1>13, <1>14, <1>15, <1>16, <1>17,
       <1>3, <1>4
        DEF Next, User, UserReturns, MonitorSteps, Worker, Proceeds

\* The steps that neither fill nor empty a queue, nor report.
LEMMA QueuesStay ==
  ASSUME [Next]_vars, \A h \in Host : ~request(h) /\ ~Report(h), ~Disconnected
  PROVE  UNCHANGED <<tasks, requests, reports>>
<1>1. CASE User
  BY <1>1 DEF User, UserReturns, JoinWorker, Unlock, StopMonitor, NotifyMonitor, JoinMonitor,
              StopWorker, Stop, connect, disconnect, connectionVars
<1>2. CASE MonitorSteps \/ SpuriousWake
  BY <1>2 DEF MonitorSteps, TestRunning, Wait, Wake, Join, Start, Leave, Pass, SpuriousWake,
              connectionVars, userVars
<1>3. ASSUME NEW h \in Host, Worker(h) PROVE UNCHANGED <<tasks, requests, reports>>
  BY <1>3 DEF Worker, Proceeds, Send, Quit, ReceiveFile, Write, Close, Fail, Notify, Goes,
              connectionVars, userVars
<1>4. CASE UNCHANGED vars
  BY <1>4 DEF vars, connectionVars, userVars
<1> QED BY <1>1, <1>2, <1>3, <1>4 DEF Next

LEMMA QueueStep ==
  TypeOK /\ AnswerInv /\ QueueInv /\ ReportedOnce /\ [Next]_vars => QueueInv' /\ ReportedOnce'
<1> SUFFICES ASSUME TypeOK, AnswerInv, QueueInv, ReportedOnce, [Next]_vars
             PROVE  QueueInv' /\ ReportedOnce'
  OBVIOUS
<1> USE DEF QueueInv, ReportedOnce
<1>1. \A h \in Host : Len(tasks[h]) \in Nat /\ \A k \in 1..Len(tasks[h]) : tasks[h][k] \in Task
  BY LenProperties, ElementOfSeq DEF TypeOK
<1>2. Len(reports) \in Nat /\ \A i \in 1..Len(reports) : reports[i] \in Result
  BY LenProperties, ElementOfSeq DEF TypeOK
<1>3. requests \in Nat /\ Task \subseteq Nat
  BY BoundsAssumption DEF TypeOK, Task
<1>4. \A i \in 1..Len(reports) : reports[i].task \in Nat
  BY <1>2, <1>3 DEF Result
<1>5. ASSUME NEW h \in Host, request(h) PROVE QueueInv' /\ ReportedOnce'
  <2>1. UNCHANGED reports /\ requests' = requests + 1
    BY <1>5, RequestTasks DEF request
  <2>2. ASSUME NEW g \in Host, NEW k \in 1..Len(tasks'[g])
        PROVE  \/ k \in 1..Len(tasks[g]) /\ tasks'[g][k] = tasks[g][k]
               \/ g = h /\ k = Len(tasks[h]) + 1 /\ tasks'[g][k] = requests + 1
    BY <1>1, <1>5, <2>1, RequestTasks
  <2>3. \A g \in Host : \A k \in 1..Len(tasks[g]) : tasks[g][k] # requests + 1
    BY <1>1, <1>3
  <2>4. ASSUME NEW g \in Host, NEW k \in 1..Len(tasks'[g]) PROVE tasks'[g][k] <= requests'
    <3>1. CASE k \in 1..Len(tasks[g]) /\ tasks'[g][k] = tasks[g][k]
      <4>1. tasks[g][k] \in Nat /\ tasks[g][k] <= requests
        BY <1>1, <1>3, <3>1
      <4> QED BY <1>3, <2>1, <3>1, <4>1
    <3>2. CASE tasks'[g][k] = requests + 1
      BY <1>3, <2>1, <3>2
    <3> QED BY <2>2, <3>1, <3>2
  <2>5. \A i \in 1..Len(reports) : reports[i].task <= requests' /\ reports[i].task # requests + 1
    BY <1>3, <1>4, <2>1
  <2>6. ASSUME NEW f \in Host, NEW g \in Host, NEW k \in 1..Len(tasks'[f]), NEW l \in 1..Len(tasks'[g]),
               tasks'[f][k] = tasks'[g][l]
        PROVE  f = g /\ k = l
    BY <2>2, <2>3, <2>6
  <2>7. ReportedOnce'
    BY <2>1, <2>2, <2>5
  <2> QED BY <2>1, <2>4, <2>5, <2>6, <2>7
<1>6. ASSUME NEW h \in Host, Report(h) PROVE QueueInv' /\ ReportedOnce'
  <2> DEFINE n == Len(reports)
  <2>1. UNCHANGED requests /\ n \in Nat /\ Len(reports') = n + 1
    BY <1>6, ReportReports DEF Report, Callback, userVars
  <2>2. ASSUME NEW g \in Host, NEW k \in 1..Len(tasks'[g])
        PROVE  \E l \in 1..Len(tasks[g]) : /\ tasks'[g][k] = tasks[g][l]
                                          /\ l = IF g = h THEN k + 1 ELSE k
    BY <1>1, <1>6, ReportTasks
  <2>3. /\ \A i \in 1..n : reports'[i] = reports[i]
        /\ reports'[n + 1] = [task |-> Head(tasks[h]), ok |-> result[h]]
        /\ Head(tasks[h]) = tasks[h][1] /\ 1 \in 1..Len(tasks[h])
    BY <1>6, ReportReports, ReportTasks
  <2>4. reports'[n + 1].task = tasks[h][1]
    BY <2>3
  <2>5. \A g \in Host : \A k \in 1..Len(tasks'[g]) : tasks'[g][k] <= requests'
    <3> SUFFICES ASSUME NEW g \in Host, NEW k \in 1..Len(tasks'[g]) PROVE tasks'[g][k] <= requests
      BY <2>1
    <3>1. PICK l \in 1..Len(tasks[g]) : tasks'[g][k] = tasks[g][l]
      BY <2>2
    <3> QED BY <3>1
  <2>6. \A i \in 1..Len(reports') : i \in 1..n \/ i = n + 1
    BY <2>1
  <2>7. \A i \in 1..Len(reports') : reports'[i].task <= requests'
    BY <2>1, <2>3, <2>6, <2>4
  <2>8. ASSUME NEW f \in Host, NEW g \in Host, NEW k \in 1..Len(tasks'[f]), NEW l \in 1..Len(tasks'[g]),
               tasks'[f][k] = tasks'[g][l]
        PROVE  f = g /\ k = l
    <3>1. PICK p \in 1..Len(tasks[f]) : tasks'[f][k] = tasks[f][p] /\ p = IF f = h THEN k + 1 ELSE k
      BY <2>2
    <3>2. PICK q \in 1..Len(tasks[g]) : tasks'[g][l] = tasks[g][q] /\ q = IF g = h THEN l + 1 ELSE l
      BY <2>2
    <3>3. tasks[f][p] = tasks[g][q]
      BY <2>8, <3>1, <3>2
    <3>4. f = g /\ p = q
      BY <3>3
    <3>5. k \in Nat /\ l \in Nat
      BY <1>1, <1>6, ReportTasks
    <3> QED BY <3>1, <3>2, <3>4, <3>5
  <2>9. ASSUME NEW i \in 1..Len(reports'), NEW j \in 1..Len(reports'),
               reports'[i].task = reports'[j].task
        PROVE  i = j
    BY <2>3, <2>6, <2>9, <2>4
  <2>10. ASSUME NEW g \in Host, NEW i \in 1..Len(reports'), NEW k \in 1..Len(tasks'[g])
        PROVE  tasks'[g][k] # reports'[i].task
    <3>1. PICK l \in 1..Len(tasks[g]) : tasks'[g][k] = tasks[g][l] /\ l = IF g = h THEN k + 1 ELSE k
      BY <2>2
    <3>2. g = h => l # 1
      BY <3>1, <1>6, ReportTasks
    <3> QED BY <2>3, <2>6, <2>4, <3>1, <3>2
  <2> QED BY <2>5, <2>7, <2>8, <2>9, <2>10
<1>7. CASE Disconnected
  <2>1. /\ UNCHANGED <<requests, reports>>
        /\ \A g \in Host : tasks'[g] = tasks[g] \/ tasks'[g] = <<>>
    BY <1>7 DEF Disconnected, TypeOK
  <2>2. \A g \in Host : \A k \in 1..Len(tasks'[g]) : tasks'[g] = tasks[g]
    BY <2>1
  <2> QED BY <2>1, <2>2
<1>8. CASE UNCHANGED <<tasks, requests, reports>>
  BY <1>8
<1> QED BY <1>5, <1>6, <1>7, <1>8, QueuesStay

\* A success that is reported was the result of the task at the front.
LEMMA SuccessStep ==
  TypeOK /\ AnswerInv /\ SuccessIsItsOwn /\ [Next]_vars => SuccessIsItsOwn'
<1> SUFFICES ASSUME TypeOK, AnswerInv, SuccessIsItsOwn, [Next]_vars PROVE SuccessIsItsOwn'
  OBVIOUS
<1>1. Len(reports) \in Nat /\ \A i \in 1..Len(reports) : reports[i] \in Result
  BY LenProperties, ElementOfSeq DEF TypeOK
<1>2. Len(reports) \in Nat /\ \A i \in 1..Len(reports) : reports[i].task \in Task
  BY <1>1 DEF Result
<1>3. \A i \in 1..Len(reports) : reports[i].ok => file'[reports[i].task] # "absent"
  BY <1>2, FileStays DEF SuccessIsItsOwn
<1>4. ASSUME NEW h \in Host, Report(h) PROVE SuccessIsItsOwn'
  <2> DEFINE n == Len(reports)
  <2>1. result[h] => file'[Head(tasks[h])] # "absent"
    BY <1>4, ReportTasks, FileStays DEF AnswerInv
  <2>2. /\ Len(reports') = n + 1 /\ \A i \in 1..n : reports'[i] = reports[i]
        /\ reports'[n + 1] = [task |-> Head(tasks[h]), ok |-> result[h]]
    BY <1>4, ReportReports
  <2>3. \A i \in 1..Len(reports') : i \in 1..n \/ i = n + 1
    BY <1>2, <2>2
  <2>4. reports'[n + 1].ok => file'[reports'[n + 1].task] # "absent"
    BY <2>1, <2>2
  <2> QED BY <1>3, <2>2, <2>3, <2>4 DEF SuccessIsItsOwn
<1>5. CASE UNCHANGED reports
  BY <1>3, <1>5 DEF SuccessIsItsOwn
<1>6. ASSUME NEW h \in Host, request(h) PROVE UNCHANGED reports
  BY <1>6 DEF request
<1>7. Disconnected => UNCHANGED reports
  BY DEF Disconnected
<1> QED BY <1>4, <1>5, <1>6, <1>7, QueuesStay

LEMMA InductiveStep == IInv /\ [Next]_vars => IInv'
BY TypeStep, LockStep, UnconnectedStep, StopStep, TaskStep, AnswerStep, QueueStep, SuccessStep
   DEF IInv, WorkersAreOwned, ResultsAreOwn

LEMMA InvariantHolds == Spec => []IInv
BY InitInv, InductiveStep, PTL DEF Spec

-----------------------------------------------------------------------------
\* A worker outlives neither its task and connection nor the client, however
\* monitor(), disconnect() and ~Client() interleave with it.
THEOREM WorkersAreOwnedAlways == Spec => []WorkersAreOwned
<1>1. IInv => WorkersAreOwned
  BY DEF IInv
<1> QED BY <1>1, InvariantHolds, PTL

\* A task is reported once, and as a success only after its own worker()
\* opened its file and wrote to it.
THEOREM ResultsAreOwnAlways == Spec => []ResultsAreOwn
<1>1. IInv => ResultsAreOwn
  BY DEF IInv
<1> QED BY <1>1, InvariantHolds, PTL

=============================================================================
