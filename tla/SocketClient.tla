----------------------------- MODULE SocketClient -----------------------------
(***************************************************************************)
(* The client of the Socket Lab: the user's thread, one monitor thread and *)
(* one worker thread per connection that has a task.  The user's calls and *)
(* the monitor take mMutex; a worker never does: it writes the result of   *)
(* its connection and signals mCondition, on which the monitor waits with  *)
(* no predicate.                                                           *)
(*                                                                         *)
(* A task is the number of its request.  The server is what it may answer: *)
(* a file, an error, nothing, or a broken connection.  A result is read    *)
(* and written as a whole, although the code does so without a lock.       *)
(***************************************************************************)
EXTENDS Naturals, Sequences, FiniteSets

CONSTANTS Host,
          None,         \* not a result
          MaxRequests,  \* bound: calls of request()
          MaxConnects   \* bound: calls of connect()

ASSUME BoundsAssumption == MaxRequests \in Nat /\ MaxConnects \in Nat
ASSUME NameAssumption == Host # {} /\ None \notin BOOLEAN \cup Nat

VARIABLES connected,  \* the keys of mConnections
          tasks,      \* the tasks of each connection
          worker,     \* where its worker is: "none" is a thread not joinable
          result,     \* its result, or None for the empty string
          running,    \* its running flag
          monitor,    \* where the monitor is
          todo,       \* the connections the holder of mMutex still visits
          visited,    \* the connection it visits
          mMutex,     \* who holds the mutex
          mRunning,   \* the flag the monitor reads
          user,       \* where the user's thread is
          requests,   \* calls of request() so far
          connects,   \* calls of connect() so far
          job,        \* the task each worker took a reference to
          file,       \* the local file of each task
          reports     \* the calls of mOnTaskCompleted, in order

vars == <<connected, tasks, worker, result, running, monitor, todo, visited,
          mMutex, mRunning, user, requests, connects, job, file, reports>>

connectionVars == <<connected, tasks, running>>
monitorVars    == <<monitor, todo, visited>>
userVars       == <<user, requests, connects, mRunning>>
fileVars       == <<job, file>>

Task   == 1..MaxRequests
Result == [task : Task, ok : BOOLEAN]

TypeOK ==
  /\ connected \subseteq Host
  /\ tasks \in [Host -> Seq(Task)]
  /\ worker \in [Host -> {"none", "start", "receive", "write", "close",
                          "notify", "done"}]
  /\ result \in [Host -> BOOLEAN \cup {None}]
  /\ running \in [Host -> BOOLEAN]
  /\ monitor \in {"test", "lock", "asleep", "awake", "next", "join", "start",
                  "over"}
  /\ todo \subseteq Host /\ visited \in Host
  /\ mMutex \in {"free", "user", "monitor"}
  /\ mRunning \in BOOLEAN
  /\ user \in {"idle", "disconnect", "stop", "join", "clear", "notify",
               "wait", "stopped"}
  /\ requests \in 0..MaxRequests /\ connects \in 0..MaxConnects
  /\ job \in [Host -> Task \cup {None}]
  /\ file \in [Task -> {"absent", "open", "cut", "saved"}]
  /\ reports \in Seq(Result)

\* The constructor has returned: the monitor thread exists.
Init ==
  /\ connected = {}
  /\ tasks   = [h \in Host |-> <<>>]
  /\ worker  = [h \in Host |-> "none"]
  /\ result  = [h \in Host |-> None]
  /\ running = [h \in Host |-> FALSE]
  /\ monitor = "test" /\ todo = {} /\ visited = CHOOSE h \in Host : TRUE
  /\ mMutex = "free" /\ mRunning = TRUE
  /\ user = "idle" /\ requests = 0 /\ connects = 0
  /\ job  = [h \in Host |-> None]
  /\ file = [t \in Task |-> "absent"]
  /\ reports = <<>>

\* notify_one(): nobody hears it unless the monitor sleeps.
notify_one == monitor' = IF monitor = "asleep" THEN "awake" ELSE monitor

-----------------------------------------------------------------------------
(* The user's thread. *)

\* connect() of a new host; the one that fails leaves nothing behind.
connect(h) ==
  /\ user = "idle" /\ mMutex = "free"
  /\ h \notin connected
  /\ connects < MaxConnects
  /\ connects'  = connects + 1
  /\ connected' = connected \cup {h}
  /\ running'   = [running EXCEPT ![h] = TRUE]
  /\ UNCHANGED <<tasks, worker, result, monitorVars, mMutex, mRunning, user,
                 requests, fileVars, reports>>

request(h) ==
  /\ user = "idle" /\ mMutex = "free"
  /\ h \in connected
  /\ requests < MaxRequests
  /\ requests' = requests + 1
  /\ tasks' = [tasks EXCEPT ![h] = Append(@, requests')]
  /\ notify_one
  /\ UNCHANGED <<connected, worker, result, running, todo, visited, mMutex,
                 mRunning, user, connects, fileVars, reports>>

\* disconnect() takes the mutex and keeps it until the worker has ended.
disconnect(h) ==
  /\ user = "idle" /\ mMutex = "free"
  /\ h \in connected
  /\ user' = "disconnect" /\ mMutex' = "user"
  /\ visited' = h
  /\ running' = [running EXCEPT ![h] = FALSE]
  /\ UNCHANGED <<connected, tasks, worker, result, monitor, todo, mRunning,
                 requests, connects, fileVars, reports>>

\* It then erases the connection with its tasks and its result.
Disconnected ==
  /\ user = "disconnect"
  /\ worker[visited] \in {"none", "done"}
  /\ user' = "idle" /\ mMutex' = "free"
  /\ connected' = connected \ {visited}
  /\ tasks'  = [tasks EXCEPT ![visited] = <<>>]
  /\ worker' = [worker EXCEPT ![visited] = "none"]
  /\ result' = [result EXCEPT ![visited] = None]
  /\ UNCHANGED <<running, monitorVars, mRunning, requests, connects, fileVars,
                 reports>>

\* The destructor takes the mutex, ends every worker,
Stop ==
  /\ user = "idle" /\ mMutex = "free"
  /\ user' = "stop" /\ mMutex' = "user"
  /\ todo' = connected
  /\ UNCHANGED <<connectionVars, worker, result, monitor, visited, mRunning,
                 requests, connects, fileVars, reports>>

StopWorker(h) ==
  /\ user = "stop" /\ h \in todo
  /\ user' = "join" /\ visited' = h
  /\ todo' = todo \ {h}
  /\ running' = [running EXCEPT ![h] = FALSE]
  /\ UNCHANGED <<connected, tasks, worker, result, monitor, mMutex, mRunning,
                 requests, connects, fileVars, reports>>

JoinWorker ==
  /\ user = "join"
  /\ worker[visited] \in {"none", "done"}
  /\ user' = "stop"
  /\ worker' = [worker EXCEPT ![visited] = "none"]
  /\ UNCHANGED <<connectionVars, result, monitorVars, mMutex, mRunning,
                 requests, connects, fileVars, reports>>

\* lets go of the mutex,
Unlock ==
  /\ user = "stop" /\ todo = {}
  /\ user' = "clear" /\ mMutex' = "free"
  /\ UNCHANGED <<connectionVars, worker, result, monitorVars, mRunning,
                 requests, connects, fileVars, reports>>

\* and only then tells the monitor to end, signals it once and joins it.
StopMonitor ==
  /\ user = "clear"
  /\ user' = "notify" /\ mRunning' = FALSE
  /\ UNCHANGED <<connectionVars, worker, result, monitorVars, mMutex,
                 requests, connects, fileVars, reports>>

NotifyMonitor ==
  /\ user = "notify"
  /\ user' = "wait"
  /\ notify_one
  /\ UNCHANGED <<connectionVars, worker, result, todo, visited, mMutex,
                 mRunning, requests, connects, fileVars, reports>>

JoinMonitor ==
  /\ user = "wait" /\ monitor = "over"
  /\ user' = "stopped"
  /\ UNCHANGED <<connectionVars, worker, result, monitorVars, mMutex, mRunning,
                 requests, connects, fileVars, reports>>

UserReturns ==
  \/ Disconnected \/ JoinWorker \/ Unlock \/ StopMonitor \/ NotifyMonitor
  \/ JoinMonitor
  \/ \E h \in Host : StopWorker(h)

User ==
  \/ Stop \/ UserReturns
  \/ \E h \in Host : connect(h) \/ request(h) \/ disconnect(h)

-----------------------------------------------------------------------------
(* monitor(). *)

TestRunning ==
  /\ monitor = "test"
  /\ monitor' = IF mRunning THEN "lock" ELSE "over"
  /\ UNCHANGED <<connectionVars, worker, result, todo, visited, mMutex,
                 userVars, fileVars, reports>>

\* It takes the mutex and wait() gives it back: in between nobody can signal.
Wait ==
  /\ monitor = "lock" /\ mMutex = "free"
  /\ monitor' = "asleep"
  /\ UNCHANGED <<connectionVars, worker, result, todo, visited, mMutex,
                 userVars, fileVars, reports>>

\* A condition variable may wake by itself; nothing says it will.
SpuriousWake ==
  /\ monitor = "asleep"
  /\ monitor' = "awake"
  /\ UNCHANGED <<connectionVars, worker, result, todo, visited, mMutex,
                 userVars, fileVars, reports>>

Wake ==
  /\ monitor = "awake" /\ mMutex = "free"
  /\ monitor' = "next" /\ mMutex' = "monitor"
  /\ todo' = connected
  /\ UNCHANGED <<connectionVars, worker, result, visited, userVars, fileVars,
                 reports>>

\* The map is unordered: the connections are visited in any order.
Finished(h) == worker[h] # "none" /\ result[h] # None

\* The task at the front is reported,
Callback(h) ==
  /\ monitor = "next" /\ h \in todo
  /\ Finished(h)
  /\ monitor' = "join" /\ visited' = h
  /\ todo' = todo \ {h}
  /\ reports' = Append(reports, [task |-> Head(tasks[h]), ok |-> result[h]])
  /\ UNCHANGED <<connected, worker, running, mMutex, userVars, fileVars>>

\* Mutant of Report: the task stays in the queue.
ReportKeepsTask(h) ==
  Callback(h) /\ result' = [result EXCEPT ![h] = None] /\ UNCHANGED tasks

\* and it is taken off the queue with its result,
Report(h) ==
  /\ Callback(h)
  /\ tasks'  = [tasks EXCEPT ![h] = Tail(@)]
  /\ result' = [result EXCEPT ![h] = None]

Pass(h) ==
  /\ monitor = "next" /\ h \in todo
  /\ ~Finished(h)
  /\ monitor' = "start" /\ visited' = h
  /\ todo' = todo \ {h}
  /\ UNCHANGED <<connectionVars, worker, result, mMutex, userVars, fileVars,
                 reports>>

\* its worker is joined,
Join ==
  /\ monitor = "join" /\ worker[visited] = "done"
  /\ monitor' = "start"
  /\ worker' = [worker EXCEPT ![visited] = "none"]
  /\ UNCHANGED <<connectionVars, result, todo, visited, mMutex, userVars,
                 fileVars, reports>>

\* and the next task gets a worker.  (Mutant: running is ignored.)
MayStartStopped(h) == worker[h] = "none" /\ tasks[h] # <<>>
MayStart(h) == worker[h] = "none" /\ tasks[h] # <<>> /\ running[h]

Start ==
  /\ monitor = "start"
  /\ monitor' = "next"
  /\ worker' = [worker EXCEPT ![visited] =
                  IF MayStart(visited) THEN "start" ELSE @]
  /\ UNCHANGED <<connectionVars, result, todo, visited, mMutex, userVars,
                 fileVars, reports>>

Leave ==
  /\ monitor = "next" /\ todo = {}
  /\ monitor' = "test" /\ mMutex' = "free"
  /\ UNCHANGED <<connectionVars, worker, result, todo, visited, userVars,
                 fileVars, reports>>

MonitorSteps ==
  \/ TestRunning \/ Wait \/ Wake \/ Join \/ Start \/ Leave
  \/ \E h \in Host : Report(h) \/ Pass(h)

-----------------------------------------------------------------------------
(* worker(). *)

\* A worker moves, with nothing changed but its own state.
Goes(h, from, to) ==
  /\ worker[h] = from
  /\ worker' = [worker EXCEPT ![h] = to]
  /\ UNCHANGED <<connectionVars, todo, visited, mMutex, userVars, reports>>

Send(h) ==
  /\ Goes(h, "start", "receive")
  /\ job' = [job EXCEPT ![h] = Head(tasks[h])]
  /\ UNCHANGED <<result, monitor, file>>

\* The loop ends with no result once running is false.
Quit(h) ==
  /\ ~running[h]
  /\ Goes(h, "receive", "done")
  /\ UNCHANGED <<result, monitor, fileVars>>

\* An answer is taken although running may have become false since the test.
ReceiveFile(h) ==
  /\ Goes(h, "receive", "write")
  /\ UNCHANGED <<result, monitor, fileVars>>

\* The file is written and the result set while the stream is still open, and
\* whether or not the stream took it all;
Write(h) ==
  /\ Goes(h, "write", "close")
  /\ result' = [result EXCEPT ![h] = TRUE]
  /\ file'   = [file EXCEPT ![job[h]] = "open"]
  /\ UNCHANGED <<monitor, job>>

\* the end of the scope closes it, which puts the last bytes in the file, if
\* nothing has gone wrong with it: neither write() nor close() is checked.
Close(h) ==
  /\ Goes(h, "close", "notify")
  /\ \E s \in {"saved", "cut"} : file' = [file EXCEPT ![job[h]] = s]
  /\ UNCHANGED <<result, monitor, job>>

\* An Error, another type, or an exception: of send, receive or the file.
Fail(h) ==
  /\ \E from \in {"start", "receive", "write"} : Goes(h, from, "notify")
  /\ result' = [result EXCEPT ![h] = FALSE]
  /\ UNCHANGED <<monitor, fileVars>>

\* Mutants of Notify: the worker ends without a signal, or takes mMutex for it.
NotifyNobody(h) ==
  /\ Goes(h, "notify", "done")
  /\ UNCHANGED <<result, monitor, fileVars>>
NotifyLocked(h) ==
  /\ mMutex = "free"
  /\ Goes(h, "notify", "done")
  /\ notify_one
  /\ UNCHANGED <<result, fileVars>>
Notify(h) ==
  /\ Goes(h, "notify", "done")
  /\ notify_one
  /\ UNCHANGED <<result, fileVars>>

\* What a worker does with no help of the server.
Proceeds(h) ==
  Send(h) \/ Quit(h) \/ Write(h) \/ Close(h) \/ Notify(h)

Worker(h) == Proceeds(h) \/ ReceiveFile(h) \/ Fail(h)

-----------------------------------------------------------------------------
Next == User \/ MonitorSteps \/ SpuriousWake \/ \E h \in Host : Worker(h)

Spec == Init /\ [][Next]_vars

\* Threads are scheduled and calls that began go on; neither an answer, an
\* error, a call of the user nor a spurious wake is owed.
Fairness ==
  /\ WF_vars(UserReturns)
  /\ WF_vars(MonitorSteps)
  /\ \A h \in Host : WF_vars(Proceeds(h))

FairSpec == Spec /\ Fairness

-----------------------------------------------------------------------------
(* Properties. *)

\* A worker that has not answered yet works on the front of the queue of a
\* connection that exists: monitor() pops only what was answered and the calls
\* that erase a connection join its worker first (worker() reads
\* tasks.front() and keeps a reference to it with no lock).
WorkerHasTask ==
  \A h \in Host :
    /\ worker[h] # "none" => h \in connected
    /\ worker[h] \in {"start", "receive", "write"} => tasks[h] # <<>>
    /\ worker[h] \in {"receive", "write"} => job[h] = Head(tasks[h])

\* A task is reported as a success only after its own file was opened and
\* written to: the result of one task is never given for the next (monitor()).
SuccessIsItsOwn ==
  \A i \in 1..Len(reports) : reports[i].ok => file[reports[i].task] # "absent"

\* A task is reported at most once and leaves the queue when it is, however
\* its completion, new requests and a disconnect interleave (monitor()).
ReportedOnce ==
  /\ \A i, j \in 1..Len(reports) :
       reports[i].task = reports[j].task => i = j
  /\ \A h \in Host, i \in 1..Len(reports) : \A k \in 1..Len(tasks[h]) :
       tasks[h][k] # reports[i].task

\* Results stay with their tasks (worker() sets what monitor() reports and clears).
ResultsAreOwn == SuccessIsItsOwn /\ ReportedOnce

\* When the destructor returns, no thread is left: a worker started after
\* the first loop of ~Client() would be destroyed while it runs.
NoThreadLeft ==
  user \in {"clear", "notify", "wait", "stopped"}
    => \A h \in Host : worker[h] = "none"

\* A worker outlives neither its task and connection nor the client, whatever
\* monitor(), disconnect() and ~Client() do in between.
WorkersAreOwned == TypeOK /\ WorkerHasTask /\ NoThreadLeft

\* Whoever takes mMutex lets go of it, although disconnect(), ~Client() and
\* monitor() join a worker with the mutex held.
MutexIsReleased == (mMutex # "free") ~> (mMutex = "free")

\* A monitor that sleeps when a worker is about to signal, with its result
\* set, hears of it and reports the result.  (One that is busy then does not
\* hear it: it waits with no predicate.  Nothing is owed once the user
\* disconnects or stops the client.)
SleeperReports ==
  \A h \in Host :
    (monitor = "asleep" /\ worker[h] = "notify") ~> (result[h] = None \/ user # "idle")

=============================================================================
