----------------------------- MODULE ServerSide -----------------------------
(***************************************************************************)
(* class Server: the handlers the receiver thread runs, the worker thread  *)
(* that fills the send windows, and the timer threads of the channel       *)
(* entries.  Each critical section of mMutex is one step.  A timer thread  *)
(* has released the lock of the channel before onRetry or onTimeout waits  *)
(* for mMutex, so these are steps of their own.  The worker's pass over    *)
(* mTasks, one critical section, is taken one client at a time, since what *)
(* it does for one client leaves the others' tasks alone.                  *)
(***************************************************************************)
EXTENDS Network, FiniteSetsExt

CONSTANTS SlowStart,    \* sSlowStart
          MaxWindow,    \* sMaxWindow
          MaxRefusals,  \* bound: Error replies with live retries at a time
          MaxCallbacks, \* bound: timer threads waiting for mMutex, per client
                        \* and callback
          MaxRestarts   \* bound: how often the server is stopped and started

ASSUME WindowAssumption ==
  /\ SlowStart \in Nat \ {0}
  /\ MaxWindow \in Nat
  /\ SlowStart <= MaxWindow
  /\ MaxRefusals \in Nat
  /\ MaxCallbacks \in Nat \ {0}
  /\ MaxRestarts \in Nat

VARIABLES mTasks,     \* the transfer to each client, or Nil
          mMD5Cache,  \* digests by path, kept until the server stops
          refusals,   \* channel entries of "File does not exist" replies
          callbacks,  \* timer threads between Channel::sender and a callback
          version,    \* the version of each file on disk
          restarts

serverVars == <<mTasks, mMD5Cache, refusals, callbacks, version, restarts>>

Slot == 1..MaxRefusals
Callback == {"onRetry", "onTimeout"}

\* next: the read position of task.file, in blocks; packets[b]: the tries of
\* the channel entry of block b, 0 when b is not in task.packets; checksum:
\* what the running MD5 has been updated with.
Task == [path     : File,
         next     : 0..MaxBlocks,
         packets  : [BlockId -> Tries],
         window   : 1..MaxWindow,
         checksum : Seq(Content)]

Refusal == [client : Client, path : File, tries : 1..(Retries + 1)]

ServerTypeOK ==
  /\ mTasks    \in [Client -> Task \cup {Nil}]
  /\ mMD5Cache \in [File -> Seq(Content) \cup {Nil}]
  /\ refusals  \in [Slot -> Refusal \cup {Nil}]
  /\ callbacks \in [Client -> [Callback -> Nat]]
  /\ version   \in [File -> Version]
  /\ restarts  \in 0..MaxRestarts

NewTask(f) ==
  [path |-> f, next |-> 0, packets |-> [b \in BlockId |-> 0], window |-> 1,
   checksum |-> <<>>]

ServerInit ==
  /\ mTasks    = [c \in Client |-> Nil]
  /\ mMD5Cache = [f \in File |-> Nil]
  /\ refusals  = [s \in Slot |-> Nil]
  /\ callbacks = [c \in Client |-> [k \in Callback |-> 0]]
  /\ version   = [f \in File |-> 1]
  /\ restarts  = 0

\* The keys of task.packets.
Outstanding(t) == {b \in BlockId : t.packets[b] > 0}

\* isEnd(): the whole file has been read.
AtEnd(t) == t.next = Blocks[t.path]

\* Server::terminate of one client: its entries are cancelled with its task.
Terminate(c) == mTasks' = [mTasks EXCEPT ![c] = Nil]

-----------------------------------------------------------------------------
(* The receiver thread. *)

onQuery(m) ==
  /\ m.type = "Query"
  /\ m.path \in Existing
  /\ Receive(m, {SizeMsg(m.client, m.path)})
  /\ UNCHANGED serverVars

\* The one reply that is sent with retries, though nothing answers it.
Refuse(m) ==
  /\ m.type = "Query"
  /\ m.path \notin Existing
  /\ \E s \in Slot :
       /\ refusals[s] = Nil
       /\ \A r \in 1..(s - 1) : refusals[r] # Nil
       /\ refusals' = [refusals EXCEPT ![s] =
             [client |-> m.client, path |-> m.path, tries |-> 1]]
  /\ Receive(m, {ErrorMsg(m.client, m.path)})
  /\ UNCHANGED <<mTasks, mMD5Cache, callbacks, version, restarts>>

\* A client that has a task keeps it, whatever path that is for.
onGet(m) ==
  /\ m.type = "Get"
  /\ \/ /\ m.path \notin Existing
        /\ Receive(m, {ErrorMsg(m.client, m.path)})
        /\ UNCHANGED mTasks
     \/ /\ m.path \in Existing
        /\ Receive(m, {StartMsg(m.client, m.path)})
        /\ mTasks' = IF mTasks[m.client] = Nil
                     THEN [mTasks EXCEPT ![m.client] = NewTask(m.path)]
                     ELSE mTasks
  /\ UNCHANGED <<mMD5Cache, refusals, callbacks, version, restarts>>

\* Mutant of Grown: linear growth does not stop at MaxWindow.
GrownUnclamped(w) == IF w < SlowStart THEN Min({2 * w, SlowStart}) ELSE w + 1

\* Slow start up to SlowStart, then linear growth up to MaxWindow.
Grown(w) ==
  IF w < SlowStart THEN Min({2 * w, SlowStart})
  ELSE IF w < MaxWindow THEN w + 1 ELSE w

\* Only the block number of an acknowledgement is looked at, not its path.
Awaits(m) == mTasks[m.client] # Nil /\ mTasks[m.client].packets[m.block] > 0

\* Mutant of onAcknowledge: a block's acknowledgement covers those before it.
AcknowledgeUpTo(m) ==
  /\ m.type = "Acknowledge"
  /\ mTasks' = IF Awaits(m)
               THEN [mTasks EXCEPT ![m.client].packets =
                       [b \in BlockId |-> IF b <= m.block THEN 0 ELSE @[b]],
                                   ![m.client].window = Grown(@)]
               ELSE mTasks
  /\ Receive(m, {})
  /\ UNCHANGED <<mMD5Cache, refusals, callbacks, version, restarts>>

onAcknowledge(m) ==
  /\ m.type = "Acknowledge"
  /\ mTasks' = IF Awaits(m)
               THEN [mTasks EXCEPT ![m.client].packets[m.block] = 0,
                                   ![m.client].window = Grown(@)]
               ELSE mTasks
  /\ Receive(m, {})
  /\ UNCHANGED <<mMD5Cache, refusals, callbacks, version, restarts>>

\* The digest the server compares with: the cached one, whatever file it was of.
Expected(f) ==
  IF mMD5Cache[f] # Nil THEN mMD5Cache[f] ELSE Bytes(f, version[f])

\* Mutant of onChecksum: the digest is not compared.
ConfirmAlways(m) ==
  /\ m.type = "Checksum"
  /\ Terminate(m.client)
  /\ Receive(m, {ConfirmMsg(m.client, m.path)})
  /\ UNCHANGED <<mMD5Cache, refusals, callbacks, version, restarts>>

onChecksum(m) ==
  /\ m.type = "Checksum"
  /\ Terminate(m.client)
  /\ \/ /\ mMD5Cache[m.path] = Nil
        /\ m.path \notin Existing
        /\ Receive(m, {ErrorMsg(m.client, m.path)})
        /\ UNCHANGED mMD5Cache
     \/ /\ mMD5Cache[m.path] # Nil \/ m.path \in Existing
        /\ mMD5Cache' = [mMD5Cache EXCEPT ![m.path] = Expected(m.path)]
        /\ Receive(m, {IF m.digest = Expected(m.path)
                       THEN ConfirmMsg(m.client, m.path)
                       ELSE ErrorMsg(m.client, m.path)})
  /\ UNCHANGED <<refusals, callbacks, version, restarts>>

ServerReceive(m) ==
  onQuery(m) \/ Refuse(m) \/ onGet(m) \/ onAcknowledge(m) \/ onChecksum(m)

-----------------------------------------------------------------------------
(* The worker thread. *)

\* The task after work() has read up to block k, sending each block.
Filled(t, k) ==
  [t EXCEPT !.next = k,
            !.packets = [b \in BlockId |-> IF b \in t.next..(k - 1) THEN 1 ELSE @[b]],
            !.checksum = @ \o [i \in 1..(k - t.next) |->
                                 <<t.path, version[t.path], t.next + i - 1>>]]

\* Mutant of work: only the first block of a pass minds the window.
WorkSendsAll(c) ==
  /\ mTasks[c] # Nil
  /\ LET t == mTasks[c]
         n == Cardinality(Outstanding(t))
         k == Blocks[t.path]
         u == Filled(t, k)
     IN  /\ n < t.window
         /\ Send({DataMsg(c, t.path, b, u.checksum[b + 1]) : b \in t.next..(k - 1)})
         /\ mMD5Cache' = IF AtEnd(u) /\ mMD5Cache[t.path] = Nil
                         THEN [mMD5Cache EXCEPT ![t.path] = u.checksum]
                         ELSE mMD5Cache
         /\ mTasks' = [mTasks EXCEPT ![c] =
                         IF AtEnd(u) /\ Outstanding(u) = {} THEN Nil ELSE u]
  /\ UNCHANGED <<refusals, callbacks, version, restarts>>

\* Mutant of work: the digest is recorded before the file ends.
WorkCachesEarly(c) ==
  /\ mTasks[c] # Nil
  /\ LET t == mTasks[c]
         n == Cardinality(Outstanding(t))
         k == Min({Blocks[t.path], t.next + t.window - n})
         u == Filled(t, k)
     IN  /\ n < t.window
         /\ Send({DataMsg(c, t.path, b, u.checksum[b + 1]) : b \in t.next..(k - 1)})
         /\ mMD5Cache' = IF mMD5Cache[t.path] = Nil
                         THEN [mMD5Cache EXCEPT ![t.path] = u.checksum]
                         ELSE mMD5Cache
         /\ mTasks' = [mTasks EXCEPT ![c] =
                         IF AtEnd(u) /\ Outstanding(u) = {} THEN Nil ELSE u]
  /\ UNCHANGED <<refusals, callbacks, version, restarts>>

\* Mutant of work: a later digest replaces the cached one.
WorkCachesAgain(c) ==
  /\ mTasks[c] # Nil
  /\ LET t == mTasks[c]
         n == Cardinality(Outstanding(t))
         k == Min({Blocks[t.path], t.next + t.window - n})
         u == Filled(t, k)
     IN  /\ n < t.window
         /\ Send({DataMsg(c, t.path, b, u.checksum[b + 1]) : b \in t.next..(k - 1)})
         /\ mMD5Cache' = IF AtEnd(u)
                         THEN [mMD5Cache EXCEPT ![t.path] = u.checksum]
                         ELSE mMD5Cache
         /\ mTasks' = [mTasks EXCEPT ![c] =
                         IF AtEnd(u) /\ Outstanding(u) = {} THEN Nil ELSE u]
  /\ UNCHANGED <<refusals, callbacks, version, restarts>>

\* work() sends blocks until the window is full or the file ends; at the end
\* it records the digest, and the task is complete when nothing is outstanding.
work(c) ==
  /\ mTasks[c] # Nil
  /\ LET t == mTasks[c]
         n == Cardinality(Outstanding(t))
         k == Min({Blocks[t.path], t.next + t.window - n})
         u == Filled(t, k)
     IN  /\ n < t.window
         /\ Send({DataMsg(c, t.path, b, u.checksum[b + 1]) : b \in t.next..(k - 1)})
         /\ mMD5Cache' = IF AtEnd(u) /\ mMD5Cache[t.path] = Nil
                         THEN [mMD5Cache EXCEPT ![t.path] = u.checksum]
                         ELSE mMD5Cache
         /\ mTasks' = [mTasks EXCEPT ![c] =
                         IF AtEnd(u) /\ Outstanding(u) = {} THEN Nil ELSE u]
  /\ UNCHANGED <<refusals, callbacks, version, restarts>>

-----------------------------------------------------------------------------
(* The timer threads: Channel::sender, and onRetry and onTimeout after it. *)

\* sender() unlocks and goes on to callback k for client c.
CallsBack(c, k) ==
  /\ callbacks[c][k] < MaxCallbacks
  /\ callbacks' = [callbacks EXCEPT ![c][k] = @ + 1]

\* A packet is sent once more.
DataRetry(c, b) ==
  /\ mTasks[c] # Nil
  /\ mTasks[c].packets[b] \in 1..Retries
  /\ Send({DataMsg(c, mTasks[c].path, b, mTasks[c].checksum[b + 1])})
  /\ mTasks' = [mTasks EXCEPT ![c].packets[b] = @ + 1]
  /\ CallsBack(c, "onRetry")
  /\ UNCHANGED <<mMD5Cache, refusals, version, restarts>>

\* Its retries are found spent; it may still be acknowledged.
DataExpire(c, b) ==
  /\ mTasks[c] # Nil
  /\ mTasks[c].packets[b] = Retries + 1
  /\ mTasks' = [mTasks EXCEPT ![c].packets[b] = @ + 1]
  /\ CallsBack(c, "onTimeout")
  /\ UNCHANGED <<mMD5Cache, refusals, version, restarts, net>>

RefusalRetry(s) ==
  /\ refusals[s] # Nil
  /\ refusals[s].tries <= Retries
  /\ Send({ErrorMsg(refusals[s].client, refusals[s].path)})
  /\ refusals' = [refusals EXCEPT ![s].tries = @ + 1]
  /\ CallsBack(refusals[s].client, "onRetry")
  /\ UNCHANGED <<mTasks, mMD5Cache, version, restarts>>

RefusalExpire(s) ==
  /\ refusals[s] # Nil
  /\ refusals[s].tries > Retries
  /\ refusals' = [refusals EXCEPT ![s] = Nil]
  /\ CallsBack(refusals[s].client, "onTimeout")
  /\ UNCHANGED <<mTasks, mMD5Cache, version, restarts, net>>

\* Any retransmission to c, of whatever entry, halves the window it has by now.
onRetry(c) ==
  /\ callbacks[c]["onRetry"] > 0
  /\ callbacks' = [callbacks EXCEPT ![c]["onRetry"] = @ - 1]
  /\ mTasks' = IF mTasks[c] = Nil THEN mTasks
               ELSE [mTasks EXCEPT ![c].window = Max({@ \div 2, 1})]
  /\ UNCHANGED <<mMD5Cache, refusals, version, restarts, net>>

\* Mutant of onTimeout: the task is left as it is.
TimeoutKeepsTask(c) ==
  /\ callbacks[c]["onTimeout"] > 0
  /\ callbacks' = [callbacks EXCEPT ![c]["onTimeout"] = @ - 1]
  /\ UNCHANGED <<mTasks, mMD5Cache, refusals, version, restarts, net>>

\* Whatever task the client has by now is terminated.
onTimeout(c) ==
  /\ callbacks[c]["onTimeout"] > 0
  /\ callbacks' = [callbacks EXCEPT ![c]["onTimeout"] = @ - 1]
  /\ Terminate(c)
  /\ UNCHANGED <<mMD5Cache, refusals, version, restarts, net>>

DataTimer(c, b)  == DataRetry(c, b) \/ DataExpire(c, b)
RefusalTimer(s)  == RefusalRetry(s) \/ RefusalExpire(s)
ServerCallback(c) == onRetry(c) \/ onTimeout(c)

-----------------------------------------------------------------------------
(* The command line and the file system. *)

\* server-stop destroys the server (Interface.cpp:216) and server-start makes a
\* new one: tasks, digests and channel entries are gone.  Timer threads of the
\* old one are detached and outlive it: those on their way to a callback end, or
\* find the new server where the old one was.  (The others would find the
\* entries of its channel, whose timers may fire at any time anyway.)
Restart ==
  /\ restarts < MaxRestarts
  /\ restarts' = restarts + 1
  /\ mTasks' = [c \in Client |-> Nil]
  /\ mMD5Cache' = [f \in File |-> Nil]
  /\ refusals' = [s \in Slot |-> Nil]
  /\ callbacks' \in {callbacks, [c \in Client |-> [k \in Callback |-> 0]]}
  /\ UNCHANGED <<version, net>>

\* A file is overwritten with one of the same length (not by this program).
Replace(f) ==
  /\ f \in Existing
  /\ version[f] < MaxVersion
  /\ version' = [version EXCEPT ![f] = @ + 1]
  /\ UNCHANGED <<mTasks, mMD5Cache, refusals, callbacks, restarts, net>>

=============================================================================
