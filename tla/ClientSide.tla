----------------------------- MODULE ClientSide -----------------------------
(***************************************************************************)
(* class Client: the state machine that Client::dispatch runs on the       *)
(* thread of the command line, one action per state handler, with the      *)
(* receiver thread (onReceive) and the timer threads of the channel        *)
(* (sender, onTimeout) interleaved between them.                           *)
(*                                                                         *)
(* A handler is one step, but it is not alone with mState: onTimeout runs  *)
(* without mMutex, after sender() has released the lock of the channel, so *)
(* it takes four steps, between which anything may happen.  Where between  *)
(* two handlers the thread is matters only when onTimeout sets mState, and *)
(* is chosen there.  ClientThreads refines wait().                         *)
(***************************************************************************)
EXTENDS Network, FiniteSetsExt

CONSTANTS MaxDownloads,  \* bound: downloads started per client
          MaxInbox       \* bound: datagrams waiting in mProtocols

ASSUME ClientAssumption ==
  /\ MaxDownloads \in Nat
  /\ MaxInbox \in Nat

VARIABLES mState,      \* the state dispatch() is in
          mFile,       \* the path being downloaded
          mSize,       \* its length, from the Size reply
          mNext,       \* the first block not yet written
          mBlock,      \* the block to acknowledge
          mCache,      \* blocks received ahead of mNext
          mOutput,     \* what has been written to the destination
          mProtocols,  \* the queue onReceive fills
          asleep,      \* in wait(), having missed that mState is Idle
          requests,    \* the entries of mChannel that are sent with retries
          mHandle,     \* the last one sent, or 0
          onTimeouts,  \* timer threads in onTimeout, before each of its steps
          outcome,     \* the callbacks made since download() was called
          downloads    \* downloads started so far

channelVars == <<requests, mHandle, onTimeouts>>
clientVars == <<mState, mFile, mSize, mNext, mBlock, mCache, mOutput,
                mProtocols, asleep, channelVars, outcome, downloads>>

\* In these states dispatch() blocks in wait() for a message of the same name.
Waiting == {"Size", "Start", "Data", "Confirm"}
State == Waiting \cup {"Idle", "Query", "Get", "Acknowledge", "Checksum", "Error"}

\* One download leaves at most one entry behind.
Handle == 1..MaxDownloads
Entry  == [message : ToServer, tries : 1..(Retries + 1)]

ASSUME EntryAssumption == Nil \notin Entry

\* What a timer thread in Client::onTimeout does next.
Step == {"report", "terminate", "stop", "notify"}

ClientTypeOK ==
  /\ mState     \in [Client -> State]
  /\ mFile      \in [Client -> File \cup {Nil}]
  /\ mSize      \in [Client -> 0..MaxBlocks]
  /\ mNext      \in [Client -> 0..MaxBlocks]
  /\ mBlock     \in [Client -> BlockId \cup {0}]
  /\ mCache     \in [Client -> [BlockId -> Content \cup {Nil}]]
  /\ mOutput    \in [Client -> Seq(Content)]
  /\ mProtocols \in [Client -> Seq(ToClient)]
  /\ asleep     \in [Client -> BOOLEAN]
  /\ requests   \in [Client -> [Handle -> Entry \cup {Nil}]]
  /\ mHandle    \in [Client -> Handle \cup {0}]
  /\ onTimeouts \in [Client -> [Step -> Nat]]
  /\ outcome    \in [Client -> SUBSET {"finished", "failed"}]
  /\ downloads  \in [Client -> 0..MaxDownloads]

EmptyCache == [b \in BlockId |-> Nil]

ClientInit ==
  /\ mState     = [c \in Client |-> "Idle"]
  /\ mFile      = [c \in Client |-> Nil]
  /\ mSize      = [c \in Client |-> 0]
  /\ mNext      = [c \in Client |-> 0]
  /\ mBlock     = [c \in Client |-> 0]
  /\ mCache     = [c \in Client |-> EmptyCache]
  /\ mOutput    = [c \in Client |-> <<>>]
  /\ mProtocols = [c \in Client |-> <<>>]
  /\ asleep     = [c \in Client |-> FALSE]
  /\ requests   = [c \in Client |-> [h \in Handle |-> Nil]]
  /\ mHandle    = [c \in Client |-> 0]
  /\ onTimeouts = [c \in Client |-> [s \in Step |-> 0]]
  /\ outcome    = [c \in Client |-> {}]
  /\ downloads  = [c \in Client |-> 0]

-----------------------------------------------------------------------------
(* wait(): messages of another type are popped; an Error always matches. *)

Matches(c) ==
  {i \in DOMAIN mProtocols[c] : mProtocols[c][i].type \in {mState[c], "Error"}}

First(c) == Min(Matches(c))
Found(c) == mProtocols[c][First(c)]

\* mProtocols from the i-th message on.
From(c, i) == SubSeq(mProtocols[c], i, Len(mProtocols[c]))

\* Channel::terminate(mHandle): that entry is gone, if it is still there.
TerminateHandle(c) ==
  requests' = [requests EXCEPT ![c] =
                 [h \in Handle |-> IF h = mHandle[c] THEN Nil ELSE @[h]]]

\* wait(t) returns true with message Found(c): its request is terminated.
Takes(c, t) ==
  /\ mState[c] = t
  /\ Matches(c) # {}
  /\ Found(c).type = t
  /\ TerminateHandle(c)
  /\ UNCHANGED <<asleep, mHandle, onTimeouts>>

Pop(c) == mProtocols' = [mProtocols EXCEPT ![c] = From(c, First(c) + 1)]
Goto(c, s) == mState' = [mState EXCEPT ![c] = s]
Calls(c, r) == outcome' = [outcome EXCEPT ![c] = @ \cup {r}]

\* Channel::send of a request with mRetries retries, from state s to state t.
Asks(c, s, m, t) ==
  /\ mState[c] = s
  /\ Send({m})
  /\ \E h \in Handle :
       /\ requests[c][h] = Nil
       /\ \A g \in 1..(h - 1) : requests[c][g] # Nil
       /\ requests' = [requests EXCEPT ![c][h] = [message |-> m, tries |-> 1]]
       /\ mHandle' = [mHandle EXCEPT ![c] = h]
  /\ Goto(c, t)
  /\ UNCHANGED <<mFile, mSize, mNext, mBlock, mCache, mOutput, mProtocols,
                 asleep, onTimeouts, outcome, downloads>>

-----------------------------------------------------------------------------
(* The command line thread. *)

\* Client::download, called from the command line when the last one returned.
\* The entries and the timer threads of the last one are left as they are.
Download(c, f) ==
  /\ mState[c] = "Idle"
  /\ ~asleep[c]
  /\ downloads[c] < MaxDownloads
  /\ downloads' = [downloads EXCEPT ![c] = @ + 1]
  /\ mProtocols' = [mProtocols EXCEPT ![c] = <<>>]
  /\ mCache' = [mCache EXCEPT ![c] = EmptyCache]
  /\ mFile' = [mFile EXCEPT ![c] = f]
  /\ outcome' = [outcome EXCEPT ![c] = {}]
  /\ Goto(c, "Query")
  /\ UNCHANGED <<mSize, mNext, mBlock, mOutput, asleep, channelVars, net>>

query(c)    == Asks(c, "Query", QueryMsg(c, mFile[c]), "Size")
get(c)      == Asks(c, "Get", GetMsg(c, mFile[c]), "Start")
checksum(c) == Asks(c, "Checksum", ChecksumMsg(c, mFile[c], mOutput[c]), "Confirm")

size(c) ==
  /\ Takes(c, "Size")
  /\ Pop(c)
  /\ mSize' = [mSize EXCEPT ![c] = Found(c).size]
  /\ Goto(c, "Get")
  /\ UNCHANGED <<mFile, mNext, mBlock, mCache, mOutput, outcome, downloads, net>>

\* The destination is opened, which may fail; opening it truncates it.
start(c) ==
  /\ Takes(c, "Start")
  /\ Pop(c)
  /\ mNext' = [mNext EXCEPT ![c] = 0]
  /\ mBlock' = [mBlock EXCEPT ![c] = 0]
  /\ mOutput' = [mOutput EXCEPT ![c] = <<>>]
  /\ \/ Goto(c, "Data") /\ UNCHANGED outcome
     \/ Goto(c, "Idle") /\ Calls(c, "failed")
  /\ UNCHANGED <<mFile, mSize, mCache, downloads, net>>

\* The first block at or after n that is missing from cache.
FlushEnd(cache, n) ==
  Min({k \in n..MaxBlocks : k = MaxBlocks \/ cache[k] = Nil})

\* A block already written or cached is only acknowledged again.
IsDuplicate(c, b) == b < mNext[c] \/ mCache[c][b] # Nil

Duplicate(c) ==
  /\ Takes(c, "Data")
  /\ Pop(c)
  /\ IsDuplicate(c, Found(c).block)
  /\ mBlock' = [mBlock EXCEPT ![c] = Found(c).block]
  /\ Goto(c, "Acknowledge")
  /\ UNCHANGED <<mFile, mSize, mNext, mCache, mOutput, outcome, downloads, net>>

\* Mutant of data: blocks are written in the order of their arrival.
WriteOnArrival(c) ==
  /\ Takes(c, "Data")
  /\ Pop(c)
  /\ ~IsDuplicate(c, Found(c).block)
  /\ mBlock' = [mBlock EXCEPT ![c] = Found(c).block]
  /\ mOutput' = [mOutput EXCEPT ![c] = Append(@, Found(c).data)]
  /\ mNext' = [mNext EXCEPT ![c] = @ + 1]
  /\ Goto(c, "Acknowledge")
  /\ UNCHANGED <<mFile, mSize, mCache, outcome, downloads, net>>

\* A new block is cached, and the run of blocks it completes is written.
data(c) ==
  /\ Takes(c, "Data")
  /\ Pop(c)
  /\ ~IsDuplicate(c, Found(c).block)
  /\ mBlock' = [mBlock EXCEPT ![c] = Found(c).block]
  /\ LET cached == [mCache[c] EXCEPT ![Found(c).block] = Found(c).data]
         end    == FlushEnd(cached, mNext[c])
     IN  /\ mOutput' = [mOutput EXCEPT ![c] =
               @ \o [i \in 1..(end - mNext[c]) |-> cached[mNext[c] + i - 1]]]
         /\ mCache' = [mCache EXCEPT ![c] =
               [b \in BlockId |-> IF b < end THEN Nil ELSE cached[b]]]
         /\ mNext' = [mNext EXCEPT ![c] = end]
  /\ Goto(c, "Acknowledge")
  /\ UNCHANGED <<mFile, mSize, outcome, downloads, net>>

\* Mutant of acknowledge: only the last block is acknowledged.
AcknowledgeLast(c) ==
  /\ mState[c] = "Acknowledge"
  /\ Send(IF Len(mOutput[c]) = mSize[c]
          THEN {AcknowledgeMsg(c, mFile[c], mBlock[c])} ELSE {})
  /\ mHandle' = [mHandle EXCEPT ![c] = 0]
  /\ Goto(c, IF Len(mOutput[c]) = mSize[c] THEN "Checksum" ELSE "Data")
  /\ UNCHANGED <<mFile, mSize, mNext, mBlock, mCache, mOutput, mProtocols,
                 asleep, requests, onTimeouts, outcome, downloads>>

\* Sent once, without retries; mHandle names an entry that never fires again.
acknowledge(c) ==
  /\ mState[c] = "Acknowledge"
  /\ Send({AcknowledgeMsg(c, mFile[c], mBlock[c])})
  /\ mHandle' = [mHandle EXCEPT ![c] = 0]
  /\ Goto(c, IF Len(mOutput[c]) = mSize[c] THEN "Checksum" ELSE "Data")
  /\ UNCHANGED <<mFile, mSize, mNext, mBlock, mCache, mOutput, mProtocols,
                 asleep, requests, onTimeouts, outcome, downloads>>

\* The Confirm message is left in the queue.
confirm(c) ==
  /\ Takes(c, "Confirm")
  /\ mProtocols' = [mProtocols EXCEPT ![c] = From(c, First(c))]
  /\ Calls(c, "finished")
  /\ Goto(c, "Idle")
  /\ UNCHANGED <<mFile, mSize, mNext, mBlock, mCache, mOutput, downloads, net>>

\* wait() found an Error: the request is terminated, the message stays.
WaitError(c) ==
  /\ mState[c] \in Waiting
  /\ Matches(c) # {}
  /\ Found(c).type = "Error"
  /\ TerminateHandle(c)
  /\ mProtocols' = [mProtocols EXCEPT ![c] = From(c, First(c))]
  /\ Goto(c, "Error")
  /\ UNCHANGED <<mFile, mSize, mNext, mBlock, mCache, mOutput, asleep,
                 mHandle, onTimeouts, outcome, downloads, net>>

\* wait() found nothing of use and blocks with the queue emptied.
Discard(c) ==
  /\ mState[c] \in Waiting
  /\ mProtocols[c] # <<>>
  /\ Matches(c) = {}
  /\ mProtocols' = [mProtocols EXCEPT ![c] = <<>>]
  /\ UNCHANGED <<mState, mFile, mSize, mNext, mBlock, mCache, mOutput, asleep,
                 channelVars, outcome, downloads, net>>

error(c) ==
  /\ mState[c] = "Error"
  /\ mProtocols' = [mProtocols EXCEPT ![c] = Tail(@)]
  /\ Calls(c, "failed")
  /\ Goto(c, "Idle")
  /\ UNCHANGED <<mFile, mSize, mNext, mBlock, mCache, mOutput, asleep,
                 channelVars, downloads, net>>

-----------------------------------------------------------------------------
(* The other threads. *)

\* notify_one: wait() reads mState again.
Notify(c) == asleep' = [asleep EXCEPT ![c] = FALSE]

\* Client::onReceive, on the receiver thread.  What arrives beyond the bound
\* while no download runs is forgotten here: download() would clear it unread.
onReceive(m) ==
  LET c == m.client IN
  /\ m.type \in Reply
  /\ \/ /\ Len(mProtocols[c]) < MaxInbox
        /\ mProtocols' = [mProtocols EXCEPT ![c] = Append(@, m)]
     \/ /\ Len(mProtocols[c]) >= MaxInbox
        /\ mState[c] = "Idle"
        /\ UNCHANGED mProtocols
  /\ Notify(c)
  /\ Receive(m, {})
  /\ UNCHANGED <<mState, mFile, mSize, mNext, mBlock, mCache, mOutput,
                 channelVars, outcome, downloads>>

\* A timer thread runs Channel::sender on entry h: one more try ...
ClientRetry(c, h) ==
  /\ requests[c][h] # Nil
  /\ requests[c][h].tries <= Retries
  /\ Send({requests[c][h].message})
  /\ requests' = [requests EXCEPT ![c][h].tries = @ + 1]
  /\ UNCHANGED <<mState, mFile, mSize, mNext, mBlock, mCache, mOutput,
                 mProtocols, asleep, mHandle, onTimeouts, outcome, downloads>>

\* Mutant of ClientExpire: the callback is not made.
ExpireUnheard(c, h) ==
  /\ requests[c][h] # Nil
  /\ requests[c][h].tries > Retries
  /\ requests' = [requests EXCEPT ![c][h] = Nil]
  /\ UNCHANGED <<mState, mFile, mSize, mNext, mBlock, mCache, mOutput,
                 mProtocols, asleep, mHandle, onTimeouts, outcome, downloads, net>>

\* ... or it finds the retries spent and unlocks, on its way to onTimeout.  The
\* entry stays in the channel, but nothing looks at it any more.
ClientExpire(c, h) ==
  /\ requests[c][h] # Nil
  /\ requests[c][h].tries > Retries
  /\ requests' = [requests EXCEPT ![c][h] = Nil]
  /\ onTimeouts' = [onTimeouts EXCEPT ![c]["report"] = @ + 1]
  /\ UNCHANGED <<mState, mFile, mSize, mNext, mBlock, mCache, mOutput,
                 mProtocols, asleep, mHandle, outcome, downloads, net>>

\* A timer thread in onTimeout goes on from its step s to step t.
Proceeds(c, s, t) ==
  /\ onTimeouts[c][s] > 0
  /\ onTimeouts' = [onTimeouts EXCEPT ![c][s] = @ - 1, ![c][t] = @ + 1]
  /\ UNCHANGED <<mFile, mSize, mNext, mBlock, mCache, mOutput, mProtocols,
                 mHandle, downloads, net>>

\* Client::onTimeout, without mMutex: the error is reported, ...
TimeoutReport(c) ==
  /\ Proceeds(c, "report", "terminate")
  /\ Calls(c, "failed")
  /\ UNCHANGED <<mState, asleep, requests>>

\* ... the request that is the last one by now is terminated, ...
TimeoutTerminate(c) ==
  /\ Proceeds(c, "terminate", "stop")
  /\ TerminateHandle(c)
  /\ UNCHANGED <<mState, asleep, outcome>>

\* ... mState is set - which the thread of the command line overwrites if it is
\* about to set mState itself, reads if it is before the predicate of wait(), and
\* misses if it is behind it - ...
TimeoutStop(c) ==
  /\ Proceeds(c, "stop", "notify")
  /\ \/ UNCHANGED <<mState, asleep>>
     \/ Goto(c, "Idle") /\ UNCHANGED asleep
     \/ /\ mState[c] \in Waiting
        /\ mProtocols[c] = <<>>
        /\ Goto(c, "Idle")
        /\ asleep' = [asleep EXCEPT ![c] = TRUE]
  /\ UNCHANGED <<requests, outcome>>

\* ... and a thread in wait() is notified, unless it has yet to fall asleep.
TimeoutNotify(c) ==
  /\ onTimeouts[c]["notify"] > 0
  /\ onTimeouts' = [onTimeouts EXCEPT ![c]["notify"] = @ - 1]
  /\ Notify(c) \/ UNCHANGED asleep
  /\ UNCHANGED <<mState, mFile, mSize, mNext, mBlock, mCache, mOutput,
                 mProtocols, requests, mHandle, outcome, downloads, net>>

\* A notify_one of onReceive that comes late, or a spurious end of the sleep.
Wake(c) ==
  /\ asleep[c]
  /\ Notify(c)
  /\ UNCHANGED <<mState, mFile, mSize, mNext, mBlock, mCache, mOutput,
                 mProtocols, channelVars, outcome, downloads, net>>

DispatchStep(c) ==
  \/ query(c) \/ size(c) \/ get(c) \/ start(c) \/ data(c) \/ Duplicate(c)
  \/ acknowledge(c) \/ checksum(c) \/ confirm(c)
  \/ WaitError(c) \/ Discard(c) \/ error(c)

ClientTimer(c, h) == ClientRetry(c, h) \/ ClientExpire(c, h)

TimeoutStep(c) ==
  TimeoutReport(c) \/ TimeoutTerminate(c) \/ TimeoutStop(c) \/ TimeoutNotify(c)

=============================================================================
