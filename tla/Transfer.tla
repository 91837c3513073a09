------------------------------ MODULE Transfer ------------------------------
(***************************************************************************)
(* The file transfer of the RDT Lab: clients, one server and the network,  *)
(* composed; its properties; and its refinement of Delivery.               *)
(***************************************************************************)
EXTENDS ClientSide, ServerSide

vars == <<clientVars, serverVars, net>>

TypeOK == NetworkTypeOK /\ ClientTypeOK /\ ServerTypeOK

Init == NetworkInit /\ ClientInit /\ ServerInit

\* Nothing is in flight and every client is blocked in wait() or has returned.
Quiet ==
  /\ net = {}
  /\ \A c \in Client :
       \/ mState[c] = "Idle"
       \/ mState[c] \in Waiting /\ mProtocols[c] = <<>>

\* On a reliable network no timer is shorter than the round trip.
MayFire == Unreliable \/ Quiet

Ask(c)         == (\E f \in File : Download(c, f)) /\ UNCHANGED serverVars
Dispatch(c)    == DispatchStep(c) /\ UNCHANGED serverVars
Deliver        == \E m \in net : \/ onReceive(m) /\ UNCHANGED serverVars
                                 \/ ServerReceive(m) /\ UNCHANGED clientVars
Expire(c, h)   == MayFire /\ ClientTimer(c, h) /\ UNCHANGED serverVars
TimesOut(c)    == TimeoutStep(c) /\ UNCHANGED serverVars
Woken(c)       == Wake(c) /\ UNCHANGED serverVars
Work(c)        == work(c) /\ UNCHANGED clientVars
ExpireData(c, b) == MayFire /\ DataTimer(c, b) /\ UNCHANGED clientVars
ExpireRefusal(s) == MayFire /\ RefusalTimer(s) /\ UNCHANGED clientVars
CallBack(c)    == ServerCallback(c) /\ UNCHANGED clientVars
Environment    == (Restart \/ \E f \in File : Replace(f)) /\ UNCHANGED clientVars

Next ==
  \/ \E c \in Client : \/ Ask(c) \/ Dispatch(c) \/ Work(c)
                       \/ TimesOut(c) \/ Woken(c) \/ CallBack(c)
  \/ \E c \in Client, h \in Handle : Expire(c, h)
  \/ \E c \in Client, b \in BlockId : ExpireData(c, b)
  \/ \E s \in Slot : ExpireRefusal(s)
  \/ Deliver
  \/ Environment

Spec == Init /\ [][Next]_vars

\* What the program does when it is left alone: the command line thread leaves
\* wait() if it can, the worker loops, the timer threads count and call back, the
\* receiver polls its socket.  The user need not ask for anything, nobody stops
\* the server, and no sleep ends by itself.
Progress ==
  \/ \E c \in Client : Dispatch(c) \/ Work(c) \/ TimesOut(c) \/ CallBack(c)
  \/ \E c \in Client, h \in Handle : Expire(c, h)
  \/ \E c \in Client, b \in BlockId : ExpireData(c, b)
  \/ \E s \in Slot : ExpireRefusal(s)
  \/ Deliver

\* Some thread goes on, as long as one can.
Fairness == WF_vars(Progress)

-----------------------------------------------------------------------------
(* Safety. *)

\* The client has block b: written, or cached ahead of mNext.
Has(c, b) == b < mNext[c] \/ mCache[c][b] # Nil

\* A block the server sent and no longer repeats has reached the client: in a
\* client's first download, Server::onAcknowledge gives up no packet early.
AckedIsReceived ==
  \A c \in Client, b \in BlockId :
    (mTasks[c] # Nil /\ downloads[c] = 1 /\ b < mTasks[c].next
       /\ mTasks[c].packets[b] = 0) => Has(c, b)

\* Client::confirm reports a finish only of a complete file whose blocks are
\* those of the file asked for, in order.
FinishedIsWhole ==
  \A c \in Client :
    "finished" \in outcome[c] =>
      /\ Len(mOutput[c]) = Blocks[mFile[c]]
      /\ \A i \in DOMAIN mOutput[c] :
           mOutput[c][i][1] = mFile[c] /\ mOutput[c][i][3] = i - 1

\* What a client was told it has is what the server stands for: the digest that
\* Server::onChecksum confirmed stays the digest of that path until a restart.
FinishedIsCached ==
  \A c \in Client :
    ("finished" \in outcome[c] /\ restarts = 0) =>
      mMD5Cache[mFile[c]] = mOutput[c]

\* The digest cached for a path is that of the file, until the file is replaced.
CachedIsFile ==
  \A f \in File :
    mMD5Cache[f] # Nil /\ version[f] = 1 => f \in Existing /\ mMD5Cache[f] = Bytes(f, 1)

\* The request that leads to each state in which a client waits for its answer.
RequestOf == [Size |-> "Query", Start |-> "Get", Confirm |-> "Checksum"]

\* Somebody will end the wait of c for an answer, or has told its user: its
\* request is still repeated, or a timer thread is about to report the failure.
Watched(c) ==
  \/ \E h \in Handle :
        requests[c][h] # Nil /\ requests[c][h].message.type = RequestOf[mState[c]]
  \/ onTimeouts[c]["report"] > 0
  \/ "failed" \in outcome[c]

\* In its first download a client waits for no answer unwatched, whichever entry
\* Client::onTimeout terminates and whatever the handlers do between its steps.
RequestsWatched ==
  \A c \in Client :
    mState[c] \in DOMAIN RequestOf /\ downloads[c] = 1 => Watched(c)

\* No more than MaxWindow blocks are unacknowledged, though onRetry may shrink
\* the window below what is outstanding.
InFlightBounded ==
  \A c \in Client :
    mTasks[c] # Nil => Cardinality(Outstanding(mTasks[c])) <= MaxWindow

-----------------------------------------------------------------------------
(* Liveness. *)

\* On a reliable network the server does not keep a task for ever, not even one
\* whose client has failed or waits for another file: it is completed, or the
\* retries of one of its packets run out (Server::onTimeout).
TaskEnds == \A c \in Client : mTasks[c] # Nil ~> mTasks[c] = Nil

\* On a reliable network a first download() returns, and if the transfer of the
\* data has begun (Client::start), it returns with the file, unless that was
\* replaced meanwhile.
Replaced(f) == f \in File /\ version[f] > 1
DownloadEnds ==
  \A c \in Client :
    /\ mState[c] # "Idle" /\ downloads[c] = 1 ~> mState[c] = "Idle"
    /\ mState[c] = "Data" /\ downloads[c] = 1
         ~> "finished" \in outcome[c] \/ Replaced(mFile[c])

\* In its first download a client never gets an error about a file the server
\* has and nobody replaces (unless the destination cannot be opened, in "Start").
NoFalseError ==
  \A c \in Client :
    mState[c] = "Error" /\ downloads[c] = 1 =>
      mFile[c] \notin Existing \/ Replaced(mFile[c])

\* The digest cache of the server stands for its files, whatever tasks of other
\* clients and paths were cut short (worker(), onChecksum): it holds no digest of
\* anything else, and no client is refused for it.
CacheIsTrue == NoFalseError /\ CachedIsFile

-----------------------------------------------------------------------------
(* What the transfer promises, in a client's first download. *)

D == INSTANCE Delivery WITH
       User <- Client, Path <- File, None <- Nil,
       Text <- LAMBDA f : Bytes(f, 1),
       wanted <- mFile,
       destination <- mOutput,
       result <- outcome

ImplementsDelivery == D!Spec

=============================================================================
