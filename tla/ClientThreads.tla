---------------------------- MODULE ClientThreads ----------------------------
(***************************************************************************)
(* class Client at the grain of its threads: the command line thread that  *)
(* runs dispatch() and sleeps on mCondition in wait(), the receiver thread *)
(* in onReceive(), and the timer threads that run onTimeout().  mMutex     *)
(* guards mProtocols; mState is atomic and onTimeout() writes it without   *)
(* the lock; mHandle is a plain variable that onTimeout() reads.           *)
(*                                                                         *)
(* The server is abstracted to what may arrive: an answer or an Error at   *)
(* any time.  A download is followed up to the arrival of Start, that is   *)
(* through two requests: steps 1 (Query) and 2 (Get).                      *)
(***************************************************************************)
EXTENDS Integers, Sequences

CONSTANT MaxArrivals     \* bound: messages that arrive

ASSUME ArrivalsAssumption == MaxArrivals \in Nat

VARIABLES mState,      \* dispatch()'s state
          mProtocols,  \* the types of the messages received
          mHandle,     \* the handle last stored
          live,        \* the handles with an entry in the channel
          held,        \* the command line thread holds mMutex
          app,         \* where the command line thread is
          sending,     \* the handle send() returned; 0 before the first
          receiver,    \* where the receiver thread is
          arrivals,    \* messages that have arrived
          timer        \* where the timer thread of each handle is

CTvars == <<mState, mProtocols, mHandle, live, held, app, sending, receiver,
          arrivals, timer>>

Handle == 1..2
MessageType == {"Size", "Start", "Error"}

\* What the two waiting states wait for, and where they go from there.
Awaiting == {"Size", "Start"}

After == [s \in Awaiting |-> IF s = "Size" THEN "Get" ELSE "Data"]

\* The type wait() was called with: that of the answer to the last request.
Wanted == IF sending = 1 THEN "Size" ELSE "Start"

CTTypeOK ==
  /\ mState \in {"Idle", "Query", "Size", "Get", "Start", "Data", "Error"}
  /\ mProtocols \in Seq(MessageType)
  /\ mHandle \in 0..2
  /\ live \subseteq Handle
  /\ held \in BOOLEAN
  /\ app \in {"dispatch", "store", "set", "lock", "check", "sleep", "asleep",
              "found", "answer", "take", "done"}
  /\ sending \in 0..2
  /\ receiver \in {"idle", "notify"}
  /\ arrivals \in 0..MaxArrivals
  /\ timer \in [Handle -> {"off", "counting", "expired", "stopping", "notify", "done"}]

\* download() has just called dispatch().
CTInit ==
  /\ mState = "Query"
  /\ mProtocols = <<>>
  /\ mHandle = 0
  /\ live = {}
  /\ held = FALSE
  /\ app = "dispatch"
  /\ sending = 0
  /\ receiver = "idle"
  /\ arrivals = 0
  /\ timer = [h \in Handle |-> "off"]

-----------------------------------------------------------------------------
(* The command line thread: dispatch(), query(), get(). *)

\* dispatch() reads mState and returns, sends a request or waits.
DispatchReturns ==
  /\ app = "dispatch"
  /\ mState \in {"Idle", "Data"}
  /\ app' = "done"
  /\ UNCHANGED <<mState, mProtocols, mHandle, live, held, sending, receiver,
                 arrivals, timer>>

DispatchWaits ==
  /\ app = "dispatch"
  /\ mState \in Awaiting
  /\ app' = "lock"
  /\ UNCHANGED <<mState, mProtocols, mHandle, live, held, sending, receiver,
                 arrivals, timer>>

\* Channel::send makes an entry with a new handle and starts its timer,
SendRequest ==
  /\ app = "dispatch"
  /\ mState \in {"Query", "Get"}
  /\ sending' = sending + 1
  /\ live' = live \cup {sending'}
  /\ timer' = [timer EXCEPT ![sending'] = "counting"]
  /\ app' = "store"
  /\ UNCHANGED <<mState, mProtocols, mHandle, held, receiver, arrivals>>

\* then the handle is stored,
StoreHandle ==
  /\ app = "store"
  /\ mHandle' = sending
  /\ app' = "set"
  /\ UNCHANGED <<mState, mProtocols, live, held, sending, receiver, arrivals,
                 timer>>

\* and then the state is set, whatever it has become meanwhile.
SetState ==
  /\ app = "set"
  /\ mState' = Wanted
  /\ app' = "dispatch"
  /\ UNCHANGED <<mProtocols, mHandle, live, held, sending, receiver, arrivals,
                 timer>>

-----------------------------------------------------------------------------
(* wait(). *)

Lock ==
  /\ app = "lock"
  /\ ~held
  /\ held' = TRUE
  /\ app' = "check"
  /\ UNCHANGED <<mState, mProtocols, mHandle, live, sending, receiver, arrivals,
                 timer>>

\* The messages at which the predicate stops popping.
Useful == {i \in DOMAIN mProtocols : mProtocols[i] \in {Wanted, "Error"}}
Earliest == CHOOSE i \in Useful : \A j \in Useful : i <= j

\* The predicate: true if mState is Idle or a message of use is found.
Check ==
  /\ app = "check"
  /\ \/ /\ mState = "Idle"
        /\ app' = "found"
        /\ UNCHANGED mProtocols
     \/ /\ mState # "Idle"
        /\ Useful # {}
        /\ mProtocols' = SubSeq(mProtocols, Earliest, Len(mProtocols))
        /\ app' = "found"
     \/ /\ mState # "Idle"
        /\ Useful = {}
        /\ mProtocols' = <<>>
        /\ app' = "sleep"
  /\ UNCHANGED <<mState, mHandle, live, held, sending, receiver, arrivals, timer>>

\* mCondition.wait gives up the lock and sleeps, in one step.
Sleep ==
  /\ app = "sleep"
  /\ held' = FALSE
  /\ app' = "asleep"
  /\ UNCHANGED <<mState, mProtocols, mHandle, live, sending, receiver, arrivals,
                 timer>>

\* mState is read again: Idle makes wait() return false.
Found ==
  /\ app = "found"
  /\ IF mState = "Idle" THEN app' = "dispatch" /\ held' = FALSE
                        ELSE app' = "answer" /\ UNCHANGED held
  /\ UNCHANGED <<mState, mProtocols, mHandle, live, sending, receiver, arrivals,
                 timer>>

\* Channel::terminate: the entry is erased and its timer told to stop.
Cancel(h) == live' = live \ {h}

\* The request is terminated, and wait() returns, with the lock released.
Answer ==
  /\ app = "answer"
  /\ Cancel(mHandle)
  /\ held' = FALSE
  /\ IF Head(mProtocols) = "Error"
     THEN mState' = "Error" /\ app' = "dispatch"
     ELSE UNCHANGED mState /\ app' = "take"
  /\ UNCHANGED <<mProtocols, mHandle, sending, receiver, arrivals, timer>>

\* size() or start() locks again, pops the answer and sets the next state.
Take ==
  /\ app = "take"
  /\ ~held
  /\ mProtocols' = Tail(mProtocols)
  /\ mState' = After[Wanted]
  /\ app' = "dispatch"
  /\ UNCHANGED <<mHandle, live, held, sending, receiver, arrivals, timer>>

\* error() pops the Error message and ends the download.
HandleError ==
  /\ app = "dispatch"
  /\ mState = "Error"
  /\ ~held
  /\ mProtocols' = Tail(mProtocols)
  /\ mState' = "Idle"
  /\ UNCHANGED <<mHandle, live, held, app, sending, receiver, arrivals, timer>>

-----------------------------------------------------------------------------
(* The receiver thread and the timer threads. *)

\* notify_one: the only thread that ever sleeps on mCondition wakes up.
NotifyOne == app' = IF app = "asleep" THEN "lock" ELSE app

\* Mutant of Push: the lock is not taken.
PushUnlocked(t) ==
  /\ receiver = "idle"
  /\ arrivals < MaxArrivals
  /\ mProtocols' = Append(mProtocols, t)
  /\ arrivals' = arrivals + 1
  /\ receiver' = "notify"
  /\ UNCHANGED <<mState, mHandle, live, held, app, sending, timer>>

\* onReceive() pushes a message under the lock,
Push(t) ==
  /\ receiver = "idle"
  /\ ~held
  /\ arrivals < MaxArrivals
  /\ mProtocols' = Append(mProtocols, t)
  /\ arrivals' = arrivals + 1
  /\ receiver' = "notify"
  /\ UNCHANGED <<mState, mHandle, live, held, app, sending, timer>>

\* and notifies after releasing it.
ReceiverNotifies ==
  /\ receiver = "notify"
  /\ receiver' = "idle"
  /\ NotifyOne
  /\ UNCHANGED <<mState, mProtocols, mHandle, live, held, sending, arrivals, timer>>

\* Channel::sender finds the tries of h used up and releases the channel's lock.
Expire(h) ==
  /\ timer[h] = "counting"
  /\ h \in live
  /\ timer' = [timer EXCEPT ![h] = "expired"]
  /\ UNCHANGED <<mState, mProtocols, mHandle, live, held, app, sending, receiver,
                 arrivals>>

\* onTimeout(): whatever request mHandle names by now is terminated,
TimeoutTerminates(h) ==
  /\ timer[h] = "expired"
  /\ Cancel(mHandle)
  /\ timer' = [timer EXCEPT ![h] = "stopping"]
  /\ UNCHANGED <<mState, mProtocols, mHandle, held, app, sending, receiver,
                 arrivals>>

\* mState is set, without the lock,  (Mutant: and nobody is notified.)
TimeoutStopsSilently(h) ==
  /\ timer[h] = "stopping"
  /\ mState' = "Idle"
  /\ timer' = [timer EXCEPT ![h] = "done"]
  /\ UNCHANGED <<mProtocols, mHandle, live, held, app, sending, receiver, arrivals>>
TimeoutStops(h) ==
  /\ timer[h] = "stopping"
  /\ mState' = "Idle"
  /\ timer' = [timer EXCEPT ![h] = "notify"]
  /\ UNCHANGED <<mProtocols, mHandle, live, held, app, sending, receiver, arrivals>>

\* and the command line thread is notified, if it sleeps.
TimeoutNotifies(h) ==
  /\ timer[h] = "notify"
  /\ NotifyOne
  /\ timer' = [timer EXCEPT ![h] = "done"]
  /\ UNCHANGED <<mState, mProtocols, mHandle, live, held, sending, receiver, arrivals>>

AppStep ==
  \/ DispatchReturns \/ DispatchWaits \/ SendRequest \/ StoreHandle \/ SetState
  \/ Lock \/ Check \/ Sleep \/ Found \/ Answer \/ Take \/ HandleError

onTimeout(h) ==
  Expire(h) \/ TimeoutTerminates(h) \/ TimeoutStops(h) \/ TimeoutNotifies(h)

CTNext ==
  \/ AppStep
  \/ \E t \in MessageType : Push(t)
  \/ ReceiverNotifies
  \/ \E h \in Handle : onTimeout(h)

CTSpec == CTInit /\ [][CTNext]_CTvars

\* Threads run and retries run out; no message need arrive, and a sleeping
\* thread is woken by a notification only.
CTFairness ==
  /\ WF_CTvars(AppStep)
  /\ WF_CTvars(ReceiverNotifies)
  /\ \A h \in Handle : WF_CTvars(onTimeout(h))

CTFairSpec == CTSpec /\ CTFairness

-----------------------------------------------------------------------------

\* wait() lets go of the lock before size(), start() or error() takes it again:
\* the message at the front is still the one wait() found.
FrontIsAnswer ==
  /\ app = "take" => mProtocols # <<>> /\ Head(mProtocols) = Wanted
  /\ app = "dispatch" /\ mState = "Error" => mProtocols # <<>> /\ Head(mProtocols) = "Error"

\* No message is missed: the command line thread does not sleep over a message
\* it waits for, unless the notification is on its way.
NoMissedMessage == app = "asleep" /\ receiver = "idle" => Useful = {}

\* The queue serves wait() whatever the receiver does while its lock is released:
\* the message that was found is still in front, and none is slept over.
QueueServesWait == CTTypeOK /\ FrontIsAnswer /\ NoMissedMessage

\* A message that wait() waits for gets it to return.
AnswerEndsWait ==
  (app \in {"lock", "check", "sleep", "asleep"} /\ Useful # {}) ~> app = "found"

\* A timeout that begins while the client sleeps ends its sleep, whichever
\* request mHandle names by then.  (One that notifies between the check and
\* the sleep does not: onTimeout() takes no lock.)
TimeoutEndsSleep ==
  \A h \in Handle : (app = "asleep" /\ timer[h] = "expired") ~> app # "asleep"

\* What should end wait() does: an answer, and a timeout that finds it asleep.
WaitEnds == AnswerEndsWait /\ TimeoutEndsSleep

=============================================================================
