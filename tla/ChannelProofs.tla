---------------------------- MODULE ChannelProofs ----------------------------
(***************************************************************************)
(* Theorems about Channel: its types, that a timeout is reported at most   *)
(* once for an entry and after its last retry, and that it implements      *)
(* Attempts; for any number of entries and any choice of retries.          *)
(*                                                                         *)
(* The argument counts the calls of sender() an entry still has coming:    *)
(* one by the caller of send() and those left to its timer, retries + 2 in *)
(* all.  retries + 1 of them transmit, so at most one can expire.          *)
(***************************************************************************)
EXTENDS Channel, TLAPS

\* The calls of sender() the caller of send() has yet to make.
CallerCalls(h) == IF pc[h]["caller"] = "sender" THEN 1 ELSE 0

\* The calls of sender() the timer thread has yet to make.
TimerCalls(h) ==
  IF pc[h]["timer"] \in {"sleep", "sender"} THEN left[h]
  ELSE IF pc[h]["timer"] \in {"retry", "timeout"} THEN left[h] - 1 ELSE 0

\* A handle that send() has not given out yet.
Unused(h) ==
  /\ mTasks[h] = Nil
  /\ pc[h] = [t \in Thread |-> "none"]
  /\ sent[h] = 0
  /\ timeouts[h] = 0

\* What holds of an entry that has not been terminated.
EntryInv(h) ==
  /\ mTasks[h].retries = asked[h]
  /\ mTasks[h].tries = sent[h]
  /\ mTasks[h].tries <= mTasks[h].retries + 1
  /\ mTasks[h].tries + Expiries(h) + CallerCalls(h) + TimerCalls(h)
       <= mTasks[h].retries + 2
  /\ Expiries(h) > 0 => mTasks[h].tries = mTasks[h].retries + 1

\* The entry was given retries, and they are used up.
Spent(h) == asked[h] # 0 /\ sent[h] = asked[h] + 1

HandleInv(h) ==
  /\ h >= mHandle => Unused(h)
  /\ h < mHandle => asked[h] \in RetryChoice
  /\ pc[h]["timer"] \in {"sleep", "sender", "retry", "timeout"} => left[h] >= 1
  /\ pc[h]["caller"] # "sleep"
  /\ Expiries(h) <= 1
  /\ Expiries(h) > 0 => Spent(h)
  /\ mTasks[h] # Nil => EntryInv(h)

IInv == TypeOK /\ \A h \in Handle : HandleInv(h)

-----------------------------------------------------------------------------
(* Types. *)

LEMMA TypeInit == Init => TypeOK
BY ChannelAssumption DEF Init, TypeOK, Handle, Thread, Place

\* What Return, the end of every sender() call, does to the types.
LEMMA ReturnType ==
  ASSUME TypeOK, NEW h \in Handle, NEW t \in Thread, Return(h, t),
         t = "timer" => left[h] >= 1
  PROVE  /\ pc' \in [Handle -> [Thread -> Place]]
         /\ left' \in [Handle -> Nat]
BY DEF TypeOK, Return, Thread, Place

\* Every step keeps the types; the counts of HandleInv keep left natural.
LEMMA TypeNext ==
  ASSUME TypeOK, \A h \in Handle : HandleInv(h), [Next]_vars
  PROVE  TypeOK'
<1>1. ASSUME NEW r \in RetryChoice, send(r) PROVE TypeOK'
  <2>1. mHandle \in Handle /\ mHandle + 1 \in 1..(MaxHandles + 1) /\ r \in Nat
    BY <1>1, ChannelAssumption DEF TypeOK, send, Handle
  <2>2. Launched \in [Thread -> Place]
    BY DEF Launched, Thread, Place
  <2>3. [tries |-> 0, retries |-> r] \in [tries : Nat, retries : Nat]
    BY <2>1
  <2>4. mTasks' \in [Handle -> [tries : Nat, retries : Nat] \cup {Nil}]
    BY <1>1, <2>1, <2>3 DEF TypeOK, send
  <2>5. left' \in [Handle -> Nat] /\ asked' \in [Handle -> Nat]
    BY <1>1, <2>1 DEF TypeOK, send
  <2>6. pc' \in [Handle -> [Thread -> Place]]
    BY <1>1, <2>1, <2>2 DEF TypeOK, send
  <2> QED BY <1>1, <2>1, <2>4, <2>5, <2>6 DEF TypeOK, send
<1>2. ASSUME NEW h \in Handle, terminate(h) PROVE TypeOK'
  BY <1>2 DEF TypeOK, terminate
<1>3. ASSUME NEW h \in Handle, Wake(h) PROVE TypeOK'
  BY <1>3 DEF TypeOK, Wake, Thread, Place
<1>4. ASSUME NEW h \in Handle, NEW t \in Thread, sender(h, t) PROVE TypeOK'
  <2>0. t = "timer" /\ pc[h][t] # "none" /\ pc[h][t] # "done" => left[h] >= 1
    BY DEF HandleInv, TypeOK, Thread, Place
  <2>1. CASE Ignore(h, t)
    BY <2>0, <2>1, ReturnType DEF TypeOK, Ignore
  <2>2. CASE Transmit(h, t)
    <3>1. /\ pc' \in [Handle -> [Thread -> Place]]
          /\ left' \in [Handle -> Nat]
      <4>1. CASE mTasks[h].tries # 0
        <5>1. pc' = [pc EXCEPT ![h][t] = "retry"] /\ left' = left
          BY <2>2, <4>1 DEF Transmit
        <5> QED BY <5>1 DEF TypeOK, Place
      <4>2. CASE mTasks[h].tries = 0
        BY <2>0, <2>2, <4>2, ReturnType DEF Transmit
      <4> QED BY <4>1, <4>2
    <3>2. /\ mTasks' \in [Handle -> [tries : Nat, retries : Nat] \cup {Nil}]
          /\ sent' \in [Handle -> Nat]
      BY <2>2 DEF TypeOK, Transmit
    <3> QED BY <2>2, <3>1, <3>2 DEF TypeOK, Transmit
  <2>3. CASE Expire(h, t)
    BY <2>3 DEF TypeOK, Expire, Place
  <2>4. CASE Callback(h, t)
    <3>1. timeouts' \in [Handle -> Nat]
      BY <2>4 DEF TypeOK, Callback
    <3> QED BY <2>0, <2>4, <3>1, ReturnType DEF TypeOK, Callback
  <2> QED BY <1>4, <2>1, <2>2, <2>3, <2>4 DEF sender
<1>5. ASSUME UNCHANGED vars PROVE TypeOK'
  BY <1>5 DEF TypeOK, vars
<1> QED BY <1>1, <1>2, <1>3, <1>4, <1>5 DEF Next
-----------------------------------------------------------------------------
(* The counts. *)

LEMMA HandleInvInit == Init => \A h \in Handle : HandleInv(h)
BY DEF Init, HandleInv, Unused, Expiries, Expiring, Handle, Thread

\* What HandleInv says of k depends on what belongs to k only.
LEMMA OtherHandle ==
  ASSUME NEW k \in Handle, HandleInv(k), mHandle' = mHandle,
         mTasks'[k] = mTasks[k], left'[k] = left[k], pc'[k] = pc[k],
         sent'[k] = sent[k], timeouts'[k] = timeouts[k], asked'[k] = asked[k]
  PROVE  HandleInv(k)'
BY DEF HandleInv, Spent, Unused, EntryInv, Expiries, Expiring, CallerCalls, TimerCalls

LEMMA SendCounts ==
  ASSUME IInv, NEW r \in RetryChoice, send(r), NEW k \in Handle
  PROVE  HandleInv(k)'
<1>1. mHandle \in Handle /\ r \in Nat /\ mHandle \in Nat
  BY ChannelAssumption DEF IInv, TypeOK, send, Handle
<1>2. CASE k # mHandle
  <2>1. /\ mTasks'[k] = mTasks[k] /\ left'[k] = left[k] /\ pc'[k] = pc[k]
        /\ sent'[k] = sent[k] /\ timeouts'[k] = timeouts[k] /\ asked'[k] = asked[k]
    BY <1>2 DEF IInv, TypeOK, send
  <2>2. k >= mHandle' => k >= mHandle
    BY <1>1 DEF send, Handle
  <2>3. k < mHandle' => k < mHandle
    BY <1>1, <1>2 DEF send, Handle
  <2> QED
    BY <2>1, <2>2, <2>3
    DEF IInv, HandleInv, Spent, Unused, EntryInv, Expiries, Expiring, CallerCalls, TimerCalls
<1>3. CASE k = mHandle
  <2>1. /\ mTasks'[k] = [tries |-> 0, retries |-> r]
        /\ left'[k] = r + 1 /\ pc'[k] = Launched /\ asked'[k] = r
        /\ mHandle' = k + 1
    BY <1>3 DEF IInv, TypeOK, send
  <2>2. sent'[k] = 0 /\ timeouts'[k] = 0
    BY <1>1, <1>3 DEF IInv, HandleInv, Unused, send
  <2>3. pc'[k]["caller"] = "sender" /\ pc'[k]["timer"] = "sleep"
    BY <2>1 DEF Launched, Thread
  <2>4. k < mHandle' /\ ~(k >= mHandle')
    BY <1>1, <1>3, <2>1
  <2>5. Expiries(k)' = 0 /\ CallerCalls(k)' = 1 /\ TimerCalls(k)' = r + 1
    BY <1>1, <2>1, <2>2, <2>3 DEF Expiries, Expiring, CallerCalls, TimerCalls
  <2>6. EntryInv(k)'
    BY <1>1, <2>1, <2>2, <2>5 DEF EntryInv
  <2> QED BY <1>1, <2>1, <2>3, <2>4, <2>5, <2>6 DEF HandleInv
<1> QED BY <1>2, <1>3

LEMMA TerminateCounts ==
  ASSUME IInv, NEW h \in Handle, terminate(h), NEW k \in Handle
  PROVE  HandleInv(k)'
<1>1. HandleInv(k) /\ mHandle' = mHandle
  BY DEF IInv, terminate
<1>2. CASE k # h
  <2>1. mTasks'[k] = mTasks[k]
    BY <1>2 DEF IInv, TypeOK, terminate
  <2> QED BY <1>1, <2>1, OtherHandle DEF terminate
<1>3. CASE k = h
  <2>1. mTasks'[k] = Nil
    BY <1>3 DEF IInv, TypeOK, terminate
  <2> QED BY <1>1, <2>1 DEF terminate, HandleInv, Spent, Unused, Expiries, Expiring
<1> QED BY <1>2, <1>3

LEMMA WakeCounts ==
  ASSUME IInv, NEW h \in Handle, Wake(h), NEW k \in Handle
  PROVE  HandleInv(k)'
<1>1. HandleInv(k)
  BY DEF IInv
<1>2. CASE k # h
  <2>1. pc'[k] = pc[k]
    BY <1>2 DEF IInv, TypeOK, Wake
  <2> QED BY <1>1, <2>1, OtherHandle DEF Wake
<1>3. CASE k = h
  <2>1. pc[k]["timer"] = "sleep" /\ pc'[k]["caller"] = pc[k]["caller"]
        /\ pc'[k]["timer"] \in {"sender", "done"}
    BY <1>3 DEF IInv, TypeOK, Wake, Thread
  <2>2. /\ Expiries(k)' = Expiries(k) /\ CallerCalls(k)' = CallerCalls(k)
        /\ TimerCalls(k)' <= TimerCalls(k) /\ TimerCalls(k)' \in Nat
    <3>1. left'[k] = left[k] /\ timeouts'[k] = timeouts[k] /\ left[k] \in Nat
      BY DEF IInv, TypeOK, Wake
    <3> QED BY <2>1, <3>1 DEF Expiries, Expiring, CallerCalls, TimerCalls
  <2>3. mHandle > k
    BY <1>1, <2>1 DEF IInv, TypeOK, HandleInv, Unused, Handle, Thread
  <2>4. Expiries(k) \in Nat /\ CallerCalls(k) \in Nat /\ TimerCalls(k) \in Nat
    BY <2>1 DEF IInv, TypeOK, Expiries, Expiring, CallerCalls, TimerCalls, Handle
  <2>5. mTasks'[k] # Nil => EntryInv(k)'
    <3> SUFFICES ASSUME mTasks[k] # Nil PROVE EntryInv(k)'
      BY DEF Wake
    <3>1. mTasks[k].tries \in Nat /\ mTasks[k].retries \in Nat
      BY DEF IInv, TypeOK
    <3> QED BY <1>1, <2>2, <2>4, <3>1 DEF EntryInv, HandleInv, Wake
  <2> QED BY <1>1, <2>1, <2>2, <2>3, <2>5 DEF HandleInv, Spent, Wake, IInv, TypeOK, Handle
<1> QED BY <1>2, <1>3
\* A thread in sender() belongs to an entry in use; all counts are natural.
LEMMA InUse ==
  ASSUME IInv, NEW h \in Handle, NEW t \in Thread, pc[h][t] # "none"
  PROVE  /\ h < mHandle /\ ~(h >= mHandle)
         /\ Expiries(h) \in Nat /\ CallerCalls(h) \in Nat /\ TimerCalls(h) \in Nat
<1>1. HandleInv(h) /\ mHandle \in Int /\ h \in Int
  BY DEF IInv, TypeOK, Handle
<1>2. h < mHandle
  BY <1>1 DEF HandleInv, Unused
<1>3. timeouts[h] \in Nat /\ left[h] \in Nat
  BY DEF IInv, TypeOK
<1>4. Expiries(h) \in Nat
  BY <1>3 DEF Expiries, Expiring
<1>5. TimerCalls(h) \in Nat
  BY <1>1, <1>3 DEF HandleInv, TimerCalls
<1> QED BY <1>1, <1>2, <1>4, <1>5 DEF CallerCalls

\* A return from sender() makes no call more, and uses one up if the call did
\* not come back from a callback.
LEMMA ReturnCounts ==
  ASSUME IInv, NEW h \in Handle, NEW t \in Thread, Return(h, t),
         pc[h][t] \in {"sender", "retry", "timeout"}
  PROVE  /\ pc'[h]["timer"] \in {"sleep", "sender", "retry", "timeout"} => left'[h] >= 1
         /\ pc'[h]["caller"] # "sleep"
         /\ CallerCalls(h)' + TimerCalls(h)' <=
              CallerCalls(h) + TimerCalls(h) - (IF pc[h][t] = "sender" THEN 1 ELSE 0)
         /\ CallerCalls(h)' + TimerCalls(h)' \in Nat
         /\ Expiring(h, t)' = 0
         /\ \A u \in Thread : u # t => Expiring(h, u)' = Expiring(h, u)
<1>1. /\ HandleInv(h) /\ left[h] \in Nat
      /\ pc \in [Handle -> [Thread -> Place]] /\ left \in [Handle -> Nat]
  BY DEF IInv, TypeOK
<1>2. CASE t = "caller"
  <2>1. pc'[h]["caller"] = "done" /\ pc'[h]["timer"] = pc[h]["timer"] /\ left' = left
    BY <1>1, <1>2 DEF Return, Thread
  <2>2. CallerCalls(h)' = 0 /\ TimerCalls(h)' = TimerCalls(h) /\ TimerCalls(h) \in Nat
    BY <1>1, <2>1 DEF CallerCalls, TimerCalls, HandleInv
  <2>3. CallerCalls(h) = IF pc[h][t] = "sender" THEN 1 ELSE 0
    BY <1>2 DEF CallerCalls
  <2> QED BY <1>1, <1>2, <2>1, <2>2, <2>3 DEF HandleInv, Expiring, Thread
<1>3. CASE t = "timer"
  <2>1. /\ pc'[h]["caller"] = pc[h]["caller"] /\ left'[h] = left[h] - 1
        /\ \/ pc'[h]["timer"] = "done"
           \/ pc'[h]["timer"] = "sleep" /\ left[h] > 1
    <3>1. /\ left' = [left EXCEPT ![h] = @ - 1]
          /\ \/ pc' = [pc EXCEPT ![h][t] = "done"]
             \/ pc' = [pc EXCEPT ![h][t] = "sleep"] /\ left[h] > 1
      BY <1>3 DEF Return
    <3>2. left'[h] = left[h] - 1
      BY <1>1, <3>1
    <3> QED BY <1>1, <1>3, <3>1, <3>2 DEF Thread
  <2>2. left[h] >= 1
    BY <1>1, <1>3 DEF HandleInv
  <2>3. CallerCalls(h)' = CallerCalls(h) /\ CallerCalls(h) \in Nat
    BY <2>1 DEF CallerCalls
  <2>4. TimerCalls(h)' <= left[h] - 1 /\ TimerCalls(h)' \in Nat
    BY <1>1, <2>1, <2>2 DEF TimerCalls
  <2>5. TimerCalls(h) = IF pc[h][t] = "sender" THEN left[h] ELSE left[h] - 1
    BY <1>3 DEF TimerCalls
  <2>6. CallerCalls(h)' + TimerCalls(h)' <=
              CallerCalls(h) + TimerCalls(h) - (IF pc[h][t] = "sender" THEN 1 ELSE 0)
    BY <1>1, <2>3, <2>4, <2>5
  <2>7. CallerCalls(h)' + TimerCalls(h)' \in Nat
    BY <2>3, <2>4
  <2>8. pc'[h]["timer"] \in {"sleep", "sender", "retry", "timeout"} => left'[h] >= 1
    BY <1>1, <2>1
  <2>9. Expiring(h, t)' = 0 /\ \A u \in Thread : u # t => Expiring(h, u)' = Expiring(h, u)
    BY <1>3, <2>1 DEF Expiring, Thread
  <2> QED BY <1>1, <2>1, <2>6, <2>7, <2>8, <2>9 DEF HandleInv
<1> QED BY <1>2, <1>3 DEF Thread
LEMMA SenderOther ==
  ASSUME IInv, NEW h \in Handle, NEW t \in Thread, sender(h, t),
         NEW k \in Handle, k # h
  PROVE  HandleInv(k)'
<1>1. HandleInv(k)
  BY DEF IInv
<1>2. ASSUME Return(h, t) PROVE pc'[k] = pc[k] /\ left'[k] = left[k]
  BY <1>2 DEF IInv, TypeOK, Return
<1>3. /\ mTasks'[k] = mTasks[k] /\ left'[k] = left[k] /\ pc'[k] = pc[k]
      /\ sent'[k] = sent[k] /\ timeouts'[k] = timeouts[k] /\ asked'[k] = asked[k]
      /\ mHandle' = mHandle
  <2>1. CASE Ignore(h, t)
    BY <1>2, <2>1 DEF Ignore
  <2>2. CASE Transmit(h, t)
    <3>1. pc'[k] = pc[k] /\ left'[k] = left[k]
      BY <1>2, <2>2 DEF Transmit, IInv, TypeOK
    <3> QED BY <2>2, <3>1 DEF Transmit, IInv, TypeOK
  <2>3. CASE Expire(h, t)
    BY <2>3 DEF Expire, IInv, TypeOK
  <2>4. CASE Callback(h, t)
    BY <1>2, <2>4 DEF Callback, IInv, TypeOK
  <2> QED BY <2>1, <2>2, <2>3, <2>4 DEF sender
<1> QED BY <1>1, <1>3, OtherHandle

LEMMA IgnoreCounts ==
  ASSUME IInv, NEW h \in Handle, NEW t \in Thread, Ignore(h, t)
  PROVE  HandleInv(h)'
<1>1. HandleInv(h) /\ timeouts[h] \in Nat
  BY DEF IInv, TypeOK
<1>2. pc[h][t] = "sender" /\ Return(h, t)
  BY DEF Ignore
<1>3. h < mHandle /\ ~(h >= mHandle) /\ CallerCalls(h) \in Nat /\ TimerCalls(h) \in Nat
  BY <1>2, InUse
<1>4. Expiries(h)' = Expiries(h)
  BY <1>2, ReturnCounts DEF Ignore, Expiries, Expiring, Thread
<1>5. mTasks[h] # Nil => EntryInv(h)'
  <2> SUFFICES ASSUME mTasks[h] # Nil PROVE EntryInv(h)'
    OBVIOUS
  <2>1. mTasks[h].tries \in Nat /\ mTasks[h].retries \in Nat /\ Expiries(h) \in Nat
    BY <1>2, InUse DEF IInv, TypeOK
  <2>2. EntryInv(h) /\ UNCHANGED <<mTasks, sent, asked>>
    BY <1>1 DEF HandleInv, Ignore
  <2>3. /\ CallerCalls(h)' + TimerCalls(h)' <= CallerCalls(h) + TimerCalls(h) - 1
        /\ CallerCalls(h)' + TimerCalls(h)' \in Nat
    BY <1>2, ReturnCounts
  <2>4. CallerCalls(h)' \in Nat /\ TimerCalls(h)' \in Int
    BY DEF CallerCalls, TimerCalls, Return, Ignore, IInv, TypeOK
  <2> QED BY <1>3, <1>4, <2>1, <2>2, <2>3, <2>4 DEF EntryInv
<1> QED BY <1>1, <1>2, <1>3, <1>4, <1>5, ReturnCounts DEF HandleInv, Spent, Ignore
\* A thread that leaves "sender" for a callback has used up a call.
LEMMA CallbackCounts ==
  ASSUME IInv, NEW h \in Handle, NEW t \in Thread, pc[h][t] = "sender",
         NEW p \in {"retry", "timeout"}, pc' = [pc EXCEPT ![h][t] = p], left' = left
  PROVE  /\ pc'[h]["timer"] \in {"sleep", "sender", "retry", "timeout"} => left'[h] >= 1
         /\ pc'[h]["caller"] # "sleep"
         /\ CallerCalls(h)' + TimerCalls(h)' = CallerCalls(h) + TimerCalls(h) - 1
         /\ CallerCalls(h)' \in Nat /\ TimerCalls(h)' \in Nat
         /\ Expiring(h, t) = 0 /\ Expiring(h, t)' = IF p = "timeout" THEN 1 ELSE 0
         /\ \A u \in Thread : u # t => Expiring(h, u)' = Expiring(h, u)
<1>1. /\ HandleInv(h) /\ left[h] \in Nat
      /\ pc \in [Handle -> [Thread -> Place]]
  BY DEF IInv, TypeOK
<1>2. pc'[h][t] = p /\ \A u \in Thread : u # t => pc'[h][u] = pc[h][u]
  BY <1>1
<1>3. pc[h]["timer"] = "sender" => left[h] >= 1
  BY <1>1 DEF HandleInv
<1>4. CASE t = "caller"
  BY <1>1, <1>2, <1>3, <1>4
  DEF HandleInv, CallerCalls, TimerCalls, Expiring, Thread
<1>5. CASE t = "timer"
  BY <1>1, <1>2, <1>3, <1>5
  DEF HandleInv, CallerCalls, TimerCalls, Expiring, Thread
<1> QED BY <1>4, <1>5 DEF Thread

LEMMA TransmitCounts ==
  ASSUME IInv, NEW h \in Handle, NEW t \in Thread, Transmit(h, t)
  PROVE  HandleInv(h)'
<1>1. HandleInv(h) /\ EntryInv(h) /\ pc[h][t] = "sender"
  BY DEF IInv, HandleInv, Transmit
<1>2. /\ h < mHandle /\ ~(h >= mHandle) /\ Expiries(h) \in Nat
      /\ CallerCalls(h) \in Nat /\ TimerCalls(h) \in Nat
  BY <1>1, InUse
<1>3. mTasks[h].tries \in Nat /\ mTasks[h].retries \in Nat /\ timeouts[h] \in Nat
  BY DEF IInv, TypeOK, Transmit
<1>4. Expiries(h) = 0
  BY <1>1, <1>2, <1>3 DEF EntryInv, Transmit
<1>5. /\ Expiries(h)' = Expiries(h)
      /\ CallerCalls(h)' + TimerCalls(h)' <= CallerCalls(h) + TimerCalls(h) - 1
      /\ pc'[h]["timer"] \in {"sleep", "sender", "retry", "timeout"} => left'[h] >= 1
      /\ pc'[h]["caller"] # "sleep"
      /\ CallerCalls(h)' \in Int /\ TimerCalls(h)' \in Int
  <2>1. CASE mTasks[h].tries # 0
    <3>1. pc' = [pc EXCEPT ![h][t] = "retry"] /\ left' = left
      BY <2>1 DEF Transmit
    <3>2. /\ CallerCalls(h)' + TimerCalls(h)' = CallerCalls(h) + TimerCalls(h) - 1
          /\ pc'[h]["timer"] \in {"sleep", "sender", "retry", "timeout"} => left'[h] >= 1
          /\ pc'[h]["caller"] # "sleep"
          /\ CallerCalls(h)' \in Nat /\ TimerCalls(h)' \in Nat
          /\ Expiring(h, t) = 0 /\ Expiring(h, t)' = 0
          /\ \A u \in Thread : u # t => Expiring(h, u)' = Expiring(h, u)
      BY <1>1, <3>1, CallbackCounts
    <3>3. Expiries(h)' = Expiries(h)
      BY <1>3, <3>2 DEF Transmit, Expiries, Expiring, Thread
    <3> QED BY <1>2, <3>2, <3>3
  <2>2. CASE mTasks[h].tries = 0
    <3>1. Return(h, t)
      BY <2>2 DEF Transmit
    <3>2. CallerCalls(h)' \in Int /\ TimerCalls(h)' \in Int
      BY <3>1 DEF CallerCalls, TimerCalls, Return, IInv, TypeOK
    <3> QED
      BY <1>1, <3>1, <3>2, ReturnCounts
      DEF Transmit, Expiries, Expiring, Thread
  <2> QED BY <2>1, <2>2
<1>6. /\ mTasks'[h].tries = mTasks[h].tries + 1
      /\ mTasks'[h].retries = mTasks[h].retries
      /\ sent'[h] = sent[h] + 1
  BY DEF Transmit, IInv, TypeOK
<1>7. EntryInv(h)'
  BY <1>1, <1>2, <1>3, <1>4, <1>5, <1>6 DEF EntryInv, Transmit
<1> QED BY <1>1, <1>2, <1>4, <1>5, <1>7 DEF HandleInv, Transmit

LEMMA ExpireCounts ==
  ASSUME IInv, NEW h \in Handle, NEW t \in Thread, Expire(h, t)
  PROVE  HandleInv(h)'
<1>1. HandleInv(h) /\ EntryInv(h) /\ pc[h][t] = "sender"
  BY DEF IInv, HandleInv, Expire
<1>2. /\ h < mHandle /\ ~(h >= mHandle) /\ Expiries(h) \in Nat
      /\ CallerCalls(h) \in Nat /\ TimerCalls(h) \in Nat
  BY <1>1, InUse
<1>3. mTasks[h].tries \in Nat /\ mTasks[h].retries \in Nat /\ timeouts[h] \in Nat
  BY DEF IInv, TypeOK, Expire
<1>4. mTasks[h].tries = mTasks[h].retries + 1
  BY <1>1, <1>3 DEF EntryInv, Expire
<1>5. CallerCalls(h) + TimerCalls(h) >= 1
  BY <1>1, <1>2 DEF HandleInv, CallerCalls, TimerCalls, IInv, TypeOK, Thread
<1>6. Expiries(h) = 0
  BY <1>1, <1>2, <1>3, <1>4, <1>5 DEF EntryInv
<1>7. /\ CallerCalls(h)' + TimerCalls(h)' = CallerCalls(h) + TimerCalls(h) - 1
      /\ pc'[h]["timer"] \in {"sleep", "sender", "retry", "timeout"} => left'[h] >= 1
      /\ pc'[h]["caller"] # "sleep"
      /\ CallerCalls(h)' \in Nat /\ TimerCalls(h)' \in Nat
      /\ Expiring(h, t) = 0 /\ Expiring(h, t)' = 1
      /\ \A u \in Thread : u # t => Expiring(h, u)' = Expiring(h, u)
  BY <1>1, CallbackCounts DEF Expire
<1>8. Expiries(h)' = 1
  BY <1>3, <1>6, <1>7 DEF Expiries, Expire, Expiring, Thread
<1>9. EntryInv(h)'
  BY <1>1, <1>2, <1>3, <1>4, <1>5, <1>6, <1>7, <1>8 DEF EntryInv, Expire
<1>10. Spent(h)'
  BY <1>1, <1>3, <1>4 DEF Spent, EntryInv, Expire
<1> QED BY <1>1, <1>2, <1>7, <1>8, <1>9, <1>10 DEF HandleInv, Expire
LEMMA CallbackReturns ==
  ASSUME IInv, NEW h \in Handle, NEW t \in Thread, Callback(h, t)
  PROVE  HandleInv(h)' /\ Expiries(h)' = Expiries(h)
<1>1. HandleInv(h) /\ pc[h][t] \in {"retry", "timeout"} /\ Return(h, t)
  BY DEF IInv, Callback
<1>2. /\ h < mHandle /\ ~(h >= mHandle) /\ Expiries(h) \in Nat
      /\ CallerCalls(h) \in Nat /\ TimerCalls(h) \in Nat
  BY <1>1, InUse
<1>3. timeouts[h] \in Nat /\ timeouts'[h] = timeouts[h] + Expiring(h, t)
  BY <1>1 DEF IInv, TypeOK, Callback, Expiring
<1>4. Expiries(h)' = Expiries(h)
  <2>1. Expiring(h, t)' = 0 /\ \A u \in Thread : u # t => Expiring(h, u)' = Expiring(h, u)
    BY <1>1, ReturnCounts
  <2>2. Expiring(h, "caller") \in Nat /\ Expiring(h, "timer") \in Nat
    BY DEF Expiring
  <2> QED BY <1>3, <2>1, <2>2 DEF Expiries, Thread
<1>5. /\ CallerCalls(h)' + TimerCalls(h)' <= CallerCalls(h) + TimerCalls(h)
      /\ CallerCalls(h)' \in Int /\ TimerCalls(h)' \in Int
  <2>1. CallerCalls(h)' \in Int /\ TimerCalls(h)' \in Int
    BY <1>1 DEF CallerCalls, TimerCalls, Return, IInv, TypeOK
  <2>2. CallerCalls(h)' + TimerCalls(h)' <= CallerCalls(h) + TimerCalls(h) - 0
    BY <1>1, ReturnCounts
  <2> QED BY <1>2, <2>1, <2>2
<1>6. mTasks[h] # Nil => EntryInv(h)'
  <2> SUFFICES ASSUME mTasks[h] # Nil PROVE EntryInv(h)'
    OBVIOUS
  <2>1. mTasks[h].tries \in Nat /\ mTasks[h].retries \in Nat
    BY DEF IInv, TypeOK
  <2>2. EntryInv(h) /\ UNCHANGED <<mTasks, sent, asked>>
    BY <1>1 DEF HandleInv, Callback
  <2> QED BY <1>2, <1>4, <1>5, <2>1, <2>2 DEF EntryInv
<1> QED BY <1>1, <1>2, <1>4, <1>6, ReturnCounts DEF HandleInv, Spent, Callback

-----------------------------------------------------------------------------
(* The invariant, and what follows from it. *)

LEMMA IInvInit == Init => IInv
BY TypeInit, HandleInvInit DEF IInv

LEMMA IInvNext == IInv /\ [Next]_vars => IInv'
<1> SUFFICES ASSUME IInv, [Next]_vars PROVE IInv'
  OBVIOUS
<1>1. TypeOK'
  BY TypeNext DEF IInv
<1>2. ASSUME NEW k \in Handle PROVE HandleInv(k)'
  <2>1. ASSUME NEW r \in RetryChoice, send(r) PROVE HandleInv(k)'
    BY <2>1, SendCounts
  <2>2. ASSUME NEW h \in Handle, terminate(h) PROVE HandleInv(k)'
    BY <2>2, TerminateCounts
  <2>3. ASSUME NEW h \in Handle, Wake(h) PROVE HandleInv(k)'
    BY <2>3, WakeCounts
  <2>4. ASSUME NEW h \in Handle, NEW t \in Thread, sender(h, t) PROVE HandleInv(k)'
    <3>1. CASE k = h
      BY <2>4, <3>1, IgnoreCounts, TransmitCounts, ExpireCounts, CallbackReturns DEF sender
    <3>2. CASE k # h
      BY <2>4, <3>2, SenderOther
    <3> QED BY <3>1, <3>2
  <2>5. ASSUME UNCHANGED vars PROVE HandleInv(k)'
    BY <2>5, OtherHandle DEF IInv, vars
  <2> QED BY <2>1, <2>2, <2>3, <2>4, <2>5 DEF Next
<1>3. Handle' = Handle
  BY DEF Handle
<1> QED BY <1>1, <1>2, <1>3 DEF IInv

LEMMA IInvAlways == Spec => []IInv
BY IInvInit, IInvNext, PTL DEF Spec

\* Channel's variables keep their types: the timer's count of iterations never
\* goes below zero, and no entry is touched that was not made.
THEOREM TypeCorrect == Spec => []TypeOK
<1>1. IInv => TypeOK
  BY DEF IInv
<1> QED BY <1>1, IInvAlways, PTL

\* For any number of entries and retries, Channel::sender declares at most one
\* timeout for an entry, in whatever order its two threads reach it, never for
\* one without retries, and not before the last retry was sent.
THEOREM TimeoutOnceAlways == Spec => []TimeoutOnce
<1>1. IInv => TimeoutOnce
  BY DEF IInv, HandleInv, Spent, TimeoutOnce
<1> QED BY <1>1, IInvAlways, PTL
-----------------------------------------------------------------------------
(* Channel implements Attempts: send() begins, a transmission attempts,     *)
(* terminate() cancels what has not expired, and sender()'s decision to     *)
(* report expires; everything else is a stutter.                            *)

\* The refinement mapping, under names.
Statuses == [h \in Handle |-> Status(h)]
Allowed == [h \in Handle |-> IF h < mHandle THEN asked[h] + 1 ELSE 0]

LEMMA ExpiredCount ==
  ASSUME TypeOK, NEW h \in Handle
  PROVE  Expired(h) <=> Expiries(h) > 0
<1>1. timeouts[h] \in Nat
  BY DEF TypeOK
<1> QED BY <1>1 DEF Expired, Expiries, Expiring, Thread

LEMMA ExpiredCountNext ==
  ASSUME TypeOK', NEW h \in Handle
  PROVE  Expired(h)' <=> Expiries(h)' > 0
<1>1. timeouts'[h] \in Nat
  BY DEF TypeOK, Handle
<1> QED BY <1>1 DEF Expired, Expiries, Expiring, Thread

\* A step that leaves the mapped state alone is a stutter.
LEMMA Stutter ==
  ASSUME Statuses' = Statuses, Allowed' = Allowed, sent' = sent
  PROVE  UNCHANGED A!attemptsVars
BY DEF A!attemptsVars, Statuses, Allowed

LEMMA AttemptsInit == Init => A!Init
<1> SUFFICES ASSUME Init PROVE A!Init
  OBVIOUS
<1>1. Statuses = [h \in Handle |-> "unused"]
  BY DEF Init, Statuses, Status, Handle
<1>2. Allowed = [h \in Handle |-> 0]
  BY DEF Init, Allowed, Handle
<1> QED BY <1>1, <1>2 DEF A!Init, Init, Statuses, Allowed
LEMMA SendBegins ==
  ASSUME IInv, NEW r \in RetryChoice, send(r)
  PROVE  A!Begin(mHandle, r + 1)
<1>1. mHandle \in Handle /\ r \in Nat /\ mHandle \in Nat /\ mHandle' = mHandle + 1
  BY ChannelAssumption DEF IInv, TypeOK, send, Handle
<1>2. Statuses[mHandle] = "unused"
  BY <1>1 DEF Statuses, Status
<1>3. ASSUME NEW k \in Handle
      PROVE  Status(k)' = IF k = mHandle THEN "active" ELSE Status(k)
  <2>1. CASE k # mHandle
    <3>1. mTasks'[k] = mTasks[k] /\ pc'[k] = pc[k] /\ timeouts'[k] = timeouts[k]
      BY <2>1 DEF IInv, TypeOK, send
    <3>2. k >= mHandle' <=> k >= mHandle
      BY <1>1, <2>1 DEF Handle
    <3> QED BY <2>1, <3>1, <3>2 DEF Status, Expired
  <2>2. CASE k = mHandle
    <3>1. mTasks'[k] = [tries |-> 0, retries |-> r] /\ pc'[k] = Launched
      BY <2>2 DEF IInv, TypeOK, send
    <3>2. [tries |-> 0, retries |-> r] \in [tries : Nat, retries : Nat]
      BY <1>1
    <3>3. timeouts'[k] = 0
      BY <1>1, <2>2 DEF IInv, HandleInv, Unused, send
    <3>4. ~Expired(k)'
      BY <3>1, <3>3 DEF Expired, Launched, Thread
    <3>5. ~(k >= mHandle') /\ mTasks'[k] # Nil
      BY <1>1, <2>2, <3>1, <3>2, ChannelAssumption
    <3> QED BY <2>2, <3>4, <3>5 DEF Status
  <2> QED BY <2>1, <2>2
<1>4. Statuses' = [Statuses EXCEPT ![mHandle] = "active"]
  BY <1>1, <1>3 DEF Statuses, Handle
<1>5. ASSUME NEW k \in Handle
      PROVE  (IF k < mHandle' THEN asked'[k] + 1 ELSE 0) =
             (IF k = mHandle THEN r + 1 ELSE IF k < mHandle THEN asked[k] + 1 ELSE 0)
  <2>1. CASE k # mHandle
    <3>1. asked'[k] = asked[k]
      BY <2>1 DEF IInv, TypeOK, send
    <3> QED BY <1>1, <2>1, <3>1 DEF Handle
  <2>2. CASE k = mHandle
    BY <1>1, <2>2 DEF IInv, TypeOK, send
  <2> QED BY <2>1, <2>2
<1>6. Allowed' = [Allowed EXCEPT ![mHandle] = r + 1]
  BY <1>1, <1>5 DEF Allowed, Handle
<1> QED BY <1>1, <1>2, <1>4, <1>6 DEF A!Begin, Statuses, Allowed, send

\* A step that gives no handle out leaves the budgets alone.
LEMMA AllowedUnchanged ==
  ASSUME UNCHANGED <<mHandle, asked>>
  PROVE  Allowed' = Allowed
BY DEF Allowed, Handle

LEMMA TerminateCancels ==
  ASSUME IInv, NEW h \in Handle, terminate(h)
  PROVE  A!Cancel(h) \/ UNCHANGED A!attemptsVars
<1>1. h < mHandle /\ ~(h >= mHandle) /\ mTasks'[h] = Nil
  BY DEF IInv, TypeOK, HandleInv, Unused, terminate, Handle
<1>2. ASSUME NEW k \in Handle
      PROVE  Status(k)' = IF k = h /\ ~Expired(h) THEN "cancelled" ELSE Status(k)
  <2>1. Expired(k)' <=> Expired(k)
    BY DEF Expired, terminate
  <2>2. CASE k # h
    <3>1. mTasks'[k] = mTasks[k]
      BY <2>2 DEF IInv, TypeOK, terminate
    <3> QED BY <2>1, <2>2, <3>1 DEF Status, terminate
  <2>3. CASE k = h
    BY <1>1, <2>1, <2>3 DEF Status, terminate
  <2> QED BY <2>2, <2>3
<1>3. Allowed' = Allowed
  BY AllowedUnchanged DEF terminate
<1>4. CASE Expired(h)
  <2>1. Statuses' = Statuses
    BY <1>2, <1>4 DEF Statuses, Handle
  <2> QED BY <1>3, <2>1, Stutter DEF terminate
<1>5. CASE ~Expired(h)
  <2>1. Statuses[h] = "active"
    BY <1>1, <1>5 DEF Statuses, Status, terminate
  <2>2. Statuses' = [Statuses EXCEPT ![h] = "cancelled"]
    BY <1>2, <1>5 DEF Statuses, Handle
  <2> QED BY <1>3, <2>1, <2>2 DEF A!Cancel, Statuses, Allowed, terminate
<1> QED BY <1>4, <1>5
\* A status is kept by a step that neither erases an entry nor expires it.
LEMMA StatusUnchanged ==
  ASSUME mHandle' = mHandle,
         \A k \in Handle : mTasks'[k] = Nil <=> mTasks[k] = Nil,
         \A k \in Handle : Expired(k)' <=> Expired(k)
  PROVE  Statuses' = Statuses
<1>1. ASSUME NEW k \in Handle PROVE Status(k)' = Status(k)
  BY <1>1 DEF Status
<1> QED BY <1>1 DEF Statuses, Handle

LEMMA WakeStutters ==
  ASSUME IInv, NEW h \in Handle, Wake(h)
  PROVE  UNCHANGED A!attemptsVars
<1>1. ASSUME NEW k \in Handle PROVE Expired(k)' <=> Expired(k)
  BY DEF IInv, TypeOK, Wake, Expired, Thread
<1> QED BY <1>1, StatusUnchanged, AllowedUnchanged, Stutter DEF Wake

\* A return from sender() that makes no callback expires nothing.
LEMMA ReturnKeepsExpired ==
  ASSUME IInv, IInv', NEW h \in Handle, NEW t \in Thread, Return(h, t),
         pc[h][t] \in {"sender", "retry"}, timeouts' = timeouts
  PROVE  \A k \in Handle : Expired(k)' <=> Expired(k)
<1> SUFFICES ASSUME NEW k \in Handle PROVE Expired(k)' <=> Expired(k)
  OBVIOUS
<1>1. CASE k = h
  <2>1. Expiries(h)' = Expiries(h)
    BY ReturnCounts DEF Expiries, Expiring, Thread
  <2> QED BY <1>1, <2>1, ExpiredCount, ExpiredCountNext DEF IInv
<1>2. CASE k # h
  BY <1>2 DEF IInv, TypeOK, Return, Expired
<1> QED BY <1>1, <1>2

LEMMA IgnoreStutters ==
  ASSUME IInv, IInv', NEW h \in Handle, NEW t \in Thread, Ignore(h, t)
  PROVE  UNCHANGED A!attemptsVars
<1>1. \A k \in Handle : Expired(k)' <=> Expired(k)
  BY ReturnKeepsExpired DEF Ignore
<1> QED BY <1>1, StatusUnchanged, AllowedUnchanged, Stutter DEF Ignore

LEMMA CallbackStutters ==
  ASSUME IInv, IInv', NEW h \in Handle, NEW t \in Thread, Callback(h, t)
  PROVE  UNCHANGED A!attemptsVars
<1>1. ASSUME NEW k \in Handle PROVE Expired(k)' <=> Expired(k)
  <2>1. CASE k = h
    BY <2>1, CallbackReturns, ExpiredCount, ExpiredCountNext DEF IInv
  <2>2. CASE k # h
    BY <2>2 DEF IInv, TypeOK, Callback, Return, Expired
  <2> QED BY <2>1, <2>2
<1> QED BY <1>1, StatusUnchanged, AllowedUnchanged, Stutter DEF Callback

LEMMA TransmitAttempts ==
  ASSUME IInv, IInv', NEW h \in Handle, NEW t \in Thread, Transmit(h, t)
  PROVE  A!Attempt(h)
<1>1. HandleInv(h) /\ EntryInv(h) /\ pc[h][t] = "sender"
  BY DEF IInv, HandleInv, Transmit
<1>2. h < mHandle /\ ~(h >= mHandle) /\ Expiries(h) \in Nat
  BY <1>1, InUse
<1>3. mTasks[h].tries \in Nat /\ mTasks[h].retries \in Nat
  BY DEF IInv, TypeOK, Transmit
<1>4. ~Expired(h)
  BY <1>1, <1>2, <1>3, ExpiredCount DEF EntryInv, Transmit, IInv
<1>5. Statuses[h] = "active"
  BY <1>2, <1>4 DEF Statuses, Status, Transmit
<1>6. sent[h] < Allowed[h]
  BY <1>1, <1>2, <1>3 DEF Allowed, EntryInv, Transmit
<1>7. \A k \in Handle : Expired(k)' <=> Expired(k)
  <2>1. CASE mTasks[h].tries # 0
    <3>1. pc' = [pc EXCEPT ![h][t] = "retry"]
      BY <2>1 DEF Transmit
    <3> QED BY <1>1, <3>1 DEF IInv, TypeOK, Transmit, Expired
  <2>2. CASE mTasks[h].tries = 0
    BY <1>1, <2>2, ReturnKeepsExpired DEF Transmit
  <2> QED BY <2>1, <2>2
<1>8. ASSUME NEW k \in Handle PROVE mTasks'[k] = Nil <=> mTasks[k] = Nil
  <2>1. CASE k = h
    <3>1. mTasks'[h] = [mTasks[h] EXCEPT !.tries = @ + 1]
      BY DEF IInv, TypeOK, Transmit
    <3>2. mTasks'[h] \in [tries : Nat, retries : Nat]
      BY <3>1 DEF IInv, TypeOK, Transmit
    <3> QED BY <2>1, <3>2, ChannelAssumption DEF Transmit
  <2>2. CASE k # h
    BY <2>2 DEF IInv, TypeOK, Transmit
  <2> QED BY <2>1, <2>2
<1>9. Statuses' = Statuses
  BY <1>7, <1>8, StatusUnchanged DEF Transmit
<1>10. Allowed' = Allowed
  BY AllowedUnchanged DEF Transmit
<1> QED BY <1>5, <1>6, <1>9, <1>10 DEF A!Attempt, Statuses, Allowed, Transmit

LEMMA ExpireExpires ==
  ASSUME IInv, IInv', NEW h \in Handle, NEW t \in Thread, Expire(h, t)
  PROVE  A!Expire(h)
<1>1. HandleInv(h) /\ EntryInv(h) /\ pc[h][t] = "sender"
  BY DEF IInv, HandleInv, Expire
<1>2. /\ h < mHandle /\ ~(h >= mHandle) /\ Expiries(h) \in Nat
      /\ CallerCalls(h) \in Nat /\ TimerCalls(h) \in Nat
  BY <1>1, InUse
<1>3. mTasks[h].tries \in Nat /\ mTasks[h].retries \in Nat
  BY DEF IInv, TypeOK, Expire
<1>4. mTasks[h].tries = mTasks[h].retries + 1
  BY <1>1, <1>3 DEF EntryInv, Expire
<1>5. CallerCalls(h) + TimerCalls(h) >= 1
  BY <1>1, <1>2 DEF HandleInv, CallerCalls, TimerCalls, IInv, TypeOK, Thread
<1>6. ~Expired(h)
  BY <1>1, <1>2, <1>3, <1>4, <1>5, ExpiredCount DEF EntryInv, IInv
<1>7. Statuses[h] = "active"
  BY <1>2, <1>6 DEF Statuses, Status, Expire
<1>8. sent[h] = Allowed[h] /\ Allowed[h] > 1
  BY <1>1, <1>2, <1>3, <1>4 DEF Allowed, EntryInv, Expire
<1>9. ASSUME NEW k \in Handle
      PROVE  Status(k)' = IF k = h THEN "expired" ELSE Status(k)
  <2>1. CASE k = h
    <3>1. Expired(h)'
      BY DEF IInv, TypeOK, Expire, Expired, Handle, Thread
    <3> QED BY <1>2, <2>1, <3>1 DEF Status, Expire
  <2>2. CASE k # h
    BY <2>2 DEF IInv, TypeOK, Expire, Expired, Status
  <2> QED BY <2>1, <2>2
<1>10. Statuses' = [Statuses EXCEPT ![h] = "expired"]
  BY <1>9 DEF Statuses, Handle
<1>11. Allowed' = Allowed
  BY AllowedUnchanged DEF Expire
<1> QED BY <1>7, <1>8, <1>10, <1>11 DEF A!Expire, Statuses, Allowed, Expire

LEMMA AttemptsNext ==
  ASSUME IInv, IInv', [Next]_vars
  PROVE  [A!Next]_A!attemptsVars
<1>1. ASSUME NEW r \in RetryChoice, send(r) PROVE A!Next
  <2>1. mHandle \in Handle
    BY <1>1 DEF IInv, TypeOK, send, Handle
  <2> QED BY <1>1, <2>1, SendBegins DEF A!Next
<1>2. ASSUME NEW h \in Handle, terminate(h) PROVE [A!Next]_A!attemptsVars
  BY <1>2, TerminateCancels DEF A!Next
<1>3. ASSUME NEW h \in Handle, Wake(h) PROVE [A!Next]_A!attemptsVars
  BY <1>3, WakeStutters
<1>4. ASSUME NEW h \in Handle, NEW t \in Thread, sender(h, t)
      PROVE  [A!Next]_A!attemptsVars
  BY <1>4, IgnoreStutters, TransmitAttempts, ExpireExpires, CallbackStutters
  DEF sender, A!Next
<1>5. ASSUME UNCHANGED vars PROVE UNCHANGED A!attemptsVars
  BY <1>5, StatusUnchanged, AllowedUnchanged, Stutter DEF vars, Expired
<1> QED BY <1>1, <1>2, <1>3, <1>4, <1>5 DEF Next

\* Channel::send keeps the promise of Attempts for any number of entries: at
\* most 1 + retries datagrams, none after terminate(), and a timeout only after
\* the last of them, for an entry that was given retries.
THEOREM ChannelImplementsAttempts == Spec => ImplementsAttempts
BY AttemptsInit, AttemptsNext, IInvAlways, PTL
DEF ImplementsAttempts, A!Spec, Spec

=============================================================================
