--------------------------- MODULE TransferProofs ---------------------------
(***************************************************************************)
(* Theorems about Transfer, for any clients, files, blocks, windows and    *)
(* retries: its types; that the server gives up no packet of a client's    *)
(* first download before the client has the block; that no client waits    *)
(* there for an answer unwatched; that no more than MaxWindow packets are  *)
(* outstanding; on a reliable network and when no file is missing, that a  *)
(* download that finishes has the file; and, on any network but for        *)
(* clients that download once and files that do not change, that the       *)
(* server caches true digests, that no error is false, and that the        *)
(* transfer implements Delivery.                                           *)
(*                                                                         *)
(* The argument for the second: an acknowledgement of a block is sent only *)
(* when the client has the block, what it has it keeps until it opens the  *)
(* destination of another download, and until a second download there is   *)
(* no acknowledgement in flight that was not sent in the first.            *)
(*                                                                         *)
(* The argument for a finish: what the server has read and what it has     *)
(* cached are the blocks of one file in order, on any network.  On a       *)
(* reliable one at most one question or verdict on a client's file is      *)
(* under way, it is about what the client has written, and no retry of the *)
(* client ever runs out, since an answer it waits for is under way or in   *)
(* its queue.                                                              *)
(*                                                                         *)
(* The argument for Delivery: whatever is repeated, late or out of order,  *)
(* every datagram to and from a client that downloads once, and every one  *)
(* its timers may send again, is about the file it asked for, and says     *)
(* what is true of that file.                                              *)
(***************************************************************************)
EXTENDS Transfer, TLAPS, FiniteSetTheorems, SequenceTheorems, WellFoundedInduction

\* Before its first block arrives, a client in its first download has none.
Opening == {"Query", "Size", "Get", "Start"}

\* What the timers of client c repeat, which it has sent in some download.
RequestInv(c) ==
  \A h \in Handle :
    requests[c][h] # Nil =>
      /\ requests[c][h].message.type # "Acknowledge"
      /\ requests[c][h].message.client = c
      /\ downloads[c] >= 1

ClientInv(c) ==
  /\ RequestInv(c)
  /\ mState[c] # "Idle" => mFile[c] \in File
  /\ mState[c] = "Error" => mProtocols[c] # <<>>
  /\ mState[c] = "Acknowledge" => mBlock[c] \in BlockId /\ Has(c, mBlock[c])
  /\ downloads[c] <= 1 /\ mState[c] \in Opening => mNext[c] = 0
  /\ downloads[c] = 0 => mState[c] = "Idle" /\ mNext[c] = 0

\* The server's task t: what it has read, sent and still repeats.
TaskInv(t) ==
  /\ Len(t.checksum) = t.next
  /\ t.next <= Blocks[t.path]
  /\ \A b \in BlockId : t.packets[b] > 0 => b < t.next
  /\ Cardinality(Outstanding(t)) <= MaxWindow

\* Nobody hears from a client that has not asked for anything.
MessageInv(m) ==
  /\ m.type \in {"Get", "Acknowledge"} => downloads[m.client] >= 1
  /\ m.type = "Acknowledge" /\ downloads[m.client] = 1 => Has(m.client, m.block)

IInv ==
  /\ TypeOK
  /\ \A c \in Client : ClientInv(c)
  /\ \A c \in Client : mTasks[c] # Nil => TaskInv(mTasks[c]) /\ downloads[c] >= 1
  /\ \A m \in net : MessageInv(m)
  /\ AckedIsReceived
-----------------------------------------------------------------------------
(* Operators. *)

Less == {p \in Nat \X Nat : p[1] < p[2]}

\* A nonempty set of naturals has a least element, which is its Min.
LEMMA MinNat ==
  ASSUME NEW S \in SUBSET Nat, S # {}
  PROVE  Min(S) \in S /\ \A y \in S : Min(S) <= y
<1>1. IsWellFoundedOn(Less, Nat)
  BY NatLessThanWellFounded DEF OpToRel, Less
<1>2. PICK x \in S : \A y \in S : ~(<<y, x>> \in Less)
  BY <1>1, WFMin, Zenon
<1>3. ASSUME NEW y \in S PROVE x <= y
  <2>1. x \in Nat /\ y \in Nat
    OBVIOUS
  <2>2. <<y, x>> \in Less <=> y < x
    BY <2>1 DEF Less
  <2> QED BY <1>2, <2>1, <2>2
<1> QED BY <1>3 DEF Min

LEMMA MinPair ==
  ASSUME NEW i \in Int, NEW j \in Int
  PROVE  Min({i, j}) = IF i <= j THEN i ELSE j
<1>1. \E x \in {i, j} : \A y \in {i, j} : x <= y
  OBVIOUS
<1> QED BY <1>1 DEF Min

LEMMA MaxPair ==
  ASSUME NEW i \in Int, NEW j \in Int
  PROVE  Max({i, j}) = IF i >= j THEN i ELSE j
<1>1. \E x \in {i, j} : \A y \in {i, j} : x >= y
  OBVIOUS
<1> QED BY <1>1 DEF Max

LEMMA FunctionIsSeq ==
  ASSUME NEW S, NEW n \in Nat, NEW f \in [1..n -> S]
  PROVE  f \in Seq(S) /\ Len(f) = n
<1>1. f \in Seq(S)
  BY SeqDef, Zenon
<1> QED BY <1>1, LenProperties

\* Client::data writes from block n up to the first missing one: every block it
\* passes is in the cache.
LEMMA FlushEndProperties ==
  ASSUME NEW cache, NEW n \in 0..MaxBlocks
  PROVE  /\ FlushEnd(cache, n) \in n..MaxBlocks
         /\ \A k \in n..(FlushEnd(cache, n) - 1) : cache[k] # Nil
<1> DEFINE S == {k \in n..MaxBlocks : k = MaxBlocks \/ cache[k] = Nil}
<1>1. MaxBlocks \in Nat
  BY FileAssumption
<1>2. S \in SUBSET Nat /\ MaxBlocks \in S
  BY <1>1
<1>3. FlushEnd(cache, n) \in S /\ \A y \in S : FlushEnd(cache, n) <= y
  BY <1>2, MinNat DEF FlushEnd
<1>4. ASSUME NEW k \in n..(FlushEnd(cache, n) - 1) PROVE cache[k] # Nil
  <2>1. k \in n..MaxBlocks /\ ~(FlushEnd(cache, n) <= k)
    BY <1>1, <1>3
  <2> QED BY <1>3, <2>1
<1> QED BY <1>3, <1>4

\* wait() stops at a message of the queue that is of use to it.
LEMMA FirstProperties ==
  ASSUME ClientTypeOK, NEW c \in Client, Matches(c) # {}
  PROVE  /\ First(c) \in 1..Len(mProtocols[c])
         /\ Found(c) \in ToClient
         /\ Found(c).type \in {mState[c], "Error"}
<1>1. mProtocols[c] \in Seq(ToClient)
  BY DEF ClientTypeOK
<1>2. Matches(c) \in SUBSET Nat /\ Matches(c) \subseteq 1..Len(mProtocols[c])
  BY <1>1, LenProperties DEF Matches
<1>3. First(c) \in Matches(c)
  BY <1>2, MinNat DEF First
<1> QED BY <1>1, <1>2, <1>3, ElementOfSeq DEF Found, Matches

\* What is left of a queue is a queue of the same messages.
LEMMA FromType ==
  ASSUME ClientTypeOK, NEW c \in Client, NEW i \in 1..(Len(mProtocols[c]) + 1)
  PROVE  /\ From(c, i) \in Seq(ToClient)
         /\ Len(From(c, i)) = Len(mProtocols[c]) + 1 - i
<1>1. mProtocols[c] \in Seq(ToClient) /\ Len(mProtocols[c]) \in Nat
  BY DEF ClientTypeOK
<1> QED BY <1>1, SubSeqProperties DEF From

LEMMA GrownType ==
  ASSUME NEW w \in 1..MaxWindow
  PROVE  Grown(w) \in 1..MaxWindow
<1>1. SlowStart \in Nat /\ SlowStart >= 1 /\ MaxWindow \in Nat /\ SlowStart <= MaxWindow
  BY WindowAssumption
<1>2. CASE w < SlowStart
  <2>1. Min({2 * w, SlowStart}) = IF 2 * w <= SlowStart THEN 2 * w ELSE SlowStart
    BY <1>1, MinPair
  <2> QED BY <1>1, <1>2, <2>1 DEF Grown
<1>3. CASE ~(w < SlowStart)
  BY <1>1, <1>3 DEF Grown
<1> QED BY <1>2, <1>3

LEMMA HalvedType ==
  ASSUME NEW w \in 1..MaxWindow
  PROVE  Max({w \div 2, 1}) \in 1..MaxWindow
<1>1. MaxWindow \in Nat
  BY WindowAssumption
<1>2. w \div 2 \in Int /\ w \div 2 <= w
  BY <1>1
<1>3. Max({w \div 2, 1}) = IF w \div 2 >= 1 THEN w \div 2 ELSE 1
  BY <1>2, MaxPair
<1> QED BY <1>1, <1>2, <1>3
-----------------------------------------------------------------------------
(* Types of the network and of the client. *)

LEMMA RequestTypes ==
  ASSUME NEW c \in Client, NEW f \in File
  PROVE  /\ QueryMsg(c, f) \in ToServer /\ GetMsg(c, f) \in ToServer
         /\ \A b \in BlockId : AcknowledgeMsg(c, f, b) \in ToServer
         /\ \A d \in Seq(Content) : ChecksumMsg(c, f, d) \in ToServer
<1>1. QueryMsg(c, f) \in ToServer /\ GetMsg(c, f) \in ToServer
  BY DEF QueryMsg, GetMsg, ToServer
<1>2. \A b \in BlockId : AcknowledgeMsg(c, f, b) \in ToServer
  BY DEF AcknowledgeMsg, ToServer
<1>3. \A d \in Seq(Content) : ChecksumMsg(c, f, d) \in ToServer
  BY DEF ChecksumMsg, ToServer
<1> QED BY <1>1, <1>2, <1>3

LEMMA ReplyTypes ==
  ASSUME NEW c \in Client, NEW f \in File
  PROVE  /\ SizeMsg(c, f) \in ToClient /\ StartMsg(c, f) \in ToClient
         /\ ConfirmMsg(c, f) \in ToClient /\ ErrorMsg(c, f) \in ToClient
         /\ \A b \in BlockId, d \in Content : DataMsg(c, f, b, d) \in ToClient
<1>1. SizeMsg(c, f) \in ToClient
  BY FileAssumption DEF SizeMsg, ToClient
<1>2. /\ StartMsg(c, f) \in ToClient /\ ConfirmMsg(c, f) \in ToClient
      /\ ErrorMsg(c, f) \in ToClient
  BY DEF StartMsg, ConfirmMsg, ErrorMsg, ToClient
<1>3. \A b \in BlockId, d \in Content : DataMsg(c, f, b, d) \in ToClient
  BY DEF DataMsg, ToClient
<1> QED BY <1>1, <1>2, <1>3

\* What a message of each kind carries.
LEMMA MessageFields ==
  ASSUME NEW m \in ToServer \cup ToClient
  PROVE  /\ m.client \in Client /\ m.path \in File
         /\ m.type \in Reply => m \in ToClient
         /\ m.type \in Request => m \in ToServer
         /\ m.type = "Size" => m.size \in 0..MaxBlocks
         /\ m.type = "Data" => m.block \in BlockId /\ m.data \in Content
         /\ m.type = "Acknowledge" => m.block \in BlockId
         /\ m.type = "Checksum" => m.digest \in Seq(Content)
<1>1. CASE m \in ToServer
  BY <1>1 DEF ToServer, Request, Reply
<1>2. CASE m \in ToClient
  BY <1>2 DEF ToClient, Request, Reply
<1> QED BY <1>1, <1>2

LEMMA SendType ==
  ASSUME NetworkTypeOK, NEW ms \in SUBSET (ToServer \cup ToClient), Send(ms)
  PROVE  NetworkTypeOK'
BY DEF NetworkTypeOK, Send, ToServer, ToClient, Content, BlockId, Version

LEMMA ReceiveType ==
  ASSUME NetworkTypeOK, NEW m, NEW ms \in SUBSET (ToServer \cup ToClient),
         Receive(m, ms)
  PROVE  NetworkTypeOK' /\ m \in ToServer \cup ToClient
<1>1. m \in net /\ net' \subseteq net \cup ms
  BY DEF Receive
<1>2. \A n \in net' : n \in ToServer \cup ToClient
  BY <1>1 DEF NetworkTypeOK
<1>3. (ToServer \cup ToClient)' = ToServer \cup ToClient
  BY DEF ToServer, ToClient, Content, BlockId, Version
<1> QED BY <1>1, <1>2, <1>3 DEF NetworkTypeOK

LEMMA ClientTypeInit == Init => ClientTypeOK
<1> SUFFICES ASSUME Init PROVE ClientTypeOK
  OBVIOUS
<1>1. 0 \in 0..MaxBlocks /\ 0 \in 0..MaxDownloads
  BY FileAssumption, ClientAssumption
<1>2. EmptyCache \in [BlockId -> Content \cup {Nil}]
  BY DEF EmptyCache
<1>3. <<>> \in Seq(Content) /\ <<>> \in Seq(ToClient)
  BY EmptySeq
<1>4. /\ requests \in [Client -> [Handle -> Entry \cup {Nil}]]
      /\ onTimeouts \in [Client -> [Step -> Nat]]
  BY DEF Init, ClientInit
<1> QED BY <1>1, <1>2, <1>3, <1>4 DEF Init, ClientInit, ClientTypeOK, State

LEMMA DownloadType ==
  ASSUME ClientTypeOK, NEW c \in Client, NEW f \in File, Download(c, f)
  PROVE  ClientTypeOK'
BY ClientAssumption, EmptySeq
DEF ClientTypeOK, Download, Goto, State, EmptyCache, channelVars

LEMMA AsksType ==
  ASSUME ClientTypeOK, NEW c \in Client, NEW s, NEW m \in ToServer,
         NEW t \in State, Asks(c, s, m, t)
  PROVE  ClientTypeOK'
<1>1. [message |-> m, tries |-> 1] \in Entry
  BY ChannelAssumption DEF Entry
<1>2. PICK h \in Handle :
        /\ requests' = [requests EXCEPT ![c][h] = [message |-> m, tries |-> 1]]
        /\ mHandle' = [mHandle EXCEPT ![c] = h]
  BY DEF Asks
<1>3. requests' \in [Client -> [Handle -> Entry \cup {Nil}]]
  BY <1>1, <1>2 DEF ClientTypeOK
<1>4. mHandle' \in [Client -> Handle \cup {0}]
  BY <1>2 DEF ClientTypeOK
<1> QED BY <1>3, <1>4 DEF ClientTypeOK, Asks, Goto

\* Channel::terminate leaves entries as they are, or none.
LEMMA TerminateType ==
  ASSUME ClientTypeOK, NEW c \in Client, TerminateHandle(c)
  PROVE  /\ requests' \in [Client -> [Handle -> Entry \cup {Nil}]]
         /\ \A d \in Client \ {c} : requests'[d] = requests[d]
         /\ \A h \in Handle : requests'[c][h] \in {requests[c][h], Nil}
         /\ \A h \in Handle : requests'[c][h] # Nil => h # mHandle[c]
BY DEF ClientTypeOK, TerminateHandle

\* A message taken from the queue leaves a queue and terminates a request.
LEMMA TakesType ==
  ASSUME ClientTypeOK, NEW c \in Client, NEW t, Takes(c, t), Pop(c)
  PROVE  /\ requests' \in [Client -> [Handle -> Entry \cup {Nil}]]
         /\ asleep' = asleep /\ mHandle' = mHandle /\ onTimeouts' = onTimeouts
         /\ mProtocols' \in [Client -> Seq(ToClient)]
         /\ Found(c) \in ToClient /\ Found(c).type = t
<1>1. requests' \in [Client -> [Handle -> Entry \cup {Nil}]]
  BY TerminateType DEF Takes
<1>2. First(c) \in 1..Len(mProtocols[c]) /\ Found(c) \in ToClient
  BY FirstProperties DEF Takes
<1>3. mProtocols[c] \in Seq(ToClient) /\ Len(mProtocols[c]) \in Nat
  BY DEF ClientTypeOK
<1>4. From(c, First(c) + 1) \in Seq(ToClient)
  BY <1>2, <1>3, FromType
<1> QED BY <1>1, <1>2, <1>4 DEF ClientTypeOK, Takes, Pop

LEMMA SizeType ==
  ASSUME ClientTypeOK, NEW c \in Client, size(c)
  PROVE  ClientTypeOK'
<1>1. /\ requests' \in [Client -> [Handle -> Entry \cup {Nil}]]
      /\ asleep' = asleep /\ mHandle' = mHandle /\ onTimeouts' = onTimeouts
      /\ mProtocols' \in [Client -> Seq(ToClient)]
      /\ Found(c) \in ToClient /\ Found(c).type = "Size"
  BY TakesType DEF size
<1>2. Found(c).size \in 0..MaxBlocks
  BY <1>1, MessageFields
<1> QED BY <1>1, <1>2 DEF ClientTypeOK, size, Goto, State

LEMMA StartType ==
  ASSUME ClientTypeOK, NEW c \in Client, start(c)
  PROVE  ClientTypeOK'
<1>1. /\ requests' \in [Client -> [Handle -> Entry \cup {Nil}]]
      /\ asleep' = asleep /\ mHandle' = mHandle /\ onTimeouts' = onTimeouts
      /\ mProtocols' \in [Client -> Seq(ToClient)]
  BY TakesType DEF start
<1>2. mState' \in [Client -> State]
  BY DEF ClientTypeOK, start, Goto, State, Waiting
<1>3. outcome' \in [Client -> SUBSET {"finished", "failed"}]
  <2>1. CASE UNCHANGED outcome
    BY <2>1 DEF ClientTypeOK
  <2>2. CASE Calls(c, "failed")
    BY <2>2 DEF ClientTypeOK, Calls
  <2> QED BY <2>1, <2>2 DEF start
<1>4. mNext' \in [Client -> 0..MaxBlocks] /\ mBlock' \in [Client -> BlockId \cup {0}]
  BY FileAssumption DEF ClientTypeOK, start
<1>5. mOutput' \in [Client -> Seq(Content)]
  BY EmptySeq DEF ClientTypeOK, start
<1> QED BY <1>1, <1>2, <1>3, <1>4, <1>5 DEF ClientTypeOK, start

LEMMA DuplicateType ==
  ASSUME ClientTypeOK, NEW c \in Client, Duplicate(c)
  PROVE  ClientTypeOK' /\ Found(c).block \in BlockId
<1>1. /\ requests' \in [Client -> [Handle -> Entry \cup {Nil}]]
      /\ asleep' = asleep /\ mHandle' = mHandle /\ onTimeouts' = onTimeouts
      /\ mProtocols' \in [Client -> Seq(ToClient)]
      /\ Found(c) \in ToClient /\ Found(c).type = "Data"
  BY TakesType DEF Duplicate
<1>2. Found(c).block \in BlockId
  BY <1>1, MessageFields
<1> QED BY <1>1, <1>2 DEF ClientTypeOK, Duplicate, Goto, State

\* The blocks data() writes are contents, since it stops at the first gap.
LEMMA DataType ==
  ASSUME ClientTypeOK, NEW c \in Client, data(c)
  PROVE  ClientTypeOK' /\ Found(c).block \in BlockId /\ Found(c).data \in Content
<1> DEFINE cached == [mCache[c] EXCEPT ![Found(c).block] = Found(c).data]
           end    == FlushEnd(cached, mNext[c])
           run    == [i \in 1..(end - mNext[c]) |-> cached[mNext[c] + i - 1]]
<1>1. /\ requests' \in [Client -> [Handle -> Entry \cup {Nil}]]
      /\ asleep' = asleep /\ mHandle' = mHandle /\ onTimeouts' = onTimeouts
      /\ mProtocols' \in [Client -> Seq(ToClient)]
      /\ Found(c) \in ToClient /\ Found(c).type = "Data"
  BY TakesType DEF data
<1>2. Found(c).block \in BlockId /\ Found(c).data \in Content
  BY <1>1, MessageFields
<1>3. cached \in [BlockId -> Content \cup {Nil}]
  BY <1>2 DEF ClientTypeOK
<1>4. /\ mNext[c] \in 0..MaxBlocks /\ end \in mNext[c]..MaxBlocks
      /\ \A k \in mNext[c]..(end - 1) : cached[k] # Nil
  BY FlushEndProperties DEF ClientTypeOK
<1>5. MaxBlocks \in Nat /\ mNext[c] \in Nat /\ end \in Nat
  BY <1>4, FileAssumption
<1>6. run \in Seq(Content)
  <2>1. ASSUME NEW i \in 1..(end - mNext[c]) PROVE cached[mNext[c] + i - 1] \in Content
    <3>1. mNext[c] + i - 1 \in mNext[c]..(end - 1) /\ mNext[c] + i - 1 \in BlockId
      BY <1>4, <1>5 DEF BlockId
    <3> QED BY <1>3, <1>4, <3>1
  <2>2. run \in [1..(end - mNext[c]) -> Content]
    BY <2>1
  <2>3. end - mNext[c] \in Nat
    BY <1>4, <1>5
  <2> HIDE DEF run
  <2> QED BY <2>2, <2>3, FunctionIsSeq
<1>7. mOutput' \in [Client -> Seq(Content)]
  <2>1. mOutput[c] \o run \in Seq(Content)
    BY <1>6, ConcatProperties DEF ClientTypeOK
  <2>2. mOutput' = [mOutput EXCEPT ![c] = @ \o run]
    BY DEF data
  <2> QED BY <2>1, <2>2 DEF ClientTypeOK
<1>8. mCache' \in [Client -> [BlockId -> Content \cup {Nil}]]
  <2>1. mCache' = [mCache EXCEPT ![c] = [b \in BlockId |-> IF b < end THEN Nil ELSE cached[b]]]
    BY DEF data
  <2> QED BY <1>3, <2>1 DEF ClientTypeOK
<1>9. mNext' \in [Client -> 0..MaxBlocks]
  <2>1. mNext' = [mNext EXCEPT ![c] = end]
    BY DEF data
  <2> QED BY <1>4, <1>5, <2>1 DEF ClientTypeOK
<1> QED BY <1>1, <1>2, <1>7, <1>8, <1>9 DEF ClientTypeOK, data, Goto, State

LEMMA AcknowledgeType ==
  ASSUME ClientTypeOK, NEW c \in Client, acknowledge(c)
  PROVE  ClientTypeOK'
BY DEF ClientTypeOK, acknowledge, Goto, State, Waiting

LEMMA ConfirmType ==
  ASSUME ClientTypeOK, NEW c \in Client, confirm(c)
  PROVE  ClientTypeOK'
<1>1. First(c) \in 1..Len(mProtocols[c])
  BY FirstProperties DEF confirm, Takes
<1>2. Len(mProtocols[c]) \in Nat
  BY DEF ClientTypeOK
<1>3. From(c, First(c)) \in Seq(ToClient)
  BY <1>1, <1>2, FromType
<1>4. requests' \in [Client -> [Handle -> Entry \cup {Nil}]]
  BY TerminateType DEF confirm, Takes
<1> QED BY <1>3, <1>4 DEF ClientTypeOK, confirm, Takes, Goto, Calls, State

LEMMA WaitErrorType ==
  ASSUME ClientTypeOK, NEW c \in Client, WaitError(c)
  PROVE  ClientTypeOK' /\ mProtocols'[c] # <<>>
<1>1. First(c) \in 1..Len(mProtocols[c])
  BY FirstProperties DEF WaitError
<1>2. mProtocols[c] \in Seq(ToClient) /\ Len(mProtocols[c]) \in Nat
  BY DEF ClientTypeOK
<1>3. From(c, First(c)) \in Seq(ToClient) /\ Len(From(c, First(c))) >= 1
  BY <1>1, <1>2, FromType
<1>4. requests' \in [Client -> [Handle -> Entry \cup {Nil}]]
  BY TerminateType DEF WaitError
<1>5. mProtocols'[c] = From(c, First(c)) /\ mProtocols'[c] # <<>>
  BY <1>3, EmptySeq DEF ClientTypeOK, WaitError
<1> QED BY <1>3, <1>4, <1>5 DEF ClientTypeOK, WaitError, Goto, State

LEMMA DiscardType ==
  ASSUME ClientTypeOK, NEW c \in Client, Discard(c)
  PROVE  ClientTypeOK'
BY EmptySeq DEF ClientTypeOK, Discard, channelVars

LEMMA ErrorType ==
  ASSUME ClientTypeOK, NEW c \in Client, ClientInv(c), error(c)
  PROVE  ClientTypeOK'
<1>1. mProtocols[c] # <<>> /\ mProtocols[c] \in Seq(ToClient)
  BY DEF ClientTypeOK, ClientInv, error
<1>2. Tail(mProtocols[c]) \in Seq(ToClient)
  BY <1>1, HeadTailProperties
<1> QED BY <1>2 DEF ClientTypeOK, error, Goto, Calls, State, channelVars

LEMMA OnReceiveType ==
  ASSUME NetworkTypeOK, ClientTypeOK, NEW m \in net, onReceive(m)
  PROVE  NetworkTypeOK' /\ ClientTypeOK'
<1>1. m \in ToServer \cup ToClient
  BY DEF NetworkTypeOK
<1>2. m \in ToClient /\ m.client \in Client
  BY <1>1, MessageFields DEF onReceive
<1>3. NetworkTypeOK'
  BY ReceiveType DEF onReceive
<1>4. Append(mProtocols[m.client], m) \in Seq(ToClient)
  BY <1>2, AppendProperties DEF ClientTypeOK
<1>5. mProtocols' \in [Client -> Seq(ToClient)]
  BY <1>2, <1>4 DEF ClientTypeOK, onReceive
<1> QED BY <1>3, <1>5 DEF ClientTypeOK, onReceive, Notify, channelVars

LEMMA NetUnchangedType ==
  ASSUME NetworkTypeOK, net' = net
  PROVE  NetworkTypeOK'
BY DEF NetworkTypeOK, ToServer, ToClient, Content, BlockId, Version

LEMMA EntryFields ==
  ASSUME ClientTypeOK, NEW c \in Client, NEW h \in Handle, requests[c][h] # Nil
  PROVE  /\ requests[c][h] \in Entry
         /\ requests[c][h].message \in ToServer
         /\ requests[c][h].tries \in 1..(Retries + 1)
BY DEF ClientTypeOK, Entry

LEMMA ClientTimerType ==
  ASSUME NetworkTypeOK, ClientTypeOK, NEW c \in Client, NEW h \in Handle,
         ClientTimer(c, h)
  PROVE  NetworkTypeOK' /\ ClientTypeOK'
<1>1. requests[c][h] # Nil
  BY DEF ClientTimer, ClientRetry, ClientExpire
<1>2. CASE ClientRetry(c, h)
  <2>1. /\ requests[c][h] \in Entry /\ requests[c][h].message \in ToServer
        /\ requests[c][h].tries \in 1..Retries /\ Retries \in Nat
    BY <1>1, <1>2, EntryFields, ChannelAssumption DEF ClientRetry
  <2>2. [requests[c][h] EXCEPT !.tries = @ + 1] \in Entry
    BY <2>1 DEF Entry
  <2>3. requests' = [requests EXCEPT ![c] =
                       [@ EXCEPT ![h] = [requests[c][h] EXCEPT !.tries = @ + 1]]]
    BY <1>2 DEF ClientRetry, ClientTypeOK
  <2>4. requests' \in [Client -> [Handle -> Entry \cup {Nil}]]
    BY <2>2, <2>3 DEF ClientTypeOK
  <2>5. NetworkTypeOK'
    <3>1. {requests[c][h].message} \in SUBSET (ToServer \cup ToClient)
      BY <2>1
    <3> QED BY <1>2, <3>1, SendType DEF ClientRetry
  <2> QED BY <1>2, <2>4, <2>5 DEF ClientTypeOK, ClientRetry
<1>3. CASE ClientExpire(c, h)
  <2>1. requests' \in [Client -> [Handle -> Entry \cup {Nil}]]
    BY <1>3 DEF ClientTypeOK, ClientExpire
  <2>2. onTimeouts' \in [Client -> [Step -> Nat]]
    BY <1>3 DEF ClientTypeOK, ClientExpire, Step
  <2> QED BY <1>3, <2>1, <2>2, NetUnchangedType DEF ClientTypeOK, ClientExpire
<1> QED BY <1>2, <1>3 DEF ClientTimer

LEMMA TimeoutType ==
  ASSUME NetworkTypeOK, ClientTypeOK, NEW c \in Client, TimeoutStep(c)
  PROVE  NetworkTypeOK' /\ ClientTypeOK'
<1>1. ASSUME NEW s \in Step, NEW t \in Step, Proceeds(c, s, t)
      PROVE  onTimeouts' \in [Client -> [Step -> Nat]] /\ net' = net
  <2>1. onTimeouts[c] \in [Step -> Nat] /\ onTimeouts[c][s] - 1 \in Nat
    BY <1>1 DEF ClientTypeOK, Proceeds
  <2> DEFINE once == [onTimeouts[c] EXCEPT ![s] = @ - 1]
  <2>2. once \in [Step -> Nat] /\ once[t] + 1 \in Nat
    BY <2>1
  <2>3. [once EXCEPT ![t] = @ + 1] \in [Step -> Nat]
    BY <2>2
  <2>4. onTimeouts' = [onTimeouts EXCEPT ![c] = [once EXCEPT ![t] = @ + 1]]
    BY <1>1, <2>1 DEF Proceeds, ClientTypeOK
  <2>5. onTimeouts \in [Client -> [Step -> Nat]]
    BY DEF ClientTypeOK
  <2>6. net' = net
    BY <1>1 DEF Proceeds
  <2> HIDE DEF once
  <2> QED BY <2>3, <2>4, <2>5, <2>6
<1>2. CASE TimeoutReport(c)
  BY <1>1, <1>2, NetUnchangedType DEF ClientTypeOK, TimeoutReport, Proceeds, Calls, Step
<1>3. CASE TimeoutTerminate(c)
  BY <1>1, <1>3, NetUnchangedType, TerminateType
  DEF ClientTypeOK, TimeoutTerminate, Proceeds, Step
<1>4. CASE TimeoutStop(c)
  BY <1>1, <1>4, NetUnchangedType
  DEF ClientTypeOK, TimeoutStop, Proceeds, Goto, State, Step
<1>5. CASE TimeoutNotify(c)
  <2>1. onTimeouts[c]["notify"] - 1 \in Nat
    BY <1>5 DEF ClientTypeOK, TimeoutNotify, Step
  <2>2. onTimeouts' \in [Client -> [Step -> Nat]]
    BY <1>5, <2>1 DEF ClientTypeOK, TimeoutNotify
  <2> QED BY <1>5, <2>2, NetUnchangedType DEF ClientTypeOK, TimeoutNotify, Notify
<1> QED BY <1>2, <1>3, <1>4, <1>5 DEF TimeoutStep

LEMMA WakeType ==
  ASSUME NetworkTypeOK, ClientTypeOK, NEW c \in Client, Wake(c)
  PROVE  NetworkTypeOK' /\ ClientTypeOK'
BY NetUnchangedType DEF ClientTypeOK, Wake, Notify, channelVars

LEMMA DispatchType ==
  ASSUME NetworkTypeOK, ClientTypeOK, NEW c \in Client, ClientInv(c), DispatchStep(c)
  PROVE  NetworkTypeOK' /\ ClientTypeOK'
<1>1. ASSUME NEW s, NEW t \in State, NEW m \in ToServer, Asks(c, s, m, t)
      PROVE  NetworkTypeOK' /\ ClientTypeOK'
  <2>1. {m} \in SUBSET (ToServer \cup ToClient)
    OBVIOUS
  <2> QED BY <1>1, <2>1, SendType, AsksType DEF Asks
<1>2. CASE query(c)
  BY <1>1, <1>2, RequestTypes DEF query, Asks, ClientInv, State, Waiting
<1>3. CASE get(c)
  BY <1>1, <1>3, RequestTypes DEF get, Asks, ClientInv, State, Waiting
<1>4. CASE checksum(c)
  BY <1>1, <1>4, RequestTypes DEF checksum, Asks, ClientInv, ClientTypeOK, State, Waiting
<1>5. CASE acknowledge(c)
  <2>1. {AcknowledgeMsg(c, mFile[c], mBlock[c])} \in SUBSET (ToServer \cup ToClient)
    BY <1>5, RequestTypes DEF acknowledge, ClientInv
  <2> QED BY <1>5, <2>1, SendType, AcknowledgeType DEF acknowledge
<1>6. CASE size(c)
  BY <1>6, SizeType, NetUnchangedType DEF size
<1>7. CASE start(c)
  BY <1>7, StartType, NetUnchangedType DEF start
<1>8. CASE data(c)
  BY <1>8, DataType, NetUnchangedType DEF data
<1>9. CASE Duplicate(c)
  BY <1>9, DuplicateType, NetUnchangedType DEF Duplicate
<1>10. CASE confirm(c)
  BY <1>10, ConfirmType, NetUnchangedType DEF confirm
<1>11. CASE WaitError(c)
  BY <1>11, WaitErrorType, NetUnchangedType DEF WaitError
<1>12. CASE Discard(c)
  BY <1>12, DiscardType, NetUnchangedType DEF Discard
<1>13. CASE error(c)
  BY <1>13, ErrorType, NetUnchangedType DEF error
<1> QED
  BY <1>2, <1>3, <1>4, <1>5, <1>6, <1>7, <1>8, <1>9, <1>10, <1>11, <1>12, <1>13
  DEF DispatchStep
-----------------------------------------------------------------------------
(* The server: types and TaskInv. *)

LEMMA ServerTypeInit == Init => ServerTypeOK
<1> SUFFICES ASSUME Init PROVE ServerTypeOK
  OBVIOUS
<1>1. 1 \in Version /\ 0 \in 0..MaxRestarts
  BY ChannelAssumption, WindowAssumption DEF Version
<1> QED BY <1>1 DEF Init, ServerInit, ServerTypeOK

LEMMA NewTaskProperties ==
  ASSUME NEW f \in File
  PROVE  NewTask(f) \in Task /\ TaskInv(NewTask(f))
<1>1. MaxBlocks \in Nat /\ Blocks[f] \in 0..MaxBlocks /\ MaxWindow \in Nat /\ MaxWindow >= 1
  BY FileAssumption, WindowAssumption
<1>2. 0 \in Tries /\ <<>> \in Seq(Content) /\ 1 \in 1..MaxWindow /\ 0 \in 0..MaxBlocks
  BY <1>1, ChannelAssumption, EmptySeq DEF Tries
<1>3. NewTask(f) \in Task
  BY <1>2 DEF NewTask, Task
<1>4. Outstanding(NewTask(f)) = {}
  BY DEF Outstanding, NewTask
<1>5. Cardinality(Outstanding(NewTask(f))) = 0
  BY <1>4, FS_EmptySet
<1>6. /\ Len(NewTask(f).checksum) = NewTask(f).next
      /\ NewTask(f).next <= Blocks[NewTask(f).path]
      /\ \A b \in BlockId : ~(NewTask(f).packets[b] > 0)
  BY <1>1 DEF NewTask
<1> QED BY <1>1, <1>3, <1>5, <1>6 DEF TaskInv

\* Outstanding packets are blocks, of which there are finitely many.
LEMMA OutstandingFinite ==
  ASSUME NEW t
  PROVE  IsFiniteSet(Outstanding(t)) /\ Cardinality(Outstanding(t)) \in Nat
<1>1. IsFiniteSet(BlockId)
  BY FileAssumption, FS_Interval DEF BlockId
<1>2. Outstanding(t) \subseteq BlockId
  BY DEF Outstanding
<1> QED BY <1>1, <1>2, FS_Subset, FS_CardinalityType

\* A task of which some packets are acknowledged, or whose window moves, or
\* that repeats what is outstanding, is still a good one.
LEMMA TaskInvShrinks ==
  ASSUME NEW t, TaskInv(t), NEW u,
         u.path = t.path, u.next = t.next, u.checksum = t.checksum,
         \A b \in BlockId : u.packets[b] > 0 => t.packets[b] > 0
  PROVE  TaskInv(u)
<1>1. Outstanding(u) \subseteq Outstanding(t)
  BY DEF Outstanding
<1>2. Cardinality(Outstanding(u)) <= Cardinality(Outstanding(t))
  BY <1>1, OutstandingFinite, FS_Subset
<1>3. Cardinality(Outstanding(u)) <= MaxWindow
  BY <1>2, OutstandingFinite, WindowAssumption DEF TaskInv
<1> QED BY <1>3 DEF TaskInv

\* How far work() reads.
Reach(t) ==
  Min({Blocks[t.path], t.next + t.window - Cardinality(Outstanding(t))})

LEMMA TaskFields ==
  ASSUME NEW t \in Task
  PROVE  /\ t.path \in File /\ t.next \in 0..MaxBlocks /\ t.window \in 1..MaxWindow
         /\ t.packets \in [BlockId -> Tries] /\ t.checksum \in Seq(Content)
         /\ Blocks[t.path] \in 0..MaxBlocks /\ MaxBlocks \in Nat /\ MaxWindow \in Nat
BY FileAssumption, WindowAssumption DEF Task

LEMMA ReachProperties ==
  ASSUME NEW t \in Task, TaskInv(t), Cardinality(Outstanding(t)) < t.window
  PROVE  /\ Reach(t) \in t.next..Blocks[t.path]
         /\ Reach(t) - t.next <= t.window - Cardinality(Outstanding(t))
<1> DEFINE n == Cardinality(Outstanding(t))
<1>1. n \in Nat
  BY OutstandingFinite
<1>2. /\ t.next \in Nat /\ t.window \in Nat /\ Blocks[t.path] \in Nat
      /\ t.next <= Blocks[t.path]
  BY TaskFields DEF TaskInv
<1>3. Reach(t) = IF Blocks[t.path] <= t.next + t.window - n THEN Blocks[t.path]
                 ELSE t.next + t.window - n
  BY <1>1, <1>2, MinPair DEF Reach
<1> QED BY <1>1, <1>2, <1>3

\* A pass of work() leaves a good task: its window is not exceeded, and the
\* digest is over what has been read.
LEMMA FilledProperties ==
  ASSUME ServerTypeOK, NEW t \in Task, TaskInv(t),
         Cardinality(Outstanding(t)) < t.window,
         NEW k, k = Reach(t)
  PROVE  /\ Filled(t, k) \in Task /\ TaskInv(Filled(t, k))
         /\ \A b \in t.next..(k - 1) :
              b \in BlockId /\ Filled(t, k).checksum[b + 1] \in Content
         /\ \A b \in BlockId : b < k /\ Filled(t, k).packets[b] = 0
              => b < t.next /\ t.packets[b] = 0
<1> DEFINE new == [i \in 1..(k - t.next) |-> <<t.path, version[t.path], t.next + i - 1>>]
<1>1. /\ k \in t.next..Blocks[t.path] /\ k \in Nat /\ t.next \in Nat /\ k <= MaxBlocks
      /\ k - t.next \in Nat /\ k - t.next <= t.window - Cardinality(Outstanding(t))
  BY ReachProperties, TaskFields
<1>2. new \in Seq(Content) /\ Len(new) = k - t.next
  <2>1. version[t.path] \in Version /\ t.path \in File
    BY TaskFields DEF ServerTypeOK
  <2>2. ASSUME NEW i \in 1..(k - t.next)
        PROVE  <<t.path, version[t.path], t.next + i - 1>> \in Content
    <3>1. t.next + i - 1 \in BlockId
      BY <1>1, FileAssumption DEF BlockId
    <3> QED BY <2>1, <3>1 DEF Content
  <2>3. new \in [1..(k - t.next) -> Content]
    BY <2>2
  <2> HIDE DEF new
  <2> QED BY <1>1, <2>3, FunctionIsSeq
<1>3. /\ t.checksum \o new \in Seq(Content)
      /\ Len(t.checksum \o new) = k
      /\ \A b \in t.next..(k - 1) : (t.checksum \o new)[b + 1] \in Content
  <2>1. t.checksum \in Seq(Content) /\ Len(t.checksum) = t.next
    BY TaskFields DEF TaskInv
  <2> HIDE DEF new
  <2>2. t.checksum \o new \in Seq(Content) /\ Len(t.checksum \o new) = k
    <3>1. /\ t.checksum \o new \in Seq(Content)
          /\ Len(t.checksum \o new) = Len(t.checksum) + Len(new)
      BY <1>2, <2>1, ConcatProperties
    <3>2. t.next + (k - t.next) = k
      BY <1>1
    <3> QED BY <1>2, <2>1, <3>1, <3>2
  <2>3. ASSUME NEW b \in t.next..(k - 1) PROVE (t.checksum \o new)[b + 1] \in Content
    <3>1. b + 1 \in 1..k
      BY <1>1
    <3> QED BY <2>2, <3>1, ElementOfSeq
  <2> QED BY <2>2, <2>3
<1>4. /\ Filled(t, k).next = k /\ Filled(t, k).path = t.path
      /\ Filled(t, k).window = t.window
      /\ Filled(t, k).checksum = t.checksum \o new
      /\ Filled(t, k).packets =
           [b \in BlockId |-> IF b \in t.next..(k - 1) THEN 1 ELSE t.packets[b]]
  BY DEF Filled, Task
<1>5. Filled(t, k) \in Task
  <2>1. 1 \in Tries
    BY ChannelAssumption DEF Tries
  <2>2. [b \in BlockId |-> IF b \in t.next..(k - 1) THEN 1 ELSE t.packets[b]]
          \in [BlockId -> Tries]
    BY <2>1, TaskFields
  <2>3. k \in 0..MaxBlocks
    BY <1>1, FileAssumption
  <2> QED BY <1>3, <2>2, <2>3 DEF Filled, Task
<1>6. Cardinality(Outstanding(Filled(t, k))) <= MaxWindow
  <2>1. Outstanding(Filled(t, k)) \subseteq Outstanding(t) \cup (t.next..(k - 1))
    BY <1>4 DEF Outstanding
  <2>2. IsFiniteSet(t.next..(k - 1)) /\ Cardinality(t.next..(k - 1)) = k - t.next
    <3>1. t.next \in Int /\ k - 1 \in Int
      BY <1>1
    <3>2. /\ IsFiniteSet(t.next..(k - 1))
          /\ Cardinality(t.next..(k - 1)) =
               IF t.next > k - 1 THEN 0 ELSE (k - 1) - t.next + 1
      BY <3>1, FS_Interval
    <3> QED BY <1>1, <3>2
  <2>3. /\ IsFiniteSet(Outstanding(t) \cup (t.next..(k - 1)))
        /\ Cardinality(Outstanding(t) \cup (t.next..(k - 1))) =
             Cardinality(Outstanding(t)) + Cardinality(t.next..(k - 1))
               - Cardinality(Outstanding(t) \cap (t.next..(k - 1)))
    BY <2>2, OutstandingFinite, FS_Union
  <2>4. Cardinality(Outstanding(t) \cap (t.next..(k - 1))) \in Nat
    BY <2>2, FS_Intersection, FS_CardinalityType, OutstandingFinite
  <2>5. Cardinality(Outstanding(Filled(t, k)))
          <= Cardinality(Outstanding(t) \cup (t.next..(k - 1)))
    BY <2>1, <2>3, FS_Subset
  <2> HIDE DEF new
  <2> QED BY <1>1, <2>2, <2>3, <2>4, <2>5, OutstandingFinite, TaskFields
<1>7. TaskInv(Filled(t, k))
  <2>1. ASSUME NEW b \in BlockId, Filled(t, k).packets[b] > 0 PROVE b < k
    BY <1>1, <1>4, <2>1 DEF TaskInv, BlockId
  <2> HIDE DEF new
  <2> QED BY <1>1, <1>3, <1>4, <1>6, <2>1 DEF TaskInv
<1>8. ASSUME NEW b \in t.next..(k - 1) PROVE b \in BlockId
  BY <1>1, FileAssumption DEF BlockId
<1>9. ASSUME NEW b \in BlockId, b < k, Filled(t, k).packets[b] = 0
      PROVE  b < t.next /\ t.packets[b] = 0
  BY <1>1, <1>4, <1>9 DEF BlockId
<1> HIDE DEF new
<1> QED BY <1>3, <1>4, <1>5, <1>7, <1>8, <1>9

\* What a step of the server may do to the task of c that it leaves there: the
\* task is a good one, c has asked for it, and a packet it repeats no more it
\* did not repeat before, or its acknowledgement has arrived.
TaskStep(c) ==
  /\ TaskInv(mTasks'[c])
  /\ mTasks[c] # Nil \/ \E m \in net : m.client = c /\ m.type = "Get"
  /\ \A b \in BlockId :
       b < mTasks'[c].next /\ mTasks'[c].packets[b] = 0 =>
         \/ mTasks[c] # Nil /\ b < mTasks[c].next /\ mTasks[c].packets[b] = 0
         \/ \E m \in net : m.client = c /\ m.type = "Acknowledge" /\ m.block = b

\* Every step of the server is of this kind.
ServerStep ==
  /\ NetworkTypeOK' /\ ServerTypeOK'
  /\ \A m \in net' : m \in net \/ m.type \in Reply
  /\ \A c \in Client : mTasks'[c] # Nil => TaskStep(c)

ServerPre ==
  /\ NetworkTypeOK /\ ServerTypeOK
  /\ \A c \in Client : mTasks[c] # Nil => TaskInv(mTasks[c])

LEMMA ReplyIsReply ==
  ASSUME NEW c, NEW f, NEW b, NEW d
  PROVE  /\ SizeMsg(c, f).type \in Reply /\ StartMsg(c, f).type \in Reply
         /\ ConfirmMsg(c, f).type \in Reply /\ ErrorMsg(c, f).type \in Reply
         /\ DataMsg(c, f, b, d).type \in Reply
BY DEF SizeMsg, StartMsg, ConfirmMsg, ErrorMsg, DataMsg, Reply

\* A task that stays, or only changes its window, makes a TaskStep.
LEMMA SameTaskStep ==
  ASSUME ServerPre, NEW c \in Client, mTasks[c] # Nil,
         mTasks'[c].path = mTasks[c].path, mTasks'[c].next = mTasks[c].next,
         mTasks'[c].checksum = mTasks[c].checksum,
         \A b \in BlockId : mTasks'[c].packets[b] = 0 <=> mTasks[c].packets[b] = 0,
         \A b \in BlockId : mTasks'[c].packets[b] > 0 => mTasks[c].packets[b] > 0
  PROVE  TaskStep(c)
<1>1. TaskInv(mTasks[c])
  BY DEF ServerPre
<1>2. TaskInv(mTasks'[c])
  BY <1>1, TaskInvShrinks
<1> QED BY <1>2 DEF TaskStep

LEMMA UnchangedTaskStep ==
  ASSUME ServerPre, NEW c \in Client, mTasks[c] # Nil, mTasks'[c] = mTasks[c]
  PROVE  TaskStep(c)
BY SameTaskStep

\* An answer that leaves the tasks alone, or drops that of one client.
LEMMA ReplyStep ==
  ASSUME ServerPre, NEW m \in net, NEW r \in ToClient, Receive(m, {r}),
         ServerTypeOK', r.type \in Reply,
         \A c \in Client : mTasks'[c] \in {mTasks[c], Nil}
  PROVE  ServerStep
<1>1. {r} \in SUBSET (ToServer \cup ToClient)
  OBVIOUS
<1>2. NetworkTypeOK'
  BY <1>1, ReceiveType DEF ServerPre
<1>3. \A n \in net' : n \in net \/ n.type \in Reply
  BY DEF Receive
<1>4. \A c \in Client : mTasks'[c] # Nil => TaskStep(c)
  BY UnchangedTaskStep
<1> QED BY <1>2, <1>3, <1>4 DEF ServerStep

LEMMA OnQueryStep ==
  ASSUME ServerPre, NEW m \in net, onQuery(m)
  PROVE  ServerStep
<1>1. m.client \in Client /\ m.path \in File
  BY MessageFields DEF ServerPre, NetworkTypeOK
<1>2. SizeMsg(m.client, m.path) \in ToClient /\ SizeMsg(m.client, m.path).type \in Reply
  BY <1>1, ReplyTypes, ReplyIsReply
<1>3. ServerTypeOK'
  BY DEF ServerPre, ServerTypeOK, onQuery, serverVars
<1> QED BY <1>2, <1>3, ReplyStep DEF onQuery, serverVars

LEMMA RefuseStep ==
  ASSUME ServerPre, NEW m \in net, Refuse(m)
  PROVE  ServerStep
<1>1. m.client \in Client /\ m.path \in File
  BY MessageFields DEF ServerPre, NetworkTypeOK
<1>2. ErrorMsg(m.client, m.path) \in ToClient /\ ErrorMsg(m.client, m.path).type \in Reply
  BY <1>1, ReplyTypes, ReplyIsReply
<1>3. [client |-> m.client, path |-> m.path, tries |-> 1] \in Refusal
  BY <1>1, ChannelAssumption DEF Refusal, Tries
<1>4. ServerTypeOK'
  BY <1>3 DEF ServerPre, ServerTypeOK, Refuse
<1> QED BY <1>2, <1>4, ReplyStep DEF Refuse

LEMMA OnGetStep ==
  ASSUME ServerPre, NEW m \in net, onGet(m)
  PROVE  ServerStep
<1>1. m.client \in Client /\ m.path \in File
  BY MessageFields DEF ServerPre, NetworkTypeOK
<1>2. /\ ErrorMsg(m.client, m.path) \in ToClient
      /\ ErrorMsg(m.client, m.path).type \in Reply
      /\ StartMsg(m.client, m.path) \in ToClient
      /\ StartMsg(m.client, m.path).type \in Reply
  BY <1>1, ReplyTypes, ReplyIsReply
<1>3. CASE mTasks' = mTasks
  <2>1. ServerTypeOK'
    BY <1>3 DEF ServerPre, ServerTypeOK, onGet
  <2> QED BY <1>2, <1>3, <2>1, ReplyStep DEF onGet
<1>4. CASE mTasks' # mTasks
  <2>1. /\ Receive(m, {StartMsg(m.client, m.path)}) /\ mTasks[m.client] = Nil
        /\ mTasks' = [mTasks EXCEPT ![m.client] = NewTask(m.path)]
    BY <1>4 DEF onGet
  <2>2. NewTask(m.path) \in Task /\ TaskInv(NewTask(m.path))
    BY <1>1, NewTaskProperties
  <2>3. ServerTypeOK'
    BY <2>1, <2>2 DEF ServerPre, ServerTypeOK, onGet
  <2>4. {StartMsg(m.client, m.path)} \in SUBSET (ToServer \cup ToClient)
    BY <1>2
  <2>5. NetworkTypeOK'
    BY <2>1, <2>4, ReceiveType DEF ServerPre
  <2>6. \A n \in net' : n \in net \/ n.type \in Reply
    BY <1>2, <2>1 DEF Receive
  <2>7. ASSUME NEW c \in Client, mTasks'[c] # Nil PROVE TaskStep(c)
    <3>1. CASE c = m.client
      <4>1. mTasks'[c] = NewTask(m.path)
        BY <2>1, <3>1 DEF ServerPre, ServerTypeOK
      <4>2. \A b \in BlockId : ~(b < NewTask(m.path).next)
        BY DEF NewTask, BlockId
      <4>3. m.type = "Get"
        BY DEF onGet
      <4> QED BY <2>2, <3>1, <4>1, <4>2, <4>3 DEF TaskStep
    <3>2. CASE c # m.client
      <4>1. mTasks'[c] = mTasks[c]
        BY <2>1, <3>2 DEF ServerPre, ServerTypeOK
      <4> QED BY <2>7, <4>1, UnchangedTaskStep
    <3> QED BY <3>1, <3>2
  <2> QED BY <2>3, <2>5, <2>6, <2>7 DEF ServerStep
<1> QED BY <1>3, <1>4

\* The task after an acknowledgement it awaited.
LEMMA OnAcknowledgeStep ==
  ASSUME ServerPre, NEW m \in net, onAcknowledge(m)
  PROVE  ServerStep
<1>1. /\ m.client \in Client /\ m.block \in BlockId /\ m.type = "Acknowledge"
  BY MessageFields DEF ServerPre, NetworkTypeOK, onAcknowledge
<1>2. NetworkTypeOK' /\ \A n \in net' : n \in net
  <2>1. {} \in SUBSET (ToServer \cup ToClient)
    OBVIOUS
  <2> QED BY <2>1, ReceiveType DEF ServerPre, onAcknowledge, Receive
<1>3. CASE ~Awaits(m)
  <2>1. mTasks' = mTasks
    BY <1>3 DEF onAcknowledge
  <2>2. ServerTypeOK'
    BY <2>1 DEF ServerPre, ServerTypeOK, onAcknowledge
  <2> QED BY <1>2, <2>1, <2>2, UnchangedTaskStep DEF ServerStep
<1>4. CASE Awaits(m)
  <2> DEFINE t == mTasks[m.client]
             u == [t EXCEPT !.packets[m.block] = 0, !.window = Grown(@)]
  <2>1. t \in Task /\ TaskInv(t) /\ t # Nil
    BY <1>1, <1>4 DEF Awaits, ServerPre, ServerTypeOK
  <2>2. mTasks' = [mTasks EXCEPT ![m.client] = u]
    BY <1>4 DEF onAcknowledge
  <2>3. 0 \in Tries /\ Grown(t.window) \in 1..MaxWindow
    BY <2>1, ChannelAssumption, GrownType, TaskFields DEF Tries
  <2>4. u \in Task
    BY <1>1, <2>1, <2>3 DEF Task
  <2>5. /\ u.path = t.path /\ u.next = t.next /\ u.checksum = t.checksum
        /\ \A b \in BlockId : u.packets[b] = IF b = m.block THEN 0 ELSE t.packets[b]
    BY <1>1, <2>1 DEF Task
  <2>6. TaskInv(u)
    <3>1. \A b \in BlockId : u.packets[b] > 0 => t.packets[b] > 0
      BY <2>5
    <3> HIDE DEF u
    <3> QED BY <2>1, <2>5, <3>1, TaskInvShrinks
  <2> HIDE DEF u
  <2>7. ServerTypeOK'
    BY <1>1, <2>2, <2>4 DEF ServerPre, ServerTypeOK, onAcknowledge
  <2>8. ASSUME NEW c \in Client, mTasks'[c] # Nil PROVE TaskStep(c)
    <3>1. CASE c = m.client
      <4>1. mTasks'[c] = u
        BY <2>2, <3>1 DEF ServerPre, ServerTypeOK
      <4> QED BY <1>1, <2>1, <2>5, <2>6, <3>1, <4>1 DEF TaskStep
    <3>2. CASE c # m.client
      <4>1. mTasks'[c] = mTasks[c]
        BY <2>2, <3>2 DEF ServerPre, ServerTypeOK
      <4> QED BY <2>8, <4>1, UnchangedTaskStep
    <3> QED BY <3>1, <3>2
  <2> QED BY <1>2, <2>7, <2>8 DEF ServerStep
<1> QED BY <1>3, <1>4

LEMMA BytesType ==
  ASSUME NEW f \in File, NEW v \in Version
  PROVE  Bytes(f, v) \in Seq(Content)
<1>1. Blocks[f] \in Nat /\ Blocks[f] <= MaxBlocks
  BY FileAssumption
<1>2. \A i \in 1..Blocks[f] : <<f, v, i - 1>> \in Content
  BY <1>1, FileAssumption DEF Content, BlockId
<1>3. Bytes(f, v) \in [1..Blocks[f] -> Content]
  BY <1>2 DEF Bytes
<1> QED BY <1>1, <1>3, FunctionIsSeq

LEMMA OnChecksumStep ==
  ASSUME ServerPre, NEW m \in net, onChecksum(m)
  PROVE  ServerStep
<1>1. m.client \in Client /\ m.path \in File
  BY MessageFields DEF ServerPre, NetworkTypeOK
<1>2. /\ ErrorMsg(m.client, m.path) \in ToClient
      /\ ErrorMsg(m.client, m.path).type \in Reply
      /\ ConfirmMsg(m.client, m.path) \in ToClient
      /\ ConfirmMsg(m.client, m.path).type \in Reply
  BY <1>1, ReplyTypes, ReplyIsReply
<1>3. mTasks' = [mTasks EXCEPT ![m.client] = Nil]
  BY DEF onChecksum, Terminate
<1>4. \A c \in Client : mTasks'[c] \in {mTasks[c], Nil}
  BY <1>3 DEF ServerPre, ServerTypeOK
<1>5. mMD5Cache' \in [File -> Seq(Content) \cup {Nil}]
  <2>1. CASE mMD5Cache' = mMD5Cache
    BY <2>1 DEF ServerPre, ServerTypeOK
  <2>2. CASE mMD5Cache' = [mMD5Cache EXCEPT ![m.path] = Expected(m.path)]
    <3>1. Expected(m.path) \in Seq(Content)
      BY <1>1, BytesType DEF Expected, ServerPre, ServerTypeOK
    <3> QED BY <2>2, <3>1 DEF ServerPre, ServerTypeOK
  <2> QED BY <2>1, <2>2 DEF onChecksum
<1>6. ServerTypeOK'
  BY <1>3, <1>5 DEF ServerPre, ServerTypeOK, onChecksum
<1>7. PICK r \in {ErrorMsg(m.client, m.path), ConfirmMsg(m.client, m.path)} :
        Receive(m, {r})
  BY DEF onChecksum
<1> QED BY <1>2, <1>4, <1>6, <1>7, ReplyStep

LEMMA WorkStep ==
  ASSUME ServerPre, NEW c \in Client, work(c)
  PROVE  ServerStep
<1> DEFINE t == mTasks[c]
           k == Reach(t)
           u == Filled(t, k)
           ms == {DataMsg(c, t.path, b, u.checksum[b + 1]) : b \in t.next..(k - 1)}
<1>1. t \in Task /\ TaskInv(t) /\ t # Nil
  BY DEF work, ServerPre, ServerTypeOK
<1>2. /\ Cardinality(Outstanding(t)) < t.window
      /\ Send(ms)
      /\ mMD5Cache' = IF AtEnd(u) /\ mMD5Cache[t.path] = Nil
                      THEN [mMD5Cache EXCEPT ![t.path] = u.checksum] ELSE mMD5Cache
      /\ mTasks' = [mTasks EXCEPT ![c] =
                      IF AtEnd(u) /\ Outstanding(u) = {} THEN Nil ELSE u]
      /\ UNCHANGED <<refusals, callbacks, version, restarts>>
  BY DEF work, Reach
<1>3. /\ u \in Task /\ TaskInv(u)
      /\ \A b \in t.next..(k - 1) : b \in BlockId /\ u.checksum[b + 1] \in Content
      /\ \A b \in BlockId : b < k /\ u.packets[b] = 0 => b < t.next /\ t.packets[b] = 0
  BY <1>1, <1>2, FilledProperties DEF ServerPre
<1>4. u.next = k /\ u.path = t.path
  BY <1>1 DEF Filled, Task
<1> HIDE DEF k, u
<1>5. t.path \in File /\ u.checksum \in Seq(Content)
  BY <1>1, <1>3, TaskFields
<1>6. ms \in SUBSET (ToServer \cup ToClient) /\ \A m \in ms : m.type \in Reply
  BY <1>3, <1>5, ReplyTypes, ReplyIsReply
<1>7. NetworkTypeOK' /\ \A n \in net' : n \in net \/ n.type \in Reply
  <2> HIDE DEF ms
  <2> QED BY <1>2, <1>6, SendType DEF ServerPre, Send
<1>8. ServerTypeOK'
  BY <1>2, <1>3, <1>5 DEF ServerPre, ServerTypeOK
<1>9. ASSUME NEW d \in Client, mTasks'[d] # Nil PROVE TaskStep(d)
  <2>1. CASE d = c
    <3>1. mTasks'[d] = u
      BY <1>2, <1>9, <2>1 DEF ServerPre, ServerTypeOK
    <3> QED BY <1>1, <1>3, <1>4, <2>1, <3>1 DEF TaskStep
  <2>2. CASE d # c
    <3>1. mTasks'[d] = mTasks[d]
      BY <1>2, <2>2 DEF ServerPre, ServerTypeOK
    <3> QED BY <1>9, <3>1, UnchangedTaskStep
  <2> QED BY <2>1, <2>2
<1> QED BY <1>7, <1>8, <1>9 DEF ServerStep

\* sender() unlocks on its way to a callback.
LEMMA CallsBackType ==
  ASSUME ServerPre, NEW c \in Client, NEW k \in Callback, CallsBack(c, k)
  PROVE  callbacks' \in [Client -> [Callback -> Nat]]
BY DEF ServerPre, ServerTypeOK, CallsBack

LEMMA CalledBackType ==
  ASSUME ServerPre, NEW c \in Client, NEW k \in Callback, callbacks[c][k] > 0,
         callbacks' = [callbacks EXCEPT ![c][k] = @ - 1]
  PROVE  callbacks' \in [Client -> [Callback -> Nat]]
<1>1. callbacks[c][k] - 1 \in Nat
  BY DEF ServerPre, ServerTypeOK
<1> QED BY <1>1 DEF ServerPre, ServerTypeOK

\* What a timer thread does to a packet that is still repeated keeps the task.
LEMMA CountedTask ==
  ASSUME ServerPre, NEW c \in Client, NEW b \in BlockId, NEW n \in Tries, n > 0,
         mTasks[c] # Nil, mTasks[c].packets[b] > 0,
         mTasks' = [mTasks EXCEPT ![c].packets[b] = n]
  PROVE  /\ mTasks' \in [Client -> Task \cup {Nil}]
         /\ \A d \in Client : mTasks'[d] # Nil => TaskStep(d)
<1> DEFINE t == mTasks[c]
           u == [t EXCEPT !.packets[b] = n]
<1>1. t \in Task /\ TaskInv(t) /\ t # Nil
  BY DEF ServerPre, ServerTypeOK
<1>2. mTasks' = [mTasks EXCEPT ![c] = u]
  OBVIOUS
<1>3. /\ u \in Task
      /\ u.path = t.path /\ u.next = t.next /\ u.checksum = t.checksum
      /\ \A d \in BlockId : u.packets[d] = IF d = b THEN n ELSE t.packets[d]
  BY <1>1 DEF Task
<1>4. /\ \A e \in BlockId : u.packets[e] = 0 <=> t.packets[e] = 0
      /\ \A e \in BlockId : u.packets[e] > 0 => t.packets[e] > 0
  BY <1>3
<1> HIDE DEF u
<1>5. mTasks' \in [Client -> Task \cup {Nil}]
  BY <1>2, <1>3 DEF ServerPre, ServerTypeOK
<1>6. ASSUME NEW d \in Client, mTasks'[d] # Nil PROVE TaskStep(d)
  <2>1. CASE d = c
    <3>1. mTasks'[d] = u
      BY <1>2, <2>1 DEF ServerPre, ServerTypeOK
    <3> QED BY <1>1, <1>3, <1>4, <2>1, <3>1, SameTaskStep
  <2>2. CASE d # c
    <3>1. mTasks'[d] = mTasks[d]
      BY <1>2, <2>2 DEF ServerPre, ServerTypeOK
    <3> QED BY <1>6, <3>1, UnchangedTaskStep
  <2> QED BY <2>1, <2>2
<1> QED BY <1>5, <1>6

LEMMA SendStep ==
  ASSUME ServerPre, NEW r \in ToClient, r.type \in Reply, Send({r})
  PROVE  NetworkTypeOK' /\ \A n \in net' : n \in net \/ n.type \in Reply
<1>1. {r} \in SUBSET (ToServer \cup ToClient)
  OBVIOUS
<1> QED BY <1>1, SendType DEF ServerPre, Send

LEMMA DataRetryStep ==
  ASSUME ServerPre, NEW c \in Client, NEW b \in BlockId, DataRetry(c, b)
  PROVE  ServerStep
<1> DEFINE t == mTasks[c]
<1>1. t \in Task /\ TaskInv(t) /\ t # Nil /\ t.packets[b] \in 1..Retries
  BY DEF DataRetry, ServerPre, ServerTypeOK
<1>2. t.packets[b] + 1 \in Tries /\ t.packets[b] > 0 /\ t.packets[b] + 1 > 0
  BY <1>1, ChannelAssumption DEF Tries
<1>3. mTasks' = [mTasks EXCEPT ![c].packets[b] = t.packets[b] + 1]
  BY DEF DataRetry
<1>4. /\ mTasks' \in [Client -> Task \cup {Nil}]
      /\ \A d \in Client : mTasks'[d] # Nil => TaskStep(d)
  BY <1>1, <1>2, <1>3, CountedTask
<1>5. t.path \in File /\ t.checksum[b + 1] \in Content
  <2>1. t.checksum \in Seq(Content) /\ Len(t.checksum) = t.next /\ b < t.next /\ t.next \in Nat
    BY <1>1, <1>2, TaskFields DEF TaskInv
  <2>2. b + 1 \in 1..Len(t.checksum)
    BY <2>1 DEF BlockId
  <2> QED BY <1>1, <2>1, <2>2, ElementOfSeq, TaskFields
<1>6. /\ DataMsg(c, t.path, b, t.checksum[b + 1]) \in ToClient
      /\ DataMsg(c, t.path, b, t.checksum[b + 1]).type \in Reply
  BY <1>5, ReplyTypes, ReplyIsReply
<1>7. NetworkTypeOK' /\ \A n \in net' : n \in net \/ n.type \in Reply
  BY <1>6, SendStep DEF DataRetry
<1>8. ServerTypeOK'
  BY <1>4, CallsBackType DEF ServerPre, ServerTypeOK, DataRetry, Callback
<1> QED BY <1>4, <1>7, <1>8 DEF ServerStep

LEMMA DataExpireStep ==
  ASSUME ServerPre, NEW c \in Client, NEW b \in BlockId, DataExpire(c, b)
  PROVE  ServerStep
<1>1. /\ mTasks[c] # Nil /\ mTasks[c].packets[b] = Retries + 1
      /\ mTasks' = [mTasks EXCEPT ![c].packets[b] = mTasks[c].packets[b] + 1]
  BY DEF DataExpire
<1>2. /\ mTasks[c].packets[b] + 1 \in Tries /\ mTasks[c].packets[b] + 1 > 0
      /\ mTasks[c].packets[b] > 0
  BY <1>1, ChannelAssumption DEF Tries
<1>3. /\ mTasks' \in [Client -> Task \cup {Nil}]
      /\ \A d \in Client : mTasks'[d] # Nil => TaskStep(d)
  BY <1>1, <1>2, CountedTask
<1>4. ServerTypeOK'
  BY <1>3, CallsBackType DEF ServerPre, ServerTypeOK, DataExpire, Callback
<1>5. NetworkTypeOK' /\ net' = net
  BY NetUnchangedType DEF ServerPre, DataExpire
<1> QED BY <1>3, <1>4, <1>5 DEF ServerStep

LEMMA RefusalRetryStep ==
  ASSUME ServerPre, NEW s \in Slot, RefusalRetry(s)
  PROVE  ServerStep
<1>1. refusals[s] \in Refusal /\ refusals[s].tries \in 1..Retries /\ Retries \in Nat
  BY ChannelAssumption DEF ServerPre, ServerTypeOK, RefusalRetry, Refusal
<1>2. refusals[s].client \in Client /\ refusals[s].path \in File
  BY <1>1 DEF Refusal
<1>3. [refusals[s] EXCEPT !.tries = @ + 1] \in Refusal
  BY <1>1 DEF Refusal
<1>4. refusals' \in [Slot -> Refusal \cup {Nil}]
  BY <1>3 DEF ServerPre, ServerTypeOK, RefusalRetry
<1>5. callbacks' \in [Client -> [Callback -> Nat]]
  BY <1>2, CallsBackType DEF RefusalRetry, Callback
<1>6. ServerTypeOK'
  BY <1>4, <1>5 DEF ServerPre, ServerTypeOK, RefusalRetry
<1>7. NetworkTypeOK' /\ \A n \in net' : n \in net \/ n.type \in Reply
  <2>1. /\ ErrorMsg(refusals[s].client, refusals[s].path) \in ToClient
        /\ ErrorMsg(refusals[s].client, refusals[s].path).type \in Reply
    BY <1>2, ReplyTypes, ReplyIsReply
  <2> QED BY <2>1, SendStep DEF RefusalRetry
<1>8. \A d \in Client : mTasks'[d] # Nil => TaskStep(d)
  BY UnchangedTaskStep DEF RefusalRetry
<1> QED BY <1>6, <1>7, <1>8 DEF ServerStep

\* Steps that send nothing and only drop tasks.
LEMMA DropStep ==
  ASSUME ServerPre, net' = net, ServerTypeOK',
         \A c \in Client : mTasks'[c] \in {mTasks[c], Nil}
  PROVE  ServerStep
<1>1. NetworkTypeOK'
  BY NetUnchangedType DEF ServerPre
<1>2. \A c \in Client : mTasks'[c] # Nil => TaskStep(c)
  BY UnchangedTaskStep
<1> QED BY <1>1, <1>2 DEF ServerStep

LEMMA RefusalExpireStep ==
  ASSUME ServerPre, NEW s \in Slot, RefusalExpire(s)
  PROVE  ServerStep
<1>1. refusals[s].client \in Client
  BY DEF ServerPre, ServerTypeOK, RefusalExpire, Refusal
<1>2. callbacks' \in [Client -> [Callback -> Nat]]
  BY <1>1, CallsBackType DEF RefusalExpire, Callback
<1>3. ServerTypeOK'
  BY <1>2 DEF ServerPre, ServerTypeOK, RefusalExpire
<1> QED BY <1>3, DropStep DEF RefusalExpire

\* onRetry halves the window and leaves the task as it is otherwise.
LEMMA OnRetryStep ==
  ASSUME ServerPre, NEW c \in Client, onRetry(c)
  PROVE  ServerStep
<1> DEFINE t == mTasks[c]
           u == [t EXCEPT !.window = Max({@ \div 2, 1})]
<1>1. callbacks' \in [Client -> [Callback -> Nat]]
  BY CalledBackType DEF onRetry, Callback
<1>2. CASE t = Nil
  <2>1. mTasks' = mTasks
    BY <1>2 DEF onRetry
  <2>2. ServerTypeOK'
    BY <1>1, <2>1 DEF ServerPre, ServerTypeOK, onRetry
  <2> QED BY <2>1, <2>2, DropStep DEF onRetry
<1>3. CASE t # Nil
  <2>1. t \in Task /\ mTasks' = [mTasks EXCEPT ![c] = u]
    BY <1>3 DEF ServerPre, ServerTypeOK, onRetry
  <2>2. Max({t.window \div 2, 1}) \in 1..MaxWindow
    BY <2>1, HalvedType, TaskFields
  <2>3. /\ u \in Task /\ u.path = t.path /\ u.next = t.next
        /\ u.checksum = t.checksum /\ u.packets = t.packets
    BY <2>1, <2>2 DEF Task
  <2> HIDE DEF u
  <2>4. ServerTypeOK'
    BY <1>1, <2>1, <2>3 DEF ServerPre, ServerTypeOK, onRetry
  <2>5. ASSUME NEW d \in Client, mTasks'[d] # Nil PROVE TaskStep(d)
    <3>1. CASE d = c
      <4>1. mTasks'[d] = u
        BY <2>1, <3>1 DEF ServerPre, ServerTypeOK
      <4> QED BY <1>3, <2>3, <3>1, <4>1, SameTaskStep
    <3>2. CASE d # c
      <4>1. mTasks'[d] = mTasks[d]
        BY <2>1, <3>2 DEF ServerPre, ServerTypeOK
      <4> QED BY <2>5, <4>1, UnchangedTaskStep
    <3> QED BY <3>1, <3>2
  <2>6. NetworkTypeOK' /\ net' = net
    BY NetUnchangedType DEF ServerPre, onRetry
  <2> QED BY <2>4, <2>5, <2>6 DEF ServerStep
<1> QED BY <1>2, <1>3

LEMMA QuietSteps ==
  ASSUME ServerPre
  PROVE  /\ \A c \in Client : onTimeout(c) => ServerStep
         /\ Restart => ServerStep
         /\ \A f \in File : Replace(f) => ServerStep
         /\ UNCHANGED <<serverVars, net>> => ServerStep
<1>1. ASSUME NEW c \in Client, onTimeout(c) PROVE ServerStep
  <2>1. ServerTypeOK'
    <3>1. callbacks' \in [Client -> [Callback -> Nat]]
      BY <1>1, CalledBackType DEF onTimeout, Callback
    <3> QED BY <1>1, <3>1 DEF ServerPre, ServerTypeOK, onTimeout, Terminate
  <2> QED BY <1>1, <2>1, DropStep DEF ServerPre, ServerTypeOK, onTimeout, Terminate
<1>2. ASSUME Restart PROVE ServerStep
  BY <1>2, DropStep, WindowAssumption DEF ServerPre, ServerTypeOK, Restart
<1>3. ASSUME NEW f \in File, Replace(f) PROVE ServerStep
  <2>1. version[f] + 1 \in Version
    BY <1>3, ChannelAssumption DEF ServerPre, ServerTypeOK, Replace, Version
  <2> QED BY <1>3, <2>1, DropStep DEF ServerPre, ServerTypeOK, Replace
<1>4. ASSUME UNCHANGED <<serverVars, net>> PROVE ServerStep
  BY <1>4, DropStep DEF ServerPre, ServerTypeOK, serverVars
<1> QED BY <1>1, <1>2, <1>3, <1>4
-----------------------------------------------------------------------------
(* The client: ClientInv, what it keeps, and what it sends. *)

ClientPre == NetworkTypeOK /\ ClientTypeOK /\ \A c \in Client : ClientInv(c)

\* In a first download, what client c has it keeps.
Keeps(c) ==
  downloads'[c] = downloads[c] /\ downloads[c] <= 1 =>
    \A b \in BlockId : Has(c, b) => Has(c, b)'

\* A step of a client starts at most one download, and sends what MessageInv says.
ClientStep ==
  /\ NetworkTypeOK' /\ ClientTypeOK'
  /\ \A c \in Client : ClientInv(c)' /\ Keeps(c)
  /\ \A c \in Client : downloads'[c] \in {downloads[c], downloads[c] + 1}
  /\ \A m \in net' : m \in net \/ MessageInv(m)'

\* The state of d that ClientInv and Has look at.
View(d) == <<requests[d], mHandle[d], onTimeouts[d], mState[d], mFile[d],
             mProtocols[d], mBlock[d], mNext[d], mCache[d], downloads[d]>>

LEMMA SameView ==
  ASSUME NEW d \in Client, ClientInv(d), View(d)' = View(d)
  PROVE  ClientInv(d)' /\ Keeps(d)
<1>1. /\ requests'[d] = requests[d] /\ mState'[d] = mState[d] /\ mFile'[d] = mFile[d]
      /\ mProtocols'[d] = mProtocols[d] /\ mBlock'[d] = mBlock[d]
      /\ mNext'[d] = mNext[d] /\ mCache'[d] = mCache[d] /\ downloads'[d] = downloads[d]
  BY DEF View
<1> QED BY <1>1 DEF ClientInv, RequestInv, Keeps, Has, BlockId

\* What runs beside the thread of the command line: the timers of c, and what
\* wakes that thread up.
Background(c) ==
  \/ \E h \in Handle : ClientTimer(c, h)
  \/ TimeoutStep(c)
  \/ Wake(c)

\* A step of c is no business of d.
LEMMA OthersView ==
  ASSUME ClientTypeOK, NEW c \in Client, NEW d \in Client, d # c,
         \/ \E f \in File : Download(c, f)
         \/ DispatchStep(c)
         \/ Background(c)
  PROVE  View(d)' = View(d)
<1>1. CASE \E f \in File : Download(c, f)
  BY <1>1 DEF ClientTypeOK, Download, Goto, View, channelVars
<1>2. CASE \E h \in Handle : ClientTimer(c, h)
  BY <1>2 DEF ClientTypeOK, ClientTimer, ClientRetry, ClientExpire, View
<1>3. CASE TimeoutStep(c) \/ Wake(c)
  BY <1>3 DEF ClientTypeOK, TimeoutStep, TimeoutReport, TimeoutTerminate, TimeoutStop,
     TimeoutNotify, Proceeds, TerminateHandle, Goto, Wake, View, channelVars
<1>4. CASE query(c) \/ get(c) \/ checksum(c)
  BY <1>4 DEF ClientTypeOK, query, get, checksum, Asks, Goto, View
<1>5. CASE size(c)
  BY <1>5 DEF ClientTypeOK, size, Takes, TerminateHandle, Pop, Goto, View
<1>6. CASE start(c)
  BY <1>6 DEF ClientTypeOK, start, Takes, TerminateHandle, Pop, Goto, View
<1>7. CASE data(c)
  BY <1>7 DEF ClientTypeOK, data, Takes, TerminateHandle, Pop, Goto, View
<1>8. CASE Duplicate(c)
  BY <1>8 DEF ClientTypeOK, Duplicate, Takes, TerminateHandle, Pop, Goto, View
<1>9. CASE acknowledge(c) \/ error(c)
  BY <1>9 DEF ClientTypeOK, acknowledge, error, Goto, View, channelVars
<1>10. CASE confirm(c)
  BY <1>10 DEF ClientTypeOK, confirm, Takes, TerminateHandle, Goto, View
<1>11. CASE WaitError(c) \/ Discard(c)
  BY <1>11 DEF ClientTypeOK, WaitError, TerminateHandle, Discard, Goto, View, channelVars
<1> QED
  BY <1>1, <1>2, <1>3, <1>4, <1>5, <1>6, <1>7, <1>8, <1>9, <1>10, <1>11
  DEF DispatchStep, Background

\* Entries that go, or stay with what they repeat, keep RequestInv.
LEMMA SameRequests ==
  ASSUME ClientTypeOK, NEW c \in Client, RequestInv(c),
         \A h \in Handle : requests'[c][h] # Nil =>
           requests[c][h] # Nil /\ requests'[c][h].message = requests[c][h].message,
         downloads'[c] \in {downloads[c], downloads[c] + 1}
  PROVE  RequestInv(c)'
<1>1. downloads[c] \in Nat
  BY ClientAssumption DEF ClientTypeOK
<1> QED BY <1>1 DEF RequestInv, Handle

\* What Channel::send adds is what was sent.
LEMMA AskedRequests ==
  ASSUME ClientTypeOK, NEW c \in Client, RequestInv(c), downloads[c] >= 1,
         NEW s, NEW m, NEW t, Asks(c, s, m, t), m.type # "Acknowledge", m.client = c
  PROVE  RequestInv(c)'
<1>1. PICK h \in Handle :
        requests' = [requests EXCEPT ![c][h] = [message |-> m, tries |-> 1]]
  BY DEF Asks
<1>2. /\ requests'[c][h] = [message |-> m, tries |-> 1]
      /\ \A g \in Handle : g # h => requests'[c][g] = requests[c][g]
  BY <1>1 DEF ClientTypeOK
<1>3. downloads' = downloads
  BY DEF Asks
<1> QED BY <1>2, <1>3 DEF RequestInv, Handle

LEMMA DispatchRequests ==
  ASSUME ClientPre, NEW c \in Client, DispatchStep(c)
  PROVE  RequestInv(c)'
<1>1. /\ ClientTypeOK /\ ClientInv(c) /\ RequestInv(c)
      /\ mState[c] # "Idle" => downloads[c] >= 1
  BY ClientAssumption DEF ClientPre, ClientInv, ClientTypeOK
<1>2. CASE query(c)
  <2>1. QueryMsg(c, mFile[c]).type # "Acknowledge" /\ QueryMsg(c, mFile[c]).client = c
    BY DEF QueryMsg
  <2>2. mState[c] # "Idle"
    BY <1>2 DEF query, Asks
  <2> QED BY <1>1, <1>2, <2>1, <2>2, AskedRequests DEF query
<1>3. CASE get(c)
  <2>1. GetMsg(c, mFile[c]).type # "Acknowledge" /\ GetMsg(c, mFile[c]).client = c
    BY DEF GetMsg
  <2>2. mState[c] # "Idle"
    BY <1>3 DEF get, Asks
  <2> QED BY <1>1, <1>3, <2>1, <2>2, AskedRequests DEF get
<1>4. CASE checksum(c)
  <2>1. /\ ChecksumMsg(c, mFile[c], mOutput[c]).type # "Acknowledge"
        /\ ChecksumMsg(c, mFile[c], mOutput[c]).client = c
    BY DEF ChecksumMsg
  <2>2. mState[c] # "Idle"
    BY <1>4 DEF checksum, Asks
  <2> QED BY <1>1, <1>4, <2>1, <2>2, AskedRequests DEF checksum
<1>5. CASE TerminateHandle(c) /\ downloads' = downloads
  <2>1. \A h \in Handle : requests'[c][h] \in {requests[c][h], Nil}
    BY <1>1, <1>5, TerminateType
  <2> QED BY <1>1, <1>5, <2>1, SameRequests
<1>6. CASE requests' = requests /\ downloads' = downloads
  BY <1>1, <1>6, SameRequests
<1> QED
  BY <1>2, <1>3, <1>4, <1>5, <1>6
  DEF DispatchStep, size, start, data, Duplicate, confirm, Takes, WaitError,
      acknowledge, Discard, error, channelVars

\* data() has every block it had, and the one that arrived.
LEMMA DataKeeps ==
  ASSUME ClientPre, NEW c \in Client, data(c)
  PROVE  /\ \A b \in BlockId : Has(c, b) => Has(c, b)'
         /\ mBlock'[c] \in BlockId /\ Has(c, mBlock[c])'
<1> DEFINE cached == [mCache[c] EXCEPT ![Found(c).block] = Found(c).data]
           end    == FlushEnd(cached, mNext[c])
<1>1. Found(c).block \in BlockId /\ Found(c).data \in Content
  BY DataType DEF ClientPre
<1>2. mNext[c] \in 0..MaxBlocks /\ end \in mNext[c]..MaxBlocks
  BY FlushEndProperties DEF ClientPre, ClientTypeOK
<1>3. mNext[c] \in Nat /\ end \in Nat /\ mNext[c] <= end
  BY <1>2, FileAssumption
<1>4. /\ mNext'[c] = end
      /\ mCache'[c] = [b \in BlockId |-> IF b < end THEN Nil ELSE cached[b]]
      /\ mBlock'[c] = Found(c).block
  BY DEF data, ClientPre, ClientTypeOK
<1>5. \A b \in BlockId : mCache[c][b] # Nil => cached[b] # Nil
  BY <1>1, ContentAssumption DEF ClientPre, ClientTypeOK
<1>6. cached[Found(c).block] # Nil
  BY <1>1, ContentAssumption DEF ClientPre, ClientTypeOK
<1> HIDE DEF end, cached
<1>7. ASSUME NEW b \in BlockId, b < mNext[c] \/ cached[b] # Nil PROVE Has(c, b)'
  <2>1. b \in Nat
    BY FileAssumption DEF BlockId
  <2>2. b < end \/ mCache'[c][b] = cached[b]
    BY <1>4
  <2> QED BY <1>3, <1>4, <1>7, <2>1, <2>2 DEF Has
<1> QED BY <1>1, <1>4, <1>5, <1>6, <1>7 DEF Has

LEMMA DispatchKeeps ==
  ASSUME ClientPre, NEW c \in Client, DispatchStep(c)
  PROVE  ClientInv(c)' /\ Keeps(c) /\ downloads' = downloads
<1>1. /\ ClientInv(c) /\ ClientTypeOK
      /\ mNext[c] \in 0..MaxBlocks /\ RequestInv(c)'
  BY DispatchRequests DEF ClientPre, ClientTypeOK
<1>2. CASE query(c) \/ get(c) \/ checksum(c)
  <2>1. ASSUME NEW s \in {"Query", "Get", "Checksum"}, NEW t \in Waiting, NEW m,
               Asks(c, s, m, t), s = "Query" => t = "Size", s = "Get" => t = "Start",
               s = "Checksum" => t = "Confirm"
        PROVE  ClientInv(c)' /\ Keeps(c) /\ downloads' = downloads
    <3>1. /\ mState'[c] = t /\ mState[c] = s
          /\ mNext' = mNext /\ mCache' = mCache /\ mFile' = mFile
          /\ downloads' = downloads
      BY <1>1, <2>1 DEF Asks, Goto, ClientTypeOK
    <3> QED BY <1>1, <2>1, <3>1 DEF ClientInv, Keeps, Has, Opening
  <2> QED BY <1>2, <2>1 DEF query, get, checksum, Waiting
<1>3. CASE size(c)
  <2>1. mState[c] = "Size" /\ mState'[c] = "Get"
    BY <1>1, <1>3 DEF size, Takes, Goto, ClientTypeOK
  <2> QED BY <1>1, <1>3, <2>1 DEF size, ClientInv, Keeps, Has, Opening
<1>4. CASE start(c)
  <2>1. /\ mState[c] = "Start" /\ mState'[c] \in {"Data", "Idle"}
        /\ mNext'[c] = 0 /\ mCache' = mCache /\ mFile' = mFile /\ downloads' = downloads
    BY <1>1, <1>4 DEF start, Takes, Goto, ClientTypeOK
  <2> QED BY <1>1, <2>1 DEF ClientInv, Keeps, Has, Opening
<1>5. CASE data(c)
  <2>1. mState[c] = "Data" /\ mState'[c] = "Acknowledge"
    BY <1>1, <1>5 DEF data, Takes, Goto, ClientTypeOK
  <2>2. mFile' = mFile /\ downloads' = downloads
    BY <1>5 DEF data
  <2>3. downloads[c] # 0
    BY <1>1, <2>1 DEF ClientInv
  <2> QED BY <1>1, <1>5, <2>1, <2>2, <2>3, DataKeeps DEF ClientInv, Keeps, Opening
<1>6. CASE Duplicate(c)
  <2>1. /\ mState[c] = "Data" /\ mState'[c] = "Acknowledge"
        /\ mBlock'[c] = Found(c).block
    BY <1>1, <1>6 DEF Duplicate, Takes, Goto, ClientTypeOK
  <2>2. mFile' = mFile /\ downloads' = downloads /\ mNext' = mNext /\ mCache' = mCache
    BY <1>6 DEF Duplicate
  <2>3. Found(c).block \in BlockId
    BY <1>1, <1>6, DuplicateType
  <2>4. Has(c, mBlock[c])'
    BY <1>6, <2>1, <2>2 DEF Duplicate, IsDuplicate, Has
  <2> QED BY <1>1, <2>1, <2>2, <2>3, <2>4 DEF ClientInv, Keeps, Has, Opening
<1>7. CASE acknowledge(c)
  <2>1. mState[c] = "Acknowledge" /\ mState'[c] \in {"Checksum", "Data"}
    BY <1>1, <1>7 DEF acknowledge, Goto, ClientTypeOK
  <2> QED BY <1>1, <1>7, <2>1 DEF acknowledge, ClientInv, Keeps, Has, Opening
<1>8. CASE confirm(c)
  <2>1. mState[c] = "Confirm" /\ mState'[c] = "Idle"
    BY <1>1, <1>8 DEF confirm, Takes, Goto, ClientTypeOK
  <2> QED BY <1>1, <1>8, <2>1 DEF confirm, ClientInv, Keeps, Has, Opening
<1>9. CASE WaitError(c)
  <2>1. mState[c] \in Waiting /\ mState'[c] = "Error"
    BY <1>1, <1>9 DEF WaitError, Goto, ClientTypeOK
  <2>2. mProtocols'[c] # <<>>
    BY <1>1, <1>9, WaitErrorType
  <2> QED BY <1>1, <1>9, <2>1, <2>2
          DEF WaitError, Waiting, ClientInv, Keeps, Has, Opening
<1>10. CASE Discard(c)
  <2>1. mState[c] # "Error"
    BY <1>10 DEF Discard, Waiting
  <2> QED BY <1>1, <1>10, <2>1 DEF Discard, ClientInv, Keeps, Has, Opening
<1>11. CASE error(c)
  <2>1. mState[c] = "Error" /\ mState'[c] = "Idle"
    BY <1>1, <1>11 DEF error, Goto, ClientTypeOK
  <2> QED BY <1>1, <1>11, <2>1 DEF error, ClientInv, Keeps, Has, Opening
<1> QED
  BY <1>2, <1>3, <1>4, <1>5, <1>6, <1>7, <1>8, <1>9, <1>10, <1>11 DEF DispatchStep

\* What the command line thread puts on the wire.
LEMMA DispatchSends ==
  ASSUME ClientPre, NEW c \in Client, DispatchStep(c), NEW m \in net', m \notin net
  PROVE  MessageInv(m)'
<1>1. ClientInv(c) /\ mState[c] # "Idle" => downloads[c] >= 1
  BY ClientAssumption DEF ClientPre, ClientInv, ClientTypeOK
<1>2. CASE query(c) \/ get(c) \/ checksum(c)
  <2>1. /\ mState[c] # "Idle" /\ downloads' = downloads
        /\ m \in {QueryMsg(c, mFile[c]), GetMsg(c, mFile[c]),
                  ChecksumMsg(c, mFile[c], mOutput[c])}
    BY <1>2 DEF query, get, checksum, Asks, Send
  <2>2. m.type # "Acknowledge" /\ m.client = c
    BY <2>1 DEF QueryMsg, GetMsg, ChecksumMsg
  <2>3. downloads'[c] >= 1
    BY <1>1, <2>1 DEF ClientPre
  <2> QED BY <2>2, <2>3 DEF MessageInv
<1>3. CASE acknowledge(c)
  <2>1. /\ mState[c] = "Acknowledge" /\ downloads' = downloads
        /\ m = AcknowledgeMsg(c, mFile[c], mBlock[c])
        /\ mNext' = mNext /\ mCache' = mCache
    BY <1>3 DEF acknowledge, Send
  <2>2. m.client = c /\ m.block = mBlock[c]
    BY <2>1 DEF AcknowledgeMsg
  <2>3. Has(c, mBlock[c]) /\ downloads[c] >= 1
    BY <1>1, <2>1 DEF ClientPre, ClientInv
  <2> QED BY <2>1, <2>2, <2>3 DEF MessageInv, Has
<1>4. CASE net' = net
  BY <1>4
<1> QED
  BY <1>2, <1>3, <1>4
  DEF DispatchStep, size, start, data, Duplicate, confirm, WaitError, Discard, error

LEMMA DownloadKeeps ==
  ASSUME ClientPre, NEW c \in Client, NEW f \in File, Download(c, f)
  PROVE  ClientInv(c)' /\ Keeps(c) /\ downloads' = [downloads EXCEPT ![c] = @ + 1]
<1>1. /\ ClientInv(c) /\ ClientTypeOK /\ mState[c] = "Idle" /\ mNext[c] \in 0..MaxBlocks
      /\ downloads[c] \in Nat
  BY ClientAssumption DEF ClientPre, ClientTypeOK, Download
<1>2. /\ mState'[c] = "Query" /\ mFile'[c] = f /\ requests' = requests
      /\ mNext'[c] = mNext[c] /\ downloads'[c] = downloads[c] + 1
  BY <1>1 DEF ClientTypeOK, Download, Goto, channelVars
<1>3. downloads'[c] <= 1 => mNext[c] = 0
  BY <1>1, <1>2 DEF ClientInv
<1>4. downloads'[c] # 0 /\ downloads'[c] # downloads[c]
  BY <1>1, <1>2
<1>5. RequestInv(c)'
  BY <1>1, <1>2, SameRequests DEF ClientInv
<1> QED BY <1>1, <1>2, <1>3, <1>4, <1>5 DEF ClientInv, Keeps, Opening, Download

\* The other threads may stop a download, and repeat what was sent; they leave
\* what dispatch() has received and written alone.
BackgroundStep(c) ==
  /\ UNCHANGED <<mFile, mSize, mNext, mBlock, mCache, mOutput, mProtocols, mHandle,
                 downloads>>
  /\ mState' = mState \/ Goto(c, "Idle")
  /\ outcome' = outcome \/ Calls(c, "failed")
  /\ RequestInv(c)'
  /\ \A m \in net : m \in net'
  /\ \A m \in net' :
       m \in net \/ \E h \in Handle : requests[c][h] # Nil /\ m = requests[c][h].message

LEMMA ClientTimerBackground ==
  ASSUME ClientPre, NEW c \in Client, NEW h \in Handle, ClientTimer(c, h)
  PROVE  BackgroundStep(c)
<1>1. /\ ClientTypeOK /\ RequestInv(c) /\ requests[c][h] # Nil
      /\ downloads' = downloads
  BY DEF ClientPre, ClientInv, ClientTimer, ClientRetry, ClientExpire
<1>2. \A g \in Handle : requests'[c][g] # Nil =>
        requests[c][g] # Nil /\ requests'[c][g].message = requests[c][g].message
  <2>1. CASE ClientRetry(c, h)
    <3>1. requests' = [requests EXCEPT ![c][h].tries = @ + 1] /\ requests[c][h] \in Entry
      BY <1>1, <2>1, EntryFields DEF ClientRetry
    <3>2. \A g \in Handle : g # h => requests'[c][g] = requests[c][g]
      BY <1>1, <3>1 DEF ClientTypeOK
    <3>3. requests'[c][h].message = requests[c][h].message
      BY <1>1, <3>1 DEF ClientTypeOK, Entry
    <3> QED BY <1>1, <3>2, <3>3
  <2>2. CASE ClientExpire(c, h)
    BY <1>1, <2>2 DEF ClientTypeOK, ClientExpire
  <2> QED BY <2>1, <2>2 DEF ClientTimer
<1>3. RequestInv(c)'
  BY <1>1, <1>2, SameRequests
<1> QED BY <1>1, <1>3 DEF BackgroundStep, ClientTimer, ClientRetry, ClientExpire, Send

LEMMA TimeoutBackground ==
  ASSUME ClientPre, NEW c \in Client, TimeoutStep(c) \/ Wake(c)
  PROVE  BackgroundStep(c)
<1>1. ClientTypeOK /\ RequestInv(c)
  BY DEF ClientPre, ClientInv
<1>2. /\ UNCHANGED <<mFile, mSize, mNext, mBlock, mCache, mOutput, mProtocols, mHandle,
                     downloads, net>>
      /\ mState' = mState \/ Goto(c, "Idle")
      /\ outcome' = outcome \/ Calls(c, "failed")
      /\ requests' = requests \/ TerminateHandle(c)
  BY DEF TimeoutStep, TimeoutReport, TimeoutTerminate, TimeoutStop, TimeoutNotify,
         Proceeds, Wake, channelVars
<1>3. RequestInv(c)'
  <2>1. CASE requests' = requests
    BY <1>1, <1>2, <2>1, SameRequests
  <2>2. CASE TerminateHandle(c)
    <3>1. \A h \in Handle : requests'[c][h] \in {requests[c][h], Nil}
      BY <1>1, <2>2, TerminateType
    <3> QED BY <1>1, <1>2, <3>1, SameRequests
  <2> QED BY <1>2, <2>1, <2>2
<1> QED BY <1>2, <1>3 DEF BackgroundStep

LEMMA BackgroundIsStep ==
  ASSUME ClientPre, NEW c \in Client, Background(c)
  PROVE  BackgroundStep(c)
BY ClientTimerBackground, TimeoutBackground DEF Background

LEMMA BackgroundKeeps ==
  ASSUME ClientPre, NEW c \in Client, Background(c)
  PROVE  /\ ClientInv(c)' /\ Keeps(c) /\ downloads' = downloads
         /\ \A m \in net' : m \in net \/ MessageInv(m)'
<1>1. ClientInv(c) /\ ClientTypeOK /\ BackgroundStep(c)
  BY BackgroundIsStep DEF ClientPre
<1>2. mState'[c] \in {mState[c], "Idle"}
  BY <1>1 DEF BackgroundStep, Goto, ClientTypeOK
<1>3. ClientInv(c)' /\ Keeps(c)
  BY <1>1, <1>2 DEF BackgroundStep, ClientInv, Keeps, Has, Opening
<1>4. ASSUME NEW m \in net', m \notin net PROVE MessageInv(m)'
  <2>1. PICK h \in Handle : requests[c][h] # Nil /\ m = requests[c][h].message
    BY <1>1, <1>4 DEF BackgroundStep
  <2>2. m.type # "Acknowledge" /\ m.client = c /\ downloads'[c] >= 1
    BY <1>1, <2>1 DEF ClientInv, RequestInv, BackgroundStep
  <2> QED BY <2>2 DEF MessageInv
<1> QED BY <1>1, <1>3, <1>4 DEF BackgroundStep

LEMMA OnReceiveStep ==
  ASSUME ClientPre, NEW m \in net, onReceive(m)
  PROVE  ClientStep
<1>1. NetworkTypeOK' /\ ClientTypeOK'
  BY OnReceiveType DEF ClientPre
<1>2. m.client \in Client
  BY MessageFields DEF ClientPre, NetworkTypeOK
<1>3. ASSUME NEW c \in Client PROVE ClientInv(c)' /\ Keeps(c)
  <2>1. mProtocols[c] # <<>> => mProtocols'[c] # <<>>
    <3>1. CASE mProtocols'[c] = mProtocols[c]
      BY <3>1
    <3>2. CASE mProtocols'[c] = Append(mProtocols[c], m)
      <4>1. mProtocols[c] \in Seq(ToClient) /\ m \in ToClient
        BY MessageFields DEF ClientPre, ClientTypeOK, NetworkTypeOK, onReceive
      <4>2. mProtocols'[c] \in Seq(ToClient) /\ Len(mProtocols'[c]) = Len(mProtocols[c]) + 1
        BY <3>2, <4>1, AppendProperties
      <4> QED BY <4>1, <4>2, EmptySeq, LenProperties
    <3> QED BY <1>2, <3>1, <3>2 DEF onReceive, ClientPre, ClientTypeOK
  <2>2. ClientInv(c)
    BY DEF ClientPre
  <2> QED BY <2>1, <2>2
          DEF onReceive, ClientInv, RequestInv, Keeps, Has, Opening, channelVars
<1>4. \A n \in net' : n \in net
  BY DEF onReceive, Receive
<1> QED BY <1>1, <1>3, <1>4 DEF ClientStep, onReceive

LEMMA DownloadStep ==
  ASSUME ClientPre, NEW c \in Client, NEW f \in File, Download(c, f)
  PROVE  ClientStep
<1>1. NetworkTypeOK' /\ ClientTypeOK'
  BY DownloadType, NetUnchangedType DEF ClientPre, Download
<1>2. ASSUME NEW d \in Client PROVE ClientInv(d)' /\ Keeps(d)
  BY DownloadKeeps, OthersView, SameView DEF ClientPre
<1>3. \A d \in Client : downloads'[d] \in {downloads[d], downloads[d] + 1}
  BY DownloadKeeps DEF ClientPre, ClientTypeOK
<1> QED BY <1>1, <1>2, <1>3 DEF ClientStep, Download

LEMMA DispatchStepStep ==
  ASSUME ClientPre, NEW c \in Client, DispatchStep(c)
  PROVE  ClientStep
<1>1. NetworkTypeOK' /\ ClientTypeOK'
  BY DispatchType DEF ClientPre
<1>2. ASSUME NEW d \in Client PROVE ClientInv(d)' /\ Keeps(d)
  BY DispatchKeeps, OthersView, SameView DEF ClientPre
<1> QED BY <1>1, <1>2, DispatchKeeps, DispatchSends DEF ClientStep

LEMMA BackgroundStepStep ==
  ASSUME ClientPre, NEW c \in Client, Background(c)
  PROVE  ClientStep
<1>1. NetworkTypeOK' /\ ClientTypeOK'
  BY ClientTimerType, TimeoutType, WakeType DEF ClientPre, Background
<1>2. ASSUME NEW d \in Client PROVE ClientInv(d)' /\ Keeps(d)
  BY BackgroundKeeps, OthersView, SameView DEF ClientPre
<1> QED BY <1>1, <1>2, BackgroundKeeps DEF ClientStep
-----------------------------------------------------------------------------
(* The invariant, and what follows from it. *)

LEMMA IInvInit == Init => IInv
<1> SUFFICES ASSUME Init PROVE IInv
  OBVIOUS
<1>1. TypeOK
  BY ClientTypeInit, ServerTypeInit DEF TypeOK, NetworkTypeOK, Init, NetworkInit
<1>2. \A c \in Client : ClientInv(c)
  BY DEF Init, ClientInit, ClientInv, RequestInv, Opening
<1>3. \A c \in Client : mTasks[c] = Nil
  BY DEF Init, ServerInit
<1>4. net = {}
  BY DEF Init, NetworkInit
<1> QED BY <1>1, <1>2, <1>3, <1>4 DEF IInv, AckedIsReceived

LEMMA IInvClientStep ==
  ASSUME IInv, ClientStep, UNCHANGED serverVars
  PROVE  IInv'
<1>1. mTasks' = mTasks
  BY DEF serverVars
<1>2. TypeOK'
  BY DEF IInv, TypeOK, ClientStep, ServerTypeOK, serverVars, Slot, Refusal, Task,
         Tries, BlockId, Content, Version, Callback
<1>3. \A c \in Client : downloads[c] \in Nat /\ downloads'[c] \in {downloads[c], downloads[c] + 1}
  BY ClientAssumption DEF IInv, TypeOK, ClientTypeOK, ClientStep
<1>4. \A c \in Client : mTasks'[c] # Nil => TaskInv(mTasks'[c]) /\ downloads'[c] >= 1
  BY <1>1, <1>3 DEF IInv
<1>5. ASSUME NEW m \in net' PROVE MessageInv(m)'
  <2> SUFFICES ASSUME m \in net PROVE MessageInv(m)'
    BY DEF ClientStep
  <2>1. m.client \in Client /\ MessageInv(m) /\ (m.type = "Acknowledge" => m.block \in BlockId)
    BY MessageFields DEF IInv, TypeOK, NetworkTypeOK
  <2>2. Keeps(m.client)
    BY <2>1 DEF ClientStep
  <2> QED BY <1>3, <2>1, <2>2 DEF MessageInv, Keeps
<1>6. AckedIsReceived'
  <2> SUFFICES ASSUME NEW c \in Client, NEW b \in BlockId, mTasks'[c] # Nil,
                      downloads'[c] = 1, b < mTasks'[c].next, mTasks'[c].packets[b] = 0
               PROVE  Has(c, b)'
    BY DEF AckedIsReceived, BlockId
  <2>1. downloads[c] >= 1 /\ downloads'[c] = downloads[c]
    BY <1>1, <1>3 DEF IInv
  <2>2. Has(c, b)
    BY <1>1, <2>1 DEF IInv, AckedIsReceived
  <2>3. Keeps(c)
    BY DEF ClientStep
  <2> QED BY <2>1, <2>2, <2>3 DEF Keeps
<1> QED BY <1>2, <1>4, <1>5, <1>6 DEF IInv, ClientStep, TaskInv, Outstanding, BlockId

LEMMA IInvServerStep ==
  ASSUME IInv, ServerStep, UNCHANGED clientVars
  PROVE  IInv'
<1>1. /\ mState' = mState /\ mFile' = mFile /\ mNext' = mNext /\ mBlock' = mBlock
      /\ mCache' = mCache /\ mProtocols' = mProtocols /\ requests' = requests
      /\ downloads' = downloads
  BY DEF clientVars, channelVars
<1>2. TypeOK'
  <2>1. ClientTypeOK'
    BY DEF IInv, TypeOK, ClientTypeOK, clientVars, channelVars, BlockId, Content,
           Version, ToClient, ToServer, Entry, Handle, Step, State, Waiting
  <2> QED BY <2>1 DEF TypeOK, ServerStep
<1>3. \A c \in Client : ClientInv(c)'
  BY <1>1 DEF IInv, ClientInv, RequestInv, Has, BlockId, Handle
<1>4. ASSUME NEW c \in Client, mTasks'[c] # Nil
      PROVE  TaskInv(mTasks'[c]) /\ downloads'[c] >= 1
  <2>1. TaskStep(c)
    BY <1>4 DEF ServerStep
  <2> QED BY <1>1, <2>1 DEF TaskStep, IInv, MessageInv
<1>5. ASSUME NEW m \in net' PROVE MessageInv(m)'
  BY <1>1 DEF IInv, ServerStep, MessageInv, Has, Reply
<1>6. AckedIsReceived'
  <2> SUFFICES ASSUME NEW c \in Client, NEW b \in BlockId, mTasks'[c] # Nil,
                      downloads[c] = 1, b < mTasks'[c].next, mTasks'[c].packets[b] = 0
               PROVE  Has(c, b)
    BY <1>1 DEF AckedIsReceived, BlockId, Has
  <2>1. TaskStep(c)
    BY DEF ServerStep
  <2> QED BY <2>1 DEF TaskStep, IInv, AckedIsReceived, MessageInv
<1> QED BY <1>2, <1>3, <1>4, <1>5, <1>6 DEF IInv, TaskInv, Outstanding, BlockId

LEMMA IInvNext == IInv /\ [Next]_vars => IInv'
<1> SUFFICES ASSUME IInv, [Next]_vars PROVE IInv'
  OBVIOUS
<1>1. ClientPre /\ ServerPre
  BY DEF IInv, TypeOK, ClientPre, ServerPre
<1>2. ASSUME NEW c \in Client, Ask(c) \/ Dispatch(c) PROVE IInv'
  BY <1>1, <1>2, DownloadStep, DispatchStepStep, IInvClientStep DEF Ask, Dispatch
<1>3. ASSUME NEW c \in Client,
             (\E h \in Handle : Expire(c, h)) \/ TimesOut(c) \/ Woken(c)
      PROVE  IInv'
  <2>1. Background(c) /\ UNCHANGED serverVars
    BY <1>3 DEF Background, Expire, TimesOut, Woken
  <2> QED BY <1>1, <2>1, BackgroundStepStep, IInvClientStep
<1>4. ASSUME NEW c \in Client, Work(c) PROVE IInv'
  BY <1>1, <1>4, WorkStep, IInvServerStep DEF Work
<1>5. ASSUME NEW c \in Client, NEW b \in BlockId, ExpireData(c, b) PROVE IInv'
  BY <1>1, <1>5, DataRetryStep, DataExpireStep, IInvServerStep DEF ExpireData, DataTimer
<1>6. ASSUME NEW s \in Slot, ExpireRefusal(s) PROVE IInv'
  BY <1>1, <1>6, RefusalRetryStep, RefusalExpireStep, IInvServerStep
  DEF ExpireRefusal, RefusalTimer
<1>7. ASSUME NEW c \in Client, CallBack(c) PROVE IInv'
  BY <1>1, <1>7, OnRetryStep, QuietSteps, IInvServerStep DEF CallBack, ServerCallback
<1>8. ASSUME Deliver PROVE IInv'
  <2>1. PICK m \in net : \/ onReceive(m) /\ UNCHANGED serverVars
                         \/ ServerReceive(m) /\ UNCHANGED clientVars
    BY <1>8 DEF Deliver
  <2>2. CASE onReceive(m) /\ UNCHANGED serverVars
    BY <1>1, <2>2, OnReceiveStep, IInvClientStep
  <2>3. CASE ServerReceive(m) /\ UNCHANGED clientVars
    BY <1>1, <2>3, OnQueryStep, RefuseStep, OnGetStep, OnAcknowledgeStep, OnChecksumStep,
       IInvServerStep DEF ServerReceive
  <2> QED BY <2>1, <2>2, <2>3
<1>9. ASSUME Environment PROVE IInv'
  BY <1>1, <1>9, QuietSteps, IInvServerStep DEF Environment
<1>10. ASSUME UNCHANGED vars PROVE IInv'
  <2>1. UNCHANGED <<serverVars, net>> /\ UNCHANGED clientVars
    BY <1>10 DEF vars
  <2> QED BY <1>1, <2>1, QuietSteps, IInvServerStep
<1> QED BY <1>2, <1>3, <1>4, <1>5, <1>6, <1>7, <1>8, <1>9, <1>10 DEF Next

LEMMA IInvAlways == Spec => []IInv
BY IInvInit, IInvNext, PTL DEF Spec

\* Every handler of Client and Server keeps the types of their state and of the
\* datagrams: the digest is over what was read, no block number is out of range,
\* the window stays between 1 and MaxWindow.
THEOREM TypeCorrect == Spec => []TypeOK
<1>1. IInv => TypeOK
  BY DEF IInv
<1> QED BY <1>1, IInvAlways, PTL

\* Whatever the network loses, repeats or reorders, and whenever the server
\* restarts, Server::onAcknowledge stops repeating a block of a client's first
\* download only when the client has it.
THEOREM AckedIsReceivedAlways == Spec => []AckedIsReceived
<1>1. IInv => AckedIsReceived
  BY DEF IInv
<1> QED BY <1>1, IInvAlways, PTL

\* Server::work never has more than MaxWindow packets unacknowledged, although
\* onRetry may halve the window below what is outstanding.
THEOREM InFlightBoundedAlways == Spec => []InFlightBounded
<1>1. IInv => InFlightBounded
  BY DEF IInv, TaskInv, InFlightBounded
<1> QED BY <1>1, IInvAlways, PTL
-----------------------------------------------------------------------------
(* Requests are watched. *)

\* No callback runs before the first download, and in that one an entry is
\* terminated by a timer thread only after its user has been told.
WatchInv(c) ==
  /\ downloads[c] = 0 => \A s \in Step : onTimeouts[c][s] = 0
  /\ downloads[c] = 1 /\ onTimeouts[c]["terminate"] > 0 => "failed" \in outcome[c]
  /\ downloads[c] = 1 /\ mState[c] \in DOMAIN RequestOf => Watched(c)

WInv == IInv /\ \A c \in Client : WatchInv(c)

LEMMA RequestOfDomain == DOMAIN RequestOf = {"Size", "Start", "Confirm"}
BY DEF RequestOf

\* What the timers do changes nothing for c.
LEMMA WatchKept ==
  ASSUME NEW c \in Client, WatchInv(c),
         UNCHANGED <<mState[c], requests[c], onTimeouts[c], outcome[c], downloads[c]>>
  PROVE  WatchInv(c)'
BY DEF WatchInv, Watched

\* A handler that does not begin to wait for an answer.
LEMMA WatchElsewhere ==
  ASSUME NEW c \in Client, WatchInv(c), mState'[c] \notin DOMAIN RequestOf,
         UNCHANGED <<onTimeouts, downloads>>, outcome[c] \subseteq outcome'[c]
  PROVE  WatchInv(c)'
BY DEF WatchInv

LEMMA WatchAsks ==
  ASSUME ClientTypeOK, NEW c \in Client, WatchInv(c),
         NEW s, NEW m \in ToServer, NEW t \in DOMAIN RequestOf, Asks(c, s, m, t), m.type = RequestOf[t]
  PROVE  WatchInv(c)'
<1>1. PICK h \in Handle :
        requests' = [requests EXCEPT ![c][h] = [message |-> m, tries |-> 1]]
  BY DEF Asks
<1>2. requests'[c][h] = [message |-> m, tries |-> 1] /\ mState'[c] = t
  BY <1>1 DEF Asks, Goto, ClientTypeOK
<1>3. requests'[c][h] # Nil
  <2>1. 1 \in 1..(Retries + 1)
    BY ChannelAssumption
  <2>2. [message |-> m, tries |-> 1] \in Entry
    BY <2>1 DEF Entry
  <2> QED BY <1>2, <2>2, EntryAssumption
<1>4. Watched(c)'
  BY <1>2, <1>3 DEF Watched
<1>5. UNCHANGED <<onTimeouts, outcome, downloads>>
  BY DEF Asks
<1> QED BY <1>4, <1>5 DEF WatchInv

LEMMA WatchDispatch ==
  ASSUME ClientPre, NEW c \in Client, WatchInv(c), DispatchStep(c)
  PROVE  WatchInv(c)'
<1> DEFINE f == mFile[c]
<1>1. ClientTypeOK /\ (mState[c] # "Idle" => f \in File)
  BY DEF ClientPre, ClientInv
<1>2. CASE query(c)
  <2>1. QueryMsg(c, f) \in ToServer /\ QueryMsg(c, f).type = RequestOf["Size"]
    BY <1>1, <1>2, RequestTypes DEF query, Asks, QueryMsg, RequestOf
  <2> QED BY <1>1, <1>2, <2>1, WatchAsks, RequestOfDomain DEF query
<1>3. CASE get(c)
  <2>1. GetMsg(c, f) \in ToServer /\ GetMsg(c, f).type = RequestOf["Start"]
    BY <1>1, <1>3, RequestTypes DEF get, Asks, GetMsg, RequestOf
  <2> QED BY <1>1, <1>3, <2>1, WatchAsks, RequestOfDomain DEF get
<1>4. CASE checksum(c)
  <2>1. /\ mOutput[c] \in Seq(Content)
        /\ ChecksumMsg(c, f, mOutput[c]).type = RequestOf["Confirm"]
    BY <1>1 DEF ChecksumMsg, RequestOf, ClientTypeOK
  <2>2. ChecksumMsg(c, f, mOutput[c]) \in ToServer
    BY <1>1, <1>4, <2>1, RequestTypes DEF checksum, Asks
  <2> QED BY <1>1, <1>4, <2>1, <2>2, WatchAsks, RequestOfDomain DEF checksum
<1>5. CASE size(c) \/ start(c) \/ data(c) \/ Duplicate(c)
  <2>1. mState'[c] \in {"Get", "Data", "Idle", "Acknowledge"}
    BY <1>1, <1>5 DEF size, start, data, Duplicate, Goto, ClientTypeOK
  <2>2. UNCHANGED <<onTimeouts, downloads>> /\ outcome[c] \subseteq outcome'[c]
    BY <1>1, <1>5 DEF size, start, data, Duplicate, Takes, Calls, ClientTypeOK
  <2> QED BY <2>1, <2>2, WatchElsewhere, RequestOfDomain
<1>6. CASE acknowledge(c) \/ confirm(c) \/ WaitError(c) \/ error(c)
  <2>1. mState'[c] \in {"Data", "Checksum", "Idle", "Error"}
    BY <1>1, <1>6 DEF acknowledge, confirm, WaitError, error, Goto, ClientTypeOK
  <2>2. UNCHANGED <<onTimeouts, downloads>> /\ outcome[c] \subseteq outcome'[c]
    BY <1>1, <1>6 DEF acknowledge, confirm, WaitError, error, Takes, Calls, ClientTypeOK,
                      channelVars
  <2> QED BY <2>1, <2>2, WatchElsewhere, RequestOfDomain
<1>7. CASE Discard(c)
  BY <1>7, WatchKept DEF Discard, channelVars
<1> QED BY <1>2, <1>3, <1>4, <1>5, <1>6, <1>7 DEF DispatchStep

LEMMA WatchDownload ==
  ASSUME ClientPre, NEW c \in Client, WatchInv(c), NEW f \in File, Download(c, f)
  PROVE  WatchInv(c)'
<1>1. ClientTypeOK /\ downloads[c] \in Nat
  BY ClientAssumption DEF ClientPre, ClientTypeOK
<1>2. /\ mState'[c] = "Query" /\ downloads'[c] = downloads[c] + 1
      /\ onTimeouts' = onTimeouts
  BY <1>1 DEF Download, Goto, ClientTypeOK, channelVars
<1>3. downloads'[c] = 1 => onTimeouts'[c]["terminate"] = 0
  BY <1>1, <1>2 DEF WatchInv, Step
<1> QED BY <1>1, <1>2, <1>3, RequestOfDomain DEF WatchInv

\* A timer thread of c takes a step: whoever waits is watched by it, or by the
\* user that it has told.
LEMMA WatchTimer ==
  ASSUME ClientPre, NEW c \in Client, WatchInv(c), NEW h \in Handle, ClientTimer(c, h)
  PROVE  WatchInv(c)'
<1>1. /\ ClientTypeOK /\ RequestInv(c) /\ requests[c][h] # Nil
      /\ UNCHANGED <<mState, outcome, downloads>>
  BY DEF ClientPre, ClientInv, ClientTimer, ClientRetry, ClientExpire
<1>2. downloads[c] >= 1 /\ downloads[c] \in Nat /\ \A s \in Step : onTimeouts[c][s] \in Nat
  BY <1>1, ClientAssumption DEF RequestInv, ClientTypeOK
<1>3. CASE ClientRetry(c, h)
  <2>1. requests' = [requests EXCEPT ![c][h].tries = @ + 1] /\ requests[c][h] \in Entry
    BY <1>1, <1>3, EntryFields DEF ClientRetry
  <2>2. \A g \in Handle : g # h => requests'[c][g] = requests[c][g]
    BY <1>1, <2>1 DEF ClientTypeOK
  <2>3. requests'[c][h] = [requests[c][h] EXCEPT !.tries = @ + 1]
    BY <1>1, <2>1 DEF ClientTypeOK
  <2>4. requests'[c][h].message = requests[c][h].message
    BY <2>1, <2>3 DEF Entry
  <2>5. requests'[c][h] # Nil
    <3>1. requests[c][h].tries \in 1..Retries /\ Retries \in Nat
      BY <1>1, <1>3, EntryFields, ChannelAssumption DEF ClientRetry
    <3>2. [requests[c][h] EXCEPT !.tries = @ + 1] \in Entry
      BY <2>1, <3>1 DEF Entry
    <3> QED BY <2>3, <3>2, EntryAssumption
  <2>6. onTimeouts' = onTimeouts
    BY <1>3 DEF ClientRetry
  <2>7. Watched(c) => Watched(c)'
    BY <1>1, <2>2, <2>4, <2>5, <2>6 DEF Watched, Handle
  <2> QED BY <1>1, <2>6, <2>7 DEF WatchInv
<1>4. CASE ClientExpire(c, h)
  <2>1. /\ onTimeouts'[c]["report"] = onTimeouts[c]["report"] + 1
        /\ onTimeouts'[c]["terminate"] = onTimeouts[c]["terminate"]
    BY <1>1, <1>4 DEF ClientExpire, ClientTypeOK, Step
  <2>2. Watched(c)'
    BY <1>2, <2>1 DEF Watched, Step
  <2> QED BY <1>1, <1>2, <2>1, <2>2 DEF WatchInv
<1> QED BY <1>3, <1>4 DEF ClientTimer

LEMMA WatchTimeout ==
  ASSUME ClientPre, NEW c \in Client, WatchInv(c), TimeoutStep(c)
  PROVE  WatchInv(c)'
<1>1. ClientTypeOK /\ \A s \in Step : onTimeouts[c][s] \in Nat
  BY DEF ClientPre, ClientTypeOK
<1>2. /\ downloads' = downloads /\ downloads[c] # 0
      /\ mState'[c] \in {mState[c], "Idle"} /\ outcome[c] \subseteq outcome'[c]
  BY <1>1 DEF TimeoutStep, TimeoutReport, TimeoutTerminate, TimeoutStop, TimeoutNotify,
              Proceeds, Calls, Goto, WatchInv, ClientTypeOK, Step
<1>3. CASE TimeoutReport(c)
  <2>1. "failed" \in outcome'[c]
    BY <1>1, <1>3 DEF TimeoutReport, Calls, ClientTypeOK
  <2> QED BY <1>2, <2>1 DEF WatchInv, Watched
<1>4. CASE TimeoutTerminate(c)
  <2>1. onTimeouts[c]["terminate"] > 0
    BY <1>4 DEF TimeoutTerminate, Proceeds
  <2>2. downloads[c] = 1 => "failed" \in outcome'[c]
    BY <1>2, <2>1 DEF WatchInv
  <2> QED BY <1>2, <2>2 DEF WatchInv, Watched
<1>5. CASE TimeoutStop(c) \/ TimeoutNotify(c)
  <2>1. /\ requests' = requests /\ outcome' = outcome
        /\ onTimeouts'[c]["report"] = onTimeouts[c]["report"]
        /\ onTimeouts'[c]["terminate"] = onTimeouts[c]["terminate"]
    BY <1>1, <1>5 DEF TimeoutStop, TimeoutNotify, Proceeds, ClientTypeOK, Step
  <2>2. mState'[c] = mState[c] /\ Watched(c) => Watched(c)'
    BY <2>1 DEF Watched
  <2> QED BY <1>2, <2>1, <2>2, RequestOfDomain DEF WatchInv
<1> QED BY <1>3, <1>4, <1>5 DEF TimeoutStep

\* What c does is no business of d.
LEMMA WatchOthers ==
  ASSUME ClientTypeOK, NEW c \in Client, NEW d \in Client, d # c, WatchInv(d),
         (\E f \in File : Download(c, f)) \/ DispatchStep(c) \/ Background(c)
  PROVE  WatchInv(d)'
<1>1. View(d)' = View(d)
  BY OthersView
<1>2. \/ outcome' = outcome
      \/ outcome' = [outcome EXCEPT ![c] = {}]
      \/ \E r : outcome' = [outcome EXCEPT ![c] = @ \cup {r}]
  <2>1. CASE \E f \in File : Download(c, f)
    BY <2>1 DEF Download
  <2>2. CASE DispatchStep(c)
    BY <2>2 DEF DispatchStep, query, get, checksum, Asks, size, start, data, Duplicate,
                acknowledge, confirm, WaitError, Discard, error, Calls
  <2>3. CASE Background(c)
    BY <2>3 DEF Background, ClientTimer, ClientRetry, ClientExpire, TimeoutStep, TimeoutReport,
                TimeoutTerminate, TimeoutStop, TimeoutNotify, Proceeds, Wake, Calls
  <2> QED BY <2>1, <2>2, <2>3
<1>3. outcome'[d] = outcome[d]
  BY <1>2 DEF ClientTypeOK
<1> QED BY <1>1, <1>3, WatchKept DEF View

LEMMA WInvNext == WInv /\ [Next]_vars => WInv'
<1> SUFFICES ASSUME WInv, [Next]_vars PROVE WInv'
  OBVIOUS
<1>1. IInv' /\ ClientPre /\ \A d \in Client : WatchInv(d)
  BY IInvNext DEF WInv, IInv, TypeOK, ClientPre
<1>2. ASSUME NEW c \in Client, Ask(c) \/ Dispatch(c) PROVE WInv'
  <2>1. WatchInv(c)'
    BY <1>1, <1>2, WatchDownload, WatchDispatch DEF Ask, Dispatch
  <2>2. ASSUME NEW d \in Client, d # c PROVE WatchInv(d)'
    BY <1>1, <1>2, <2>2, WatchOthers DEF Ask, Dispatch, ClientPre
  <2> QED BY <1>1, <2>1, <2>2 DEF WInv
<1>3. ASSUME NEW c \in Client, (\E h \in Handle : Expire(c, h)) \/ TimesOut(c) \/ Woken(c)
      PROVE  WInv'
  <2>1. Background(c)
    BY <1>3 DEF Background, Expire, TimesOut, Woken
  <2>2. CASE Wake(c)
    BY <1>1, <2>2, WatchKept DEF Wake, channelVars, WInv
  <2>3. WatchInv(c)'
    BY <1>1, <2>1, <2>2, WatchTimer, WatchTimeout DEF Background, WInv
  <2>4. ASSUME NEW d \in Client, d # c PROVE WatchInv(d)'
    BY <1>1, <2>1, <2>4, WatchOthers DEF ClientPre
  <2> QED BY <1>1, <2>3, <2>4 DEF WInv
<1>4. ASSUME UNCHANGED <<mState, requests, onTimeouts, outcome, downloads>> PROVE WInv'
  BY <1>1, <1>4, WatchKept DEF WInv
<1>5. CASE \E c \in Client : Work(c) \/ CallBack(c)
  BY <1>4, <1>5 DEF Work, CallBack, clientVars, channelVars
<1>6. CASE (\E c \in Client, b \in BlockId : ExpireData(c, b)) \/ \E s \in Slot : ExpireRefusal(s)
  BY <1>4, <1>6 DEF ExpireData, ExpireRefusal, clientVars, channelVars
<1>7. CASE Deliver
  BY <1>4, <1>7 DEF Deliver, onReceive, clientVars, channelVars
<1>8. CASE Environment \/ UNCHANGED vars
  BY <1>4, <1>8 DEF Environment, vars, clientVars, channelVars
<1> QED BY <1>2, <1>3, <1>5, <1>6, <1>7, <1>8 DEF Next

\* Wherever a reply, a handler or a restart comes between the expiry of a request
\* and the steps of Client::onTimeout, no client is left in its first download
\* waiting for an answer with neither a timer nor its user told.
THEOREM RequestsWatchedAlways == Spec => []RequestsWatched
<1>1. Init => WInv
  BY IInvInit, RequestOfDomain DEF Init, ClientInit, WInv, WatchInv
<1>2. WInv => RequestsWatched
  BY DEF WInv, WatchInv, RequestsWatched
<1> QED BY <1>1, <1>2, WInvNext, PTL DEF Spec

-----------------------------------------------------------------------------
(* What the server reads and remembers, on any network. *)

\* s is the contents of file f, of whatever versions.
IsWhole(s, f) ==
  Len(s) = Blocks[f] /\ \A i \in 1..Len(s) : s[i][1] = f /\ s[i][3] = i - 1

\* The running digest of task t is over the blocks of its file in order.
ReadInv(t) == \A i \in 1..t.next : t.checksum[i][1] = t.path /\ t.checksum[i][3] = i - 1

\* Only files that exist are sent and remembered, and they are not refused.
DiskInv ==
  /\ \A c \in Client : mTasks[c] # Nil => mTasks[c].path \in Existing /\ ReadInv(mTasks[c])
  /\ \A f \in File : mMD5Cache[f] # Nil => f \in Existing /\ IsWhole(mMD5Cache[f], f)
  /\ \A s \in Slot : refusals[s] # Nil => refusals[s].path \notin Existing

LEMMA BytesWhole ==
  ASSUME NEW f \in File, NEW v
  PROVE  IsWhole(Bytes(f, v), f)
<1>1. Blocks[f] \in Nat
  BY FileAssumption
<1>2. Bytes(f, v) \in [1..Blocks[f] -> {<<f, v, i - 1>> : i \in 1..Blocks[f]}]
  BY DEF Bytes
<1>3. Len(Bytes(f, v)) = Blocks[f]
  BY <1>1, <1>2, FunctionIsSeq
<1> QED BY <1>3 DEF IsWhole, Bytes

\* Server::work goes on reading where it stopped.
LEMMA FilledReads ==
  ASSUME ServerTypeOK, NEW t \in Task, TaskInv(t), ReadInv(t),
         Cardinality(Outstanding(t)) < t.window, NEW k, k = Reach(t)
  PROVE  ReadInv(Filled(t, k)) /\ Filled(t, k).path = t.path /\ Filled(t, k).next = k
<1> DEFINE new == [i \in 1..(k - t.next) |-> <<t.path, version[t.path], t.next + i - 1>>]
<1>1. /\ k \in Nat /\ t.next \in Nat /\ t.next <= k
      /\ t.checksum \in Seq(Content) /\ Len(t.checksum) = t.next
  BY ReachProperties, TaskFields DEF TaskInv
<1>2. /\ Filled(t, k).checksum = t.checksum \o new
      /\ Filled(t, k).path = t.path /\ Filled(t, k).next = k
  BY DEF Filled, Task
<1>3. new \in Seq(Content) /\ Len(new) = k - t.next
  <2>1. k <= MaxBlocks /\ version[t.path] \in Version /\ t.path \in File
    BY ReachProperties, TaskFields DEF ServerTypeOK
  <2>2. ASSUME NEW i \in 1..(k - t.next)
        PROVE  <<t.path, version[t.path], t.next + i - 1>> \in Content
    <3>1. t.next + i - 1 \in BlockId
      BY <1>1, <2>1, FileAssumption DEF BlockId
    <3> QED BY <2>1, <3>1 DEF Content
  <2>3. new \in [1..(k - t.next) -> Content] /\ k - t.next \in Nat
    BY <1>1, <2>2
  <2> HIDE DEF new
  <2> QED BY <2>3, FunctionIsSeq
<1>4. ASSUME NEW i \in 1..k
      PROVE  (t.checksum \o new)[i][1] = t.path /\ (t.checksum \o new)[i][3] = i - 1
  <2>1. CASE i <= t.next
    <3>1. (t.checksum \o new)[i] = t.checksum[i]
      <4> HIDE DEF new
      <4> QED BY <1>1, <1>3, <2>1, ConcatProperties
    <3> QED BY <1>1, <2>1, <3>1 DEF ReadInv
  <2>2. CASE i > t.next
    <3>1. i - t.next \in 1..(k - t.next)
      BY <1>1, <2>2
    <3>2. (t.checksum \o new)[i] = new[i - t.next]
      <4> HIDE DEF new
      <4> QED BY <1>1, <1>3, <2>2, ConcatProperties
    <3>3. new[i - t.next] = <<t.path, version[t.path], t.next + (i - t.next) - 1>>
      BY <3>1
    <3>4. t.next + (i - t.next) - 1 = i - 1
      BY <1>1
    <3> HIDE DEF new
    <3> QED BY <3>2, <3>3, <3>4
  <2> QED BY <1>1, <2>1, <2>2
<1> HIDE DEF new
<1> QED BY <1>2, <1>4 DEF ReadInv

\* A task whose packets or window alone change has read the same.
LEMMA SameRead ==
  ASSUME NEW t, NEW u, ReadInv(t), t.path \in Existing,
         u.path = t.path, u.next = t.next, u.checksum = t.checksum
  PROVE  ReadInv(u) /\ u.path \in Existing
BY DEF ReadInv

LEMMA DiskInit == Init => DiskInv
BY DEF Init, ServerInit, DiskInv

\* A step that leaves tasks, digests and refusals as they were, or drops them.
LEMMA DiskKept ==
  ASSUME DiskInv, \A c \in Client : mTasks'[c] \in {mTasks[c], Nil},
         \A f \in File : mMD5Cache'[f] \in {mMD5Cache[f], Nil},
         \A s \in Slot : refusals'[s] \in {refusals[s], Nil}
  PROVE  DiskInv'
<1>1. \A c \in Client : mTasks'[c] # Nil => mTasks'[c].path \in Existing /\ ReadInv(mTasks[c])'
  BY DEF DiskInv, ReadInv
<1>2. \A f \in File : mMD5Cache'[f] # Nil => f \in Existing /\ IsWhole(mMD5Cache'[f], f)
  BY DEF DiskInv
<1> QED BY <1>1, <1>2 DEF DiskInv, IsWhole

LEMMA DiskReceive ==
  ASSUME IInv, DiskInv, NEW m \in net, ServerReceive(m)
  PROVE  DiskInv'
<1>1. m.client \in Client /\ m.path \in File /\ ServerTypeOK
  BY MessageFields DEF IInv, TypeOK, NetworkTypeOK
<1>2. CASE onQuery(m)
  BY <1>2, DiskKept DEF onQuery, serverVars
<1>3. CASE Refuse(m)
  BY <1>3 DEF Refuse, DiskInv, ServerTypeOK, ReadInv, IsWhole
<1>4. CASE onGet(m)
  <2>1. m.path \in Existing => ReadInv(NewTask(m.path)) /\ NewTask(m.path).path = m.path
    BY DEF ReadInv, NewTask
  <2> QED BY <1>1, <1>4, <2>1 DEF onGet, DiskInv, ServerTypeOK, ReadInv, IsWhole
<1>5. CASE onAcknowledge(m)
  <2>1. ASSUME NEW c \in Client, mTasks'[c] # Nil
        PROVE  /\ mTasks[c] # Nil /\ mTasks'[c].path = mTasks[c].path
               /\ mTasks'[c].next = mTasks[c].next
               /\ mTasks'[c].checksum = mTasks[c].checksum
    BY <1>1, <1>5, <2>1 DEF onAcknowledge, Awaits, ServerTypeOK, Task
  <2>2. \A c \in Client : mTasks'[c] # Nil => mTasks'[c].path \in Existing /\ ReadInv(mTasks'[c])
    BY <2>1, SameRead DEF DiskInv
  <2>3. mMD5Cache' = mMD5Cache /\ refusals' = refusals
    BY <1>5 DEF onAcknowledge
  <2> QED BY <2>2, <2>3 DEF DiskInv, IsWhole, ReadInv
<1>6. CASE onChecksum(m)
  <2>1. \A c \in Client : mTasks'[c] \in {mTasks[c], Nil}
    BY <1>1, <1>6 DEF onChecksum, Terminate, ServerTypeOK
  <2>2. CASE mMD5Cache' = mMD5Cache
    BY <1>6, <2>1, <2>2, DiskKept DEF onChecksum
  <2>3. CASE /\ mMD5Cache[m.path] # Nil \/ m.path \in Existing
             /\ mMD5Cache' = [mMD5Cache EXCEPT ![m.path] = Expected(m.path)]
    <3>1. m.path \in Existing /\ IsWhole(Expected(m.path), m.path)
      BY <1>1, <2>3, BytesWhole DEF Expected, DiskInv
    <3>2. \A f \in File : mMD5Cache'[f] # Nil => f \in Existing /\ IsWhole(mMD5Cache'[f], f)
      BY <1>1, <2>3, <3>1 DEF DiskInv, ServerTypeOK
    <3>3. \A c \in Client : mTasks'[c] # Nil => mTasks'[c].path \in Existing /\ ReadInv(mTasks'[c])
      BY <2>1 DEF DiskInv
    <3> QED BY <1>6, <3>2, <3>3 DEF onChecksum, DiskInv, IsWhole, ReadInv
  <2> QED BY <1>6, <2>2, <2>3 DEF onChecksum
<1> QED BY <1>2, <1>3, <1>4, <1>5, <1>6 DEF ServerReceive

LEMMA DiskWork ==
  ASSUME IInv, DiskInv, NEW c \in Client, work(c)
  PROVE  DiskInv'
<1> DEFINE t == mTasks[c]
           k == Reach(t)
           u == Filled(t, k)
<1>1. t \in Task /\ TaskInv(t) /\ ReadInv(t) /\ t.path \in Existing /\ t # Nil /\ ServerTypeOK
  BY DEF work, IInv, TypeOK, ServerTypeOK, DiskInv
<1>2. /\ Cardinality(Outstanding(t)) < t.window
      /\ mMD5Cache' = IF AtEnd(u) /\ mMD5Cache[t.path] = Nil
                      THEN [mMD5Cache EXCEPT ![t.path] = u.checksum] ELSE mMD5Cache
      /\ mTasks' = [mTasks EXCEPT ![c] =
                      IF AtEnd(u) /\ Outstanding(u) = {} THEN Nil ELSE u]
      /\ UNCHANGED <<refusals, callbacks, version, restarts>>
  BY DEF work, Reach
<1>3. ReadInv(u) /\ u.path = t.path /\ u.next = k /\ TaskInv(u)
  BY <1>1, <1>2, FilledReads, FilledProperties
<1> HIDE DEF u, k
<1>4. AtEnd(u) => IsWhole(u.checksum, t.path)
  BY <1>3 DEF AtEnd, IsWhole, ReadInv, TaskInv
<1>5. \A d \in Client : mTasks'[d] # Nil => mTasks'[d].path \in Existing /\ ReadInv(mTasks'[d])
  BY <1>1, <1>2, <1>3 DEF DiskInv, ServerTypeOK
<1>6. \A f \in File : mMD5Cache'[f] # Nil => f \in Existing /\ IsWhole(mMD5Cache'[f], f)
  BY <1>1, <1>2, <1>4 DEF DiskInv, ServerTypeOK
<1> QED BY <1>2, <1>5, <1>6 DEF DiskInv, IsWhole, ReadInv

\* The timers of the server, and what they call back.
ServerTimer ==
  \/ \E c \in Client, b \in BlockId : DataTimer(c, b)
  \/ \E s \in Slot : RefusalTimer(s)
  \/ \E c \in Client : ServerCallback(c)

\* They leave what was read, remembered and refused as it is, or drop it.
LEMMA TimerKeepsTasks ==
  ASSUME ServerPre, ServerTimer
  PROVE  /\ mMD5Cache' = mMD5Cache /\ version' = version
         /\ \A c \in Client : mTasks'[c] # Nil =>
              /\ mTasks[c] # Nil /\ mTasks'[c].path = mTasks[c].path
              /\ mTasks'[c].next = mTasks[c].next
              /\ mTasks'[c].checksum = mTasks[c].checksum
         /\ \A s \in Slot : refusals'[s] # Nil =>
              /\ refusals[s] # Nil /\ refusals'[s].path = refusals[s].path
              /\ refusals'[s].client = refusals[s].client
<1>1. ServerTypeOK
  BY DEF ServerPre
<1>2. ASSUME NEW c \in Client, NEW b \in BlockId, DataTimer(c, b)
      PROVE  /\ mMD5Cache' = mMD5Cache /\ version' = version /\ refusals' = refusals
             /\ \A d \in Client : mTasks'[d] # Nil =>
                  /\ mTasks[d] # Nil /\ mTasks'[d].path = mTasks[d].path
                  /\ mTasks'[d].next = mTasks[d].next
                  /\ mTasks'[d].checksum = mTasks[d].checksum
  <2>1. /\ mTasks[c] \in Task /\ mTasks[c] # Nil
        /\ mTasks' = [mTasks EXCEPT ![c].packets[b] = @ + 1]
        /\ mMD5Cache' = mMD5Cache /\ version' = version /\ refusals' = refusals
    BY <1>1, <1>2 DEF DataTimer, DataRetry, DataExpire, ServerTypeOK
  <2> QED BY <1>1, <2>1 DEF ServerTypeOK, Task
<1>3. ASSUME NEW s \in Slot, RefusalTimer(s)
      PROVE  /\ mMD5Cache' = mMD5Cache /\ version' = version /\ mTasks' = mTasks
             /\ \A r \in Slot : refusals'[r] # Nil =>
                  /\ refusals[r] # Nil /\ refusals'[r].path = refusals[r].path
                  /\ refusals'[r].client = refusals[r].client
  <2>1. CASE RefusalRetry(s)
    <3>1. /\ refusals[s] \in Refusal /\ refusals[s] # Nil
          /\ refusals' = [refusals EXCEPT ![s].tries = @ + 1]
          /\ mMD5Cache' = mMD5Cache /\ version' = version /\ mTasks' = mTasks
      BY <1>1, <2>1 DEF RefusalRetry, ServerTypeOK
    <3> QED BY <1>1, <3>1 DEF ServerTypeOK, Refusal
  <2>2. CASE RefusalExpire(s)
    BY <1>1, <2>2 DEF RefusalExpire, ServerTypeOK
  <2> QED BY <1>3, <2>1, <2>2 DEF RefusalTimer
<1>4. ASSUME NEW c \in Client, ServerCallback(c)
      PROVE  /\ mMD5Cache' = mMD5Cache /\ version' = version /\ refusals' = refusals
             /\ \A d \in Client : mTasks'[d] # Nil =>
                  /\ mTasks[d] # Nil /\ mTasks'[d].path = mTasks[d].path
                  /\ mTasks'[d].next = mTasks[d].next
                  /\ mTasks'[d].checksum = mTasks[d].checksum
  <2>1. CASE onTimeout(c)
    BY <1>1, <2>1 DEF onTimeout, Terminate, ServerTypeOK
  <2>2. CASE onRetry(c)
    <3>1. CASE mTasks' = mTasks
      BY <2>2, <3>1 DEF onRetry
    <3>2. CASE /\ mTasks[c] # Nil
               /\ mTasks' = [mTasks EXCEPT ![c].window = Max({@ \div 2, 1})]
      <4>1. mTasks[c] \in Task
        BY <1>1, <3>2 DEF ServerTypeOK
      <4> QED BY <1>1, <2>2, <3>2, <4>1 DEF onRetry, ServerTypeOK, Task
    <3> QED BY <2>2, <3>1, <3>2 DEF onRetry
  <2> QED BY <1>4, <2>1, <2>2 DEF ServerCallback
<1> QED BY <1>2, <1>3, <1>4 DEF ServerTimer

LEMMA DiskTimer ==
  ASSUME IInv, DiskInv, ServerTimer
  PROVE  DiskInv'
<1>1. ServerPre
  BY DEF IInv, TypeOK, ServerPre
<1>2. \A c \in Client : mTasks'[c] # Nil => mTasks'[c].path \in Existing /\ ReadInv(mTasks'[c])
  BY <1>1, TimerKeepsTasks, SameRead DEF DiskInv
<1>3. \A s \in Slot : refusals'[s] # Nil => refusals'[s].path \notin Existing
  BY <1>1, TimerKeepsTasks DEF DiskInv
<1>4. mMD5Cache' = mMD5Cache
  BY <1>1, TimerKeepsTasks
<1> QED BY <1>2, <1>3, <1>4 DEF DiskInv, IsWhole, ReadInv

LEMMA DiskNext == IInv /\ DiskInv /\ [Next]_vars => DiskInv'
<1> SUFFICES ASSUME IInv, DiskInv, [Next]_vars PROVE DiskInv'
  OBVIOUS
<1>1. CASE UNCHANGED serverVars
  BY <1>1, DiskKept DEF serverVars
<1>2. CASE Environment
  BY <1>2, DiskKept DEF Environment, Restart, Replace
<1> QED
  BY <1>1, <1>2, DiskReceive, DiskWork, DiskTimer
  DEF Next, vars, Ask, Dispatch, Expire, TimesOut, Woken, Work, ExpireData,
      ExpireRefusal, CallBack, ServerTimer, Deliver

LEMMA DiskAlways == Spec => []DiskInv
BY DiskInit, DiskNext, IInvAlways, PTL DEF Spec
-----------------------------------------------------------------------------
(* The end of a download, when nothing is lost and every file is there. *)

\* The network repeats and loses nothing, and no request is refused.
Reliable == ~Unreliable /\ Existing = File

\* The messages in a queue
Elements(q) == {q[i] : i \in DOMAIN q}

\* The answers to Checksum, of which c has Judged, and with the request itself
\* those that are under way to or from c
Verdict == {"Confirm", "Error"}
Judged(c) == {m \in Elements(mProtocols[c]) : m.type \in Verdict}
Closing(c) == {m \in net : m.client = c /\ m.type \in Verdict \cup {"Checksum"}}

\* What c has written is the file, and what the server takes for the file.
Approved(c) ==
  /\ mFile[c] \in File /\ IsWhole(mOutput[c], mFile[c])
  /\ restarts = 0 => mMD5Cache[mFile[c]] # Nil /\ mMD5Cache[mFile[c]] = mOutput[c]

\* One question of c is open, or one answer is under way to it, or has arrived.
CloseInv(c) ==
  /\ \A m \in Closing(c) :
       /\ mState[c] = "Confirm" /\ Closing(c) = {m} /\ Judged(c) = {}
       /\ m.type = "Checksum" => m.path = mFile[c] /\ m.digest = mOutput[c]
       /\ m.type = "Confirm" => Approved(c)
  /\ Judged(c) # {} => mState[c] \in {"Idle", "Confirm", "Error"}
  /\ mState[c] = "Confirm" =>
       \A m \in Judged(c) : m.type = "Confirm" => Approved(c)
  /\ "finished" \in outcome[c] => mState[c] = "Idle" /\ Approved(c)

\* The requests whose answers a timer waits for.
Requesting == {"Size", "Start", "Confirm"}

\* The question and the answer that end each of them.
Exchange ==
  {<<"Query", "Size">>, <<"Size", "Size">>, <<"Get", "Start">>, <<"Start", "Start">>,
   <<"Checksum", "Confirm">>, <<"Confirm", "Confirm">>, <<"Error", "Confirm">>}
UnderWay(c) == {m \in net : m.client = c /\ <<m.type, mState[c]>> \in Exchange}
Awaited(c) == Matches(c) # {} \/ UnderWay(c) # {}

\* No retry of a client runs out: the only entry is that of the request it waits
\* for, whose answer is in its queue, or is still to come from the network.
AnswerInv(c) ==
  /\ \A s \in Step : onTimeouts[c][s] = 0
  /\ \A h \in Handle :
       requests[c][h] # Nil =>
         h = mHandle[c] /\ mState[c] \in Requesting /\ Awaited(c)

RInv == IInv /\ DiskInv /\ \A c \in Client : AnswerInv(c) /\ CloseInv(c)

\* What the user sees of c is as it was, and so is what is under way.
LEMMA CloseKept ==
  ASSUME NEW c, CloseInv(c),
         mState'[c] = mState[c], outcome'[c] = outcome[c],
         mFile'[c] = mFile[c], mOutput'[c] = mOutput[c],
         Closing(c)' = Closing(c), Judged(c)' \subseteq Judged(c),
         Approved(c) => Approved(c)'
  PROVE  CloseInv(c)'
BY DEF CloseInv

\* The server goes on to stand for what it stood for, until it stops.
LEMMA ApprovedKept ==
  ASSUME NEW c, mFile'[c] = mFile[c], mOutput'[c] = mOutput[c],
         restarts' = 0 => /\ restarts = 0
                          /\ \A f \in File : mMD5Cache[f] # Nil => mMD5Cache'[f] = mMD5Cache[f]
  PROVE  Approved(c) => Approved(c)'
BY DEF Approved, IsWhole

\* Before it asks for the verdict, c has none.
LEMMA NotClosing ==
  ASSUME NEW c, CloseInv(c), mState[c] \notin {"Idle", "Confirm", "Error"}
  PROVE  Closing(c) = {} /\ Judged(c) = {} /\ "finished" \notin outcome[c]
BY DEF CloseInv

LEMMA NothingClosing ==
  ASSUME NEW c, Closing(c)' = {}, Judged(c)' = {} \/ mState'[c] = "Idle", "finished" \notin outcome'[c]
  PROVE  CloseInv(c)'
BY DEF CloseInv

\* Messages of other kinds and of other clients change nothing that is closing.
LEMMA OtherMessages ==
  ASSUME NEW c,
         \A m \in net : m \in net' \/ m.client # c \/ m.type \notin Verdict \cup {"Checksum"},
         \A m \in net' : m \in net \/ m.client # c \/ m.type \notin Verdict \cup {"Checksum"}
  PROVE  Closing(c)' = Closing(c)
BY DEF Closing, Verdict

\* What is left of a queue has no other messages.
LEMMA FromElements ==
  ASSUME ClientTypeOK, NEW c \in Client, NEW i \in 1..(Len(mProtocols[c]) + 1)
  PROVE  Elements(From(c, i)) \subseteq Elements(mProtocols[c])
<1> DEFINE q == mProtocols[c]
<1>1. q \in Seq(ToClient) /\ Len(q) \in Nat /\ DOMAIN q = 1..Len(q) /\ i \in Int
  BY LenProperties DEF ClientTypeOK
<1>2. \A j \in i..Len(q) : q[j] \in ToClient
  BY <1>1, ElementOfSeq
<1>3. /\ From(c, i) \in Seq(ToClient) /\ Len(From(c, i)) = Len(q) - i + 1
      /\ \A j \in 1..(Len(q) - i + 1) : From(c, i)[j] = q[i + j - 1]
  BY <1>1, <1>2, SubSeqProperties DEF From
<1>4. DOMAIN From(c, i) = 1..(Len(q) - i + 1)
  BY <1>3, LenProperties
<1>5. \A j \in 1..(Len(q) - i + 1) : i + j - 1 \in DOMAIN q
  BY <1>1
<1> QED BY <1>3, <1>4, <1>5 DEF Elements

\* Takes and Pop leave c with no message it had not, and it took one of its own.
LEMMA PopElements ==
  ASSUME ClientTypeOK, NEW c \in Client, Matches(c) # {}
  PROVE  /\ Found(c) \in Elements(mProtocols[c])
         /\ Elements(From(c, First(c))) \subseteq Elements(mProtocols[c])
         /\ Elements(From(c, First(c) + 1)) \subseteq Elements(mProtocols[c])
<1>1. mProtocols[c] \in Seq(ToClient) /\ Len(mProtocols[c]) \in Nat
      /\ DOMAIN mProtocols[c] = 1..Len(mProtocols[c])
  BY LenProperties DEF ClientTypeOK
<1>2. First(c) \in 1..Len(mProtocols[c])
  BY FirstProperties
<1>3. /\ First(c) \in 1..(Len(mProtocols[c]) + 1) /\ First(c) + 1 \in 1..(Len(mProtocols[c]) + 1)
  BY <1>1, <1>2
<1> QED BY <1>1, <1>2, <1>3, FromElements DEF Found, Elements

LEMMA NoElements == Elements(<<>>) = {}
BY DEF Elements

\* The client's own steps.
LEMMA CloseDispatch ==
  ASSUME IInv, NEW c \in Client, CloseInv(c), DispatchStep(c), UNCHANGED serverVars
  PROVE  CloseInv(c)'
<1>1. /\ ClientTypeOK /\ ClientInv(c) /\ restarts' = restarts /\ mMD5Cache' = mMD5Cache
  BY DEF IInv, TypeOK, serverVars
<1>2. CASE query(c) \/ get(c)
  <2>1. /\ mState[c] \in {"Query", "Get"} /\ mProtocols' = mProtocols /\ outcome' = outcome
        /\ \A m \in net : m \in net'
        /\ \A m \in net' : m \in net \/ m \in {QueryMsg(c, mFile[c]), GetMsg(c, mFile[c])}
    BY <1>2 DEF query, get, Asks, Send
  <2>2. Closing(c) = {} /\ Judged(c) = {} /\ "finished" \notin outcome[c]
    BY <2>1, NotClosing
  <2>3. Closing(c)' = Closing(c)
    BY <2>1, OtherMessages DEF Verdict, QueryMsg, GetMsg
  <2> QED BY <2>1, <2>2, <2>3, NothingClosing DEF Judged, Elements
<1>3. CASE acknowledge(c)
  <2>1. /\ mState[c] = "Acknowledge" /\ mProtocols' = mProtocols /\ outcome' = outcome
        /\ net' = net \cup {AcknowledgeMsg(c, mFile[c], mBlock[c])}
    BY <1>3 DEF acknowledge, Send
  <2>2. Closing(c) = {} /\ Judged(c) = {} /\ "finished" \notin outcome[c]
    BY <2>1, NotClosing
  <2>3. Closing(c)' = Closing(c)
    BY <2>1, OtherMessages DEF Verdict, AcknowledgeMsg
  <2> QED BY <2>1, <2>2, <2>3, NothingClosing DEF Judged, Elements
<1>4. CASE size(c) \/ start(c) \/ data(c) \/ Duplicate(c)
  <2>1. /\ mState[c] \in {"Size", "Start", "Data"} /\ net' = net
        /\ Matches(c) # {} /\ Pop(c)
        /\ outcome' = outcome \/ Calls(c, "failed")
    BY <1>4 DEF size, start, data, Duplicate, Takes
  <2>2. Closing(c) = {} /\ Judged(c) = {} /\ "finished" \notin outcome[c]
    BY <2>1, NotClosing
  <2>3. mProtocols'[c] = From(c, First(c) + 1)
    BY <1>1, <2>1 DEF Pop, ClientTypeOK
  <2>4. Judged(c)' = {}
    BY <1>1, <2>1, <2>2, <2>3, PopElements DEF Judged
  <2>5. Closing(c)' = {}
    BY <2>1, <2>2 DEF Closing
  <2>6. "finished" \notin outcome'[c]
    BY <1>1, <2>1, <2>2 DEF ClientTypeOK, Calls
  <2> QED BY <2>4, <2>5, <2>6, NothingClosing
<1>5. CASE checksum(c)
  <2> DEFINE m == ChecksumMsg(c, mFile[c], mOutput[c])
  <2>1. /\ mState[c] = "Checksum" /\ mState'[c] = "Confirm" /\ net' = net \cup {m}
        /\ mProtocols' = mProtocols /\ outcome' = outcome
        /\ mFile' = mFile /\ mOutput' = mOutput
    BY <1>1, <1>5 DEF checksum, Asks, Send, Goto, ClientTypeOK
  <2>2. Closing(c) = {} /\ Judged(c) = {} /\ "finished" \notin outcome[c]
    BY <2>1, NotClosing
  <2>3. m.type = "Checksum" /\ m.client = c /\ m.path = mFile[c] /\ m.digest = mOutput[c]
    BY DEF ChecksumMsg
  <2> HIDE DEF m
  <2>4. Closing(c)' = {m} /\ Judged(c)' = {}
    BY <2>1, <2>2, <2>3 DEF Closing, Judged, Verdict, Elements
  <2> QED BY <2>1, <2>2, <2>3, <2>4 DEF CloseInv
<1>6. CASE confirm(c)
  <2>1. /\ mState[c] = "Confirm" /\ mState'[c] = "Idle" /\ net' = net
        /\ Matches(c) # {} /\ Found(c).type = "Confirm"
        /\ mFile' = mFile /\ mOutput' = mOutput
    BY <1>1, <1>6 DEF confirm, Takes, Goto, ClientTypeOK
  <2>2. Found(c) \in Judged(c)
    BY <1>1, <2>1, PopElements DEF Judged, Verdict
  <2>3. Closing(c)' = {} /\ Approved(c)
    BY <2>1, <2>2 DEF CloseInv, Closing
  <2>4. Approved(c)'
    BY <1>1, <2>1, <2>3, ApprovedKept
  <2> QED BY <2>1, <2>3, <2>4 DEF CloseInv
<1>7. CASE WaitError(c)
  <2>1. /\ mState[c] \in Waiting /\ mState'[c] = "Error" /\ net' = net /\ outcome' = outcome
        /\ Matches(c) # {} /\ Found(c).type = "Error"
    BY <1>1, <1>7 DEF WaitError, Goto, ClientTypeOK
  <2>2. Found(c) \in Judged(c)
    BY <1>1, <2>1, PopElements DEF Judged, Verdict
  <2>3. Closing(c)' = {} /\ "finished" \notin outcome[c]
    BY <2>1, <2>2 DEF CloseInv, Closing, Waiting
  <2> QED BY <2>1, <2>3 DEF CloseInv
<1>8. CASE Discard(c)
  <2>1. /\ mState' = mState /\ net' = net /\ outcome' = outcome /\ mFile' = mFile
        /\ mOutput' = mOutput /\ mProtocols'[c] = <<>>
    BY <1>1, <1>8 DEF Discard, ClientTypeOK
  <2>2. Judged(c)' = {}
    BY <2>1, NoElements DEF Judged
  <2>3. Closing(c)' = Closing(c)
    BY <2>1 DEF Closing
  <2>4. Approved(c) => Approved(c)'
    BY <1>1, <2>1, ApprovedKept
  <2> QED BY <2>1, <2>2, <2>3, <2>4, CloseKept
<1>9. CASE error(c)
  <2>1. /\ mState[c] = "Error" /\ mState'[c] = "Idle" /\ net' = net
        /\ outcome'[c] = outcome[c] \cup {"failed"}
    BY <1>1, <1>9 DEF error, Goto, Calls, ClientTypeOK
  <2>2. Closing(c)' = {} /\ "finished" \notin outcome'[c]
    BY <2>1 DEF CloseInv, Closing
  <2> QED BY <2>1, <2>2, NothingClosing
<1> QED
  BY <1>2, <1>3, <1>4, <1>5, <1>6, <1>7, <1>8, <1>9 DEF DispatchStep

LEMMA CloseDownload ==
  ASSUME IInv, NEW c \in Client, CloseInv(c), NEW f \in File, Download(c, f)
  PROVE  CloseInv(c)'
<1>1. ClientTypeOK
  BY DEF IInv, TypeOK
<1>2. /\ mState[c] = "Idle" /\ net' = net /\ outcome'[c] = {} /\ mProtocols'[c] = <<>>
  BY <1>1 DEF Download, ClientTypeOK
<1>3. Closing(c)' = {}
  BY <1>2 DEF CloseInv, Closing
<1>4. Judged(c)' = {}
  BY <1>2, NoElements DEF Judged
<1> QED BY <1>2, <1>3, <1>4, NothingClosing

\* A thread that wakes up finds what it left.
LEMMA CloseWake ==
  ASSUME NEW c \in Client, CloseInv(c), Wake(c), UNCHANGED serverVars
  PROVE  CloseInv(c)'
<1>1. /\ mState' = mState /\ mFile' = mFile /\ mOutput' = mOutput /\ outcome' = outcome
      /\ mProtocols' = mProtocols /\ net' = net
  BY DEF Wake
<1>2. Closing(c)' = Closing(c) /\ Judged(c)' = Judged(c)
  BY <1>1 DEF Closing, Judged, Elements
<1>3. Approved(c) => Approved(c)'
  BY <1>1, ApprovedKept DEF serverVars
<1> QED BY <1>1, <1>2, <1>3, CloseKept

\* What a step of c may have done elsewhere: it sent messages of its own.
SendsOwn(c) ==
  /\ \A d \in Client : d # c =>
       mOutput'[d] = mOutput[d] /\ outcome'[d] = outcome[d] /\ mSize'[d] = mSize[d]
  /\ \A m \in net : m \in net'
  /\ \A m \in net' : m \in net \/ m.client = c

LEMMA OwnMessages ==
  ASSUME ClientPre, NEW c \in Client,
         \/ \E f \in File : Download(c, f)
         \/ DispatchStep(c)
         \/ Background(c)
  PROVE  SendsOwn(c)
<1>1. ClientTypeOK
  BY DEF ClientPre
<1>2. CASE \E f \in File : Download(c, f)
  BY <1>1, <1>2 DEF ClientTypeOK, Download, SendsOwn
<1>3. CASE query(c) \/ get(c) \/ checksum(c)
  <2>1. /\ outcome' = outcome /\ mOutput' = mOutput /\ mSize' = mSize
        /\ \A m \in net : m \in net'
        /\ \A m \in net' : m \in net \/ m \in {QueryMsg(c, mFile[c]), GetMsg(c, mFile[c]),
                                               ChecksumMsg(c, mFile[c], mOutput[c])}
    BY <1>3 DEF query, get, checksum, Asks, Send
  <2> QED BY <2>1 DEF SendsOwn, QueryMsg, GetMsg, ChecksumMsg
<1>4. CASE acknowledge(c)
  <2>1. /\ outcome' = outcome /\ mOutput' = mOutput /\ mSize' = mSize
        /\ net' = net \cup {AcknowledgeMsg(c, mFile[c], mBlock[c])}
    BY <1>4 DEF acknowledge, Send
  <2> QED BY <2>1 DEF SendsOwn, AcknowledgeMsg
<1>5. CASE size(c) \/ start(c) \/ Duplicate(c)
  BY <1>1, <1>5 DEF ClientTypeOK, size, start, Duplicate, Calls, SendsOwn
<1>6. CASE data(c)
  <2>1. /\ outcome' = outcome /\ mSize' = mSize /\ net' = net /\ \E s : mOutput' = [mOutput EXCEPT ![c] = s]
    BY <1>6 DEF data
  <2> QED BY <1>1, <2>1 DEF ClientTypeOK, SendsOwn
<1>7. CASE confirm(c) \/ WaitError(c) \/ Discard(c) \/ error(c)
  BY <1>1, <1>7 DEF ClientTypeOK, confirm, WaitError, Discard, error, Calls, SendsOwn
<1>8. CASE Background(c)
  <2>1. BackgroundStep(c) /\ RequestInv(c)
    BY <1>8, BackgroundIsStep DEF ClientPre, ClientInv
  <2>2. \A m \in net' : m \in net \/ m.client = c
    BY <2>1 DEF BackgroundStep, RequestInv
  <2>3. \A d \in Client : d # c => outcome'[d] = outcome[d]
    BY <1>1, <2>1 DEF BackgroundStep, Calls, ClientTypeOK
  <2> QED BY <2>1, <2>2, <2>3 DEF SendsOwn, BackgroundStep
<1> QED
  BY <1>2, <1>3, <1>4, <1>5, <1>6, <1>7, <1>8 DEF DispatchStep

LEMMA CloseOthers ==
  ASSUME ClientPre, NEW c \in Client, NEW d \in Client, d # c, CloseInv(d),
         \/ \E f \in File : Download(c, f)
         \/ DispatchStep(c)
         \/ Background(c),
         UNCHANGED serverVars
  PROVE  CloseInv(d)'
<1>1. ClientTypeOK
  BY DEF ClientPre
<1>2. SendsOwn(c)
  BY OwnMessages
<1>3. View(d)' = View(d)
  BY <1>1, OthersView
<1>4. /\ mState'[d] = mState[d] /\ mFile'[d] = mFile[d] /\ mProtocols'[d] = mProtocols[d]
      /\ mOutput'[d] = mOutput[d] /\ outcome'[d] = outcome[d]
  BY <1>2, <1>3 DEF View, SendsOwn
<1>5. Closing(d)' = Closing(d)
  BY <1>2, OtherMessages DEF SendsOwn
<1>6. Judged(d)' = Judged(d)
  BY <1>4 DEF Judged, Elements
<1>7. Approved(d) => Approved(d)'
  BY <1>4, ApprovedKept DEF serverVars
<1> QED BY <1>4, <1>5, <1>6, <1>7, CloseKept

\* The verdict on c arrives.
LEMMA CloseReceive ==
  ASSUME Reliable, IInv, NEW m \in net, onReceive(m), UNCHANGED serverVars,
         NEW d \in Client, CloseInv(d)
  PROVE  CloseInv(d)'
<1>1. ClientTypeOK /\ m.client \in Client /\ m \in ToClient /\ m.type \in Reply
  BY MessageFields DEF IInv, TypeOK, NetworkTypeOK, onReceive
<1>2. /\ mState' = mState /\ mFile' = mFile /\ mOutput' = mOutput /\ outcome' = outcome
      /\ net' = net \ {m}
  BY DEF onReceive, Receive, Reliable
<1>3. Approved(d) => Approved(d)'
  BY <1>2, ApprovedKept DEF serverVars
<1>4. /\ m.client # d => mProtocols'[d] = mProtocols[d]
      /\ mProtocols'[d] \in {mProtocols[d], Append(mProtocols[d], m)}
  BY <1>1 DEF onReceive, ClientTypeOK
<1>5. Elements(Append(mProtocols[d], m)) = Elements(mProtocols[d]) \cup {m}
  <2> DEFINE q == mProtocols[d]
  <2>1. q \in Seq(ToClient) /\ Len(q) \in Nat /\ DOMAIN q = 1..Len(q)
    BY <1>1, LenProperties DEF ClientTypeOK
  <2>2. /\ DOMAIN Append(q, m) = 1..(Len(q) + 1)
        /\ \A i \in 1..Len(q) : Append(q, m)[i] = q[i]
        /\ Append(q, m)[Len(q) + 1] = m
    BY <1>1, <2>1, AppendProperties, LenProperties
  <2> HIDE DEF q
  <2>3. Elements(Append(q, m)) = Elements(q) \cup {m}
    <3>1. 1..(Len(q) + 1) = (1..Len(q)) \cup {Len(q) + 1}
      BY <2>1
    <3> QED BY <2>1, <2>2, <3>1 DEF Elements
  <2> QED BY <2>3 DEF q
<1>6. CASE m.client # d \/ m.type \notin Verdict
  <2>1. Closing(d)' = Closing(d)
    BY <1>1, <1>2, <1>6 DEF Closing, Verdict, Reply
  <2>2. Judged(d)' \subseteq Judged(d)
    BY <1>4, <1>5, <1>6 DEF Judged
  <2> QED BY <1>2, <1>3, <2>1, <2>2, CloseKept
<1>7. CASE m.client = d /\ m.type \in Verdict
  <2>1. m \in Closing(d)
    BY <1>7 DEF Closing
  <2>2. /\ mState[d] = "Confirm" /\ Closing(d) = {m} /\ Judged(d) = {}
        /\ (m.type = "Confirm" => Approved(d)) /\ "finished" \notin outcome[d]
    BY <2>1 DEF CloseInv
  <2>3. Closing(d)' = {}
    BY <1>2, <2>2 DEF Closing
  <2>4. Judged(d)' \subseteq {m}
    BY <1>4, <1>5, <2>2 DEF Judged
  <2> QED BY <1>2, <1>3, <2>2, <2>3, <2>4 DEF CloseInv
<1> QED BY <1>6, <1>7

\* The server's steps that judge nothing.
LEMMA CloseServer ==
  ASSUME NEW d \in Client, CloseInv(d), UNCHANGED clientVars,
         \A m \in net : m \in net' \/ m.client # d \/ m.type \notin Verdict \cup {"Checksum"},
         \A m \in net' : m \in net \/ m.client # d \/ m.type \notin Verdict \cup {"Checksum"},
         restarts' = 0 => /\ restarts = 0
                          /\ \A f \in File : mMD5Cache[f] # Nil => mMD5Cache'[f] = mMD5Cache[f]
  PROVE  CloseInv(d)'
<1>1. /\ mState' = mState /\ mFile' = mFile /\ mOutput' = mOutput /\ outcome' = outcome
      /\ mProtocols' = mProtocols
  BY DEF clientVars
<1>2. Closing(d)' = Closing(d)
  BY OtherMessages
<1>3. Judged(d)' = Judged(d)
  BY <1>1 DEF Judged, Elements
<1>4. Approved(d) => Approved(d)'
  BY <1>1, ApprovedKept
<1> QED BY <1>1, <1>2, <1>3, <1>4, CloseKept

\* Server::onChecksum confirms what it takes for the file.
LEMMA CloseChecksum ==
  ASSUME Reliable, IInv, DiskInv, NEW m \in net, onChecksum(m), UNCHANGED clientVars,
         NEW d \in Client, CloseInv(d)
  PROVE  CloseInv(d)'
<1>1. /\ ServerTypeOK /\ ClientTypeOK
      /\ m.client \in Client /\ m.path \in File /\ m.digest \in Seq(Content)
  BY MessageFields DEF IInv, TypeOK, NetworkTypeOK, onChecksum
<1> DEFINE r == IF m.digest = Expected(m.path) THEN ConfirmMsg(m.client, m.path)
                ELSE ErrorMsg(m.client, m.path)
<1>2. /\ m.type = "Checksum" /\ net' = (net \ {m}) \cup {r} /\ restarts' = restarts
      /\ mMD5Cache' = [mMD5Cache EXCEPT ![m.path] = Expected(m.path)]
  BY <1>1 DEF onChecksum, Reliable, Receive
<1>3. /\ r.client = m.client /\ r.type \in Verdict /\ r.type # "Checksum"
      /\ r.type = "Confirm" => m.digest = Expected(m.path)
  BY DEF ConfirmMsg, ErrorMsg, Verdict
<1> HIDE DEF r
<1>4. IsWhole(Expected(m.path), m.path)
  BY <1>1, BytesWhole DEF Expected, DiskInv
<1>5. \A f \in File : mMD5Cache[f] # Nil => mMD5Cache'[f] = mMD5Cache[f]
  BY <1>1, <1>2 DEF ServerTypeOK, Expected
<1>6. CASE m.client # d
  <2>1. \A n \in net : n \in net' \/ n.client # d
    BY <1>2, <1>6
  <2>2. \A n \in net' : n \in net \/ n.client # d
    BY <1>2, <1>3, <1>6
  <2> QED BY <1>2, <1>5, <2>1, <2>2, CloseServer
<1>7. CASE m.client = d
  <2>1. m \in Closing(d)
    BY <1>2, <1>7 DEF Closing
  <2>2. /\ mState[d] = "Confirm" /\ Closing(d) = {m} /\ Judged(d) = {}
        /\ m.path = mFile[d] /\ m.digest = mOutput[d] /\ "finished" \notin outcome[d]
    BY <1>2, <2>1 DEF CloseInv
  <2>3. /\ mState' = mState /\ mFile' = mFile /\ mOutput' = mOutput /\ outcome' = outcome
        /\ mProtocols' = mProtocols
    BY DEF clientVars
  <2>4. Closing(d)' = {r}
    BY <1>2, <1>3, <1>7, <2>2 DEF Closing
  <2>5. Judged(d)' = {}
    BY <2>2, <2>3 DEF Judged, Elements
  <2>6. r.type = "Confirm" => Approved(d)'
    <3> SUFFICES ASSUME m.digest = Expected(m.path) PROVE Approved(d)'
      BY <1>3
    <3>1. mMD5Cache'[mFile[d]] = mOutput[d]
      BY <1>1, <1>2, <2>2 DEF ServerTypeOK
    <3>2. mOutput[d] # Nil
      BY <1>1, <2>2, ContentAssumption
    <3>3. IsWhole(mOutput[d], mFile[d])
      BY <1>4, <2>2
    <3> QED BY <1>1, <2>2, <2>3, <3>1, <3>2, <3>3 DEF Approved, IsWhole
  <2> QED BY <1>3, <2>2, <2>3, <2>4, <2>5, <2>6 DEF CloseInv
<1> QED BY <1>6, <1>7

LEMMA CloseWork ==
  ASSUME IInv, NEW c \in Client, work(c), UNCHANGED clientVars,
         NEW d \in Client, CloseInv(d)
  PROVE  CloseInv(d)'
<1>1. /\ \A m \in net : m \in net'
      /\ \A m \in net' : m \in net \/ m.type = "Data"
      /\ restarts' = restarts
      /\ \E f \in File : \E s :
           mMD5Cache' \in {mMD5Cache,
                           IF mMD5Cache[f] = Nil THEN [mMD5Cache EXCEPT ![f] = s] ELSE mMD5Cache}
  <2> DEFINE t == mTasks[c]
             k == Min({Blocks[t.path], t.next + t.window - Cardinality(Outstanding(t))})
             u == Filled(t, k)
  <2>1. t.path \in File
    BY DEF work, IInv, TypeOK, ServerTypeOK, Task
  <2>2. /\ net' = net \cup {DataMsg(c, t.path, b, u.checksum[b + 1]) : b \in t.next..(k - 1)}
        /\ mMD5Cache' \in {mMD5Cache, IF mMD5Cache[t.path] = Nil
                                      THEN [mMD5Cache EXCEPT ![t.path] = u.checksum]
                                      ELSE mMD5Cache}
        /\ restarts' = restarts
    BY DEF work, Send
  <2> HIDE DEF k, u
  <2>3. \A m \in net' : m \in net \/ m.type = "Data"
    BY <2>2 DEF DataMsg
  <2> QED BY <2>1, <2>2, <2>3
<1>2. \A f \in File : mMD5Cache[f] # Nil => mMD5Cache'[f] = mMD5Cache[f]
  BY <1>1 DEF IInv, TypeOK, ServerTypeOK
<1>3. \A m \in net' : m \in net \/ m.type \notin Verdict \cup {"Checksum"}
  BY <1>1 DEF Verdict
<1> QED BY <1>1, <1>2, <1>3, CloseServer

LEMMA CloseTimers ==
  ASSUME Reliable, IInv, DiskInv, UNCHANGED clientVars, NEW d \in Client, CloseInv(d),
         ServerTimer
  PROVE  CloseInv(d)'
<1>1. ASSUME NEW s \in Slot, RefusalTimer(s) PROVE FALSE
  BY <1>1 DEF RefusalTimer, RefusalRetry, RefusalExpire, Reliable, DiskInv, IInv, TypeOK,
              ServerTypeOK, Refusal
<1>2. CASE \E c \in Client, b \in BlockId : DataRetry(c, b)
  <2>1. PICK c \in Client, b \in BlockId : DataRetry(c, b)
    BY <1>2
  <2>2. /\ restarts' = restarts /\ mMD5Cache' = mMD5Cache
        /\ net' = net \cup {DataMsg(c, mTasks[c].path, b, mTasks[c].checksum[b + 1])}
    BY <2>1 DEF DataRetry, Send
  <2>3. \A m \in net' : m \in net \/ m.type \notin Verdict \cup {"Checksum"}
    BY <2>2 DEF DataMsg, Verdict
  <2> QED BY <2>2, <2>3, CloseServer
<1>3. CASE \/ \E c \in Client, b \in BlockId : DataExpire(c, b)
           \/ \E c \in Client : ServerCallback(c)
  <2>1. restarts' = restarts /\ mMD5Cache' = mMD5Cache /\ net' = net
    BY <1>3 DEF DataExpire, ServerCallback, onRetry, onTimeout
  <2> QED BY <2>1, CloseServer
<1> QED BY <1>1, <1>2, <1>3 DEF ServerTimer, DataTimer

\* The server answers a request for a file that exists with its size, or with the file.
LEMMA CloseRequest ==
  ASSUME Reliable, IInv, NEW m \in net, ServerReceive(m), ~onChecksum(m), UNCHANGED clientVars,
         NEW d \in Client, CloseInv(d)
  PROVE  CloseInv(d)'
<1>1. m.path \in File /\ m.path \in Existing
  BY MessageFields DEF IInv, TypeOK, NetworkTypeOK, Reliable
<1>2. /\ m.type \in {"Query", "Get", "Acknowledge"}
      /\ \A n \in net : n \in net' \/ n = m
      /\ \A n \in net' : n \in net \/ n \in {SizeMsg(m.client, m.path), StartMsg(m.client, m.path)}
      /\ restarts' = restarts /\ mMD5Cache' = mMD5Cache
  BY <1>1 DEF ServerReceive, onQuery, Refuse, onGet, onAcknowledge, Receive, serverVars
<1>3. \A n \in net : n \in net' \/ n.type \notin Verdict \cup {"Checksum"}
  BY <1>2 DEF Verdict
<1>4. \A n \in net' : n \in net \/ n.type \notin Verdict \cup {"Checksum"}
  BY <1>2 DEF Verdict, SizeMsg, StartMsg
<1> QED BY <1>2, <1>3, <1>4, CloseServer

\* A client whose exchange is as it was waits for what it waited for.
LEMMA AnswerKept ==
  ASSUME NEW c, AnswerInv(c),
         requests'[c] = requests[c], mHandle'[c] = mHandle[c],
         onTimeouts'[c] = onTimeouts[c], mState'[c] = mState[c],
         Awaited(c) => Awaited(c)'
  PROVE  AnswerInv(c)'
BY DEF AnswerInv, Handle

LEMMA AwaitedGrows ==
  ASSUME NEW c, mState'[c] = mState[c], mProtocols'[c] = mProtocols[c],
         \A m \in net : m \in net'
  PROVE  Awaited(c) => Awaited(c)'
BY DEF Awaited, Matches, UnderWay

LEMMA AnswerNothing ==
  ASSUME NEW c, onTimeouts'[c] = onTimeouts[c], AnswerInv(c),
         \A h \in Handle : requests'[c][h] = Nil
  PROVE  AnswerInv(c)'
BY DEF AnswerInv, Handle

\* A handler asks when nothing is asked, or ends what was asked.
LEMMA AnswerDispatch ==
  ASSUME IInv, NEW c \in Client, AnswerInv(c), DispatchStep(c)
  PROVE  AnswerInv(c)'
<1>1. ClientTypeOK /\ onTimeouts' = onTimeouts
  BY DEF IInv, TypeOK, DispatchStep, query, get, checksum, Asks, size, start, data, Duplicate,
         confirm, Takes, acknowledge, WaitError, Discard, error, channelVars
<1>2. ASSUME NEW s \in {"Query", "Get", "Checksum"}, NEW t \in Requesting, NEW m,
             Asks(c, s, m, t), m.client = c, <<m.type, t>> \in Exchange
      PROVE  AnswerInv(c)'
  <2>1. PICK h \in Handle :
          /\ requests' = [requests EXCEPT ![c][h] = [message |-> m, tries |-> 1]]
          /\ mHandle' = [mHandle EXCEPT ![c] = h]
    BY <1>2 DEF Asks
  <2>2. /\ \A g \in Handle : g # h => requests'[c][g] = requests[c][g]
        /\ mHandle'[c] = h
    BY <1>1, <2>1 DEF ClientTypeOK
  <2>3. mState[c] = s /\ mState'[c] = t /\ m \in net'
    BY <1>1, <1>2 DEF Asks, Goto, Send, ClientTypeOK
  <2>4. \A g \in Handle : requests[c][g] = Nil
    BY <1>2, <2>3 DEF AnswerInv, Requesting
  <2>5. Awaited(c)'
    BY <1>2, <2>3 DEF Awaited, UnderWay
  <2> QED BY <1>1, <1>2, <2>2, <2>3, <2>4, <2>5 DEF AnswerInv, Handle
<1>3. CASE query(c)
  <2>1. QueryMsg(c, mFile[c]).client = c /\ QueryMsg(c, mFile[c]).type = "Query"
    BY DEF QueryMsg
  <2> QED BY <1>2, <1>3, <2>1 DEF query, Requesting, Exchange
<1>4. CASE get(c)
  <2>1. GetMsg(c, mFile[c]).client = c /\ GetMsg(c, mFile[c]).type = "Get"
    BY DEF GetMsg
  <2> QED BY <1>2, <1>4, <2>1 DEF get, Requesting, Exchange
<1>5. CASE checksum(c)
  <2>1. /\ ChecksumMsg(c, mFile[c], mOutput[c]).client = c
        /\ ChecksumMsg(c, mFile[c], mOutput[c]).type = "Checksum"
    BY DEF ChecksumMsg
  <2> QED BY <1>2, <1>5, <2>1 DEF checksum, Requesting, Exchange
<1>6. CASE TerminateHandle(c)
  <2>1. \A h \in Handle : requests'[c][h] = Nil
    BY <1>1, <1>6, TerminateType DEF AnswerInv
  <2> QED BY <1>1, <2>1, AnswerNothing
<1>7. CASE acknowledge(c) \/ error(c)
  <2>1. mState[c] \notin Requesting /\ requests' = requests
    BY <1>7 DEF acknowledge, error, channelVars, Requesting
  <2>2. \A h \in Handle : requests'[c][h] = Nil
    BY <2>1 DEF AnswerInv
  <2> QED BY <1>1, <2>2, AnswerNothing
<1>8. CASE Discard(c)
  <2>1. /\ mState' = mState /\ requests' = requests /\ mHandle' = mHandle /\ net' = net
        /\ Matches(c) = {}
    BY <1>8 DEF Discard, channelVars
  <2>2. Awaited(c) => Awaited(c)'
    BY <2>1 DEF Awaited, UnderWay
  <2> QED BY <1>1, <2>1, <2>2, AnswerKept
<1> QED
  BY <1>3, <1>4, <1>5, <1>6, <1>7, <1>8
  DEF DispatchStep, size, start, data, Duplicate, confirm, Takes, WaitError

LEMMA AnswerDownload ==
  ASSUME NEW c \in Client, AnswerInv(c), NEW f \in File, Download(c, f)
  PROVE  AnswerInv(c)'
<1>1. mState[c] \notin Requesting /\ requests' = requests /\ onTimeouts' = onTimeouts
  BY DEF Download, channelVars, Requesting
<1>2. \A h \in Handle : requests'[c][h] = Nil
  BY <1>1 DEF AnswerInv
<1> QED BY <1>1, <1>2, AnswerNothing

\* No timer of a client fires, since then nothing would be under way to it.
LEMMA NoClientTimer ==
  ASSUME Reliable, NEW c \in Client, AnswerInv(c)
  PROVE  /\ ~ \E h \in Handle : MayFire /\ ClientTimer(c, h)
         /\ ~ TimeoutStep(c)
<1>1. ASSUME NEW h \in Handle, MayFire, ClientTimer(c, h) PROVE FALSE
  <2>1. requests[c][h] # Nil
    BY <1>1 DEF ClientTimer, ClientRetry, ClientExpire
  <2>2. mState[c] \in Requesting /\ Awaited(c)
    BY <2>1 DEF AnswerInv
  <2>3. net = {} /\ mProtocols[c] = <<>>
    BY <1>1, <2>2 DEF MayFire, Reliable, Quiet, Requesting
  <2> QED BY <2>2, <2>3 DEF Awaited, Matches, UnderWay
<1>2. ~ TimeoutStep(c)
  BY DEF TimeoutStep, TimeoutReport, TimeoutTerminate, TimeoutStop, TimeoutNotify, Proceeds,
         AnswerInv, Step
<1> QED BY <1>1, <1>2

\* What arrives is what was under way.
LEMMA AnswerReceive ==
  ASSUME Reliable, IInv, NEW m \in net, onReceive(m), NEW d \in Client, AnswerInv(d)
  PROVE  AnswerInv(d)'
<1>1. ClientTypeOK /\ m.client \in Client /\ m \in ToClient /\ m.type \in Reply
  BY MessageFields DEF IInv, TypeOK, NetworkTypeOK, onReceive
<1>2. /\ mState' = mState /\ requests' = requests /\ mHandle' = mHandle
      /\ onTimeouts' = onTimeouts /\ net' = net \ {m}
  BY DEF onReceive, Receive, Reliable, channelVars
<1>3. CASE d # m.client
  <2>1. mProtocols'[d] = mProtocols[d]
    BY <1>1, <1>3 DEF onReceive, ClientTypeOK
  <2>2. Awaited(d) => Awaited(d)'
    BY <1>2, <1>3, <2>1 DEF Awaited, Matches, UnderWay
  <2> QED BY <1>2, <2>2, AnswerKept
<1>4. CASE d = m.client /\ mState[d] \notin Requesting
  <2>1. \A h \in Handle : requests'[d][h] = Nil
    BY <1>2, <1>4 DEF AnswerInv
  <2> QED BY <1>2, <2>1, AnswerNothing
<1>5. CASE d = m.client /\ mState[d] \in Requesting
  <2> DEFINE q == mProtocols[d]
  <2>1. mProtocols'[d] = Append(q, m)
    BY <1>1, <1>5 DEF onReceive, ClientTypeOK, Requesting
  <2>2. q \in Seq(ToClient) /\ Len(q) \in Nat /\ DOMAIN q = 1..Len(q)
    BY <1>1, LenProperties DEF ClientTypeOK
  <2>3. /\ DOMAIN Append(q, m) = 1..(Len(q) + 1)
        /\ \A i \in 1..Len(q) : Append(q, m)[i] = q[i]
        /\ Append(q, m)[Len(q) + 1] = m
    BY <1>1, <2>2, AppendProperties, LenProperties
  <2> HIDE DEF q
  <2>4. ASSUME NEW i \in DOMAIN q, q[i].type \in {mState[d], "Error"} PROVE Matches(d)' # {}
    BY <1>2, <2>1, <2>2, <2>3, <2>4 DEF Matches
  <2>5. Matches(d) # {} => Matches(d)' # {}
    BY <2>4 DEF Matches, q
  <2>6. ASSUME m \in UnderWay(d) PROVE Matches(d)' # {}
    <3>1. m.type \in {mState[d], "Error"}
      BY <1>1, <2>6 DEF UnderWay, Exchange, Reply
    <3>2. Len(q) + 1 \in DOMAIN Append(q, m)
      BY <2>2, <2>3
    <3> QED BY <1>2, <2>1, <2>3, <3>1, <3>2 DEF Matches
  <2>7. Awaited(d) => Awaited(d)'
    BY <1>2, <2>5, <2>6 DEF Awaited, UnderWay
  <2> QED BY <1>2, <2>7, AnswerKept
<1> QED BY <1>3, <1>4, <1>5

\* Every question is answered.
LEMMA AnswerServer ==
  ASSUME Reliable, IInv, NEW m \in net, ServerReceive(m), UNCHANGED clientVars,
         NEW d \in Client, AnswerInv(d)
  PROVE  AnswerInv(d)'
<1>1. /\ mState' = mState /\ mProtocols' = mProtocols /\ requests' = requests
      /\ mHandle' = mHandle /\ onTimeouts' = onTimeouts
  BY DEF clientVars, channelVars
<1>2. m.path \in Existing
  BY MessageFields DEF IInv, TypeOK, NetworkTypeOK, Reliable
<1>3. /\ \A n \in net : n \in net' \/ n = m
      /\ \/ m.type = "Query" /\ SizeMsg(m.client, m.path) \in net'
         \/ m.type = "Get" /\ StartMsg(m.client, m.path) \in net'
         \/ m.type = "Acknowledge"
         \/ /\ m.type = "Checksum"
            /\ \E r \in {ConfirmMsg(m.client, m.path), ErrorMsg(m.client, m.path)} : r \in net'
  BY <1>2 DEF ServerReceive, onQuery, Refuse, onGet, onAcknowledge, onChecksum, Receive
<1>4. ASSUME m \in UnderWay(d) PROVE UnderWay(d)' # {}
  BY <1>1, <1>3, <1>4
  DEF UnderWay, Exchange, SizeMsg, StartMsg, ConfirmMsg, ErrorMsg
<1>5. Awaited(d) => Awaited(d)'
  <2>1. Matches(d)' = Matches(d)
    BY <1>1 DEF Matches
  <2> QED BY <1>1, <1>3, <1>4, <2>1 DEF Awaited, UnderWay
<1> QED BY <1>1, <1>5, AnswerKept

\* The other steps take nothing from the network.
LEMMA AnswerElsewhere ==
  ASSUME NEW d \in Client, AnswerInv(d),
         requests'[d] = requests[d], mHandle'[d] = mHandle[d],
         onTimeouts'[d] = onTimeouts[d], mState'[d] = mState[d],
         mProtocols'[d] = mProtocols[d], \A m \in net : m \in net'
  PROVE  AnswerInv(d)'
BY AnswerKept, AwaitedGrows

LEMMA RInvInit == Init => RInv
<1> SUFFICES ASSUME Init PROVE RInv
  OBVIOUS
<1>1. IInv /\ DiskInv
  BY IInvInit, DiskInit
<1>2. ASSUME NEW c \in Client PROVE CloseInv(c)
  <2>1. net = {} /\ mProtocols[c] = <<>> /\ outcome[c] = {}
    BY DEF Init, NetworkInit, ClientInit
  <2>2. Closing(c) = {} /\ Judged(c) = {}
    BY <2>1, NoElements DEF Closing, Judged
  <2> QED BY <2>1, <2>2 DEF CloseInv
<1>3. ASSUME NEW c \in Client PROVE AnswerInv(c)
  BY DEF Init, ClientInit, AnswerInv
<1> QED BY <1>1, <1>2, <1>3 DEF RInv

\* The steps of the server but its answers take nothing from the network.
LEMMA ServerSends ==
  ASSUME \/ \E c \in Client : Work(c)
         \/ \E c \in Client, b \in BlockId : ExpireData(c, b)
         \/ \E s \in Slot : ExpireRefusal(s)
         \/ \E c \in Client : CallBack(c)
         \/ Environment
         \/ UNCHANGED vars
  PROVE  UNCHANGED clientVars /\ \A m \in net : m \in net'
BY DEF Work, work, ExpireData, DataTimer, DataRetry, DataExpire, ExpireRefusal, RefusalTimer,
       RefusalRetry, RefusalExpire, CallBack, ServerCallback, onRetry, onTimeout, Environment,
       Restart, Replace, vars, Send

LEMMA AnswerNext ==
  ASSUME Reliable, RInv, [Next]_vars, NEW d \in Client
  PROVE  AnswerInv(d)'
<1>1. /\ IInv /\ ClientPre /\ ClientTypeOK
      /\ \A c \in Client : AnswerInv(c)
  BY DEF RInv, IInv, TypeOK, ClientPre
<1>2. ASSUME NEW c \in Client,
             \/ Ask(c) \/ Dispatch(c) \/ TimesOut(c) \/ Woken(c)
             \/ \E h \in Handle : Expire(c, h)
      PROVE  AnswerInv(d)'
  <2>1. \/ \E f \in File : Download(c, f)
        \/ DispatchStep(c)
        \/ Wake(c)
    BY <1>1, <1>2, NoClientTimer DEF Ask, Dispatch, TimesOut, Woken, Expire
  <2>2. CASE c # d
    <3>1. View(d)' = View(d) /\ SendsOwn(c)
      BY <1>1, <2>1, <2>2, OthersView, OwnMessages DEF Background
    <3> QED BY <1>1, <3>1, AnswerElsewhere DEF View, SendsOwn
  <2>3. CASE c = d
    <3>1. CASE Wake(c)
      BY <1>1, <2>3, <3>1, AnswerElsewhere DEF Wake, channelVars
    <3> QED BY <1>1, <2>1, <2>3, <3>1, AnswerDispatch, AnswerDownload
  <2> QED BY <2>2, <2>3
<1>3. ASSUME Deliver PROVE AnswerInv(d)'
  BY <1>1, <1>3, AnswerReceive, AnswerServer DEF Deliver
<1>4. ASSUME UNCHANGED clientVars, \A m \in net : m \in net' PROVE AnswerInv(d)'
  BY <1>1, <1>4, AnswerElsewhere DEF clientVars, channelVars
<1> QED BY <1>2, <1>3, <1>4, ServerSends DEF Next

LEMMA RInvNext == Reliable /\ RInv /\ [Next]_vars => RInv'
<1> SUFFICES ASSUME Reliable, RInv, [Next]_vars PROVE RInv'
  OBVIOUS
<1>1. /\ IInv /\ DiskInv /\ ClientPre
      /\ \A c \in Client : AnswerInv(c) /\ CloseInv(c)
  BY DEF RInv, IInv, TypeOK, ClientPre
<1>2. IInv' /\ DiskInv'
  BY <1>1, IInvNext, DiskNext
<1>3. ASSUME NEW d \in Client PROVE CloseInv(d)'
  <2>1. CloseInv(d)
    BY <1>1
  <2>2. ASSUME NEW c \in Client,
               \/ Ask(c) \/ Dispatch(c) \/ TimesOut(c) \/ Woken(c)
               \/ \E h \in Handle : Expire(c, h)
        PROVE  CloseInv(d)'
    <3>1. UNCHANGED serverVars
      BY <2>2 DEF Ask, Dispatch, Expire, TimesOut, Woken
    <3>2. \/ \E f \in File : Download(c, f)
          \/ DispatchStep(c)
          \/ Wake(c)
      BY <1>1, <2>2, NoClientTimer DEF Ask, Dispatch, TimesOut, Woken, Expire
    <3>3. CASE c # d
      BY <1>1, <2>1, <3>1, <3>2, <3>3, CloseOthers DEF Background
    <3>4. CASE c = d
      BY <1>1, <2>1, <3>1, <3>2, <3>4, CloseDownload, CloseDispatch, CloseWake
    <3> QED BY <3>3, <3>4
  <2>3. ASSUME NEW c \in Client, Work(c) PROVE CloseInv(d)'
    BY <1>1, <2>1, <2>3, CloseWork DEF Work
  <2>4. ASSUME \/ \E c \in Client, b \in BlockId : ExpireData(c, b)
               \/ \E s \in Slot : ExpireRefusal(s)
               \/ \E c \in Client : CallBack(c)
        PROVE  CloseInv(d)'
    BY <1>1, <2>1, <2>4, CloseTimers DEF ExpireData, ExpireRefusal, CallBack, ServerTimer
  <2>5. ASSUME Deliver PROVE CloseInv(d)'
    <3>1. PICK m \in net : \/ onReceive(m) /\ UNCHANGED serverVars
                           \/ ServerReceive(m) /\ UNCHANGED clientVars
      BY <2>5 DEF Deliver
    <3> QED BY <1>1, <2>1, <3>1, CloseReceive, CloseChecksum, CloseRequest
  <2>6. ASSUME Environment PROVE CloseInv(d)'
    <3>1. /\ UNCHANGED clientVars /\ net' = net
          /\ restarts' = 0 => restarts = 0 /\ mMD5Cache' = mMD5Cache
      <4>1. restarts \in Nat
        BY <1>1, WindowAssumption DEF IInv, TypeOK, ServerTypeOK
      <4> QED BY <2>6, <4>1 DEF Environment, Restart, Replace
    <3> QED BY <2>1, <3>1, CloseServer
  <2>7. ASSUME UNCHANGED vars PROVE CloseInv(d)'
    <3>1. UNCHANGED clientVars /\ net' = net /\ restarts' = restarts /\ mMD5Cache' = mMD5Cache
      BY <2>7 DEF vars, serverVars
    <3> QED BY <2>1, <3>1, CloseServer
  <2> QED BY <2>2, <2>3, <2>4, <2>5, <2>6, <2>7 DEF Next
<1>4. \A d \in Client : AnswerInv(d)'
  BY AnswerNext
<1> QED BY <1>2, <1>3, <1>4 DEF RInv

\* On a reliable network, of files that are all there, download() reports a
\* finish (Client::confirm) only of a complete file, its blocks in order, whatever
\* was downloaded before and however often the server restarts or files change.
THEOREM FinishedIsWholeAlways ==
  ASSUME Reliable
  PROVE  Spec => []FinishedIsWhole
<1>1. RInv => FinishedIsWhole
  <2> SUFFICES ASSUME RInv, NEW c \in Client, "finished" \in outcome[c]
               PROVE  /\ Len(mOutput[c]) = Blocks[mFile[c]]
                      /\ \A i \in DOMAIN mOutput[c] :
                           mOutput[c][i][1] = mFile[c] /\ mOutput[c][i][3] = i - 1
    BY DEF FinishedIsWhole
  <2>1. IsWhole(mOutput[c], mFile[c])
    BY DEF RInv, CloseInv, Approved
  <2>2. DOMAIN mOutput[c] = 1..Len(mOutput[c])
    BY LenProperties DEF RInv, IInv, TypeOK, ClientTypeOK
  <2> QED BY <2>1, <2>2 DEF IsWhole
<1>2. RInv /\ [Next]_vars => RInv'
  BY RInvNext
<1> QED BY <1>1, <1>2, RInvInit, PTL DEF Spec

\* There, what Server::onChecksum confirmed to a client stays what the server
\* takes for the file of that path, until it is restarted.
THEOREM FinishedIsCachedAlways ==
  ASSUME Reliable
  PROVE  Spec => []FinishedIsCached
<1>1. RInv => FinishedIsCached
  BY DEF RInv, CloseInv, Approved, FinishedIsCached
<1>2. RInv /\ [Next]_vars => RInv'
  BY RInvNext
<1> QED BY <1>1, <1>2, RInvInit, PTL DEF Spec
-----------------------------------------------------------------------------
(* A client's only download, of files that do not change, on any network. *)

OneDownload == MaxDownloads = 1 /\ MaxVersion = 1

\* What is under way to or from a client is about the file it asked for, and true.
TrueMessage(m) ==
  /\ downloads[m.client] = 1 /\ m.path = mFile[m.client]
  /\ m.type = "Size" => m.size = Blocks[m.path]
  /\ m.type = "Data" => m.block < Blocks[m.path] /\ m.data = <<m.path, 1, m.block>>
  /\ m.type = "Checksum" => m.digest = Bytes(m.path, 1)
  /\ m.type = "Error" => m.path \notin Existing

\* The states in which c knows the size of the file.
Sized == {"Get", "Start", "Data", "Acknowledge", "Checksum", "Confirm"}

TrueQueue(c) ==
  \A i \in DOMAIN mProtocols[c] :
    mProtocols[c][i].client = c /\ TrueMessage(mProtocols[c][i])

\* What c has is the file's: written in order, or cached.
TrueClient(c) ==
  /\ TrueQueue(c)
  /\ downloads[c] = 0 => mFile[c] = Nil
  /\ downloads[c] = 1 => mFile[c] \in File /\ mNext[c] <= Blocks[mFile[c]]
  /\ Len(mOutput[c]) = mNext[c]
  /\ \A i \in 1..mNext[c] : mOutput[c][i] = <<mFile[c], 1, i - 1>>
  /\ downloads[c] = 1 => \A b \in BlockId :
       mCache[c][b] # Nil => b < Blocks[mFile[c]] /\ mCache[c][b] = <<mFile[c], 1, b>>
  /\ mState[c] # "Idle" => downloads[c] = 1 /\ "finished" \notin outcome[c]
  /\ mState[c] \in Sized => mSize[c] = Blocks[mFile[c]]
  /\ mState[c] \in {"Checksum", "Confirm"} => mNext[c] = Blocks[mFile[c]]
  /\ mState[c] = "Error" => mFile[c] \notin Existing

\* What the timer threads of c may send once more is true.
TrueChannel(c) ==
  /\ \A h \in Handle :
       requests[c][h] # Nil =>
         /\ requests[c][h].message.client = c
         /\ TrueMessage(requests[c][h].message)
  /\ \A s \in Step : onTimeouts[c][s] > 0 => downloads[c] = 1

TrueServer ==
  /\ \A c \in Client : mTasks[c] # Nil => mTasks[c].path = mFile[c]
  /\ \A s \in Slot : refusals[s] # Nil =>
       /\ downloads[refusals[s].client] = 1
       /\ refusals[s].path = mFile[refusals[s].client]

FInv ==
  /\ IInv /\ DiskInv /\ TrueServer
  /\ \A m \in net : TrueMessage(m)
  /\ \A c \in Client : TrueClient(c) /\ TrueChannel(c)

\* A message stays true of a client that asks for nothing else.
LEMMA TrueKept ==
  ASSUME NEW m, TrueMessage(m), mFile'[m.client] = mFile[m.client],
         downloads'[m.client] = downloads[m.client]
  PROVE  TrueMessage(m)'
BY DEF TrueMessage, Bytes

\* The state of d that TrueClient looks at.
Account(d) == <<View(d), mOutput[d], outcome[d], mSize[d]>>

\* Entries that are left in the channel are as true as they were.
LEMMA ChannelKept ==
  ASSUME NEW c \in Client, TrueChannel(c), mFile'[c] = mFile[c], downloads'[c] = downloads[c],
         onTimeouts'[c] = onTimeouts[c],
         \A h \in Handle : requests'[c][h] # Nil =>
           requests[c][h] # Nil /\ requests'[c][h].message = requests[c][h].message
  PROVE  TrueChannel(c)'
<1>1. ASSUME NEW h \in Handle, requests'[c][h] # Nil
      PROVE  requests'[c][h].message.client = c /\ TrueMessage(requests[c][h].message)'
  <2>1. PICK m : m = requests[c][h].message
    OBVIOUS
  <2>2. m.client = c /\ TrueMessage(m) /\ requests'[c][h].message = m
    BY <1>1, <2>1 DEF TrueChannel
  <2>3. TrueMessage(m)'
    BY <2>2, TrueKept
  <2> QED BY <2>2, <2>3 DEF TrueMessage, Bytes
<1> QED BY <1>1 DEF TrueChannel, Handle, Step

LEMMA SameAccount ==
  ASSUME NEW d \in Client, TrueClient(d), TrueChannel(d), Account(d)' = Account(d)
  PROVE  TrueClient(d)' /\ TrueChannel(d)'
<1>1. /\ mState'[d] = mState[d] /\ mFile'[d] = mFile[d] /\ mProtocols'[d] = mProtocols[d]
      /\ mNext'[d] = mNext[d] /\ mCache'[d] = mCache[d] /\ downloads'[d] = downloads[d]
      /\ mOutput'[d] = mOutput[d] /\ outcome'[d] = outcome[d] /\ mSize'[d] = mSize[d]
      /\ requests'[d] = requests[d] /\ onTimeouts'[d] = onTimeouts[d]
  BY DEF Account, View
<1>2. \A i \in DOMAIN mProtocols'[d] :
        mProtocols'[d][i].client = d /\ TrueMessage(mProtocols[d][i])'
  BY <1>1, TrueKept DEF TrueClient, TrueQueue
<1>3. TrueClient(d)'
  BY <1>1, <1>2 DEF TrueClient, TrueQueue, TrueMessage, BlockId, Bytes
<1>4. TrueChannel(d)'
  BY <1>1, ChannelKept
<1> QED BY <1>3, <1>4

\* What is left of a queue is as true as the queue.
LEMMA TruePart ==
  ASSUME ClientTypeOK, NEW c \in Client, TrueQueue(c), NEW q,
         mProtocols'[c] = q, Elements(q) \subseteq Elements(mProtocols[c]),
         mFile'[c] = mFile[c], downloads'[c] = downloads[c]
  PROVE  TrueQueue(c)'
<1>1. \A m \in Elements(mProtocols[c]) : m.client = c /\ TrueMessage(m)
  BY DEF Elements, TrueQueue
<1>2. \A m \in Elements(q) : m.client = c /\ TrueMessage(m)'
  BY <1>1, TrueKept
<1>3. \A i \in DOMAIN q : q[i] \in Elements(q)
  BY DEF Elements
<1> QED BY <1>2, <1>3 DEF TrueQueue, TrueMessage, Bytes

\* A sequence of the file's blocks in order is the beginning of the file.
LEMMA BlocksAreBytes ==
  ASSUME NEW f \in File, NEW s \in Seq(Content), Len(s) <= Blocks[f],
         \A i \in 1..Len(s) : s[i] = <<f, 1, i - 1>>
  PROVE  /\ s = SubSeq(Bytes(f, 1), 1, Len(s))
         /\ Len(s) = Blocks[f] => s = Bytes(f, 1)
         /\ Len(Bytes(f, 1)) = Blocks[f]
<1>1. Bytes(f, 1) \in Seq(Content) /\ Len(Bytes(f, 1)) = Blocks[f]
  <2>1. 1 \in Version
    BY ChannelAssumption DEF Version
  <2> QED BY <2>1, BytesType, BytesWhole DEF IsWhole
<1>2. /\ Blocks[f] \in Nat /\ Len(s) \in Nat
      /\ \A i \in 1..Blocks[f] : Bytes(f, 1)[i] = <<f, 1, i - 1>>
  BY FileAssumption DEF Bytes
<1> DEFINE p == SubSeq(Bytes(f, 1), 1, Len(s))
<1>3. \A i \in 1..Len(s) : Bytes(f, 1)[i] \in Content
  BY <1>1, <1>2, ElementOfSeq
<1>4. p \in Seq(Content) /\ Len(p) = Len(s) /\ \A i \in 1..Len(s) : p[i] = Bytes(f, 1)[1 + i - 1]
  BY <1>1, <1>2, <1>3, SubSeqProperties
<1>5. \A i \in 1..Len(s) : p[i] = s[i]
  <2> SUFFICES ASSUME NEW i \in 1..Len(s) PROVE p[i] = s[i]
    OBVIOUS
  <2>1. 1 + i - 1 = i /\ i \in 1..Blocks[f]
    BY <1>2
  <2> HIDE DEF p
  <2> QED BY <1>2, <1>4, <2>1
<1> HIDE DEF p
<1>6. p = s
  BY <1>4, <1>5, SeqEqual
<1>7. Len(s) = Blocks[f] => s = Bytes(f, 1)
  BY <1>1, <1>2, SeqEqual
<1> QED BY <1>1, <1>6, <1>7 DEF p

\* What dispatch() finds in the queue is true, and so is what it leaves there.
LEMMA TruePop ==
  ASSUME ClientTypeOK, NEW c \in Client, TrueQueue(c), Matches(c) # {},
         mFile' = mFile, downloads' = downloads,
         mProtocols' \in {[mProtocols EXCEPT ![c] = From(c, First(c))],
                          [mProtocols EXCEPT ![c] = From(c, First(c) + 1)]}
  PROVE  Found(c).client = c /\ TrueMessage(Found(c)) /\ TrueQueue(c)'
<1>1. Found(c) \in Elements(mProtocols[c]) /\ mProtocols'[c] \in {From(c, First(c)), From(c, First(c) + 1)}
      /\ Elements(mProtocols'[c]) \subseteq Elements(mProtocols[c])
  BY PopElements DEF ClientTypeOK
<1>2. Found(c).client = c /\ TrueMessage(Found(c))
  BY <1>1 DEF Elements, TrueQueue
<1>3. TrueQueue(c)'
  BY <1>1, TruePart
<1> QED BY <1>2, <1>3

\* The queue is as it was.
LEMMA TrueSameQueue ==
  ASSUME NEW c, TrueQueue(c), mProtocols'[c] = mProtocols[c],
         mFile' = mFile, downloads' = downloads
  PROVE  TrueQueue(c)'
<1>1. \A i \in DOMAIN mProtocols[c] :
        mProtocols[c][i].client = c /\ TrueMessage(mProtocols[c][i])'
  BY TrueKept DEF TrueQueue
<1> QED BY <1>1 DEF TrueQueue, TrueMessage, Bytes

\* What is asked goes to the network and to the entry of the timer.
LEMMA ChannelAsks ==
  ASSUME ClientTypeOK, NEW c \in Client, TrueChannel(c), NEW s, NEW t, NEW m,
         Asks(c, s, m, t), m.client = c, TrueMessage(m)
  PROVE  TrueChannel(c)' /\ \A n \in net' : n \in net \/ TrueMessage(n)'
<1>1. /\ mFile' = mFile /\ downloads' = downloads /\ onTimeouts' = onTimeouts
      /\ net' = net \cup {m}
  BY DEF Asks, Send
<1>2. PICK h \in Handle : requests' = [requests EXCEPT ![c][h] = [message |-> m, tries |-> 1]]
  BY DEF Asks
<1>3. TrueMessage(m)'
  BY <1>1, TrueKept
<1>4. ASSUME NEW g \in Handle, requests'[c][g] # Nil
      PROVE  requests'[c][g].message.client = c /\ TrueMessage(requests[c][g].message)'
  <2>1. CASE g = h
    <3>1. requests'[c][g].message = m
      BY <1>2, <2>1 DEF ClientTypeOK
    <3> QED BY <1>3, <3>1 DEF TrueMessage, Bytes
  <2>2. CASE g # h
    <3>1. PICK n : n = requests[c][g].message
      OBVIOUS
    <3>2. requests'[c][g] = requests[c][g]
      BY <1>2, <2>2 DEF ClientTypeOK
    <3>3. n.client = c /\ TrueMessage(n) /\ requests'[c][g].message = n
      BY <1>4, <3>1, <3>2 DEF TrueChannel
    <3>4. TrueMessage(n)'
      BY <1>1, <3>3, TrueKept
    <3> QED BY <3>3, <3>4 DEF TrueMessage, Bytes
  <2> QED BY <2>1, <2>2
<1>5. TrueChannel(c)'
  BY <1>1, <1>4 DEF TrueChannel, Handle, Step
<1> QED BY <1>1, <1>3, <1>5

LEMMA TrueAsks ==
  ASSUME IInv, NEW c \in Client, TrueClient(c), TrueChannel(c),
         query(c) \/ get(c) \/ checksum(c)
  PROVE  TrueClient(c)' /\ TrueChannel(c)' /\ \A m \in net' : m \in net \/ TrueMessage(m)'
<1>1. ClientTypeOK /\ ClientInv(c)
  BY DEF IInv, TypeOK
<1>2. /\ mFile' = mFile /\ downloads' = downloads /\ mProtocols' = mProtocols /\ mSize' = mSize
      /\ mNext' = mNext /\ mOutput' = mOutput /\ mCache' = mCache /\ outcome' = outcome
  BY DEF query, get, checksum, Asks
<1>3. \/ mState[c] = "Query" /\ mState'[c] = "Size"
      \/ mState[c] = "Get" /\ mState'[c] = "Start"
      \/ mState[c] = "Checksum" /\ mState'[c] = "Confirm"
  BY <1>1 DEF query, get, checksum, Asks, Goto, ClientTypeOK
<1>4. TrueQueue(c)'
  BY <1>2, TrueSameQueue DEF TrueClient
<1>5. TrueClient(c)'
  BY <1>2, <1>3, <1>4 DEF TrueClient, Sized, BlockId
<1>6. downloads[c] = 1 /\ mFile[c] \in File
  BY <1>3 DEF TrueClient
<1>7. CASE query(c)
  <2>1. QueryMsg(c, mFile[c]).client = c /\ TrueMessage(QueryMsg(c, mFile[c]))
    BY <1>6 DEF TrueMessage, QueryMsg
  <2> QED BY <1>1, <1>5, <1>7, <2>1, ChannelAsks DEF query
<1>8. CASE get(c)
  <2>1. GetMsg(c, mFile[c]).client = c /\ TrueMessage(GetMsg(c, mFile[c]))
    BY <1>6 DEF TrueMessage, GetMsg
  <2> QED BY <1>1, <1>5, <1>8, <2>1, ChannelAsks DEF get
<1>9. CASE checksum(c)
  <2> DEFINE m == ChecksumMsg(c, mFile[c], mOutput[c])
  <2>1. mState[c] = "Checksum" /\ mOutput[c] \in Seq(Content) /\ Len(mOutput[c]) = Blocks[mFile[c]]
        /\ Blocks[mFile[c]] \in Nat
        /\ \A i \in 1..Len(mOutput[c]) : mOutput[c][i] = <<mFile[c], 1, i - 1>>
    BY <1>1, <1>6, <1>9, FileAssumption DEF checksum, Asks, TrueClient, ClientTypeOK
  <2>2. mOutput[c] = Bytes(mFile[c], 1)
    <3>1. Len(mOutput[c]) <= Blocks[mFile[c]]
      BY <2>1
    <3> QED BY <1>6, <2>1, <3>1, BlocksAreBytes
  <2>3. m.client = c /\ m.path = mFile[c] /\ m.digest = mOutput[c] /\ m.type = "Checksum"
    BY DEF ChecksumMsg
  <2>4. TrueMessage(m)
    BY <1>6, <2>2, <2>3 DEF TrueMessage
  <2>5. Asks(c, "Checksum", m, "Confirm")
    BY <1>9 DEF checksum
  <2> HIDE DEF m
  <2> QED BY <1>1, <1>5, <2>3, <2>4, <2>5, ChannelAsks
<1> QED BY <1>7, <1>8, <1>9

LEMMA TrueSize ==
  ASSUME IInv, NEW c \in Client, TrueClient(c), size(c)
  PROVE  TrueClient(c)'
<1>1. ClientTypeOK /\ ClientInv(c)
  BY DEF IInv, TypeOK
<1>2. /\ mFile' = mFile /\ downloads' = downloads /\ mNext' = mNext /\ mOutput' = mOutput
      /\ mCache' = mCache /\ outcome' = outcome
      /\ mState[c] = "Size" /\ mState'[c] = "Get" /\ mSize'[c] = Found(c).size
      /\ Found(c).type = "Size" /\ Matches(c) # {} /\ Pop(c)
  BY <1>1 DEF size, Takes, Goto, ClientTypeOK
<1>3. Found(c).client = c /\ TrueMessage(Found(c)) /\ TrueQueue(c)'
  BY <1>1, <1>2, TruePop DEF TrueClient, Pop
<1>4. mSize'[c] = Blocks[mFile[c]]
  BY <1>2, <1>3 DEF TrueMessage
<1> QED BY <1>2, <1>3, <1>4 DEF TrueClient, Sized, BlockId

LEMMA TrueStart ==
  ASSUME IInv, NEW c \in Client, TrueClient(c), start(c)
  PROVE  TrueClient(c)'
<1>1. ClientTypeOK /\ ClientInv(c)
  BY DEF IInv, TypeOK
<1>2. /\ mFile' = mFile /\ downloads' = downloads /\ mNext'[c] = 0 /\ mOutput'[c] = <<>>
      /\ mCache' = mCache /\ mSize' = mSize /\ Matches(c) # {} /\ Pop(c)
      /\ mState[c] = "Start"
      /\ \/ mState'[c] = "Data" /\ outcome' = outcome
         \/ mState'[c] = "Idle"
  BY <1>1 DEF start, Takes, Goto, ClientTypeOK
<1>3. TrueQueue(c)'
  BY <1>1, <1>2, TruePop DEF TrueClient, Pop
<1>4. Len(mOutput'[c]) = mNext'[c] /\ \A i \in 1..mNext'[c] : FALSE
  BY <1>2, EmptySeq
<1>5. downloads[c] = 1 => mNext'[c] <= Blocks[mFile[c]]
  BY <1>2, FileAssumption DEF TrueClient
<1> QED BY <1>2, <1>3, <1>4, <1>5 DEF TrueClient, Sized, BlockId

LEMMA TrueDuplicate ==
  ASSUME IInv, NEW c \in Client, TrueClient(c), Duplicate(c)
  PROVE  TrueClient(c)'
<1>1. ClientTypeOK /\ ClientInv(c)
  BY DEF IInv, TypeOK
<1>2. /\ mFile' = mFile /\ downloads' = downloads /\ mNext' = mNext /\ mOutput' = mOutput
      /\ mCache' = mCache /\ mSize' = mSize /\ outcome' = outcome /\ Matches(c) # {} /\ Pop(c)
      /\ mState[c] = "Data" /\ mState'[c] = "Acknowledge"
  BY <1>1 DEF Duplicate, Takes, Goto, ClientTypeOK
<1>3. TrueQueue(c)'
  BY <1>1, <1>2, TruePop DEF TrueClient, Pop
<1> QED BY <1>2, <1>3 DEF TrueClient, Sized, BlockId

LEMMA TrueAcknowledge ==
  ASSUME IInv, NEW c \in Client, TrueClient(c), acknowledge(c)
  PROVE  TrueClient(c)' /\ \A m \in net' : m \in net \/ TrueMessage(m)'
<1>1. ClientTypeOK /\ ClientInv(c)
  BY DEF IInv, TypeOK
<1>2. /\ mFile' = mFile /\ downloads' = downloads /\ mNext' = mNext /\ mOutput' = mOutput
      /\ mCache' = mCache /\ mSize' = mSize /\ outcome' = outcome /\ mProtocols' = mProtocols
      /\ mState[c] = "Acknowledge"
      /\ mState'[c] = IF Len(mOutput[c]) = mSize[c] THEN "Checksum" ELSE "Data"
      /\ net' = net \cup {AcknowledgeMsg(c, mFile[c], mBlock[c])}
  BY <1>1 DEF acknowledge, Goto, Send, ClientTypeOK
<1>3. TrueQueue(c)'
  BY <1>2, TrueSameQueue DEF TrueClient
<1>4. mSize[c] = Blocks[mFile[c]] /\ downloads[c] = 1 /\ Len(mOutput[c]) = mNext[c]
  BY <1>2 DEF TrueClient, Sized
<1>5. TrueClient(c)'
  BY <1>2, <1>3, <1>4 DEF TrueClient, Sized, BlockId
<1>6. ASSUME NEW m \in net', m \notin net PROVE TrueMessage(m)'
  <2>1. m = AcknowledgeMsg(c, mFile[c], mBlock[c])
    BY <1>2, <1>6
  <2>2. m.type = "Acknowledge" /\ m.client = c /\ m.path = mFile[c]
    BY <2>1 DEF AcknowledgeMsg
  <2> QED BY <1>2, <1>4, <2>2 DEF TrueMessage
<1> QED BY <1>5, <1>6

LEMMA TrueWaits ==
  ASSUME IInv, NEW c \in Client, TrueClient(c), WaitError(c) \/ Discard(c) \/ confirm(c) \/ error(c)
  PROVE  TrueClient(c)'
<1>1. ClientTypeOK /\ ClientInv(c)
  BY DEF IInv, TypeOK
<1>2. /\ mFile' = mFile /\ downloads' = downloads /\ mNext' = mNext /\ mOutput' = mOutput
      /\ mCache' = mCache /\ mSize' = mSize
  BY DEF WaitError, Discard, confirm, error
<1>3. CASE confirm(c)
  <2>1. Matches(c) # {} /\ mState'[c] = "Idle" /\ mProtocols' = [mProtocols EXCEPT ![c] = From(c, First(c))]
    BY <1>1, <1>3 DEF confirm, Takes, Goto, ClientTypeOK
  <2>2. TrueQueue(c)'
    BY <1>1, <1>2, <2>1, TruePop DEF TrueClient
  <2> QED BY <1>2, <2>1, <2>2 DEF TrueClient, Sized, BlockId
<1>4. CASE WaitError(c)
  <2>1. /\ Matches(c) # {} /\ mState[c] \in Waiting /\ mState'[c] = "Error" /\ outcome' = outcome
        /\ Found(c).type = "Error"
        /\ mProtocols' = [mProtocols EXCEPT ![c] = From(c, First(c))]
    BY <1>1, <1>4 DEF WaitError, Goto, ClientTypeOK
  <2>2. Found(c).client = c /\ TrueMessage(Found(c)) /\ TrueQueue(c)'
    BY <1>1, <1>2, <2>1, TruePop DEF TrueClient
  <2>3. mFile[c] \notin Existing
    BY <2>1, <2>2 DEF TrueMessage
  <2> QED BY <1>2, <2>1, <2>2, <2>3 DEF TrueClient, Sized, BlockId, Waiting
<1>5. CASE Discard(c)
  <2>1. mState' = mState /\ outcome' = outcome /\ mProtocols'[c] = <<>>
    BY <1>1, <1>5 DEF Discard, ClientTypeOK
  <2>2. TrueQueue(c)'
    BY <2>1 DEF TrueQueue
  <2> QED BY <1>2, <2>1, <2>2 DEF TrueClient, Sized, BlockId
<1>6. CASE error(c)
  <2>1. mState[c] = "Error" /\ mState'[c] = "Idle" /\ mProtocols'[c] = Tail(mProtocols[c])
    BY <1>1, <1>6 DEF error, Goto, ClientTypeOK
  <2>2. /\ mProtocols[c] \in Seq(ToClient) /\ mProtocols[c] # <<>> /\ Len(mProtocols[c]) \in Nat
        /\ DOMAIN mProtocols[c] = 1..Len(mProtocols[c])
    BY <1>1, <2>1, LenProperties DEF ClientInv, ClientTypeOK
  <2>3. /\ Tail(mProtocols[c]) \in Seq(ToClient)
        /\ Len(Tail(mProtocols[c])) = Len(mProtocols[c]) - 1
        /\ \A i \in 1..(Len(mProtocols[c]) - 1) : Tail(mProtocols[c])[i] = mProtocols[c][i + 1]
    BY <2>2, HeadTailProperties
  <2>4. DOMAIN Tail(mProtocols[c]) = 1..(Len(mProtocols[c]) - 1)
    BY <2>3, LenProperties
  <2>5. \A i \in 1..(Len(mProtocols[c]) - 1) : i + 1 \in DOMAIN mProtocols[c]
    BY <2>2
  <2>6. Elements(Tail(mProtocols[c])) \subseteq Elements(mProtocols[c])
    BY <2>3, <2>4, <2>5 DEF Elements
  <2>7. TrueQueue(c)'
    BY <1>1, <1>2, <2>1, <2>6, TruePart DEF TrueClient
  <2> QED BY <1>2, <2>1, <2>7 DEF TrueClient, Sized, BlockId
<1> QED BY <1>3, <1>4, <1>5, <1>6

\* data() writes and caches what it found where it belongs.
LEMMA TrueData ==
  ASSUME IInv, NEW c \in Client, TrueClient(c), data(c)
  PROVE  /\ TrueClient(c)'
         /\ mNext'[c] >= mNext[c] /\ (mNext'[c] = mNext[c] => mOutput' = mOutput)
<1> DEFINE m == Found(c)
           n == mNext[c]
           cached == [mCache[c] EXCEPT ![m.block] = m.data]
           end    == FlushEnd(cached, n)
           new    == [i \in 1..(end - n) |-> cached[n + i - 1]]
<1>1. ClientTypeOK /\ ClientInv(c) /\ ClientTypeOK'
  BY DataType DEF IInv, TypeOK
<1>2. /\ mFile' = mFile /\ downloads' = downloads /\ mSize' = mSize /\ outcome' = outcome
      /\ mState[c] = "Data" /\ mState'[c] = "Acknowledge"
      /\ m.type = "Data" /\ Matches(c) # {} /\ Pop(c)
  BY <1>1 DEF data, Takes, Goto, ClientTypeOK
<1>3. /\ mNext'[c] = end
      /\ mOutput' = [mOutput EXCEPT ![c] = mOutput[c] \o new]
      /\ mCache'[c] = [b \in BlockId |-> IF b < end THEN Nil ELSE cached[b]]
  BY <1>1 DEF data, ClientTypeOK
<1>4. m.client = c /\ TrueMessage(m) /\ TrueQueue(c)'
  BY <1>1, <1>2, TruePop DEF TrueClient, Pop
<1>5. m.block \in BlockId /\ m.data \in Content /\ m.data = <<mFile[c], 1, m.block>>
      /\ m.block < Blocks[mFile[c]]
  <2>1. m.block \in BlockId /\ m.data \in Content
    BY <1>1, <1>2, FirstProperties, MessageFields
  <2> QED BY <1>2, <1>4, <2>1 DEF TrueMessage
<1>6. /\ downloads[c] = 1 /\ mFile[c] \in File /\ Blocks[mFile[c]] \in Nat
      /\ n \in Nat /\ n <= Blocks[mFile[c]] /\ n \in 0..MaxBlocks
      /\ mOutput[c] \in Seq(Content) /\ Len(mOutput[c]) = n
  BY <1>1, <1>2, FileAssumption DEF TrueClient, ClientTypeOK
<1> HIDE DEF m
<1>7. \A b \in BlockId : cached[b] # Nil =>
        b < Blocks[mFile[c]] /\ cached[b] = <<mFile[c], 1, b>>
  BY <1>1, <1>5, <1>6 DEF TrueClient, ClientTypeOK
<1>8. end \in n..MaxBlocks /\ \A k \in n..(end - 1) : cached[k] # Nil
  BY <1>6, FlushEndProperties
<1> HIDE DEF cached, end
<1>9. end \in Nat /\ n <= end /\ end <= MaxBlocks /\ MaxBlocks \in Nat
  BY <1>6, <1>8, FileAssumption
<1>10. ASSUME NEW k \in n..(end - 1)
       PROVE  k \in BlockId /\ k < Blocks[mFile[c]] /\ cached[k] = <<mFile[c], 1, k>>
  <2>1. k \in BlockId
    BY <1>6, <1>9 DEF BlockId
  <2> QED BY <1>7, <1>8, <2>1
<1>11. end <= Blocks[mFile[c]]
  <2>1. CASE end = n
    BY <1>6, <2>1
  <2>2. CASE end # n
    <3>1. end - 1 \in n..(end - 1)
      BY <1>6, <1>9, <2>2
    <3> QED BY <1>6, <1>9, <1>10, <3>1
  <2> QED BY <2>1, <2>2
<1>12. ASSUME NEW i \in 1..(end - n)
       PROVE  new[i] = <<mFile[c], 1, n + i - 1>> /\ new[i] \in Content
  <2>1. n + i - 1 \in n..(end - 1)
    BY <1>6, <1>9
  <2>2. new[i] = <<mFile[c], 1, n + i - 1>> /\ n + i - 1 \in BlockId
    BY <1>10, <2>1
  <2>3. 1 \in Version
    BY ChannelAssumption DEF Version
  <2>4. \A j \in BlockId : <<mFile[c], 1, j>> \in Content
    BY <1>6, <2>3 DEF Content
  <2> HIDE DEF new
  <2> QED BY <2>2, <2>4
<1>13. new \in Seq(Content) /\ Len(new) = end - n
  <2>1. end - n \in Nat
    BY <1>6, <1>9
  <2>2. new \in [1..(end - n) -> Content]
    BY <1>12
  <2> HIDE DEF new
  <2> QED BY <2>1, <2>2, FunctionIsSeq
<1> HIDE DEF new
<1>14. mOutput'[c] = mOutput[c] \o new
  BY <1>1, <1>3 DEF ClientTypeOK
<1>15. Len(mOutput'[c]) = end
  <2>1. Len(mOutput[c] \o new) = Len(mOutput[c]) + Len(new)
    BY <1>6, <1>13, ConcatProperties
  <2> QED BY <1>6, <1>9, <1>13, <1>14, <2>1
<1>16. ASSUME NEW i \in 1..end
       PROVE  mOutput'[c][i] = <<mFile[c], 1, i - 1>>
  <2>1. CASE i <= n
    <3>1. mOutput'[c][i] = mOutput[c][i]
      BY <1>6, <1>13, <1>14, <2>1, ConcatProperties
    <3> QED BY <1>6, <2>1, <3>1 DEF TrueClient
  <2>2. CASE i > n
    <3>1. i - n \in 1..(end - n) /\ n + (i - n) - 1 = i - 1
      BY <1>6, <1>9, <2>2
    <3>2. mOutput'[c][i] = new[i - n]
      <4>1. i \in Len(mOutput[c]) + 1 .. Len(mOutput[c]) + Len(new)
        BY <1>6, <1>9, <1>13, <2>2
      <4>2. (mOutput[c] \o new)[i] = new[i - Len(mOutput[c])]
        BY <1>6, <1>13, <4>1, ConcatProperties
      <4> QED BY <1>6, <1>14, <4>2
    <3> QED BY <1>12, <3>1, <3>2
  <2> QED BY <1>6, <2>1, <2>2
<1>17. \A b \in BlockId : mCache'[c][b] # Nil => mCache'[c][b] = cached[b]
  BY <1>3
<1>18. end = n => mOutput' = mOutput
  <2> SUFFICES ASSUME end = n PROVE mOutput' = mOutput
    OBVIOUS
  <2>1. new = <<>>
    BY <1>6, <1>13, EmptySeq
  <2>2. mOutput[c] \o new = mOutput[c]
    BY <1>6, <2>1, ConcatEmptySeq
  <2> QED BY <1>1, <1>3, <2>2 DEF ClientTypeOK
<1>19. TrueClient(c)'
  BY <1>2, <1>3, <1>4, <1>6, <1>7, <1>11, <1>15, <1>16, <1>17
  DEF TrueClient, Sized, BlockId
<1> QED BY <1>3, <1>9, <1>18, <1>19

\* The rest of dispatch() asks for nothing.
LEMMA ChannelDispatch ==
  ASSUME IInv, NEW c \in Client, TrueChannel(c), DispatchStep(c),
         ~(query(c) \/ get(c) \/ checksum(c))
  PROVE  TrueChannel(c)'
<1>1. ClientTypeOK
  BY DEF IInv, TypeOK
<1>2. /\ mFile' = mFile /\ downloads' = downloads /\ onTimeouts' = onTimeouts
      /\ requests' = requests \/ TerminateHandle(c)
  BY DEF DispatchStep, size, start, data, Duplicate, acknowledge, confirm, Takes,
         WaitError, Discard, error, channelVars
<1>3. \A h \in Handle : requests'[c][h] \in {requests[c][h], Nil}
  BY <1>1, <1>2, TerminateType
<1> QED BY <1>2, <1>3, ChannelKept

LEMMA TrueDispatch ==
  ASSUME IInv, NEW c \in Client, TrueClient(c), TrueChannel(c), DispatchStep(c)
  PROVE  /\ TrueClient(c)' /\ TrueChannel(c)' /\ mFile' = mFile /\ downloads' = downloads
         /\ \A m \in net' : m \in net \/ TrueMessage(m)'
<1>1. mFile' = mFile /\ downloads' = downloads
  BY DEF DispatchStep, query, size, get, start, data, Duplicate, acknowledge, checksum,
         confirm, WaitError, Discard, error, Asks
<1>2. CASE query(c) \/ get(c) \/ checksum(c)
  BY <1>1, <1>2, TrueAsks
<1>3. ~(query(c) \/ get(c) \/ checksum(c)) => TrueChannel(c)'
  BY ChannelDispatch
<1>4. CASE acknowledge(c)
  <2>1. ~(query(c) \/ get(c) \/ checksum(c))
    BY <1>4 DEF acknowledge, query, get, checksum, Asks
  <2> QED BY <1>1, <1>3, <1>4, <2>1, TrueAcknowledge
<1>5. CASE size(c) \/ start(c) \/ data(c) \/ Duplicate(c)
  <2>1. net' = net /\ ~(query(c) \/ get(c) \/ checksum(c))
    BY <1>5 DEF size, start, data, Duplicate, Takes, query, get, checksum, Asks
  <2> QED BY <1>1, <1>3, <1>5, <2>1, TrueSize, TrueStart, TrueData, TrueDuplicate
<1>6. CASE WaitError(c) \/ Discard(c) \/ confirm(c) \/ error(c)
  <2>1. net' = net /\ ~(query(c) \/ get(c) \/ checksum(c))
    BY <1>6 DEF WaitError, Discard, confirm, error, Takes, Waiting, query, get, checksum, Asks
  <2> QED BY <1>1, <1>3, <1>6, <2>1, TrueWaits
<1> QED BY <1>2, <1>4, <1>5, <1>6 DEF DispatchStep

\* A timer thread in onTimeout came from an entry.
LEMMA ChannelBackground ==
  ASSUME IInv, NEW c \in Client, TrueClient(c), TrueChannel(c), Background(c),
         mFile' = mFile, downloads' = downloads
  PROVE  TrueChannel(c)'
<1>1. ClientTypeOK /\ RequestInv(c)
  BY DEF IInv, TypeOK, ClientInv
<1>2. \A h \in Handle : requests'[c][h] # Nil =>
        requests[c][h] # Nil /\ requests'[c][h].message = requests[c][h].message
  <2>1. ASSUME NEW h \in Handle, ClientRetry(c, h)
        PROVE  \A g \in Handle : requests'[c][g] # Nil =>
                 requests[c][g] # Nil /\ requests'[c][g].message = requests[c][g].message
    <3>1. requests' = [requests EXCEPT ![c][h].tries = @ + 1] /\ requests[c][h] \in Entry
          /\ requests[c][h] # Nil
      BY <1>1, <2>1, EntryFields DEF ClientRetry
    <3>2. \A g \in Handle : g # h => requests'[c][g] = requests[c][g]
      BY <1>1, <3>1 DEF ClientTypeOK
    <3>3. requests'[c][h].message = requests[c][h].message
      BY <1>1, <3>1 DEF ClientTypeOK, Entry
    <3> QED BY <3>1, <3>2, <3>3
  <2>2. ASSUME NEW h \in Handle, ClientExpire(c, h)
        PROVE  \A g \in Handle : requests'[c][g] \in {requests[c][g], Nil}
    BY <1>1, <2>2 DEF ClientTypeOK, ClientExpire
  <2>3. CASE requests' = requests
    BY <2>3
  <2>4. CASE TerminateHandle(c)
    <3>1. \A h \in Handle : requests'[c][h] \in {requests[c][h], Nil}
      BY <1>1, <2>4, TerminateType
    <3> QED BY <3>1
  <2> QED BY <2>1, <2>2, <2>3, <2>4
    DEF Background, ClientTimer, TimeoutStep, TimeoutReport, TimeoutTerminate, TimeoutStop,
        TimeoutNotify, Proceeds, Wake, channelVars
<1>3. \A s \in Step : onTimeouts'[c][s] > 0 => downloads[c] = 1
  <2> SUFFICES ASSUME downloads[c] # 1 PROVE \A s \in Step : ~(onTimeouts'[c][s] > 0)
    OBVIOUS
  <2>1. \A s \in Step : ~(onTimeouts[c][s] > 0)
    BY DEF TrueChannel
  <2>2. \A h \in Handle : requests[c][h] = Nil
    BY DEF TrueChannel, TrueMessage
  <2>3. onTimeouts' = onTimeouts
    BY <2>1, <2>2 DEF Background, ClientTimer, ClientRetry, ClientExpire, TimeoutStep,
       TimeoutReport, TimeoutTerminate, TimeoutStop, TimeoutNotify, Proceeds, Step, Wake, channelVars
  <2> QED BY <2>1, <2>3
<1>4. ASSUME NEW h \in Handle, requests'[c][h] # Nil
      PROVE  requests'[c][h].message.client = c /\ TrueMessage(requests[c][h].message)'
  <2>1. PICK m : m = requests[c][h].message
    OBVIOUS
  <2>2. m.client = c /\ TrueMessage(m) /\ requests'[c][h].message = m
    BY <1>2, <1>4, <2>1 DEF TrueChannel
  <2>3. TrueMessage(m)'
    BY <2>2, TrueKept
  <2> QED BY <2>2, <2>3 DEF TrueMessage, Bytes
<1> QED BY <1>3, <1>4 DEF TrueChannel, Handle, Step

\* The timer threads only repeat, and report an error of the download that is made.
LEMMA TrueBackground ==
  ASSUME IInv, NEW c \in Client, TrueClient(c), TrueChannel(c), Background(c)
  PROVE  /\ TrueClient(c)' /\ TrueChannel(c)' /\ mFile' = mFile /\ downloads' = downloads
         /\ \A m \in net' : m \in net \/ TrueMessage(m)'
<1>1. ClientTypeOK /\ ClientPre /\ BackgroundStep(c)
  BY BackgroundIsStep DEF IInv, TypeOK, ClientPre
<1>2. /\ mFile' = mFile /\ downloads' = downloads /\ mProtocols' = mProtocols /\ mSize' = mSize
      /\ mNext' = mNext /\ mOutput' = mOutput /\ mCache' = mCache
      /\ mState'[c] \in {mState[c], "Idle"}
      /\ "finished" \notin outcome[c] => "finished" \notin outcome'[c]
  BY <1>1 DEF BackgroundStep, Goto, Calls, ClientTypeOK
<1>3. TrueQueue(c)'
  BY <1>2, TrueSameQueue DEF TrueClient
<1>4. TrueClient(c)'
  BY <1>2, <1>3 DEF TrueClient, Sized, BlockId
<1>5. ASSUME NEW m \in net', m \notin net PROVE TrueMessage(m)'
  <2>1. PICK h \in Handle : requests[c][h] # Nil /\ m = requests[c][h].message
    BY <1>1, <1>5 DEF BackgroundStep
  <2>2. TrueMessage(m)
    BY <2>1 DEF TrueChannel
  <2> QED BY <1>2, <2>2, TrueKept
<1>6. TrueChannel(c)'
  BY <1>1, <1>2, ChannelBackground
<1> QED BY <1>2, <1>4, <1>5, <1>6

\* The first download finds nothing under way.
LEMMA TrueDownload ==
  ASSUME OneDownload, IInv, NEW c \in Client, TrueClient(c), TrueChannel(c),
         NEW f \in File, Download(c, f)
  PROVE  /\ TrueClient(c)' /\ TrueChannel(c)' /\ net' = net /\ downloads[c] = 0 /\ downloads'[c] = 1 /\ mFile'[c] = f
         /\ \A d \in Client : d # c => mFile'[d] = mFile[d] /\ downloads'[d] = downloads[d]
<1>1. ClientTypeOK /\ ClientInv(c)
  BY DEF IInv, TypeOK
<1>2. downloads[c] = 0
  BY <1>1 DEF OneDownload, Download, ClientTypeOK
<1>3. /\ mState'[c] = "Query" /\ mFile'[c] = f /\ downloads'[c] = 1 /\ mProtocols'[c] = <<>>
      /\ mCache'[c] = EmptyCache /\ outcome'[c] = {} /\ mNext' = mNext /\ mOutput' = mOutput
      /\ net' = net /\ requests' = requests /\ onTimeouts' = onTimeouts
      /\ \A d \in Client : d # c => mFile'[d] = mFile[d] /\ downloads'[d] = downloads[d]
  BY <1>1, <1>2 DEF Download, Goto, ClientTypeOK, channelVars
<1>4. mNext[c] = 0 /\ 0 <= Blocks[f]
  BY <1>1, <1>2, FileAssumption DEF ClientInv
<1>5. TrueQueue(c)'
  BY <1>3 DEF TrueQueue
<1>6. \A b \in BlockId : mCache'[c][b] = Nil
  BY <1>3 DEF EmptyCache
<1>7. TrueClient(c)'
  BY <1>2, <1>3, <1>4, <1>5, <1>6 DEF TrueClient, Sized, BlockId
<1>8. TrueChannel(c)'
  <2>1. \A h \in Handle : requests'[c][h] = Nil
    BY <1>2, <1>3 DEF TrueChannel, TrueMessage
  <2> QED BY <1>3, <2>1 DEF TrueChannel, Handle, Step
<1> QED BY <1>2, <1>3, <1>7, <1>8

LEMMA TrueReceive ==
  ASSUME IInv, NEW m \in net, onReceive(m), TrueMessage(m),
         NEW d \in Client, TrueClient(d), TrueChannel(d)
  PROVE  TrueClient(d)' /\ TrueChannel(d)'
<1>1. ClientTypeOK /\ m.client \in Client /\ m \in ToClient
  BY MessageFields DEF IInv, TypeOK, NetworkTypeOK, onReceive
<1>2. /\ mFile' = mFile /\ downloads' = downloads /\ mState' = mState /\ mSize' = mSize
      /\ mNext' = mNext /\ mOutput' = mOutput /\ mCache' = mCache /\ outcome' = outcome
  BY DEF onReceive
<1>3. TrueQueue(d)'
  <2>1. CASE mProtocols'[d] = mProtocols[d]
    BY <1>2, <2>1, TrueSameQueue DEF TrueClient
  <2>2. CASE mProtocols'[d] # mProtocols[d]
    <3>1. m.client = d /\ mProtocols'[d] = Append(mProtocols[d], m)
      BY <1>1, <2>2 DEF onReceive, ClientTypeOK
    <3>2. /\ mProtocols[d] \in Seq(ToClient) /\ Len(mProtocols[d]) \in Nat
          /\ DOMAIN mProtocols[d] = 1..Len(mProtocols[d])
      BY <1>1, LenProperties DEF ClientTypeOK
    <3>3. /\ DOMAIN Append(mProtocols[d], m) = 1..(Len(mProtocols[d]) + 1)
          /\ \A i \in 1..Len(mProtocols[d]) : Append(mProtocols[d], m)[i] = mProtocols[d][i]
          /\ Append(mProtocols[d], m)[Len(mProtocols[d]) + 1] = m
      BY <1>1, <3>2, AppendProperties, LenProperties
    <3>4. ASSUME NEW i \in DOMAIN mProtocols'[d]
          PROVE  mProtocols'[d][i].client = d /\ TrueMessage(mProtocols'[d][i])
      <4>1. CASE i \in DOMAIN mProtocols[d]
        BY <3>1, <3>2, <3>3, <4>1 DEF TrueClient, TrueQueue
      <4>2. CASE i \notin DOMAIN mProtocols[d]
        <5>1. i = Len(mProtocols[d]) + 1
          BY <3>1, <3>2, <3>3, <4>2
        <5> QED BY <3>1, <3>3, <5>1
      <4> QED BY <4>1, <4>2
    <3> QED BY <1>2, <3>4 DEF TrueQueue, TrueMessage, Bytes
  <2> QED BY <2>1, <2>2
<1>4. TrueClient(d)'
  BY <1>2, <1>3 DEF TrueClient, Sized, BlockId
<1>5. TrueChannel(d)'
  BY <1>2, ChannelKept DEF onReceive, channelVars
<1> QED BY <1>4, <1>5

\* Whole contents of the only version of a file are its bytes.
LEMMA WholeIsBytes ==
  ASSUME OneDownload, NEW f \in File, NEW s \in Seq(Content), IsWhole(s, f)
  PROVE  s = Bytes(f, 1)
<1>1. Len(s) = Blocks[f] /\ Len(s) \in Nat /\ Len(s) <= Blocks[f]
  BY DEF IsWhole
<1>2. ASSUME NEW i \in 1..Len(s) PROVE s[i] = <<f, 1, i - 1>>
  <2>1. s[i] \in Content
    BY ElementOfSeq
  <2>2. s[i][2] = 1 /\ s[i] = <<s[i][1], s[i][2], s[i][3]>>
    BY <2>1 DEF Content, Version, OneDownload
  <2>3. s[i][1] = f /\ s[i][3] = i - 1
    BY DEF IsWhole
  <2> QED BY <2>2, <2>3
<1> QED BY <1>1, <1>2, BlocksAreBytes

\* What the server sends is what it read.
LEMMA ReadIsBytes ==
  ASSUME OneDownload, NEW t \in Task, TaskInv(t), ReadInv(t), NEW b \in BlockId, b < t.next
  PROVE  b < Blocks[t.path] /\ t.checksum[b + 1] = <<t.path, 1, b>>
<1>1. /\ t.next \in Nat /\ t.path \in File /\ t.checksum \in Seq(Content)
      /\ Len(t.checksum) = t.next /\ t.next <= Blocks[t.path]
  BY TaskFields DEF TaskInv
<1>2. b \in Nat /\ Blocks[t.path] \in Nat
  BY <1>1, FileAssumption DEF BlockId
<1>3. b + 1 \in 1..t.next /\ (b + 1) - 1 = b
  BY <1>1, <1>2
<1>4. t.checksum[b + 1] \in Content
  BY <1>1, <1>3, ElementOfSeq
<1>5. t.checksum[b + 1][1] = t.path /\ t.checksum[b + 1][3] = b
  BY <1>3 DEF ReadInv
<1>6. /\ t.checksum[b + 1][2] = 1
      /\ t.checksum[b + 1] = <<t.checksum[b + 1][1], t.checksum[b + 1][2], t.checksum[b + 1][3]>>
  BY <1>4 DEF Content, Version, OneDownload
<1> QED BY <1>1, <1>2, <1>5, <1>6

\* A step of the server sends nothing untrue, and works for no other file.
TrueAnswers ==
  /\ \A m \in net' : m \in net \/ TrueMessage(m)
  /\ TrueServer'

LEMMA TrueRequest ==
  ASSUME OneDownload, IInv, DiskInv, TrueServer, NEW m \in net, TrueMessage(m),
         ServerReceive(m), UNCHANGED clientVars
  PROVE  TrueAnswers
<1>1. /\ m.client \in Client /\ m.path \in File /\ ServerTypeOK
      /\ m.type = "Checksum" => m.digest \in Seq(Content)
      /\ downloads[m.client] = 1 /\ m.path = mFile[m.client]
  BY MessageFields DEF IInv, TypeOK, NetworkTypeOK, TrueMessage
<1>2. mFile' = mFile /\ downloads' = downloads
  BY DEF clientVars
<1>3. CASE onQuery(m)
  <2>1. /\ \A n \in net' : n \in net \/ n = SizeMsg(m.client, m.path)
        /\ UNCHANGED serverVars
    BY <1>3 DEF onQuery, Receive
  <2>2. TrueMessage(SizeMsg(m.client, m.path))
    BY <1>1 DEF TrueMessage, SizeMsg
  <2> QED BY <1>2, <2>1, <2>2 DEF TrueAnswers, TrueServer, serverVars
<1>4. CASE Refuse(m)
  <2>1. /\ \A n \in net' : n \in net \/ n = ErrorMsg(m.client, m.path)
        /\ m.path \notin Existing /\ mTasks' = mTasks
        /\ \E s \in Slot : refusals' = [refusals EXCEPT ![s] =
             [client |-> m.client, path |-> m.path, tries |-> 1]]
    BY <1>4 DEF Refuse, Receive
  <2>2. TrueMessage(ErrorMsg(m.client, m.path))
    BY <1>1, <2>1 DEF TrueMessage, ErrorMsg
  <2>3. ASSUME NEW s \in Slot, refusals'[s] # Nil
        PROVE  downloads[refusals'[s].client] = 1 /\ refusals'[s].path = mFile[refusals'[s].client]
    BY <1>1, <2>1, <2>3 DEF TrueServer, ServerTypeOK
  <2> QED BY <1>2, <2>1, <2>2, <2>3 DEF TrueAnswers, TrueServer
<1>5. CASE onGet(m)
  <2>1. /\ \A n \in net' : n \in net \/ \/ n = StartMsg(m.client, m.path)
                                        \/ n = ErrorMsg(m.client, m.path) /\ m.path \notin Existing
        /\ refusals' = refusals
        /\ mTasks' \in {mTasks, [mTasks EXCEPT ![m.client] = NewTask(m.path)]}
    BY <1>5 DEF onGet, Receive
  <2>2. TrueMessage(StartMsg(m.client, m.path))
    BY <1>1 DEF TrueMessage, StartMsg
  <2>3. m.path \notin Existing => TrueMessage(ErrorMsg(m.client, m.path))
    BY <1>1 DEF TrueMessage, ErrorMsg
  <2>4. NewTask(m.path).path = m.path
    BY DEF NewTask
  <2>5. \A c \in Client : mTasks'[c] # Nil => mTasks'[c].path = mFile[c]
    BY <1>1, <2>1, <2>4 DEF TrueServer, ServerTypeOK
  <2> QED BY <1>2, <2>1, <2>2, <2>3, <2>5 DEF TrueAnswers, TrueServer
<1>6. CASE onAcknowledge(m)
  <2>1. \A n \in net' : n \in net
    BY <1>6 DEF onAcknowledge, Receive
  <2>2. ASSUME NEW c \in Client, mTasks'[c] # Nil
        PROVE  mTasks[c] # Nil /\ mTasks'[c].path = mTasks[c].path
    BY <1>1, <1>6, <2>2 DEF onAcknowledge, Awaits, ServerTypeOK, Task
  <2>3. refusals' = refusals
    BY <1>6 DEF onAcknowledge
  <2> QED BY <1>2, <2>1, <2>2, <2>3 DEF TrueAnswers, TrueServer
<1>7. CASE onChecksum(m)
  <2>1. m.digest = Bytes(m.path, 1) /\ m.digest \in Seq(Content)
    BY <1>1, <1>7 DEF onChecksum, TrueMessage
  <2>2. Expected(m.path) = Bytes(m.path, 1)
    <3>1. CASE mMD5Cache[m.path] # Nil
      BY <1>1, <3>1, WholeIsBytes DEF Expected, DiskInv, ServerTypeOK
    <3>2. CASE mMD5Cache[m.path] = Nil
      <4>1. version[m.path] = 1
        BY <1>1 DEF ServerTypeOK, Version, OneDownload
      <4> QED BY <3>2, <4>1 DEF Expected
    <3> QED BY <3>1, <3>2
  <2>3. /\ \A n \in net' : n \in net \/ \/ n = ConfirmMsg(m.client, m.path)
                                        \/ n = ErrorMsg(m.client, m.path) /\ m.path \notin Existing
        /\ refusals' = refusals
        /\ mTasks' = [mTasks EXCEPT ![m.client] = Nil]
    BY <1>7, <2>1, <2>2 DEF onChecksum, Receive, Terminate
  <2>4. TrueMessage(ConfirmMsg(m.client, m.path))
    BY <1>1 DEF TrueMessage, ConfirmMsg
  <2>5. m.path \notin Existing => TrueMessage(ErrorMsg(m.client, m.path))
    BY <1>1 DEF TrueMessage, ErrorMsg
  <2>6. \A c \in Client : mTasks'[c] \in {mTasks[c], Nil}
    BY <1>1, <2>3 DEF ServerTypeOK
  <2> QED BY <1>2, <2>3, <2>4, <2>5, <2>6 DEF TrueAnswers, TrueServer
<1> QED BY <1>3, <1>4, <1>5, <1>6, <1>7 DEF ServerReceive

\* The server repeats and sends what it has read.
LEMMA TrueBlock ==
  ASSUME OneDownload, IInv, TrueServer, NEW c \in Client, mTasks[c] # Nil,
         NEW t \in Task, TaskInv(t), ReadInv(t), t.path = mTasks[c].path,
         NEW b \in BlockId, b < t.next
  PROVE  TrueMessage(DataMsg(c, t.path, b, t.checksum[b + 1]))
<1>1. b < Blocks[t.path] /\ t.checksum[b + 1] = <<t.path, 1, b>>
  BY ReadIsBytes
<1>2. downloads[c] = 1
  BY DEF IInv, TypeOK, ClientTypeOK, OneDownload
<1>3. t.path = mFile[c]
  BY DEF TrueServer
<1> QED BY <1>1, <1>2, <1>3 DEF TrueMessage, DataMsg

LEMMA TrueWork ==
  ASSUME OneDownload, IInv, DiskInv, TrueServer, NEW c \in Client, work(c), UNCHANGED clientVars
  PROVE  TrueAnswers
<1> DEFINE t == mTasks[c]
           k == Reach(t)
           u == Filled(t, k)
<1>1. t \in Task /\ TaskInv(t) /\ ReadInv(t) /\ t # Nil /\ ServerTypeOK
  BY DEF work, IInv, TypeOK, ServerTypeOK, DiskInv
<1>2. /\ Cardinality(Outstanding(t)) < t.window
      /\ net' = net \cup {DataMsg(c, t.path, b, u.checksum[b + 1]) : b \in t.next..(k - 1)}
      /\ mTasks' = [mTasks EXCEPT ![c] =
                      IF AtEnd(u) /\ Outstanding(u) = {} THEN Nil ELSE u]
      /\ refusals' = refusals
  BY DEF work, Reach, Send
<1>3. u \in Task /\ ReadInv(u) /\ u.path = t.path /\ u.next = k /\ TaskInv(u)
  BY <1>1, <1>2, FilledReads, FilledProperties
<1>4. k \in Nat /\ t.next \in Nat /\ k <= MaxBlocks /\ MaxBlocks \in Nat
  BY <1>1, <1>2, ReachProperties, TaskFields, FileAssumption
<1> HIDE DEF u, k
<1>5. ASSUME NEW b \in t.next..(k - 1)
      PROVE  TrueMessage(DataMsg(c, t.path, b, u.checksum[b + 1]))
  <2>1. b \in BlockId /\ b < u.next
    BY <1>3, <1>4 DEF BlockId
  <2>2. TrueMessage(DataMsg(c, u.path, b, u.checksum[b + 1]))
    BY <1>1, <1>3, <2>1, TrueBlock
  <2> QED BY <1>3, <2>2
<1>6. \A m \in net' : m \in net \/ TrueMessage(m)
  BY <1>2, <1>5
<1>7. mFile' = mFile /\ downloads' = downloads
  BY DEF clientVars
<1>8. \A d \in Client : mTasks'[d] # Nil => mTasks'[d].path = mFile[d]
  BY <1>1, <1>2, <1>3 DEF TrueServer, ServerTypeOK
<1> QED BY <1>2, <1>6, <1>7, <1>8 DEF TrueAnswers, TrueServer

LEMMA TrueTimers ==
  ASSUME OneDownload, IInv, DiskInv, TrueServer, UNCHANGED clientVars, ServerTimer
  PROVE  TrueAnswers
<1>1. ServerTypeOK /\ ServerPre /\ mFile' = mFile /\ downloads' = downloads
  BY DEF IInv, TypeOK, ServerPre, clientVars
<1>2. TrueServer'
  <2>1. \A c \in Client : mTasks'[c] # Nil =>
          mTasks[c] # Nil /\ mTasks'[c].path = mTasks[c].path
    BY <1>1, TimerKeepsTasks
  <2>2. \A s \in Slot : refusals'[s] # Nil =>
          /\ refusals[s] # Nil /\ refusals'[s].path = refusals[s].path
          /\ refusals'[s].client = refusals[s].client
    BY <1>1, TimerKeepsTasks
  <2> QED BY <1>1, <2>1, <2>2 DEF TrueServer, Slot
<1>3. ASSUME NEW c \in Client, NEW b \in BlockId, DataRetry(c, b)
      PROVE  \A m \in net' : m \in net \/ TrueMessage(m)
  <2> DEFINE t == mTasks[c]
  <2>1. /\ t # Nil /\ t.packets[b] \in 1..Retries
        /\ net' = net \cup {DataMsg(c, t.path, b, t.checksum[b + 1])}
    BY <1>3 DEF DataRetry, Send
  <2>2. t \in Task /\ TaskInv(t) /\ ReadInv(t)
    BY <1>1, <2>1 DEF IInv, DiskInv, ServerTypeOK
  <2>3. b < t.next
    BY <2>1, <2>2, ChannelAssumption DEF TaskInv
  <2>4. TrueMessage(DataMsg(c, t.path, b, t.checksum[b + 1]))
    BY <2>1, <2>2, <2>3, TrueBlock
  <2> QED BY <2>1, <2>4
<1>4. ASSUME NEW s \in Slot, RefusalRetry(s)
      PROVE  \A m \in net' : m \in net \/ TrueMessage(m)
  <2> DEFINE c == refusals[s].client
             e == ErrorMsg(c, refusals[s].path)
  <2>1. refusals[s] # Nil /\ net' = net \cup {e}
    BY <1>4 DEF RefusalRetry, Send
  <2>2. refusals[s].path \notin Existing /\ downloads[c] = 1 /\ refusals[s].path = mFile[c]
    BY <2>1 DEF DiskInv, TrueServer
  <2>3. TrueMessage(e)
    BY <2>2 DEF TrueMessage, ErrorMsg
  <2> QED BY <2>1, <2>3
<1>5. (\A m \in net' : m \in net \/ TrueMessage(m)) \/ net' = net
  BY <1>3, <1>4 DEF ServerTimer, DataTimer, DataExpire, RefusalTimer, RefusalExpire,
     ServerCallback, onRetry, onTimeout
<1> QED BY <1>2, <1>5 DEF TrueAnswers

\* A step of c: what it says of itself is true, and what there was stays so.
LEMMA TrueClientStep ==
  ASSUME OneDownload, FInv, NEW c \in Client, UNCHANGED serverVars,
         (\E f \in File : Download(c, f)) \/ DispatchStep(c) \/ Background(c)
  PROVE  /\ TrueServer' /\ \A m \in net' : TrueMessage(m)'
         /\ \A d \in Client : TrueClient(d)' /\ TrueChannel(d)'
<1>1. /\ IInv /\ ClientPre /\ ClientTypeOK /\ TrueServer /\ TrueClient(c) /\ TrueChannel(c)
      /\ mTasks' = mTasks /\ refusals' = refusals
      /\ \A m \in net : m.client \in Client
      /\ \A s \in Slot : refusals[s] # Nil => refusals[s].client \in Client
  BY MessageFields DEF FInv, IInv, TypeOK, NetworkTypeOK, ServerTypeOK, Refusal, ClientPre, serverVars
<1>2. CASE \E f \in File : Download(c, f)
  <2>1. PICK f \in File : Download(c, f)
    BY <1>2
  <2>2. /\ TrueClient(c)' /\ TrueChannel(c)' /\ net' = net /\ downloads[c] = 0
        /\ \A d \in Client : d # c => mFile'[d] = mFile[d] /\ downloads'[d] = downloads[d]
    BY <1>1, <2>1, TrueDownload
  <2>3. ASSUME NEW m \in net' PROVE TrueMessage(m)'
    <3>1. TrueMessage(m) /\ m.client \in Client
      BY <1>1, <2>2 DEF FInv
    <3>2. m.client # c
      BY <2>2, <3>1 DEF TrueMessage
    <3> QED BY <2>2, <3>1, <3>2, TrueKept
  <2>4. ASSUME NEW d \in Client, mTasks[d] # Nil PROVE d # c
    BY <2>2, <2>4 DEF FInv, IInv
  <2>5. ASSUME NEW s \in Slot, refusals[s] # Nil PROVE refusals[s].client # c
    BY <1>1, <2>2, <2>5 DEF TrueServer
  <2>6. TrueServer'
    BY <1>1, <2>2, <2>4, <2>5 DEF TrueServer
  <2>7. ASSUME NEW d \in Client, d # c PROVE TrueClient(d)' /\ TrueChannel(d)'
    <3>1. Account(d)' = Account(d)
      BY <1>1, <2>1, <2>7, OthersView, OwnMessages DEF Account, SendsOwn
    <3> QED BY <3>1, SameAccount DEF FInv
  <2> QED BY <2>2, <2>3, <2>6, <2>7
<1>3. CASE DispatchStep(c) \/ Background(c)
  <2>1. /\ TrueClient(c)' /\ TrueChannel(c)' /\ mFile' = mFile /\ downloads' = downloads
        /\ \A m \in net' : m \in net \/ TrueMessage(m)'
    BY <1>1, <1>3, TrueDispatch, TrueBackground
  <2>2. \A m \in net' : TrueMessage(m)'
    BY <2>1, TrueKept DEF FInv
  <2>3. TrueServer'
    BY <1>1, <2>1 DEF TrueServer
  <2>4. ASSUME NEW d \in Client, d # c PROVE TrueClient(d)' /\ TrueChannel(d)'
    <3>1. Account(d)' = Account(d)
      BY <1>1, <1>3, <2>4, OthersView, OwnMessages DEF Account, SendsOwn
    <3> QED BY <3>1, SameAccount DEF FInv
  <2> QED BY <2>1, <2>2, <2>3, <2>4
<1> QED BY <1>2, <1>3

\* A step of the server leaves the clients as they were.
LEMMA TrueServerStep ==
  ASSUME FInv, TrueAnswers, UNCHANGED clientVars
  PROVE  /\ TrueServer' /\ \A m \in net' : TrueMessage(m)'
         /\ \A d \in Client : TrueClient(d)' /\ TrueChannel(d)'
<1>1. mFile' = mFile /\ downloads' = downloads
  BY DEF clientVars
<1>2. \A m \in net' : TrueMessage(m)
  BY DEF TrueAnswers, FInv
<1>3. \A m \in net' : TrueMessage(m)'
  BY <1>1, <1>2, TrueKept
<1>4. ASSUME NEW d \in Client PROVE TrueClient(d)' /\ TrueChannel(d)'
  <2>1. Account(d)' = Account(d)
    BY DEF Account, View, clientVars, channelVars
  <2> QED BY <2>1, SameAccount DEF FInv
<1> QED BY <1>3, <1>4 DEF TrueAnswers

LEMMA FInvInit == Init => FInv
<1> SUFFICES ASSUME Init PROVE FInv
  OBVIOUS
<1>1. IInv /\ DiskInv
  BY IInvInit, DiskInit
<1>2. TrueServer /\ net = {}
  BY DEF Init, ServerInit, NetworkInit, TrueServer
<1>3. ASSUME NEW c \in Client PROVE TrueClient(c) /\ TrueChannel(c)
  <2>1. /\ mProtocols[c] = <<>> /\ downloads[c] = 0 /\ mNext[c] = 0 /\ mOutput[c] = <<>>
        /\ mState[c] = "Idle" /\ mFile[c] = Nil
        /\ \A h \in Handle : requests[c][h] = Nil
        /\ \A s \in Step : onTimeouts[c][s] = 0
    BY <1>1 DEF Init, ClientInit
  <2>2. Len(mOutput[c]) = 0
    BY <2>1, EmptySeq
  <2>3. TrueClient(c)
    BY <2>1, <2>2 DEF TrueClient, TrueQueue, Sized
  <2>4. TrueChannel(c)
    BY <2>1 DEF TrueChannel
  <2> QED BY <2>3, <2>4
<1> QED BY <1>1, <1>2, <1>3 DEF FInv

LEMMA FInvNext ==
  ASSUME OneDownload, FInv, [Next]_vars
  PROVE  FInv'
<1>1. IInv /\ DiskInv /\ TrueServer /\ \A m \in net : TrueMessage(m)
  BY DEF FInv
<1>2. IInv' /\ DiskInv'
  BY <1>1, IInvNext, DiskNext
<1>3. ASSUME NEW c \in Client,
             \/ Ask(c) \/ Dispatch(c) \/ TimesOut(c) \/ Woken(c)
             \/ \E h \in Handle : Expire(c, h)
      PROVE  FInv'
  <2>1. UNCHANGED serverVars /\ ((\E f \in File : Download(c, f)) \/ DispatchStep(c) \/ Background(c))
    BY <1>3 DEF Ask, Dispatch, Expire, TimesOut, Woken, Background
  <2> QED BY <1>2, <2>1, TrueClientStep DEF FInv
<1>4. ASSUME NEW c \in Client, Work(c) PROVE FInv'
  BY <1>1, <1>2, <1>4, TrueWork, TrueServerStep DEF FInv, Work
<1>5. ASSUME \/ \E c \in Client, b \in BlockId : ExpireData(c, b)
             \/ \E s \in Slot : ExpireRefusal(s)
             \/ \E c \in Client : CallBack(c)
      PROVE  FInv'
  <2>1. ServerTimer /\ UNCHANGED clientVars
    BY <1>5 DEF ExpireData, ExpireRefusal, CallBack, ServerTimer
  <2>2. TrueAnswers
    BY <1>1, <2>1, TrueTimers
  <2> QED BY <1>2, <2>1, <2>2, TrueServerStep DEF FInv
<1>6. ASSUME Deliver PROVE FInv'
  <2>1. PICK m \in net : \/ onReceive(m) /\ UNCHANGED serverVars
                         \/ ServerReceive(m) /\ UNCHANGED clientVars
    BY <1>6 DEF Deliver
  <2>2. CASE onReceive(m) /\ UNCHANGED serverVars
    <3>1. mFile' = mFile /\ downloads' = downloads /\ \A n \in net' : n \in net
      BY <2>2 DEF onReceive, Receive
    <3>2. \A n \in net' : TrueMessage(n)'
      BY <1>1, <3>1, TrueKept
    <3>3. TrueServer'
      BY <1>1, <2>2, <3>1 DEF TrueServer, serverVars
    <3>4. \A d \in Client : TrueClient(d)' /\ TrueChannel(d)'
      BY <1>1, <2>2, TrueReceive DEF FInv
    <3> QED BY <1>2, <3>2, <3>3, <3>4 DEF FInv
  <2>3. CASE ServerReceive(m) /\ UNCHANGED clientVars
    BY <1>1, <1>2, <2>3, TrueRequest, TrueServerStep DEF FInv
  <2> QED BY <2>1, <2>2, <2>3
<1>7. ASSUME Environment \/ UNCHANGED vars PROVE FInv'
  <2>1. /\ UNCHANGED clientVars /\ net' = net
        /\ \A c \in Client : mTasks'[c] \in {mTasks[c], Nil}
        /\ \A s \in Slot : refusals'[s] \in {refusals[s], Nil}
    BY <1>7 DEF Environment, Restart, Replace, vars, serverVars
  <2>2. TrueAnswers
    BY <1>1, <2>1 DEF TrueAnswers, TrueServer, clientVars
  <2> QED BY <1>2, <2>1, <2>2, TrueServerStep DEF FInv
<1> QED BY <1>3, <1>4, <1>5, <1>6, <1>7 DEF Next

\* A client that asks once for files that do not change is told of an error only
\* when there is no file, whatever the network does (WaitError), and the digests
\* that work() and onChecksum() cache are those of the files.
THEOREM CacheIsTrueAlways ==
  ASSUME OneDownload
  PROVE  Spec => []CacheIsTrue
<1>1. FInv => CacheIsTrue
  <2> SUFFICES ASSUME FInv PROVE CacheIsTrue
    OBVIOUS
  <2>1. NoFalseError
    BY DEF FInv, TrueClient, NoFalseError
  <2>2. CachedIsFile
    BY WholeIsBytes DEF FInv, IInv, TypeOK, ServerTypeOK, DiskInv, CachedIsFile
  <2> QED BY <2>1, <2>2 DEF CacheIsTrue
<1>2. FInv /\ [Next]_vars => FInv'
  BY FInvNext
<1> QED BY <1>1, <1>2, FInvInit, PTL DEF Spec
-----------------------------------------------------------------------------
(* The refinement of Delivery. *)

Promise == <<mFile, mOutput, outcome>>

LEMMA PromiseKept ==
  ASSUME UNCHANGED Promise
  PROVE  UNCHANGED D!deliveryVars
BY DEF Promise, D!deliveryVars

LEMMA PromiseAsk ==
  ASSUME NEW c \in Client, NEW f \in File, mFile[c] = Nil,
         mFile' = [mFile EXCEPT ![c] = f], outcome' = [outcome EXCEPT ![c] = {}],
         mOutput' = mOutput
  PROVE  D!Next
<1>1. D!Ask(c, f)
  BY DEF D!Ask
<1> QED BY <1>1 DEF D!Next

LEMMA PromiseOpen ==
  ASSUME NEW c \in Client, mFile[c] # Nil, "finished" \notin outcome[c],
         mOutput' = [mOutput EXCEPT ![c] = <<>>], outcome' = outcome \/ Calls(c, "failed"),
         mFile' = mFile
  PROVE  D!Next
<1>1. D!Open(c)
  BY DEF D!Open, D!Running, Calls
<1> QED BY <1>1 DEF D!Next

LEMMA PromiseExtend ==
  ASSUME NEW c \in Client, mFile[c] # Nil, "finished" \notin outcome[c],
         NEW n \in (Len(mOutput[c]) + 1)..Len(Bytes(mFile[c], 1)),
         mOutput' = [mOutput EXCEPT ![c] = SubSeq(Bytes(mFile[c], 1), 1, n)],
         mFile' = mFile, outcome' = outcome
  PROVE  D!Next
<1>1. D!Extend(c)
  BY DEF D!Extend, D!Running
<1> QED BY <1>1 DEF D!Next

LEMMA PromiseFinish ==
  ASSUME NEW c \in Client, mFile[c] # Nil, "finished" \notin outcome[c],
         mOutput[c] = Bytes(mFile[c], 1), Calls(c, "finished"),
         mFile' = mFile, mOutput' = mOutput
  PROVE  D!Next
<1>1. D!Finish(c)
  BY DEF D!Finish, D!Running, Calls
<1> QED BY <1>1 DEF D!Next

LEMMA PromiseFail ==
  ASSUME NEW c \in Client, mFile[c] # Nil, Calls(c, "failed"),
         mFile' = mFile, mOutput' = mOutput
  PROVE  D!Next
<1>1. D!Fail(c)
  BY DEF D!Fail, Calls
<1> QED BY <1>1 DEF D!Next

\* A download that runs has not finished yet.
LEMMA Running ==
  ASSUME FInv, NEW c \in Client, mState[c] # "Idle"
  PROVE  /\ downloads[c] = 1 /\ "finished" \notin outcome[c]
         /\ mFile[c] \in File /\ mFile[c] # Nil
         /\ Len(mOutput[c]) = mNext[c] /\ mNext[c] \in Nat
BY FileAssumption DEF FInv, IInv, TypeOK, ClientTypeOK, TrueClient

LEMMA PromiseData ==
  ASSUME OneDownload, FInv, NEW c \in Client, data(c)
  PROVE  D!Next \/ UNCHANGED Promise
<1>1. /\ IInv /\ ClientTypeOK /\ ClientTypeOK' /\ TrueClient(c)
      /\ mFile' = mFile /\ downloads' = downloads /\ outcome' = outcome
      /\ mState[c] = "Data" /\ mState'[c] = "Acknowledge"
  BY DataType DEF FInv, IInv, TypeOK, data, Takes, Goto, ClientTypeOK
<1>2. /\ downloads[c] = 1 /\ "finished" \notin outcome[c]
      /\ mFile[c] \in File /\ mFile[c] # Nil
      /\ Len(mOutput[c]) = mNext[c] /\ mNext[c] \in Nat
  BY <1>1, Running
<1>3. /\ TrueClient(c)' /\ mNext'[c] >= mNext[c]
      /\ mNext'[c] = mNext[c] => mOutput' = mOutput
  BY <1>1, TrueData
<1>4. CASE mNext'[c] = mNext[c]
  BY <1>1, <1>3, <1>4 DEF Promise
<1>5. CASE mNext'[c] # mNext[c]
  <2> DEFINE f == mFile[c]
             s == mOutput'[c]
             n == mNext'[c]
  <2>1. /\ s \in Seq(Content) /\ Len(s) = n /\ n <= Blocks[f] /\ n \in Nat /\ n > mNext[c]
        /\ \A i \in 1..Len(s) : s[i] = <<f, 1, i - 1>>
    BY <1>1, <1>2, <1>3, <1>5, FileAssumption DEF TrueClient, ClientTypeOK
  <2>2. s = SubSeq(Bytes(f, 1), 1, Len(s)) /\ Len(Bytes(f, 1)) = Blocks[f]
    <3> HIDE DEF s, n, f
    <3>1. Len(s) <= Blocks[f] /\ f \in File
      BY <1>2, <2>1 DEF f
    <3> QED BY <2>1, <3>1, BlocksAreBytes
  <2>3. n \in (Len(mOutput[c]) + 1)..Len(Bytes(f, 1))
    BY <1>2, <2>1, <2>2, FileAssumption
  <2>4. mOutput' = [mOutput EXCEPT ![c] = SubSeq(Bytes(f, 1), 1, n)]
    <3>1. \E q : mOutput' = [mOutput EXCEPT ![c] = q]
      BY DEF data
    <3>2. mOutput' = [mOutput EXCEPT ![c] = s]
      BY <1>1, <3>1 DEF ClientTypeOK
    <3> HIDE DEF s, n
    <3> QED BY <2>1, <2>2, <3>2
  <2> HIDE DEF n, s
  <2> QED BY <1>1, <1>2, <2>3, <2>4, PromiseExtend
<1> QED BY <1>4, <1>5

LEMMA PromiseDispatch ==
  ASSUME OneDownload, FInv, NEW c \in Client, DispatchStep(c)
  PROVE  D!Next \/ UNCHANGED Promise
<1>1. IInv /\ ClientTypeOK /\ TrueClient(c) /\ ClientInv(c)
  BY DEF FInv, IInv, TypeOK
<1>2. CASE query(c) \/ get(c) \/ checksum(c) \/ size(c) \/ Duplicate(c) \/ acknowledge(c)
           \/ WaitError(c) \/ Discard(c)
  <2>1. /\ mFile' = mFile /\ mOutput' = mOutput /\ downloads' = downloads /\ outcome' = outcome
    BY <1>2 DEF query, get, checksum, Asks, size, Duplicate, acknowledge, WaitError, Discard
  <2> QED BY <2>1 DEF Promise
<1>3. CASE start(c)
  <2>1. /\ mState[c] = "Start" /\ mFile' = mFile /\ downloads' = downloads
        /\ mOutput' = [mOutput EXCEPT ![c] = <<>>]
        /\ outcome' = outcome \/ Calls(c, "failed")
    BY <1>3 DEF start, Takes
  <2>2. "finished" \notin outcome[c] /\ mFile[c] # Nil
    BY <2>1, Running
  <2> QED BY <2>1, <2>2, PromiseOpen
<1>4. CASE data(c)
  BY <1>4, PromiseData
<1>5. CASE confirm(c)
  <2>1. /\ mState[c] = "Confirm" /\ mFile' = mFile /\ downloads' = downloads
        /\ mOutput' = mOutput /\ Calls(c, "finished")
    BY <1>5 DEF confirm, Takes
  <2>2. /\ "finished" \notin outcome[c] /\ mFile[c] # Nil
        /\ downloads[c] = 1 /\ mFile[c] \in File
    BY <2>1, Running
  <2>3. /\ mOutput[c] \in Seq(Content) /\ Len(mOutput[c]) = Blocks[mFile[c]]
        /\ Len(mOutput[c]) <= Blocks[mFile[c]]
        /\ \A i \in 1..Len(mOutput[c]) : mOutput[c][i] = <<mFile[c], 1, i - 1>>
    BY <1>1, <2>1, <2>2, FileAssumption DEF TrueClient, ClientTypeOK
  <2>4. mOutput[c] = Bytes(mFile[c], 1)
    BY <2>2, <2>3, BlocksAreBytes
  <2> QED BY <2>1, <2>2, <2>4, PromiseFinish
<1>6. CASE error(c)
  <2>1. /\ mState[c] = "Error" /\ mFile' = mFile /\ downloads' = downloads
        /\ mOutput' = mOutput /\ Calls(c, "failed")
    BY <1>6 DEF error
  <2>2. mFile[c] # Nil
    BY <2>1, Running
  <2> QED BY <2>1, <2>2, PromiseFail
<1> QED BY <1>2, <1>3, <1>4, <1>5, <1>6 DEF DispatchStep

\* onTimeout reports an error at any time after the download was asked for.
LEMMA PromiseBackground ==
  ASSUME OneDownload, FInv, NEW c \in Client, Background(c)
  PROVE  D!Next \/ UNCHANGED Promise
<1>1. ClientTypeOK /\ ClientPre /\ TrueClient(c) /\ TrueChannel(c)
  BY DEF FInv, IInv, TypeOK, ClientPre
<1>2. mFile' = mFile /\ mOutput' = mOutput /\ (outcome' = outcome \/ Calls(c, "failed"))
  BY <1>1, BackgroundIsStep DEF BackgroundStep
<1>3. CASE outcome' = outcome
  BY <1>2, <1>3 DEF Promise
<1>4. CASE outcome' # outcome
  <2>1. TimeoutReport(c)
    BY <1>4 DEF Background, ClientTimer, ClientRetry, ClientExpire, TimeoutStep,
       TimeoutTerminate, TimeoutStop, TimeoutNotify, Wake
  <2>2. downloads[c] = 1
    BY <1>1, <2>1 DEF TimeoutReport, Proceeds, TrueChannel, Step
  <2>3. mFile[c] # Nil
    BY <1>1, <2>2, FileAssumption DEF TrueClient
  <2> QED BY <1>2, <1>4, <2>3, PromiseFail
<1> QED BY <1>3, <1>4

LEMMA PromiseDownload ==
  ASSUME OneDownload, FInv, NEW c \in Client, NEW f \in File, Download(c, f)
  PROVE  D!Next
<1>1. IInv /\ TrueClient(c) /\ TrueChannel(c)
  BY DEF FInv
<1>2. downloads[c] = 0
  BY <1>1, TrueDownload
<1>3. mFile[c] = Nil
  BY <1>1, <1>2 DEF TrueClient
<1>4. /\ mFile' = [mFile EXCEPT ![c] = f] /\ mOutput' = mOutput
      /\ outcome' = [outcome EXCEPT ![c] = {}]
  BY DEF Download
<1> QED BY <1>3, <1>4, PromiseAsk

LEMMA PromiseInit == Init => D!Init
<1> SUFFICES ASSUME Init PROVE D!Init
  OBVIOUS
<1> QED BY DEF Init, ClientInit, D!Init

LEMMA PromiseNext ==
  ASSUME OneDownload, FInv, [Next]_vars
  PROVE  [D!Next]_(D!deliveryVars)
<1>1. ASSUME NEW c \in Client, Ask(c) PROVE D!Next
  BY <1>1, PromiseDownload DEF Ask
<1>2. ASSUME NEW c \in Client,
             \/ Dispatch(c) \/ TimesOut(c) \/ Woken(c)
             \/ \E h \in Handle : Expire(c, h)
      PROVE  D!Next \/ UNCHANGED Promise
  <2>1. DispatchStep(c) \/ Background(c)
    BY <1>2 DEF Dispatch, Expire, TimesOut, Woken, Background
  <2> QED BY <2>1, PromiseDispatch, PromiseBackground
<1>3. ASSUME \/ \E c \in Client : Work(c) \/ CallBack(c)
             \/ \E c \in Client, b \in BlockId : ExpireData(c, b)
             \/ \E s \in Slot : ExpireRefusal(s)
             \/ Deliver \/ Environment \/ UNCHANGED vars
      PROVE  UNCHANGED Promise
  BY <1>3
  DEF Work, CallBack, ExpireData, ExpireRefusal, Deliver, Environment, vars, clientVars,
      onReceive, Promise
<1>4. D!Next \/ UNCHANGED Promise
  BY <1>1, <1>2, <1>3 DEF Next
<1> QED BY <1>4, PromiseKept

\* Over a network that loses, repeats and reorders, what Client writes to the
\* destination is at all times a prefix of the file, which only grows, and confirm()
\* reports a finish at most once and only of all of it, after which the
\* destination is left alone: Client and Server, for clients that download once
\* and files that do not change, implement what Delivery promises to the user.
\* An error may be reported at any time of the download and beside its finish,
\* since Client::onTimeout reports it without looking at mState.
THEOREM TransferImplementsDelivery ==
  ASSUME OneDownload
  PROVE  Spec => ImplementsDelivery
<1>1. FInv /\ [Next]_vars => FInv'
  BY FInvNext
<1>2. FInv /\ [Next]_vars => [D!Next]_(D!deliveryVars)
  BY PromiseNext
<1> QED BY <1>1, <1>2, FInvInit, PromiseInit, PTL DEF Spec, ImplementsDelivery, D!Spec

=============================================================================
