# TLA+ specifications for the Course repository

The repository collects the projects of a computer science degree: some sixty
independent programs. These specifications are about the few whose behaviour
tests reach badly, because threads, messages or instructions interleave, or
because only a long sequence of legal calls brings out a mistake:

- the **RDT Lab** (`CS3311 Computer Network/RDT Lab`): a reliable file transfer
  over UDP, client, server and retransmission channel;
- the **client of the Socket Lab** (`CS3311 Computer Network/Socket Lab`): file
  requests over TCP, with a monitor thread and a worker thread per connection;
- the **thread pool**, the **banker**, the **memory allocator**, **virtual memory**
  and the five **schedulers** (`CS2303 Operating System`, Projects 4 to 8);
- the **pipelined MIPS processor** (`CS2306 Computer System Architecture
  Experiments`, Lab 6) against the single-cycle processor of Lab 5.

What is left and what comes next is under [Not modelled](#not-modelled) and
[Plan](#plan).

Module names are in **bold** below; line numbers refer to the files of the
section they appear in.

## Inventory

### RDT Lab

Directory `CS3311 Computer Network/RDT Lab/core`.

| part | files | state | operations |
|------|-------|-------|------------|
| client | `Client.cpp/.h` | `mState`, path, size, next block, cache of early blocks, output file, queue of messages `mProtocols`, handle of the pending request | `download` runs `dispatch()`, one handler per state; `onReceive` on the receiver thread; `onTimeout` on a timer thread |
| server | `Server.cpp/.h` | one `Task` per client (file position, outstanding packets, congestion window, running MD5), digest cache `mMD5Cache` | `onQuery`, `onGet`, `onAcknowledge`, `onChecksum` on the receiver thread; `worker` fills the windows; `onRetry`, `onTimeout` on timer threads; `start`, `stop` |
| channel | `Channel.cpp/.h`, `Timer.cpp/.h` | `mTasks`: an entry (tries, retries, packet, timer) per handle | `send`, `sender`, `terminate`, `receiver` |
| protocol | `Protocol.cpp/.h`, `Checksum.cpp/.h` | none | nine message types, MD5, CRC |
| socket, interface | `Socket.cpp`, `Interface.cpp` | descriptor; the command line | wrappers of the system; commands |

Interaction: a download is Query/Size, Get/Start, then Data/Acknowledge per
block, then Checksum/Confirm; Error ends it at any point. The client repeats
Query, Get and Checksum, the server repeats each Data, until they are answered
or the retries run out. Both sides use the same channel. Each side has a
receiver thread and one detached timer thread for each entry of its channel; the
client's command line sleeps on a condition variable.

Hard: datagrams lost, repeated and out of order; answers that arrive after the
retry or after the timeout; answers that belong to the download before; a task
that is cut short by its timeout, by a restart or by a new Get; three threads
around one message queue, one of them writing `mState` without the lock; two
threads that both run `sender()` for one entry while a third terminates it; a
window that shrinks below what is outstanding; the digest cache, which outlives
the files it describes.

Correct means: what is reported as finished is the file that was asked for;
nothing is given up before it has arrived; windows, retries and callbacks stay
within their bounds; every task, request and thread comes to an end.

### Thread pool

`Project 5/threadpool.c` and `client.c`. State: a ring of `QUEUE_SIZE + 1` slots
with `front` and `rear`, the lock `queueLock`, the semaphores `occupied` and
`vacancy`. Operations: `pool_init`, `pool_submit` (with `enqueue`), `worker` (with
`dequeue` and `execute`), `pool_shutdown`. Hard: the two indices and the two
semaphores describe the same tasks at different moments; the check for a full ring
and the wait for a vacancy are apart; shutdown does not wait for anything.
Correct means: no slot is overwritten or read early, tasks run once in the order
of submission, calls return, what was accepted runs.

### Socket Lab client

`CS3311 Computer Network/Socket Lab/core/source/Client.cpp`. State: a connection
per host (`tasks`, `worker`, `result`, `running`), `mMutex`, `mCondition`,
`mRunning`. Operations: `connect`, `disconnect`, `request`, the destructor,
`monitor()`, `worker()`. Hard: a worker never takes the mutex, so its result and
its signal fall between the steps of the monitor; threads are joined with the
mutex held; the destructor ends the workers first and the monitor afterwards.
Correct means: a result belongs to its task and is reported once, no thread is
left over, nobody waits for ever.

### Banker

`Project 6/banker.c`. State: `available`, and `maximum`, `allocation` and `need` of
each customer. Operations: the commands `RQ` (`request_resources`, which tries a
grant, runs `check_safe` and takes it back if that fails, then `check_finish`) and
`RL` (`release_resources`). Hard: a release takes a customer back to a need it had
before, refusals are undone by hand, and nothing makes the first state safe.
Correct means: the search decides what it is defined to, no sequence of commands
changes whether all can finish, resources are conserved.

### Memory allocator

`Project 7`: `freelist.c` (free nodes in a ring by address, and in one by size),
`alloclist.c` (blocks by name), `policy.c` (first, best and worst fit),
`allocator.c` and the commands of `main.c`. Hard: one node lives in two rings, each
request and release has to keep both, and merging frees nodes it still looks at.
Correct means: every byte belongs to one block or one free node, free neighbours are
merged, the rings agree, the policies choose what they say.

### Virtual memory

`Project 8`: `virtual_memory.c` over `TLB.c`, `LRU_cache.c` and
`physical_memory.c`. State: page table, LRU order of the pages in memory, TLB (an
LRU cache as well), frames with valid and dirty bits, the backing store. Operations:
read, write, create, destroy. Hard: a page fault changes four structures one after
another; hits in the TLB bypass the order of the pages. Correct means: a translation never
outlives its page, the structures tell one story, reads get what was written until
an eviction.

### Schedulers

`Project 4`: a list of tasks (`list.c`), a CPU that keeps the time and the statistics
(`CPU.c`), and five `schedule()` loops. Hard: round robin holds a pointer into a list it
deletes from, and, with priorities, a flag decides when a priority is exhausted.
Correct means: each task gets exactly its burst, turns are equal, urgent tasks go
first, the shortest-job order is the best one, everything ends.

### Pipelined processor

`Lab 6`: `Top.v` joins fetch, decode, execution and memory by four buffers
(`Buffers.v`); `Execution.v` forwards from the two instructions before, `Registers.v`
from the one that is written back, `Top.v` stalls a use that follows its load,
`InstructionFetch.v` predicts branches by a table of sixteen bits, and wrong
predictions and jumps flush. Hard: five instructions are under way, and stalls,
flushes, predictions and jumps meet in one cycle. Correct means: registers and memory
are what executing one instruction after the other gives.

### The rest

| part | where | what it does | hard? |
|------|-------|--------------|-------|
| producer and consumer | OS Project 5 | the ring of the pool without a spare slot | same hazards as the pool |
| shell | OS Project 2 | history, background, pipes | the order of fork and wait |
| Socket Lab server | Socket Lab | listener, detached worker threads, framing | lifetime of threads |
| STLite | data structures | containers, red-black tree | pure data |
| kernel modules, sorts, sudoku, judge solutions, matrix and parallelism labs, 8086 programs, GUI, bin packing, accelerators, lab reports | various | one function each, data without control, devices, or no program at all | no |

## Modules

| module | models | extends / instances |
|--------|--------|---------------------|
| **Network** | message types, files as blocks, the UDP network | |
| **ClientSide** | class `Client` of the RDT Lab, one action per state handler | Network |
| **ServerSide** | class `Server` of the RDT Lab, one action per handler | Network |
| **Transfer** | clients, server and network together; properties | ClientSide, ServerSide; refines Delivery |
| **Delivery** | abstract: the destination is a growing prefix of the file | |
| **MCTransfer** | instances for TLC: file lengths, downloads in turn | Transfer |
| **TransferProofs** | proofs about Transfer | Transfer |
| **Channel** | class `Channel` with `Timer`, by critical section | refines Attempts |
| **Attempts** | abstract: bounded transmissions, at most one timeout | |
| **ChannelProofs** | proofs about Channel | Channel |
| **ClientThreads** | the three threads of the RDT client, by critical section | |
| **ThreadPool** | `threadpool.c` and `client.c` | refines TaskQueue |
| **TaskQueue** | abstract: a bounded FIFO queue with runners | |
| **ThreadPoolProofs** | proofs about ThreadPool | ThreadPool |
| **SocketClient** | class `Client` of the Socket Lab with its threads | |
| **ClientProofs** | proofs about the two clients with threads | ClientThreads, SocketClient |
| **Banker** | `banker.c`, one action per command | |
| **MCBanker** | instance for TLC: units of each resource | Banker |
| **BankerProofs** | proofs about Banker | Banker |
| **Allocator** | the allocator of Project 7, one action per command | refines Heap |
| **Heap** | abstract: pages with owners | |
| **VirtualMemory** | `virtual_memory.c` and what it is built on | refines PagedMemory |
| **PagedMemory** | abstract: a memory that forgets what it evicts | |
| **MemoryProofs** | proofs about Allocator and VirtualMemory | Allocator, VirtualMemory |
| **Schedule** | the five schedulers, one action per round of a loop | |
| **ScheduleProofs** | proofs about Schedule | Schedule |
| **Instructions** | what both processors share: control signals, ALU | |
| **SingleCycle** | the processor of Lab 5, an instruction a step | Instructions |
| **Pipeline** | the processor of Lab 6, a clock cycle a step | Instructions; refines SingleCycle |
| **MCPipeline** | instance for TLC: the instructions of programs | Pipeline |
| **PipelineProofs** | proofs about Pipeline | Pipeline |

The operators named `...Early`, `...Late`, `...Again` and so on, each introduced
by a comment *Mutant of*, are slips that a programmer could make. They are
part of no specification: with one of them put in the place of the definition
it mutates, the property listed beside it in `PROJECT.json` fails, which shows
that the property depends on that part of the code.

### Network, ClientSide, ServerSide, Transfer

A file is a sequence of blocks, a block's content the triple of path, version and
index, and the digest of contents the contents themselves: MD5 is taken to be
free of collisions. A datagram whose CRC fails is dropped in
`Channel::receiver`, so damage is loss. On an *unreliable* network the
set `net` only grows: a message may be received at any later time, again and
again, in any order, or never. That is loss, duplication and
reordering at once. On a *reliable* network each datagram arrives exactly
once, in any order, and timers fire only when nothing is on the way and every
client waits (`MayFire`, `Quiet`): a timer longer than the round trip.

`dispatch()` takes `mMutex` in `wait()`, and its handlers are one action each
(`query`, `size`, `get`, `start`, `data`, `acknowledge`, `checksum`, `confirm`,
`error`), with `wait()`'s discarding of other messages and its precedence for
Error as written. `acknowledge` decides what comes next by the length of the
output, as `Client.cpp:230` does with the file position. `confirm` leaves the message in
the queue; `download()` empties the queue and the cache.

A timer thread of the client takes five steps. `ClientExpire` is `sender()` finding the
retries spent, up to the unlock at `Channel.cpp:136`; then come the four statements of
`Client::onTimeout`, which holds no lock: `TimeoutReport`, `TimeoutTerminate`, `TimeoutStop`,
`TimeoutNotify`. Replies, handlers, the next request and even the next `download()` may come between
any two, so several such threads may be under way (`onTimeouts` counts them by step), and
`mHandle` may name a newer entry of `requests` when it is terminated. What
the write `mState = Idle` does depends on where between two handlers the command line
is, which is chosen there: it may be overwritten by a handler that is about to
set `mState` itself, be seen, or be missed by a thread that has evaluated the predicate of `wait()`
and has yet to fall asleep; the last leaves it `asleep` in `Idle`. `outcome` is the set of the callbacks made
since `download()` was called, so that it can hold a finish and an error.

The server's handlers hold `mMutex` throughout and are one action each. `work(c)` is
one client's share of `worker()`'s pass, which is one critical section: the
clients' shares touch disjoint tasks, apart from the digest of a common path,
which is written once. A timer thread first runs `sender()` (`DataRetry`, `DataExpire` and the same for
refusals) and calls `onRetry` or `onTimeout` later, when it gets `mMutex`; `callbacks` counts
those under way for each client, whose task may have been acknowledged, ended or replaced by then.
`refusals` are the channel entries of the replies for a missing file, the only
reply sent with retries: nothing acknowledges them, and their `onRetry` and
`onTimeout` act on whatever task the client has by then. `Restart` is
`server-stop`, which destroys the `Server` object with its tasks, digest cache and channel
(`Interface.cpp:216`), followed by `server-start`. The detached timer threads of the old server live on, and what
they do with freed memory is undefined: those on their way to a callback either end, or
meet the new server in the place of the old one. `Replace` is another program that
writes a new version of a file.

**Delivery** is what remains true of a download whatever the timeouts do: the
destination is a growing prefix of the file, and a finish is reported at most once, of the whole file, which
is left alone from then on. An error may be reported at any time once a file was asked for: before
the finish, since a handler may overwrite the `Idle` of a timeout and go on, or after it.

Left out: round-trip estimation (timers may fire at any time, or by `MayFire`),
statistics, display, the byte format, bad commands.

### Channel

`send()` makes an entry and starts its timer; then the caller runs `sender()`
while the detached timer thread sleeps and runs `sender()` once per iteration.
Each critical section is a step: `Ignore` (the entry is gone), `Transmit`, `Expire`, then
the callback outside the lock. `terminate(h)` may come between any two. The
timer's loop condition is read after each sleep (`Wake`). The history variables `sent`, `timeouts`
and `asked` count what the properties speak of. The mapping to **Attempts** reads an
entry as *expired* from the moment `sender()` decided so, although the
callback comes later.

### ClientThreads

`Client` again, at the grain of its locks. `dispatch()` has `mState` read, the
request sent, the handle stored and the state set as four steps; `wait()` has lock,
check, sleep, and the release that precedes the handler's use of the queue. A
timer thread may be between any two statements of `onTimeout()`. Two requests
are followed, Query and Get, since the second is where an `onTimeout` of the
first meets a newer handle. The definitions named `CT...` (`CTSpec`, `CTTypeOK`) are the usual
ones; **ClientProofs** has those of **SocketClient** beside them.

### ThreadPool

`pool_submit` is `Check`, `WaitVacancy`, `Put`, `PostOccupied`; a worker is
`WaitOccupied`, `Take`, `PostVacancy`, `execute`. The sections under `queueLock` do not
block and are one step each. There may be several submitters, which `threadpool.h`
allows and `client.c` does not use. `Shutdown` happens when everything was
submitted, as in `client.c`; `sem_destroy` wakes nobody; `pthread_cancel` ends a
worker wherever it is, since the process ends as well.

### SocketClient

The user's thread, the monitor and a worker per host, step by step. `user` and
`monitor` are places in the code; `mMutex` says who holds the mutex; `todo` and `visited` are
the loop of its holder over the unordered map. `notify_one` is lost unless the monitor is
`"asleep"`. A worker reads, writes and signals without the mutex:
its result is set while its stream is open (`Write`), the stream is closed
afterwards (`Close`), and the signal comes last (`Notify`). Neither the write nor the
close is checked in the code, so a closed file may be `"saved"` or `"cut"`. `job` is the
reference the worker keeps to the front of the queue; `file` and `reports` are
histories. The server is what may arrive: a file, an error, nothing, a broken
connection. Each value is read and written as a whole; a torn read of the
unprotected string is listed as a hazard and not followed.

### Banker

A command is a step, as `main()` reads one at a time. `check_safe` is the passes of
the code over the customers, as a function on the number of customers looked at; a
pass that finds nobody ends the loop in the code, and changes nothing in the model.
`Request` includes what `check_finish` does after every request, granted or not.
Claims may exceed what there is, and the first state may be unsafe: the program reads
both from outside. `Completable` is the definition that `check_safe` is measured by: *some*
order of all customers.

### Allocator, Heap

The rings are sequences: `byAddress` follows `next`, `bySize` follows `larger`. Splitting
keeps a node's place by address and moves it by size; `freelist_free` inserts, merges with
the nodes before and after, and sorts. The nodes that are merged leave the order by size one
by one (`Detached`); the block that is freed is not in it yet. **Heap** knows only which page belongs to whom. It
asks in addition that a request is refused only if no run of free pages is long enough, which
is where coalescing and the policies show.

### VirtualMemory, PagedMemory

A read or write is one step, as the program has one thread: `TLBHit`, `PageHit` or
`PageFault`. An LRU cache is a sequence with the least recent first. The store is
opened with `"rb"` (`virtual_memory.c:26`), so writing back a dirty frame is in vain; the
store holds the page itself for ever, and **PagedMemory** may forget, at any access, one page
other than the one in use. It may not return anything older, or of another page. That is what the
program does; what its report promises is `KeptSpec` of **PagedMemory**, a memory
that forgets nothing, and the run `VirtualMemoryStore` shows that the program is not one. The
history `recent` is what `TLBIsRecent` compares with. A page has one byte. Names that
**Allocator** has too begin with `VM`, since one module has the proofs about both.

### Schedule

A step is one round of the loop of `schedule()`: one task looked at, which may run.
`policy` says which of the five programs it is. `add()` and the reversal of the list are
the initial state, in the order of the file. `level` and `exist` are the variables of
`schedule_priority_rr.c`. `ran` and `turns` are histories. Priorities are
`MIN_PRIORITY` to `MAX_PRIORITY` and names are distinct: `delete()` compares names.

### Instructions, SingleCycle, Pipeline

A step of **Pipeline** is a clock cycle. At the rising edge the register file, the data memory
and the prediction table are written, at the falling edge the buffers and the program
counter take what the wires carry; a flush that rises resets a buffer at once, and a jump
or branch that rises loads the program counter at once, since those are in the
sensitivity lists. `ComputedIDEX`, `DecodedIFID`, `readData` and the like are the
wires; `ToIDEX`, `ToPC` and so on what each register takes. All buffers latch together at
the falling edge, as Lab 6's report describes (2.2.3), and wires have no glitches.

The 31 instructions are nine classes with equal control signals; an R-type
computes one difference, an immediate one sum: the hazards are about which value reaches
the ALU, not about what it makes of it. Addresses count words. Words wrap at `Size`.
The bubbles of a reset or flush are modelled with what they carry: all ones, which decodes to
no operation but reads and names register 31 (`RA`).

The refinement mapping takes the oldest instruction that has not passed the memory stage
for the program counter (`Oldest`), and the register file with what is being written
back (`WriteBack`): an instruction of **SingleCycle** happens when it passes from
EX/MEM to MEM/WB.

`Handled` says for which programs the refinement holds. Each of its conjuncts is needed; see
[below](#what-the-circuit-does-not-handle).

## Model checking

Every passing run is complete: TLC explores all reachable states of the instance.

| run | instance | shows |
|-----|----------|-------|
| `TransferLossy` | 1 client, 1 file of 3 blocks, unreliable, 1 retry, inbox of 1, window 1 to 2 (slow start 1), 1 restart | `AckedIsReceived`, `InFlightBounded`, `RequestsWatched`; refinement of Delivery |
| `TransferReliable` | 2 downloads in all, by 1 client or by 2 (`MCSpec`), of a file of 2 blocks, one of 1 block and a missing one, 2 versions, reliable, a window of 1 | `FinishedIsWhole`, `FinishedIsCached`, `CacheIsTrue` (`NoFalseError`, `CachedIsFile`), `DownloadEnds`, `TaskEnds` |
| `Channel` | 2 entries, 0 to 2 retries | `TimeoutOnce`, `EntriesEnd` (`Reported`, `ThreadsEnd`); refinement of Attempts |
| `ClientThreads` | 2 requests, 3 arrivals | `QueueServesWait` (`FrontIsAnswer`, `NoMissedMessage`), `WaitEnds` (`AnswerEndsWait`, `TimeoutEndsSleep`) |
| `ThreadPool` | 2 submitters with 3 tasks each, 2 workers, ring for 2 | `PromisesKept`, `CallersServed` (`SubmitReturns`, `AcceptedRuns`); refinement of TaskQueue |
| `SocketClient` | 2 hosts, 3 requests, 2 connects | `ResultsAreOwn` (`SuccessIsItsOwn`, `ReportedOnce`), `WorkersAreOwned` (`WorkerHasTask`, `NoThreadLeft`), `MutexIsReleased`, `SleeperReports` |
| `Banker` | 3 customers, 2 resources with 2 and 1 units, every availability and claim | `RefusesOnlyUnsafe`, `ArraysAgree` (`ClaimsAgree`), `BankKept` (`SafetyKept`, `Conserved`), `AllFinish` |
| `Allocator` | 3 names, 6 pages of 2 bytes, requests of 1 to 12 bytes, 3 policies | `ListsAgree` (`Tiled`, `Coalesced`, `OrdersAgree`), `PolicyKept`; refinement of Heap |
| `VirtualMemory` | 5 pages, 3 frames, a TLB of 2, one value to write | `StructuresAgree` (`OneStory`, `TLBAgrees`, `CleanIsStored`), `TLBIsRecent`; refinement of PagedMemory |
| `Schedule` | 5 schedulers, 4 tasks, bursts 1 to 5, quantum 2, 2 priorities | `DueServed` (`ExactlyItsBurst`, `FairTurns`, `AnsweredInTurn`), `PriorityKept`, `ShortestIsBest`, `AllFinish` |
| `Pipeline` | every program of 5 out of 14 instructions that is `Handled`; 4 registers, 8 words | refinement of SingleCycle, `GetsToEnd` |

One more run states what a report of the repository says and the code does not do. TLC finds it
violated, and `PROJECT.json` quotes the lines:

| run | claim | counterexample |
|-----|-------|----------------|
| `VirtualMemoryStore` | `WritesSurvive`: a dirty frame is written back (`Project 8/report/report.typ:265`, `286`) | write, evict, read: the old byte |

A property with others in parentheses is their conjunction, with the type invariant of
the module where it is about states. No run checks the type invariant of **Pipeline**, since
the refinement reads every register and word of it; the invariant is proved (`TypeCorrect`).

The bounds. `TransferLossy`: three blocks and a window of two are the least with
which a block arrives ahead of its turn, is cached, and lets its successor be
sent; one retry gives each entry a first transmission, a repetition and an
expiry; since a message in `net` can be received any number of times, more retries
add no new orders of arrival. A longer queue only delays what is read.
`TransferReliable`: two downloads are what it takes for the rest of one to meet the other,
be they of one client or of two that share the digest cache; `InTurn` of **MCTransfer** bounds their sum, and
lets `c1` begin, as the two clients are alike. Two blocks make the last block differ from the
first, a file of one block has no other, `MaxRefusals = 2` lets both be
refused, and a second version is what makes a cached digest stale; the window is the subject of the other run. `Channel`: entries only share
the handle counter, so two are enough for one to be in any state while another is
made; 0, 1 and 2 retries are no timeout, the shortest, and one with a middle
iteration. `ThreadPool`: more tasks than slots, and two threads on each side of
the ring, so two can stand between a semaphore and the lock. `SocketClient`: three
requests over two hosts give one host a queue of two; two connects let a host
be connected again.
`Banker`: three customers are the least for which the order of finishing matters in
two passes, two resources the least with which needs are not totally ordered; customers
that finish give back what they held, so the second unit is what makes a grant unsafe.
`Allocator`: three blocks leave up to four free nodes, of which a release
merges with none, the one before, the one after, or both. Pages of two bytes make
rounding matter. `VirtualMemory`: more pages than frames, more frames than entries of the
TLB, so there are pages in each of the three places; two more pages than frames
make a second eviction meet the traces of the first. `Schedule`: a burst of one, up
to and beyond two quanta; four tasks give two of each priority. `Pipeline`: an instruction meets the two
before it in the forwarding, the one before those through the register
file, and the fifth sees what a stall or flush among them has left; two registers
besides `$0` and the return address make operands coincide in every way.

`MaxDownloads`, `MaxInbox`, `MaxRefusals`, `MaxCallbacks`, `MaxRestarts`, `MaxVersion`,
`MaxHandles`, `MaxArrivals`, `MaxTasks`, `MaxRequests` and `MaxConnects` bound
what the code does not. A full inbox makes the receiver wait, which is a
datagram late or, on an unreliable network, lost; with the client idle, a message is
dropped, since `download()` empties the queue before it looks. `MaxCallbacks` is how many timer threads
may be on their way to one callback for one client: with 1, one may be overtaken by anything, while the next
to run out waits before it unlocks. The timer threads of a client are not bounded: there are as many as
downloads leave entries behind.

Deadlock is checked where nothing ends: `Banker`, `Allocator`, `VirtualMemory` and
`Pipeline`, whose loops go on for ever. The other programs come to rest, when
the user has no more to ask, the pool is shut down or no task is left. What must not
stop is stated as liveness.

### Fairness

Weak fairness everywhere, and only for threads that the code keeps
running: the receiver polls in a loop, the worker loops, timer threads count, a
thread that may leave its wait does. Neither the user, nor `terminate()`, a
restart, a replaced file or a spurious wake-up is ever owed. On
an unreliable network no delivery of a particular datagram is owed, and no liveness is checked. For
**Transfer** on a reliable one `Fairness` is one condition for all threads, `Progress`: as long as one of them can
go on, one does. That is less than each of them is owed, and enough there, since a
datagram that is received is gone and a retry is spent. It includes the timer threads' steps through a callback
(`CallBack`, `TimesOut`), but not the end of a sleep by itself or by a late notification (`Wake`).
Elsewhere each thread has a condition of its own. A lock is held for a bounded time
and users make finitely many calls, so weak fairness of a step that needs the
lock is enough. In **SocketClient** a worker's own steps are fair, its receipt of an
answer is not. **Schedule** is fair because `schedule()` loops, **Pipeline** because
the clock ticks. In **Banker** alone the fairness is the customers', not the
program's: each that is not finished asks again and again for all it still needs while that is
available. It is strong, as others may take what is available in between. `AllFinish` says
that a safe state is enough for all of them to finish then.

### Where the code departs from what one would expect

These came up while modelling. The first under virtual memory is the subject of `VirtualMemoryStore`. For the
others no run expects a violation, also where a document says otherwise, which is quoted: the properties that hold
are stated so that they stop short of them.

In the RDT Lab:

- An empty file is never downloaded. The server completes the
  task in its first pass without a datagram; `Client::start` goes to `Data`, where
  no timer runs. The second half of `DownloadEnds` speaks of files that are not empty.
- Replies are matched by type, blocks by number, neither by
  path. Late replies of one download complete the next, which may report a finish
  with the contents of the other file. `AckedIsReceived`, `CacheIsTrue` and the refinement of
  Delivery speak of a client's first download, and `FinishedIsWhole` of a reliable network.
- A refusal is repeated although the client has it. On a reliable network, too, such a
  late Error then ends a later download, of a file that exists, while its Checksum is on the way,
  and the Confirm of that is taken by the download after it: a finish with the wrong
  contents, after four downloads. `FinishedIsWhole` is proved for clients that ask for
  no missing file (`Reliable`), and checked for two downloads of any file.
- `Client::onTimeout` sets `mState` and notifies without the lock. Between
  the predicate and the sleep of `wait()` that is a lost wake-up, and a handler that is about to set
  `mState` overwrites `Idle`, after which its request may have no timer: the command line sleeps for ever. In
  both cases the error was reported before. So `RequestsWatched` says of a client that waits
  for an answer (to Query, Get or Checksum) that its request is still repeated, *or* a timer thread is about
  to report the failure, or has done so; that the command line always returns does not hold and is not claimed.
  It speaks of the first download: in a second, the late `onTimeout` of the first may terminate the
  entry of a newer request, which then has no timer and no error of its own.
  `TimeoutEndsSleep` speaks of a client that sleeps already when the timeout comes.
- For the same reason one download may report a finish and an error, in either
  order (its Checksum's last retry is found spent, the Confirm is taken and the finish reported, and then the
  callback reports the failure), and the late `onTimeout` of one download may end the next.
- A client in `Data` has no timer of its own. If the server gives up its task or is
  restarted, it waits for ever and no error is shown, although the lab's `report.typ:57` says that the connection is
  stopped when the retries are reached. `RequestsWatched` is about the three requests that have a timer, and not about `Data`.

In the thread pool, `client.c` shuts the pool down after the last submission: tasks in the ring
never run, although `Project 5/report/report.typ:40` says that the client "waits
for all tasks to complete". `AcceptedRuns` ends with the shutdown.

In the Socket Lab client, a worker may end after the monitor has
looked at its connection and before it waits again. The signal is lost and
the result is not reported until something else wakes the monitor, and so is the destructor's signal.
`SleeperReports` speaks of a monitor that sleeps. `Success` is set
(`Write`) before the stream is closed (`Close`), and a monitor that another request woke
reports it in between, when the file that `client-task` is said to save (`report.typ:65`) is not whole yet. A write that fails, on a full disk, is not noticed at all.
`SuccessIsItsOwn` asks that the worker of that task opened its file and wrote to it.

In the operating system projects:

- Virtual memory: what was written is lost with the eviction, as the store is
  read-only (`VirtualMemoryStore`). The evicted page is the least recent one by page hits and faults only, since
  hits in the TLB do not count (`virtual_memory.c:90`).
- Schedulers: the waiting time of round robin is the turnaround time less the last slice
  (`CPU.c:35`), since the burst has been counted down. With priorities and round robin, a
  task outside `MIN_PRIORITY` to `MAX_PRIORITY` never runs. Two tasks with one name are
  confused by `delete()`.
- Allocator: the merge reads `next->next` of a node that was freed (`freelist.c:202`). It
  goes on only if a third node touches, which `Coalesced` excludes, for any memory (`ListsAgreeAlways`).
- Banker: from an unsafe first state the program never gets to a safe one (`SafetyKept` has
  both directions), since every request is refused that does not make it safe.

#### What the circuit does not handle

Lab 6's report says that forwarding, the stall and prediction solve the hazards. They do for the programs
that are `Handled`; TLC finds a counterexample to the refinement if one of its conditions is left out:

- The forwarding from EX/MEM (`Execution.v:58`) does not ask whether that instruction writes a register: after a
  store or branch, an instruction that reads the same `rt` gets the result of its address or
  comparison.
- The stall (`Top.v:53`) compares the loaded register with bits 20 to 16 and 15 to 11 of the
  instruction behind, which are `rt` and `rd`, and never with `rs`.
- During a stall ID/EX keeps the operands it has read; one that was to be forwarded from the
  instruction before the load has left MEM/WB by then.
- `Registers.v:22` forwards a value written to `$0`.
- The bubbles of a flush name register 31, so `$31` is read as the bubble's result behind one, and
  the return address of `jal` is not forwarded.
- `jr` reads its register in the decode stage, with forwarding from write-back only.
- A branch that was predicted taken loads the program counter once more when it resolves, so
  that its target is executed again; one that was predicted wrongly never restores it. An
  entry of the table (`PC[6:3]`) stands for two adjacent instructions and for all that are 32 apart
  from them, so a branch can be predicted taken because another one was.

## Proofs

Checked by TLAPS for every value of the constants that satisfies the modules'
assumptions: any sets of clients and files, any numbers of blocks,
retries, windows, handles, workers, submitters, slots, hosts, requests, pages, frames,
customers, resources, tasks, registers and instructions.

**ChannelProofs**: `TypeCorrect`, `TimeoutOnceAlways`, `ChannelImplementsAttempts`.
The hard part is that two threads run `sender()` for one entry, so how many
transmissions are still to come is not in the state of either. The invariant
(`HandleInv`) counts: the tries made, the expiries, and the calls of `sender()` that the
caller and the timer thread have still to make are together at most the retries plus
two; there is one expiry at most, and it needs all the tries; an entry that was not sent with retries
has none, and one that expired has made its first transmission and every retry (`Spent`). These are what
`TimeoutOnce` says. Each action
is a lemma (`SendCounts`, `TerminateCounts`, `WakeCounts`, `IgnoreCounts`,
`TransmitCounts`, `ExpireCounts`, `CallbackReturns`), and `OtherHandle` says that
what happens to one entry leaves the others alone. The refinement follows with
one lemma per kind of step.

**TransferProofs**: `TypeCorrect`, `AckedIsReceivedAlways`, `RequestsWatchedAlways`, `InFlightBoundedAlways`,
`FinishedIsWholeAlways`, `FinishedIsCachedAlways`, `CacheIsTrueAlways`, `TransferImplementsDelivery`.
`AckedIsReceived` is not inductive: an acknowledgement still in flight must stand
for a block the client has. The invariant (`IInv`) adds just that for every Acknowledge
in flight (`MessageInv`, with: nobody hears from a client that has asked for nothing), that a
client about to acknowledge a block has it and that one which has not begun has
none (`ClientInv`), and what a task has read, sent and still repeats
(`TaskInv`: packets only below the read position, at most `MaxWindow` of them).
It speaks of a client's first download, since a second one truncates the destination
while acknowledgements of the first may be in flight. The number of messages
in flight is not bounded. Least elements
(`MinNat`), the run of cached blocks (`FlushEndProperties`) and sequences
(`FromType`) are lemmas of their own.

`RequestsWatched` needs two facts more (`WatchInv`): in a client's first download
a timer thread terminates an entry only after it has told the user, so an entry that is ended under
a request is ended where the user knows; and before it there is no such thread. Then every handler that starts a
wait has just sent the request that is waited for (`WatchAsks`), a retry keeps it (`WatchTimer`), and one that
expires leaves a timer thread about to report (`WatchTimeout`).

The next two need to know what a verdict stands for. `DiskInv` holds on any network: what a
task has read are the blocks of its file in order, the cached digests are whole files that
exist, and only missing ones are refused. Under `Reliable` (nothing lost, repeated, or asked for
in vain; any number of downloads, versions and restarts) `CloseInv` then follows
one question to its answer: of the Checksum of a client and the verdict on it, one at most is under
way, the client waits for it and has no other in its queue, the digest is of what it has
written, and a Confirm, wherever it is, means that this is the file (`Approved`). It is inductive
because no timer fires while anything is on the way (`CloseTimer`), and because a message
that is left in the queue by `confirm` is one that only `download()` will touch. In particular no
request is ever without its answer for long enough to run out of retries there.

The last two speak of `OneDownload`: clients that download once, files that do not change, and
any network and any restarts. Then nothing that is repeated or late can be of another
download, so every datagram is true of the file its receiver or sender asked for
(`TrueMessage`), and so is what is built from them (`TrueClient`: the output is
the first `mNext` blocks, the cache has blocks at their places, the digest
sent is the file's). A client is told of an error only when there is no
file. For the refinement, `data` is an extension of the destination or a stutter
(`PromiseData`, with `BlocksAreBytes`), and `confirm` comes only with all of it and with no finish reported
yet. For that the invariant has to say how a download can be in which state although
`onTimeout` sets `mState` whenever it likes: `Idle` is left by `download()` alone, so once the finish
is reported no handler runs any more, and reports and terminations by late timer threads touch neither the
destination nor `mState` but to set it to `Idle`. An error changes nothing that **Delivery** promises.

**ThreadPoolProofs**: `TypeCorrect`, `PromisesKeptAlways`, `PoolImplementsTaskQueue`. Even the types are not
inductive alone: a semaphore stays within `QueueSize` because of the threads
that stand between a semaphore and the ring. `TasksBalance` and `SlotsBalance` count
them (`occupied` + submitters about to post + workers about to take is at most
`Count`, and the same for vacancies); `SubmitterMoved` and `WorkerMoved` are the
cardinality lemmas behind them; `Filled` and `Carried` say that what is between
`front` and `rear`, and what a worker carries, is a task. For TaskQueue, `Fresh` says that what
is in the ring, with a worker or executed was submitted before, so a task that is about to
be is nowhere yet; then a write to the ring is the one moment at which it enters the queue, a read the one at
which it leaves, and what is between `front` and `rear` is the queue, in order.

**ClientProofs** has the two clients whose threads share their state. For **ClientThreads**,
`QueueServesWaitAlways`, which is `FrontIsAnswer` and `NoMissedMessage`, for any number of
arriving messages. `CTLockInv` says where the command line thread holds `mMutex`; `FrontInv` that
what `wait()` has found stays in front until it is taken, since the receiver only pushes behind it,
although `onTimeout` writes `mState` in between; `EmptyInv` that it falls asleep only over a queue
that the predicate has emptied, and that whatever comes later is announced. `RequestInv` says
which of the two requests `dispatch()` is about to send, and so which handle comes next.

For **SocketClient**, `WorkersAreOwnedAlways` and `ResultsAreOwnAlways`. A worker takes no lock, so
the invariant (`IInv`) follows it through its steps: one that has not answered has no result
(`AnswerInv`), so a result is that of the task in front. `LockInv` and `StopInv` say
who is at a connection: whoever joins a worker holds `mMutex`, and the destructor still
visits all that has a worker or may get one. `UnconnectedInv` says that `connect()` finds
of a host only what `disconnect()` left, and `QueueInv` that no task is in two places of the queues.

**BankerProofs**: `ArraysAgreeAlways`, `BankKeptAlways`, `RefusesOnlyUnsafeAlways`. The first two rest
on each command being a move of units between the bank and a customer, with its claim
the other way (`Moved`, `Returned`): the total and the claims stay, except that a customer that
finishes gives up its claim. That commands do not make an unsafe state safe
needs a reason for when a state is safe: `Feasible`, no customer claims more than there is in
all. It follows from safety for any arrays (`CompletableIsFeasible`); the converse is true at the
start, when all units are in the bank (`FeasibleIsCompletable`), and `IInv` has it
for the states after. `RefusesOnlyUnsafe` is about one state, and a statement about the
search: if all can finish in some order, then after `i` passes the first `i` of that order have
finished (`SearchFinds`), and those found can finish in the order they were found
(`SearchSound`). The sums over customers (`Held`) and the search are recursive functions; that they
exist (`Recursion`) and what they compute (`HeldSums`, `SearchEnds`) is proved first. The induction
is over sets of naturals (`Induction`, from the well-foundedness of `<`), which
needs no operator as a parameter.

**MemoryProofs** has the two programs that keep orders of things that come and go. For
**Allocator**, `ListsAgreeAlways`, `PolicyKeptAlways`, `AllocatorImplementsHeap`. `Inv` takes the
two lists as two orders of one set of nodes (`SizeList`, `AddressList`), and the
nodes and blocks as intervals, none of which overlap (`Disjoint`), which have every cell (`Covered`) and
of which no two free ones touch (in `ByAddress`). What the lists do is said by lemmas on
inserting, removing and replacing (`Inserted`, `RemoveFirstProperties`, `SplicedElements`). A request
cuts one node in two (`SplitNode`, `AllocLists`). A release puts a block among the nodes,
where it may touch the one before and the one after, and no others touch (`AddressInsert`); so the two
loops of the merge stop after one step at most each (`MergedPlaces`), and the new node has the
cells of those it replaces and touches nothing (`NodeJoined`, `AddressMerge`). A policy looks at one end
of one list, which is right because of the orders (`PolicyChooses`). For **Heap** the
hard step is a refusal: a run of free pages lies in one node (`RunInNode`), since the page behind
a node that ends inside the run would be in a node that touches it. That needs
sizes to be rounded to pages; the mask in `allocator_internal_roundup` does it for
a page that is a power of two, and `AllocatorAssumption` says so.

For **VirtualMemory**, `StructuresAgreeAlways`, `TLBIsRecentAlways`,
`VirtualMemoryImplementsMemory`. `OrderInv` says that an LRU cache has no page twice, which makes
removing by page and removing by place the same. `RecentInv` says of each page in memory that is
not in the TLB that it was used before all that are: then what `insert` pushes out of the
TLB is the right one, and so is what leaves with its page. `FaultFrame` finds a frame for a
page fault: when none is evicted, there are more frames than pages in
memory (`FS_SurjCardinalityBound`). The refinement maps a hit to an access that forgets nothing
(`HitMaps`) and a fault to one that forgets the page it evicts (`FaultMaps`).

**ScheduleProofs**: `DueServedAlways`, `PriorityKeptAlways`, `ShortestIsBestAlways`. The lists are
kept in the order of the file (`Inputs`), which stands for the order of insertion; so where a round robin
has got to is a number, and the tasks before `task` are those that have had their turn in this pass,
whichever of them have left the list meanwhile (`TurnsInv`). `NextTask`, `FirstTask` and
`DeletedTask` say what the pointers of the loop do in those terms, the deletion of the task it
stands on included. `LevelInv` is what makes the flag `exist` right: nobody is left above the level that is
looked for, and if it is down nobody of that level is among those already passed. `AnswerInv` speaks of the first
pass: where nobody has been answered yet, the clock is at most a quantum for each task before.
`ShortestIsBest` compares with every order of the tasks, and its invariant (`CostInv`)
is about every order too: what is spent on turnaround times, plus what the tasks that are left would
add if they ran in that order (`Cost`). At the start that is the sum the order has. A round of
shortest job first never increases it (`CostStep`): the tasks that stood before the one it
runs are late by its burst, but it no longer waits for theirs, none of which is shorter. And
at the end it is the sum of shortest job first. Sums over tasks are recursive functions:
that they exist, and that they add and compare term by term, is proved first (`SumsExist`,
`SumAdd`, `SumLeq`).

**PipelineProofs**: `TypeCorrect`, `PipelineImplementsSingleCycle`, for programs of any length that are
`Handled` and any numbers of registers and words. The buffers hold successive instructions of the
program or bubbles (`HeldInv`), and each leads to the next (`FlowInv`, `OrderInv`): behind a jump, or a
branch that is taken, there is nothing in the buffers, and the program counter is its target. What
Execution has computed is what **SingleCycle** computes from the registers as they will be when MEM/WB
is written (`ResultInv`). That is not inductive without a promise about the instruction behind
(`DataInv`): each operand in ID/EX is right already, or MEM/WB forwards it (`Ready`). So the three ways
to an operand meet in a few lemmas: `OperandRight` says that the forwarding makes of such an operand the
right value, `ReadReady` that what is read in the decode stage is such an operand, and `HeldReady` that it stays
one through a stall, for which the third condition of `Follows` is needed.
`TableInv` says that an entry of the table is set only for a branch that lies behind the oldest
instruction, so that no branch under way is predicted taken (`NotPredicted`). With this a
cycle is one of six moves (`ClockMoves`): a stall; a branch that is taken, and the cycle after it; a
jump; filling the empty buffers; an advance of all. Each is a case of the invariant's lemmas, and a
step of **SingleCycle** if an instruction leaves EX/MEM in it (`OldestStep`, `Written`, `Implements`).

Only model-checked is every liveness property (fairness and ENABLED are beyond the prover): `DownloadEnds`, `TaskEnds`,
`EntriesEnd`, `WaitEnds`, `CallersServed`, `MutexIsReleased`,
`SleeperReports`, both `AllFinish`, `GetsToEnd`.

The assumptions on constants are named in the module that declares them; they say that
bounds are naturals, that `SlowStart <= MaxWindow` as in `Server.h`, that
there is at least one retry, that `Nil` and `None` are not values (nor is `Nil` a digest or an entry of a channel), that a client of the Socket Lab has a
host to connect to, that customers and resources are finitely many, that a memory consists of pages
whose size is a power of two, and that a program consists of instructions, not of bubbles, and
leaves a word for its end. TLC evaluates
them in each run.

## Not modelled

The modules cover a small share of the lines of the repository, and will go on doing so: most
of those lines are not a system with states that could go wrong over time.

- Vendored code and data: five copies of the FLTK headers with each GUI exercise, the shells of the
  FPGA boards, `mlp_params.c` with the weights of a network.
- Some sixty solutions for the online judge, each one function from an input to an output, without a
  description of the problem in the repository to hold them against.
- Numeric kernels and learning: loop tiling, vector instructions, matrix multipliers, bin
  packing. What matters there is speed, rounding or scores.
- Sorting threads and the sudoku check (OS Project 3): threads that share nothing and are joined.
- Drawing, event loops, `/proc` entries, 8086 device exercises, reports.
- Of the modelled programs: parsing, printing, statistics, byte formats, and the waiting times of `CPU.c`.

Of the programs with behaviour worth a model, the following are left for the plan.

## Plan

In order:

1. **ServerThreads**: the receiver, worker and timer threads of the RDT server
   under `mMutex`, where `worker()` calls `send()` with the mutex held.
2. **SocketServer**: listener, detached threads and the framing of the stream.
3. Shell pipelines, the producer and consumer, and the red-black tree of STLite against a set.
