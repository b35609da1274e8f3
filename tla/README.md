# A verification project for linuxserver

linuxserver is a C++ network library in the manner of muduo: a reactor (one event
loop per thread), TCP servers and clients on it, and beside it thread primitives, an
asynchronous logger, a pool of database connections and a protobuf codec. This
directory holds TLA+ models of its concurrent core, the TLC configurations that check
them, and TLAPS proofs. Definitions keep the names of the code; `PROJECT.json` maps
each of them to its lines, and lists every part, run, mutant, hazard and theorem.

Checking: `tlc -config X.cfg M` for a run, `tlapm M.tla` for a module of proofs.

## 1. Inventory

| Part | State | Operations | Correct when |
|---|---|---|---|
| `EventLoop` | pending functors (mutex), eventfd, flags `m_bQuit`, `m_bLooping`, `m_bCallingFunctors` (unlocked) | `Loop`, `Quit`, `RunInLoop`, `QueueInLoop`, `WakeUp`, `handleRead`, `doPendingFunctors` | a functor queued by any thread is run once, in order, without waiting for the poll's timeout of 1 s; `Quit` ends `Loop` |
| `EventLoopThread` | `m_pEventLoop`, the thread | `StartLoop`, `threadFunc`, destructor | `StartLoop` returns a live loop; the destructor returns |
| `TimerQueue`, `Timer`, `TimerId` | `m_TimerList` by time, `m_ActiveTimers` by identity, `m_CancelTimers`, the timerfd | `AddTimer`, `Cancel`, `handleRead`, `getExpired`, `reset`, `insert` | both sets agree, no timer used after `delete`, the timerfd armed in time, `Cancel` cancels |
| `Channel`, `EPoller` | interest set, index NEW/ADDED/DELETED, epoll's table | `Enable*`, `Disable*`, `UpdateChannel`, `RemoveChannel`, `Poll`, `HandleEvent` | epoll's table agrees with the index; no channel of a deleted object is registered |
| `TcpConnection` | `m_eConnectState` (unlocked), channel, input and output buffers | `Send`, `ShutDown`, `ConnectedEstablished`, `ConnectedDestroyed`, `handleRead/Write/Close/Error` | bytes in order, none lost; output drains; shutdown follows it; a closed connection is destroyed once |
| `TcpServer`, `Acceptor`, `EventLoopThreadPool` | `m_mpConnection`, loops, round-robin index, `m_bListenning` | `SetThreadNum`, `Start`, `newConnection`, `removeConnection(InLoop)`, `GetNextLoop` | connections are established, removed and destroyed once, each on its loop |
| `Connector`, `TcpClient` | `m_bConnect`, `m_eConnectState`, retry delay, the connection | `Start`, `Stop`, `Restart`, `connect`, `retry`, `handleWrite/Error`, `Connect`, `DisConnect` | one attempt at a time; retries until stopped; no descriptor leaked |
| `Buffer` | reader and writer index over a vector | `Append`, `Prepend`, `Retrieve*`, `ReadInt32`, `makeSpace`, `ReadFd` | readable bytes are a queue of bytes, whatever moves |
| `ThreadPool` | task queue, `m_bRunning` | `Start`, `Stop`, `Run`, `take` | no worker sleeps on work; `Stop` returns |
| `BlockingQueue`, `BoundedBlockingQueue`, `CountDownLatch` | queue or count, conditions | `Put`, `Take`; `Wait`, `CountDown` | no lost notification, no overflow, no deadlock |
| `AsyncLogging` (queue, double buffering) | buffers or queue, running flag | `Append`, `Start`, `Stop`, `threadFunc` | lines in order, complete after `Stop` |
| `LogFile` | open file, sizes and times of the last roll and flush | `Append`, `Flush`, `RollFile` | every line in one file, files roll at size and day |
| `Logging`, `LogStream` | per thread the last second and its text; the line's fixed buffer; level, output and flush functions | constructors, `operator<<`, `Finish`, destructor, setters | a line shows its own time, is whole if it fits, and a fatal one leaves the process before it aborts |
| `DBConnectionPool`, `DBConnection` | statements, free connections, a thread pool, `Stop`'s latch | `Init`, `ExecuteSql`, `runInThread`, `Stop` | every task finds a statement and a connection nobody else uses; `Stop` executes what was asked for before it |
| `ProtobufCodec`, `ProtobufDispatcher` | the input `Buffer`; callbacks by type | `OnMessage`, `FillEmptyBuffer`, `Parse`; `RegisterMessageCallBack`, `OnProtobufMessage` | frames cut anywhere are put together again; bad frames are refused; a message reaches its type's callback |
| `tcp` (blocking sockets) | a socket | `SendAll`, `ReadAll` | complete or failed |

How they interact. Every object of the reactor belongs to one loop and is changed only
on its thread; other threads reach it through `QueueInLoop`, which is the one channel
between threads (mutex + eventfd). The poller calls channels back; channels call their
owners (`TcpConnection`, `Acceptor`, `TimerQueue`, the loop itself); connections call
the server through `m_CloseCallBack`, and the server answers by queueing
`ConnectedDestroyed`. Life times are kept by `shared_ptr`s, some of them inside
functors, except where a plain `this` is bound (`TcpConnection::Send`, `ShutDown`).

What is hard: functors queued by several threads while the loop is at any place of its
round; state tested without a lock and acted upon later (`m_eConnectState`, `m_bQuit`,
`m_bRunning`); callbacks that change the set their caller is walking; two clocks;
short writes; a peer that closes at any moment; objects destroyed through a queue
while the poller may still report them.

## 2. Modules

| Module | Models | Uses |
|---|---|---|
| `SerialExecutor` | abstract: a queue of functors run one after the other | |
| `EventLoop` | the loop, its callers, the eventfd | refines `SerialExecutor` |
| `EventLoopThread` | a loop on a thread of its own, its owner and other threads | extends `EventLoop` |
| `TimerQueue` | timers over a first-in-first-out loop | |
| `Channel` | registration, as operators on a channel's record | |
| `TcpConnection` | one connection, its kernel socket, its peer | `Channel` |
| `TcpServer` | many connections on several loops | `Channel` |
| `TcpClient` | a client, its connector and retry timer, its connections | `Channel` |
| `ThreadPool`, `BoundedBlockingQueue` | mutex-and-condition components | |
| `DBConnectionPool` | the pool of connections, its callers and its owner | extends `ThreadPool` |
| `AsyncLoggingQueue` | the queue logger, its threads and owner | extends `BoundedBlockingQueue` |
| `Logging` | loggers of several threads, their lines and the sinks | |
| `LogFile` | rolling and flushing, as operators on the file's record | |
| `AsyncLoggingDoubleBuffering` | the double-buffering logger | extends `LogFile` |
| `Buffer` | the byte buffer, as operators on its record | |
| `ProtobufCodec` | framing at both ends of a connection, and the dispatcher behind it | extends `Buffer` |
| `*Proofs` | theorems | extend the modules they are about |
| `MC*` | the constants and symmetries of the runs | |

Steps. A step is what no other thread can see the inside of: a critical section, a
store of an unlocked flag, a system call, a run of code on the loop thread that only
touches what that thread owns. Where the code tests a flag and acts later, test and act
are two steps. `at`, `loopAt`, `workerAt`, `ownerAt`, `caller`, `calls` are program
counters. What a user's callback does is arbitrary, so wherever callbacks run the loop
thread may take every public operation.

**EventLoop.** `QueueInLoop` is push-under-mutex and then, for other threads or while
functors run, `WakeUp`, a step of its own. `Loop` is split at the test of `m_bQuit`, the
poll, the handling, the swap and each functor. `PollWake` reports the eventfd, `PollOther`
returns without it (timeout, other channels) and is under no fairness, so that nothing
that is shown depends on the timeout (`POLL_TIME_MS`, 1 s). The eventfd counter has a limit;
the write at the limit is refused, as for a non-blocking eventfd. `LoopEnter` stores
`m_bLooping` and `m_bQuit` in one step: only assertions of the loop's own thread read
`m_bLooping`, so that a `Quit` between the two stores is one before both.

**EventLoopThread.** The owner constructs, calls `StartLoop`, uses the loop, hands it to
other threads, destroys; the thread publishes a loop on its stack, runs it and ends. A
call through the pointer after that is undefined in C++ and ends the behaviour
("undefined"). The loop may instead be one without an `EventLoopThread` (`MainLoop`),
which its thread enters and leaves as often as it likes.

**TimerQueue.** Addresses are model values that the allocator reuses, so that a stale
`TimerId` can name another timer's memory. Time is in units of the 100 µs that
`howMuchTimeFromNow` clamps to. `now` (wall clock) can be set; the timerfd counts
monotonic ticks. Between the poller's report and `handleRead` other callbacks may add
timers and re-arm the timerfd. `getExpired`, the callbacks and `reset` are separate
steps, callbacks add and cancel. `cancelled` holds the timers that were cancelled while
the queue had them, listed or in `handleRead`'s vector (`Held`): a `Cancel` that comes
before its timer's `addTimerInLoop` is not counted.

**TcpConnection.** A byte is a pair of message and position; `write` takes any number
that fits. `HandleEvent`'s order (hup, error, read, write) is kept: each is a step, with
callbacks in between. `functors` is the loop's queue, `batch` what the current round has
swapped out; `Alive` says who holds a `TcpConnectionPtr`.

**TcpServer.** Of a connection only state, loop and channel are kept. Each loop has a
queue, a place and its active channels; `removeConnectionInLoop` takes the next loop as
the code does. `accept` may fail; of its errors `Sockets::Accept` ignores some and ends
the process on the others (`AcceptFails`).

**ThreadPool, BoundedBlockingQueue.** A critical section is one step, except where
`Stop` of the pool, which takes no lock, can come between a worker's test and its wait
("hold"). Waits may return spuriously.

**DBConnectionPool.** One call of `ExecuteSql` is a request: it pushes its statement in one
critical section and `runInThread` as a task in another. A task executes the oldest
statement, which need not be its own call's. `runInThread` is four steps: take a
statement, take a connection, query, give back. While the thread pool has no threads
`Run` calls the task on the spot, so that a call before `Init` is finished runs on its
caller. `Stop` queues the latch's `CountDown` behind the tasks and waits for it. The server
may refuse a connection or a statement, which an assertion answers (`failed`).

**TcpClient.** Client and connector in one module, since each calls the other. The loop
thread polls, handles the connector's and the connections' events, fires retry timers and
runs functors; callbacks on it and one other thread, the user, call `Connect`,
`DisConnect` and `Stop`, the user step by step where the code stores without a lock.
`attempt` is the kernel's answer to the last `connect`; `timers` counts retry timers that
have not fired (cancelling one has no effect, see section 6). The destructor may run in a
callback at any time and keeps the connector for a while, as `detail::removeConnector`
does. A failed assertion ends the behaviour (`failed`), but for `Connect`'s own, that the
client is not connecting: that one is kept by callers. The connector's `m_bConnect`, which `startInLoop`
and `handleWrite` test once each, is read in the step that uses it.

**AsyncLoggingQueue.** The owner's `Start` waits for the latch, `Stop` resets
`m_bRunning`, puts an empty line and joins, each a step; `threadFunc` takes and handles
messages. `BlockingQueue` is the same with a capacity that is never reached.

**AsyncLoggingDoubleBuffering.** `Append` is one critical section. `threadFunc` is the
latch, the test of `m_bRunning`, the wait, the swap (with its wait one critical section),
the dropping, one step per buffer written, and the refill of the spare buffers. A moved
`unique_ptr` is NULL, so that the model would meet the null dereference and the failed
assertions the code could meet. The clock ticks and may be set back once.

**Logging.** A line is the sequence of items its 4000-byte buffer took; of text only the
length is kept, of numbers also the digits that `convert` makes with C's division, of a
time its second and its microseconds. A statement up to the destructor is one step, since
a `Logger` is its thread's own; output, flush and abort are one each. The clock gives any
value at each statement. The level and the two functions are set before the first
statement only: they are unprotected globals. A sink may write by itself at any time, but
only a flush makes sure. The clock is taken to be past the first second of 1970, in which
the empty cache would pass for that second's text.

**LogFile.** `appendUnlocked` with its three branches; `stale` and `overdue` are history
variables that say how long a roll has been due.

**Buffer, ProtobufCodec.** A buffer is its vector and two indices, so that `makeSpace` and
`ReadFd`'s second buffer really move bytes. The codec's integers keep their sign and
their bytes in network order, with a smaller byte and fewer of them (`Base`,
`HeaderLength`: 256 and 4 in the code). `adler32` is a fixed function of the bytes, not
zlib's; what the properties need is that the peer computes the same. Wrong frames are
enumerated, one for each test that `Parse` and `OnMessage` make, and one that is complete
but shorter than the bytes `OnMessage` waits for. Messages go on to the dispatcher, whose
callbacks are registered at any time, or not: then the default callback gets them.

Left out on purpose: addresses, the contents of a connection's
input (the codec has it); exceptions in tasks (the process aborts); errors of the file
system; the destruction of a running `TcpServer`.

## 3. Runs

Every run's properties are in its cfg; every property has a mutant (an altered
definition that stands before the one it alters, marked "Mutant") that breaks it.

| Run | Instance | Shows |
|---|---|---|
| `event_loop` | the loop's thread, the owner and 1 other, 3 functors, eventfd limit 1 | `NoLostWakeUp`, refinement of `SerialExecutor`, `QueuedFunctorsRun`; `StartLoop` returns, and a destructor that meets a loop inside `Loop` ends its thread (`OwnerNotLeftWaiting`) |
| `timer_queue` | 2 addresses, 2 timers, delays 1 and 2, intervals 0 and 1, 3 units of time, 1 queued call, 1 clock step | `SetsAgree`, `ExpiredTimersLive`, `TimerFdInTime`, `ListedTimersRun` |
| `db_connection_pool` | 2 workers, 2 requests and the latch | no worker sleeps on work; connections suffice and are not shared; statements are executed, those before `Stop` when it returns; `Stop` returns |
| `tcp_connection` | the loop and 1 thread, 2 messages of 2 bytes, send buffer of 2 | stream order; buffered output is watched; a watched channel is alive; no assertion fails; shutdown comes after the output and comes at last; a closed connection is destroyed |
| `tcp_server` | 2 connections, 0 or 1 I/O loop | establishment first, owned channels, removal; on one loop no assertion fails |
| `tcp_client` | 2 connections, 2 calls of `Connect`, delays 2 and 3 | one attempt at a time; `startInLoop`'s assertion fails only after a retry or a second `Connect`; every descriptor owned; no call into a destroyed client; a lost connection is replaced |
| `async_queue` | the owner and 2 threads append 4 lines, capacity 2 | nobody sleeps in vain on either condition; lines before `Stop` written in order; `Stop` returns |
| `double_buffering` | 3 lines that fill a third of a buffer or do not fit, at most 2 buffers before dropping, roll size 2, check every second append, a day of 3 ticks | no line lost, doubled or overtaken but those dropped; rolls in time; `Stop` returns; lines reach the disk |
| `codec` | 3 frames of 3 sound kinds, of 2 types, and 7 wrong kinds, vector of 12, second buffer of 4 | the buffer is the stream; messages once, in order and at their callback; no complete message left, and a wrong frame reported once the smallest frame's bytes are there |
| `logging` | 2 threads, 2 lines, 3 macros, 6 messages, 2 times, the real buffer sizes | lines show their time, read back and are whole if they fit; a fatal line is kept |
| `timer_queue_cancel`, `tcp_server_loop` | as small as the counterexample allows | where code and its tests or assertions disagree (section 6) |

Why the bounds are enough. A lost wake-up needs one pusher between another's push and
wake: two threads and the loop's own calls give all pairs; three functors put one in the
batch, one pending and one on its way; a limit of 1 is reached by one wake-up. Two
timers are the one that runs and the one its callback adds or cancels, two addresses let
the allocator reuse one while the other is listed. Time runs from 1 to 3, so that a
timer of interval 1 is due at 2, is put back by `reset`, and is due and run again at 3,
where `ListedTimersRun` still speaks of it; delays of 1 and 2 let a later timer be the
earlier one. In `timer_queue_cancel` the timer is listed
before it is cancelled; with the timer's own sequence in its `TimerId`, `CancelledTimersGone`
holds on that instance and on `timer_queue`'s. Two requests on two workers let one execute the other's
statement, and one be queued behind the latch; that no bound on workers and tasks hides a
sleeper is proved (section 4). Two messages of two bytes with a send buffer of two give full,
short and refused writes, and a second message behind a buffered first. One I/O loop
separates base and connection thread; two, needed only to see the wrong loop chosen, are
in `tcp_server_loop`. Two connections of a client are the lost one and its replacement,
two calls of `Connect` one that meets an attempt in progress. Three threads appending to
a queue of two places all wait at once, the owner's empty line among them. Three lines
that fill a third of a buffer need both of the front end's buffers and a new one; a
limit of two buffers makes dropping happen. A vector of twelve bytes, of which three are
the prepend area, is smaller than two frames, so that a read finds room, moves, or grows.
Two lines are enough for a cache of the last second; the six messages hold every kind of
item, the smallest `int`, and texts that leave 1, 4, 32 or 33 bytes: each side of every
test for room.

Type invariants are proved (section 4) and in no run, as are the strengthenings the proofs
need; TLC has checked the latter on the runs' instances before they were proved.

Fairness. Weak fairness of a thread's own steps: the scheduler runs every thread, and
callbacks and tasks return. `EventLoop`: of the loop's steps without `PollOther`, and of
`WakeUp` for a thread that is inside a call; `EventLoopThread` adds the steps of the
owner and of the thread. Nothing forces anyone to call, to enter
`Loop`, or a spurious wake-up. `TcpConnection` and `TcpServer`: strong fairness of a
poll that reports a channel that is ready again and again, because epoll is
level-triggered and rotates its ready list. `TimerQueue`: time passes. `TcpClient`: the
same strong fairness, and the kernel answers a pending `connect` at last, with an error if
nothing else. The loggers: threads run; `WaitForSeconds` returns (it always does, see
section 6); nobody has to append or to stop. `DBConnectionPool`: weak fairness of each
worker, strong fairness of the owner and of callers inside `ExecuteSql`, because they wait
for `m_Mutex`, which workers take again and again: a mutex that becomes free is got at
last. `ProtobufCodec` and `Logging` are checked for safety only and have no fairness.

## 4. Proofs

For every value of the constants (any threads, functors, addresses, delays, capacities):

* `EventLoopTimerProofs`, the loop: `LoopTypeOK`; `NoLostWakeUp`; refinement of `SerialExecutor`.
  `NoLostWakeUp` is not inductive: it speaks of the poll only. `LoopInv` adds what the
  loop's place says of its flags (`PlaceInv`), that from the swap to the next poll's
  return every pending functor has its wake-up counted or coming (`PendingWakeUpInv`),
  and the same for `Quit` since the test of `m_bQuit` (`QuitWakeUpInv`). The interesting
  steps are `handleRead`, which clears the counter but is followed by the swap, and
  `EndFunctors`, after which functors queued by functors rely on the wake-up that
  `m_bCallingFunctors` made them write. `ThreadLoopIsRight` carries both to
  `EventLoopThread`, for any number of other threads: each of its steps is a step of the
  loop or leaves it alone.
* `EventLoopTimerProofs`, the timers: `TypeOK`, `SetsAgree`, `ExpiredTimersLive`, `TimerFdArmed`,
  `TimerFdInTime`.
  `TimerInv` adds that a timer whose `addTimerInLoop` is still queued is allocated,
  nowhere else, and queued once (`PendingTimersWait`), and that `handleRead`'s vector is
  empty outside it. Without it a queued add could list a freed or a second timer.
  `TimerFdInTime` says two things of a loop that polls while a timer is listed: the timerfd
  is not disarmed, which is `TimerFdArmed`, a part of `TimerInv`; and unless the clock was
  set it is not late (`InTimeInv`), which is inductive with the types: an earlier timer
  re-arms the timerfd in the step that lists it, and `handleRead` ends by arming it for the
  first of the list.
* `BoundedBlockingQueueProofs`: the capacity, and both sleeper invariants
  (`NobodySleepsInVain`), which are inductive with `TypeOK`; the lemmas count awake threads
  under each kind of step. For the logger on the queue, `EarlierLinesWritten`: `LinesKept`
  says that all that `Put` took is, in order, written, in `threadFunc`'s hand or in the
  queue. That the logger's steps are the queue's needs that what a thread puts is a line
  (`LineTypeOK`), so the three invariants are proved together.
* `ThreadPoolProofs`: `TypeOK`, `NobodySleepsOnWork`, `EarlierTasksRun`. The first needs
  `HoldInv`: a worker between its test and its wait saw an empty queue, and holds the
  mutex that `Run` needs. The last needs the queue to be the end of what was ever queued
  (`SuffixInv`), every task before it to be done or in a worker's hands (`TakenInv`), and
  no worker to be left when `Stop` has returned (`StoppedInv`). `DBPoolIsThreadPool` carries
  both to the pool inside `DBConnectionPool`. There, `ConnectionsSuffice` and `StopExecutes`
  rest on `DBInv`: a call pushes its statement once and its task after it (`CallInv`);
  every connection is free or with one thread (`ConnInv`), so that a thread without one
  finds one, as there are as many as workers; the statements taken are the first that were
  pushed and as many as the tasks that took one (`SqlInv`), so that a task finds one, which
  is counted and not matched; and the latch is queued behind the tasks of the calls that
  had returned (`LatchInv`). That a worker is not a task is the one assumption added.
* `TcpServerProofs`: `TypeOK`, `EstablishedFirst`, `WatchedIsOwned`, for any number of
  loops (the run has at most one I/O loop). The index of `GetNextLoop` stays in range
  because nothing moves it before `Start` (`StartedInv`), when `SetThreadNum` may still
  lower the number of loops. The other two need what every queue holds: an `established` functor is on
  its connection's loop while the connection is connecting, any other comes later
  (`FunctorInv`), a connecting connection has exactly one (`ConnectingInv`); and that a
  watched or active channel belongs to an established connection, which somebody owns
  (`LiveInv`). `ConnectedDestroyed` keeps `LiveInv` because it runs when its loop has no
  active channel (`PlaceInv`); on the wrong loop its assertion has ended the process,
  and `LiveInv` claims nothing. A failed `accept` changes nothing but `failed`.
  `NoAssertionFails` is about one loop: there a connection is in the map or in exactly one
  queued `ConnectedDestroyed` (`RemovalInv`), functors run before the next poll, so that
  only connections of the map are reported, and each is closed at most once in a round
  (`RoundInv`).
* `TcpConnectionProofs`: `TypeOK`, `StreamInOrder`, `OutputIsWatched`, `NoAssertionFails`,
  `WatchedIsAlive` and the action property `OutputBeforeShutDown`. `StreamInOrder` needs
  that a direct write happens only with nothing buffered. The assertions rest on `LifeInv`:
  a connection is in the map; or its `ConnectedDestroyed` is queued, once, and runs before
  the next poll; or it is destroyed and out of the poller. A close that is reported
  therefore finds the connection in the map. All of it ends at `revived` (section 6).
* `TcpClientProofs`: `TypeOK`, `OneAttempt`, `CallBacksFindClient`, `DescriptorsOwned`.
  `ConnectorInv` ties the connector's state, channel and timer to the client's connection;
  `EventInv` says what the second handler of an event finds after the first; `ResetInv`
  that `resetChannel` runs in the round that queued it, before a close could start the next
  attempt; `ConnectionInv` that only the client's connection is watched, and a closed one
  has one functor; `GoneInv` that a destroyed client has detached its connection or stopped
  its connector. Once the state is Connected without a connection nothing leaves it, so that
  the timer of a retry starts no second attempt: it meets `startInLoop`'s assertion. That this
  assertion fails only after a retry or a second `Connect` is `StartInv`: before them the
  functor of `Start` is queued at most once, and finds the connector disconnected.
* `AsyncLoggingDoubleBufferingProofs`: `TypeOK`, `LinesInOrder`, `RollsInTime`, and that no
  assertion of `threadFunc` fails. The rest of `buffersToWrite`, `m_Buffers` and
  `m_pCurBuffer` are one queue of buffers (`Queued`); each step is one of few things done to
  it: a line at the end, an empty buffer at the end, the first buffer written, the first few
  dropped. The lemmas say that each keeps the order of `LinesInOrder`. `NumberInv`: lines
  are numbered upwards; `BufferInv`: where `threadFunc` is says which buffers it has, and
  `Append` uses up `m_pNextBuffer` only by filling a buffer, so that there are two to give
  back; `LatchInv`: `Stop` cannot come before `threadFunc` runs. `RollInv` bounds the appends
  to yesterday's file by `m_nCnt`, which is tested.
* `EncodingProofs`, `Buffer`: `BufferIsQueue`, for any vector and indices: `Append` and
  `ReadFd` add behind the readable bytes, `Retrieve` takes from the front, `Prepend` adds
  before, and the indices stay in order. It is what allows `TcpConnection` to take its
  output buffer for a sequence. `makeSpace` moves bytes only if more than `CHEAP_PREPEND`
  are free before them, which follows from the test in `EnsureWritableBytes`.
* `EncodingProofs`, the codec: `StreamKept`, `MessagesInOrder`, `CompleteFramesHandled`, for
  any width of an integer and any byte, and `ParseUndoesSend`, on which they rest: the
  frame `FillEmptyBuffer` makes of a message is cut by `OnMessage` where it ends and parses
  to that message. The lemmas under it: `ntohl` undoes `htonl` also for a negative check
  sum (`RoundTrip`, `CheckSumFits`), a part of a frame found at its offset is that part
  (`PartOf`), and joining frames again after one was cut off the front (`CutRest`).
  `CodecInv` says that the frames not yet received are what is readable and on the wire
  (`StreamInv`), and that a callback that was used is still registered (`OrderInv`). `Turn`
  is one turn of `OnMessage`'s loop: it takes the first frame off the stream, or leaves it
  because it is not all there or wrong. A wrong frame may be of any length; `NotDue` is the
  case in which `OnMessage` does not look at it yet.
* `EncodingProofs`, logging: `LinesRight`, `FatalLineKept`, for any threads, statements,
  sinks, clocks and buffer. `DigitsRead`: the digits `convert` writes, with C's division
  towards zero, read back as the number, whatever its sign and the base; it rests on
  `LoopTurns` (the loop ends at the first quotient of 0) and on every quotient having the
  sign of the value (`LoopSign`), since the smallest `int` has no opposite to convert
  instead. `ItemWritten`: each test for room leaves room for what is then written, and
  succeeds if `MAX_NUMERIC_SIZE` would still be free after it. `AllPut` and `HeadStays`
  carry that along a statement: one that leaves this room is put whole, and nothing
  overwrites the time at the head. `LogInv` adds to `LinesRight` that an unfinished line is
  what was streamed and begins with its own time, because the cached text is always that of
  `t_lastSecond`; and to `FatalLineKept` that the thread of a fatal line is at its flush, or
  at its abort and has flushed that line (`FatalInv`). That a set function is seen by all
  lines rests on the settings being made before the first one (`Quiet`).

Induction over data is done with sets: `Induction` (a set of naturals with 0 and the
successors of its members has all of them) follows from the library's `WFMin`, and
`Recursion` from it that a recursive function on 0..n exists, so that what its CHOOSE gives
satisfies its equation. The properties of `Digits`, `PutAll`, `Total`, `ReadBack`, the bytes of
an integer and joined frames are proved with these two.

The assumptions are the named ASSUMEs of the modules; TLC evaluates them in the runs.
Mostly they say what a constant is (finite sets of threads, a capacity and an eventfd
limit of at least one, natural delays). Those that say more: the codec's
`CodecAssumption`, a byte is below `Base`, names are not empty, and an integer fits the
prepend area (4 of 8 bytes in the code); `LengthAssumption`, messages are no longer than
`MAX_MESSAGE_LENGTH`, which `FillEmptyBuffer` does not test, and that is an `int32_t`;
`BadFrameAssumption`, what a wrong frame is: a length out of range, whatever follows
it, or its own length and a content that `Parse` rejects. Logging's `SinkAssumption`, a line's buffer has
room for the time (26 of 4000 bytes); `ItemAssumption`, the numbers streamed have three
characters less than `MAX_NUMERIC_SIZE`, for "-" or "0x" and the terminating 0, as
`staticCheck` asserts of the types; `ClockAssumption`, see section 2.

`TimerFdArmed`, `EarlierTasksRun`, the logger's assertions, `BufferIsQueue`, `ParseUndoesSend`,
the inductive invariants and the types are proved and in no run of their own. Every
invariant and action property that a run expects to hold is proved.

Only model-checked: liveness (the prover has no ENABLED), that is `QueuedFunctorsRun`,
`OwnerNotLeftWaiting`, `ListedTimersRun`, the three `StopReturns`, `RequestsExecuted`,
`ShutDownHappens`, `ClosedIsDestroyed`, `ClosedIsRemoved`, `ClosedIsReplaced`,
`LinesReachDisk`; and the two violations of section 6, which are counterexamples. That a buffer of the
double-buffering logger holds no more than its size is `Append`'s test, and no property.

## 5. Not modelled, and the plan

Of the repository's lines of C++ and C about one in six is its own and not a test: the
rest is vendored (mysql's headers, flatbuffer) or generated by `protoc`. Nearly all of the
own code that keeps state is modelled. What is not:

* `Poller`, the `poll(2)` variant, is dead code: `EventLoop.h:77` comments it out.
* `tcp` (blocking sockets) is sequential and used by one test program. `SendAll`
  (`TcpStream.cpp:59`) writes from the start of the buffer again after a short write.
* `DBRecord`, `DBRecordSet`, transactions and `ReConnect`: nothing calls them, or they
  only wrap a result row.
* The operations of `Buffer` that nothing calls (`Shrink`, `Swap`, `ReadInt32` among them).
* Wrappers of single calls: `Socket`, `InetAddress`, `Atomic`, `Singleton`,
  `ThreadLocal`, `TimeStamp`; the example.

Abstract specifications worth stating next: a byte stream for `TcpConnection` and for the
codec, a log as a growing sequence for both loggers.

Theorems next: the refinements of these; liveness stays with TLC.

## 6. Where the code and its own words disagree

Shown by a run:

* `timer_queue_cancel`: `AddTimer` returns a `TimerId` whose sequence is 0, so
  `Cancel` never finds its timer.
* `tcp_server_loop`: `ConnectedDestroyed` is queued on the next loop in turn, and its
  `AssertInLoopThread` fails with two I/O loops.

Met while modelling, and part of the models, with no run of their own:

* `EventLoopThread.cpp:18`: the destructor calls `Quit` through a loop that is gone
  when the loop was quit before.
* `Acceptor.cpp:12`: `m_bListenning` is not initialised; `Start` may skip `Listen`
  (`TcpServer`'s `Init` takes both values).
* `TcpConnection.cpp:144`: `handleClose` leaves the state; with I/O loops a second close
  before the removal trips `assert(1 == n)` (why `NoAssertionFails` of `TcpServer` is
  about one loop).
* `TcpConnection.cpp:74`: a thread's `ShutDown` can overwrite `eTCS_Disconnected`; a
  later send registers the channel again (why `NoAssertionFails` and `WatchedIsAlive` of
  `TcpConnection` stop at `revived`).
* `TcpConnection.cpp:137`: a failed write is `LOG_FATAL`, which ends the process.
* `EventLoop.cpp:105`: functors the loop thread queues before `Loop` get no wake-up
  (`silent` in `EventLoop`).
* `EventLoop.cpp:66`: `Loop` clears `m_bQuit` on entry; a `Quit` between the loop's
  publication and that store is lost, and `~EventLoopThread` waits for ever (why
  `OwnerNotLeftWaiting` is about a loop inside `Loop`).
* `ThreadPool.cpp:40`: `Stop` stores and notifies without the mutex; a worker between test
  and wait sleeps on and `Join` never returns, nor does `DBConnectionPool::Stop` (the
  exception in its `StopReturns`).
* `DBConnectionPool.cpp:59`: a statement and its task are queued in two critical sections, so
  that a task executes another call's statement; a statement of a call that returned before
  `Stop` may stay unexecuted if an older call was between the two (the exception in
  `StopExecutes`). A call before `Init` finds no connection and fails an assertion
  (`RanDirectly`).
* `TcpConnection.cpp:52`: what a thread sends is queued; a `ShutDown` that the loop makes
  itself may overtake it, and the bytes are not written (`OutputBeforeShutDown` is about what
  `sendInLoop` accepted).
* `TcpConnection.cpp:52`: the functor of a `Send` from another thread holds a plain
  pointer and may run after the connection was destroyed, although `TcpConnection.h:54`
  calls `Send` thread safe.
* `ProtobufCodec.cpp:18`: `OnMessage` looks at a length only when the bytes of the smallest
  frame are there; a complete frame that is shorter, and so wrong, is not reported before
  more bytes come (the exception in `CompleteFramesHandled`).
* `SocketOps.cpp:91`: `Accept` ends the process on ENFILE, ENOBUFS and ENOMEM.
* `Connector.cpp:141`: `retry` sets `eCS_Connected` where its timer's `startInLoop` asserts
  `eCS_Disconnected` (`Connector.cpp:49`); the first retry that fires ends the process. `Stop`
  or `DisConnect` followed by `Connect` meets the same assertion. `OneAttempt` has this
  exception, and no other start may fail.
* `Connector.cpp:113`: the branch for a socket error removes the channel, keeps no
  descriptor and does not retry (`lost` in `TcpClient`).
* `TcpClient.cpp:34`: destroying a client whose connection nobody else holds leaves the
  connection's channel with the poller; `~Connector` asserts that there is no channel, which
  fails for an attempt that is still pending after a second.
* `AsyncLoggingDoubleBuffering.cpp:79`: the test before the wait is inverted, and
  `Condition.h:32` takes an absolute time for a relative one: `threadFunc` never really
  waits. It makes the logger spin, and it also ends a missed notification of `Stop`.
* `AsyncLoggingDoubleBuffering.cpp:54`: lines appended after the last swap before `Stop`
  are not written; a line that does not fit in an empty buffer is dropped silently.
* `Logging.cpp:92`: a program that sets the output function and not the flush function, as
  `AsyncLogging_test.cpp:25` does, loses a fatal line (why `FatalLineKept` is about two that
  belong together). `Finish` drops the newline if the buffer is full.
* `AsyncLoggingQueue.h:70`: an empty line appended while the logger runs fails the
  assertion (`Logger` never makes one); an `Append` after `Stop` may wait for ever.
* `Buffer.h:121`: `ReadInt32` keeps eight bits; `Shrink` swaps in a new vector without
  moving the indices. Nothing in the repository calls either.
