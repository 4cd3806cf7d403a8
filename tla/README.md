# Verification of RewriteMuduo

TLA+ models of the reactor library under `src/`, model-checked with TLC on small
instances; most of the safety properties are proved with TLAPS for all values of the
constants. The models follow the source; a definition carries the name of the function it
models where it can, and `PROJECT.json` gives the lines. The repository is in the middle
of a renaming (`runInLoop` and `RunInLoop` are the same function): calls are read as meant.

## The system

Inventory of the parts, with the module that models each.

| part | source | module |
|---|---|---|
| `EventLoop`: poll, active channels, functors queued by any thread, eventfd | `network/EventLoop.*` | `EventLoop`, abstract: `TaskQueue` |
| `EventLoopThread`: a thread with a loop on its stack | `network/LoopThread.*` | `LoopThread` (extends `EventLoop`) |
| `TimerQueue`, `Timer`, `TimerId`: two sets of raw pointers, one timerfd | `network/Timer*` | `TimerQueue` |
| `TcpConnection`: state machine, send path, lifetime | `network/TcpConnection.*` | `TcpConnection` |
| `Channel`, `Epoll` | `network/Channel.*`, `network/Epoll.*` | in `TcpConnection` and `Connector`, for one channel; the table of channels in `TcpServer`; in `EventLoop`, what poll returns |
| `TcpServer`: map of connections, close path | `network/TcpServer.*` | `TcpServer`; in `TcpConnection`, for one connection, with the destructor |
| `Acceptor`: accept, spare descriptor | `network/Acceptor.*` | in `TcpServer` |
| `EventLoopThreadPool`: round robin | `network/LoopThreadPool.*` | in `TcpServer` |
| `Connector`: connect, retry with backoff, stop | `network/Connector.*` | `Connector` |
| connection buffer | `file/ConnBuffer.*`, `network/Endian.h` | `ConnBuffer`, abstract: `ByteQueue` |
| `AsyncLogging`, `SizedBuffer`: double-buffered log back-end | `log/AsynLogBackend.*`, `file/Buffer.*` | `AsyncLogging` |
| `LogFile`, `AppendFile`: rolling and flushing | `log/LogFile.*`, `file/File.*` | `LogFile` |
| `LogStream`, `Logger`: conversions, the line of a Logger | `log/LogStream.*`, `log/Logger.*` | `LogStream` |
| `FileReader` | `file/File.cc` | `FileReader` |
| `Thread`, `CountDownLatch` | `unix/Thread.*` | Start and Join in `LoopThread` and `AsyncLogging` |
| sockets, addresses, time, process info | `network/Socket*`, `NetAddress.*`, `unix/*` | `accept` and the close of a `Socket` in `TcpServer`; the rest wraps system calls |
| asio HTTP server (a program of its own) | `http/*` | not modelled |

How they interact: every connection belongs to one io loop, and everything that
touches its channel runs in that loop's thread. Other threads hand functors to the
loop (`RunInLoop`, `QueueInLoop`) and wake it through an eventfd; timers are a
channel on a timerfd; the server lives in a base loop, and the close of a connection
goes from the io loop to the base loop and back. Logging is apart: front-end threads
share a mutex with one back-end thread.

## The modules

Every module has a comment on its state and granularity at its head. Definitions
marked *Mutant* are not part of a specification: they are altered forms of the
definition that follows them, each breaking one property, and show that the property
depends on that code.

**EventLoop.** The loop thread steps from one access of shared state to the next:
the test of `quit_`, the return of poll, each channel, the flag
`callingPendingFunctors_`, the swap under `mutex_`, each functor. A call by another
thread is a store (the push under `mutex_`, or `quit_`) and then the write to the
eventfd. The eventfd counts, is emptied by a read, and refuses a write when full;
poll is level-triggered. Callbacks are user code and may make any call, so the public
calls are also steps of the loop thread while a callback runs or outside `Loop()`.
`TaskQueue` says what the rest of the program relies on: a FIFO queue, each task run
once; `EventLoop` implements it with `queue <- functors \o pendingFunctors_`.

**LoopThread.** `threadFunc`, `startLoop` and the destructor, with the steps of
`EventLoop`, which it extends, in between; its own specification is `ThreadSpec`. The
destructor reads `loop_` without the mutex. Users call the loop between `startLoop`'s
return and the destructor. The destructor's `quit()` is two steps, the store of `quit_`
and `wakeup()`, and the loop may be gone by the second one. A history variable,
`quitBy`, tells whether anyone but the destructor quit the loop.

**TimerQueue.** Timers are at addresses that are reused once freed, since `TimerId`
holds a raw pointer and a sequence. `HandleRead` is split into the read with
`GetExpired`, each callback, and `Reset`; between them callbacks add and cancel. Between
poll and `HandleRead` (`polled`) the handlers of other channels run: they may re-arm the
timerfd, and the read then fails and leaves it armed. The wall clock and the timerfd's
monotonic countdown are separate, so the wall clock can be stepped. A read of a freed
Timer has the outcomes an allocator can produce.

**AsyncLogging.** Buffers are sequences of line numbers, or `Null` for a pointer that
was moved from. `Append` and the back-end's critical section are atomic (both hold
`mutex_`); the back-end waits on the condition variable with its predicate and
timeout. Lines that fit in no buffer, and the dropping of buffers, are modelled.

**TcpConnection.** The connection with its channel, its place in the epoll set and in
the server's map, and the shared pointers that keep it alive: the map, the user,
functors that bind one, functors of the batch being run. The io loop handles the polled
events one callback at a time, in the order of `HandleEventWithGuard`; `write()` takes
any prefix, nothing, or fails. A call of another thread is a test of `state_`, a store,
and the queueing of a functor. `~TcpServer` may come at any time. Asserts are conjuncts
of the actions, and the properties say that they hold when reached; that of
`RemoveConnectionInLoop` is reached through a functor of the base loop, or directly from
`HandleClose` if there is one loop, and `RemoveAsserts` speaks of both. All callbacks
are taken to be set.

**TcpServer.** The server with its acceptor, its pool and the table `channels_` of each
loop's `Epoll`, for many connections; one connection is reduced to being made,
established, closed and destroyed. Loop 0 is the server's; a connection lives in the
loop that `getNextLoop` gave it, and its close goes through the functors of loop 0 and
back. Descriptors are those of the kernel, the lowest free one first, so that they are
reused at once; when they run out, `HandleRead` gives up its spare one in four steps,
between which another thread may open a file. `LOG_SYSERR` comes before
`HandleRead` looks at `errno` and may change it, so that EMFILE may go unnoticed.

**Connector.** The attempt, its channel, the retry timers, and the loop's functors.
`connect_` is stored by any thread, everything else changes in the loop. Events of one
poll are handled one after the other (`ERR` before `OUT`), and the channel is destroyed
by a functor behind them. `Connect` runs as one step, but `Retry` reads `connect_` again at
its end, so that a `Stop` of another thread may come in between (`StopComesIn`). A
socket is closed by `Retry`, and by `HandleWrite` or `Connect` when they drop it. `Start` is
called once: a second call, or one after `Stop`,
while a retry timer is pending, fails the assert of `StartInLoop`, and nothing in the
class prevents it. A connect() that fails in an unexpected way ends the attempts without
a word to the user (`gaveUp`).

**ConnBuffer.** The vector and its two indices; each operation of `Buffer` is a function
on them. `ByteQueue` is what a connection relies on: bytes put at the end, pushed in
front, taken from the front, chopped from the end. Integers of a width are written in
network order; a byte has `Base` values. A history variable, `int`, follows one integer
that was put in: where its bytes should be, and its value.

**LogFile.** Files with the second in their names, the bytes counted, the lines and
which of them are still in the stdio buffer. Writes may fail in the middle of a line
(`writtenBytes_` then counts nothing of it). `fflush` and `fclose` may fail, which the
code does not look at, and the lines then stay where they were; `flushFailed` notes it.
The clock goes on and may be set back. Its specification is `FileSpec`.

**LogStream, FileReader.** Functions of an input that the initial state chooses: the
conversion loops of `Convert` and `ConvertHex` with the division of C++, the thresholds
of `FormatSi` and `FormatIec` against the rounding of printf, a Logger's line in a
buffer that is too small for it; a read loop over short and failing reads, from the
descriptor's offset on, behind an `fstat` that may fail as well.

**MCSequential** puts the last four side by side: a behaviour is one of one of them.

## The runs

`tlc -config X.cfg MCY`; all but the violations pass.

| run | question | instance |
|---|---|---|
| `loop` | are wake-ups, quits or functors lost, reordered, starved? | 2 functors, 2 other threads, 1 channel, eventfd full at 2 |
| `thread` | is the returned loop alive, does the destructor's join return, what is used after its end? | owner, one user, 2 functors |
| `thread_join` | *violated*: does the join return wherever the thread is? | same |
| `timer` | do the sets, the Timers and the timerfd agree; do cancels last; do due timers run? | 2 addresses, 2 timers ever created, 1 other thread, the clock runs to 2 and is stepped once |
| `timer_addrace` | *violated*: is AddTimer safe from other threads? | same, clock to 2 |
| `log` | do the asserts hold; are lines in order, accounted for, written; does Stop return? | 7 lines, 2 per buffer, more than 3 buffers dropped |
| `conn_close` | do the asserts on the way to the destructor hold, and is it reached? | another thread sends; separate base loop; no read control, no `~TcpServer`; 2 bytes |
| `conn_data` | is the stream kept intact; are callbacks and write interest right? | all calls from another thread, read control, `~TcpServer`; 2 bytes, mark at 2 |
| `conn_forceclose` | *violated*: is a connection removed once? | ForceClose from another thread |
| `server` | are descriptors, tables and map in step when descriptors are reused and run out; does every peer get an answer? | 4 peers, 0 to 2 threads, 4 descriptors (2 are the listening and the spare one), one other thread |
| `connector` | one attempt at a time; sockets accounted for; does it connect, does Stop stop it? | loop and 2 other threads, the delays of the code |
| `sequential` | is the buffer a queue of bytes, do integers come out as they went in; are lines kept, files rolled and flushed; are numbers, lines and files whole? | see below |

A property that a run checks is often the conjunction of several that belong together;
each has its own definition and comment in the module.

| run | property | conjuncts |
|---|---|---|
| `loop` | `NothingLost` | `NoLostWakeup`, `NoLostQuit` |
| | `RequestsServed` | `FunctorRuns`, `QuitStops` |
| | `FlagsExact` | `TypeOK`, and the flags against the program counter |
| | `IsTaskQueue`, `DoPendingFunctorsReturns` | |
| `thread` | `DanglesOnlyInQuit` | `ThreadTypeOK`, `PointerValid`, `LateOnlyAfterQuit`, `MembersOutliveThread` |
| | `NoThreadLeftLooping`, `JoinReturnsOnceLooping` | |
| `timer` | `TimersConsistent` | `TypeOK`, `SetsAgree`, `ExpiredAlive` |
| | `TimerfdArmed` | `Armed`, `ArmedInTime` |
| | `CancelIsFinal`, `DueTimerRuns` | |
| `log` | `LinesAccounted` | `TypeOK`, `InOrder`, `Accounted` |
| | `LogServed` | `LineIsWritten`, `StopReturns` |
| | `AssertsHold`, `FullBufferNotifies` | |
| `conn_close` | `TeardownAsserts` | `TypeOK`, `HandleCloseAssert`, `RemoveAsserts`, `DestructorAsserts` |
| | `ClosesWhenAsked` | `ForceCloseCloses`, `ShutdownHappens` |
| | `ClosedIsDestroyed`, `PeerCloseNoticed` | |
| `conn_data` | `DataDelivered` | `StreamIntact`, `ShutdownAfterData` |
| | `CallbacksTold` | `WriteCompleteQueued`, `HighWaterTold` |
| | `WriteInterest` | |
| `server` | `DescriptorsAccounted` | `TypeOK`, `DescriptorsOwned`, `SpareKept` |
| | `TablesAgree` | `EpollAsserts`, `RemoveAssert`, `MapAgrees` |
| | `RoundRobin`, `BacklogDrains`, `ClosedIsFreed` | |
| `connector` | `AttemptsOrdered` | `TypeOK`, `OneAttempt`, `EventsHandled`, `ResetsRemoved` |
| | `SocketsAccounted`, `StopStops`, `Connects` | |
| `sequential` | `BufferAsserts` | `TypeOK`, `MakeSpaceAsserts` |
| | `SpaceManaged` | `PrependAreaKept`, `GrowsOnlyIfFull` |
| | `IsByteQueue`, `IntegersSurvive` | |
| | `LogKept` | `FileTypeOK`, `LinesKept`, `NamesIncrease` |
| | `RolledInTime` | `RolledBySize`, `RolledByPeriod`, `FlushedInTime` |
| | `TextRight` | `ConvertIsDecimal`, `FormatsFit`, `LineFits` |
| | `ReadsWhole` | `ReadsAll`, `BufferTerminated` |

*Bounds.* Two functors and two threads show every order of two calls against the loop's
steps; a functor may be queued again any number of times. An eventfd that is full at 2
is filled. Two addresses and two timers allow an address to be reused, a callback to
cancel the other timer of its batch, and a repeating timer to overlap a new one. Seven
lines fill three buffers, so both the drop and the refill of both spare buffers happen.
Two bytes of output allow a partial write and a message behind buffered data, and the
high-water mark to be crossed at once or by a second message; with three (`conn_data`
takes three minutes then) the mark is crossed again after it was left, and the
properties hold too (`CallbacksTold` is proved for any number). `MaxQueue` bounds how
many functors users have queued, `MaxBytes`, `MaxLines`, `MaxAppends`, `MaxSeq`,
`MaxTime` and `ClockSteps` what ever happens. The wall clock stands still at `MaxTime`;
timers may be set beyond it. Deadlock is checked for the loop only; the other instances
end, because a component is destroyed or a bound is reached.

Four descriptors leave room for two connections, or for one and a file of another
thread: the spare one is needed with either. Four peers give every loop of a pool of two
a second connection. In `sequential`, the buffer grows from 4 to 6 bytes, with 2 for the
prepend area, and reads of up to 2 bytes fill it, cross its end and go to `extrabuf`; log
lines have 1 or 3 bytes with a roll beyond 2 and a check at every second line, and the
clock runs through a flush interval and into a second period (`MaxTime`); integers are
all up to 1100, those around each threshold, and the ends of 32 bits; lines have up to 4
pieces (`MaxPieces`) in a buffer that holds a header, a number and little more; files
have up to 7 bytes (`MaxFile`) and a buffer of 3. Its `VIEW` leaves out the buffer's
last call: no guard and no invariant reads it, and TLC checks action properties, which do,
on every step, also on one to a state that it has seen.

*Fairness.* A thread that is inside the library and not blocked goes on, and
callbacks return. `EventLoop` assumes nothing of the poll timeout: a wake-up must do
without it. `TimerQueue` assumes that time passes. `AsyncLogging` assumes that
`wait_for` returns after `flushInterval` (`Stop`'s notify does not satisfy its
predicate, so `Stop` may have to wait for it). `TcpConnection` assumes that the io and
base loops go on, that a socket polled for room again and again takes a byte in the
end, and that what the peer sent before it closed is finite; these two are strong
fairness, since other steps of the loop come in between. `TcpServer` assumes that the
loops go on, and that logging does not hide EMFILE every time; loop 0 runs its functors
between events (strong, for the acceptor's steps come in between). `Connector` assumes
that the loop goes on, that threads finish their calls, and that the server can be
reached: connect() and the handshake succeed in the end if they are tried for ever.

## What was found

* `thread_join`. `Loop()` resets `quit_` (`EventLoop.cc:84`). If `~EventLoopThread`
  calls `quit()` between the publication of `loop_` and `loop()`, the quit is erased
  and `Join()` never returns. `JoinReturnsOnceLooping` says that all is well from
  then on.
* `timer_addrace`. `AddTimer` reads `timer->Sequence()` after it has handed the timer
  to the loop (`TimerQueue.cc:85`); the loop may have run and freed it.
* `conn_forceclose`. `ForceClose` in another thread tests and then sets `state_`; if
  `HandleClose` comes in between, the connection is closed and removed twice.

More cases the passing instances stay clear of:

* `Shutdown` and `ForceClose` of other threads: `conn_forceclose` shows what goes wrong.
  `conn_data` has them too, for what becomes of the data; `conn_close` and `TeardownIsSafe`
  have them in the io loop only, and so has `ClosesWhenAsked`.
* With `ReadControl = TRUE` in `TcpConnection_close.cfg` (under `Spec`, without its
  liveness properties), `HandleCloseAssert` fails:
  `StartRead` and `StopRead` do not look at `state_`, and put the channel of a closed
  connection back in the epoll set. Also `Epoll::UpdateChannel` adds a channel that
  was deleted even if it has no events, so that closing a connection whose reading was
  stopped adds it again.
* With `ServerGoes = TRUE` there, `RemoveAsserts` fails: `ConnectDestroyed` clears the
  events of a connected connection only, and `~TcpServer` may meet one in
  `kDisconnecting`.
* `LogFile`: if the clock is set back, no file is rolled and nothing is flushed until it
  has passed the last roll again; `RolledByPeriod` and `FlushedInTime` are claimed for a
  clock that was not. Lines are kept and names stay distinct in any case. If a flush
  fails, `lastFlush_` moves on and the lines wait for the next one, and if the close of
  a rolled file fails they are lost without a word; `FlushedInTime`, and that only the
  last file has lines in its buffer, are claimed until a flush or a close has failed. In
  any case the clock is looked at by every `checkEveryN`-th line only: what
  `RolledInTime` says of periods and flushes holds at those checks, and nothing bounds
  the wait in between.
* `Acceptor`: if another thread opens a file between the close and the open of the spare
  descriptor, it is lost for good (`idleFd_` is -1), and at the next EMFILE the loop
  spins over a backlog it cannot take from. `SpareKept` and `BacklogDrains` say that this
  is the only way.
* `EventLoopThread`: the `wakeup()` in the destructor's `quit()` may be called on a loop
  that has seen `quit_`, has returned and is off its thread's stack; the comments in
  `EventLoop.cc:111-113` and `LoopThread.cc:22-26` know of it. `LateOnlyAfterQuit` says
  that it is late only then, and `PointerValid` that nothing else is.
* `Send` in another thread, then `Shutdown` in the io loop: the shutdown overtakes the
  queued data, the write fails and `DoSendInLoop` gives the data up. `DataDelivered`
  excepts data that was given up, so it shows order and integrity, not that this loss
  cannot happen.
* `ReadToBuffer`: `src/test/file/file_basic_test.cc:41-42` expects `line_count *
  sizeof(buf)`, 19000, of a file of 1000 lines of 18 bytes. The code reads at most
  `kBufferSize - 1`, 16383 bytes, which `BufferTerminated` says, and the file has only
  18000 (`sizeof` counts the terminator that `strlen` does not), so that the test cannot
  pass.
* A `Cancel` in the loop thread of a timer that another thread is adding may come
  before the queued `AddTimerInLoop`, and has no effect. `CancelIsFinal` is therefore
  claimed of the timers that `CancelInLoop` finds.

## What is proved

`tlapm M.tla` for the eight modules below, for all values of the constants. Nothing is
assumed but the named `ASSUME` of each component's module. Those give the constants their
types and keep special values apart (`Null` is no buffer and no time, `"loop"` is no other
thread); beyond that, `TimerQueue` assumes that there is a longest interval,
`AsyncLogging` that the limit for dropping is at least two buffers, `LogFile` that periods
and the number of lines between checks are not zero, and `Connector` that the first delay
is not above the largest one. Bounds such as `MaxQueue` are arbitrary numbers in the proofs.

| module | theorem | states |
|---|---|---|
| `EventLoopProofs` | `FlagsFollowLoop`, `NoLostWakeups`, `ImplementsTaskQueue` | `FlagsExact`, `NothingLost`, `IsTaskQueue` |
| | `PointersValid`, `ThreadEnds` | `DanglesOnlyInQuit`, `NoThreadLeftLooping` of `LoopThread` |
| | `ThreadUsesLoop`, `ThreadKeepsPromises` | `ThreadSpec` implies `Spec` of `EventLoop`; hence `NothingLost`, `IsTaskQueue` |
| `LoggingProofs` | `BackendAsserts`, `FullBufferIsTold`, `LinesArrive` | `AssertsHold`, `FullBufferNotifies`, `LinesAccounted` |
| | `LogIsKept`, `LogRollsInTime` | `LogKept`, `RolledInTime` of `LogFile` |
| `TimerQueueProofs` | `SetsStayConsistent`, `CancelledStaysOut`, `TimerfdStaysArmed` | `TimersConsistent`, `CancelIsFinal`, `TimerfdArmed` |
| `ConnectorProofs` | `AttemptsInOrder`, `SocketsOwned`, `StopIsFinal` | `AttemptsOrdered` while `starts <= 1`, `SocketsAccounted`, `StopStops` |
| `TcpServerProofs` | `TablesStayInStep`, `DescriptorsKept`, `SharesStayEven` | `TablesAgree`, `DescriptorsAccounted`, `RoundRobin` |
| `TcpConnectionProofs` | `WatchedWhileBuffered`, `UserIsTold`, `TeardownIsSafe` | `WriteInterest`, `CallbacksTold`, `TeardownAsserts` if `Disciplined` |
| `TcpStreamProofs` | `DataArrives` | `DataDelivered` |
| `ConnBufferProofs` | `BufferStaysSound`, `RoomIsManaged`, `ImplementsByteQueue` | `BufferAsserts`, `SpaceManaged`, `IsByteQueue` |

Every proof has one lemma or step per action. The inductive invariants, and why the
properties need them:

* `EventLoop`. `FlagsExact` is inductive: the types, and that `looping_` and
  `callingPendingFunctors_` follow the program counter. `NoLostWakeup` and `NoLostQuit`
  speak of the loop in poll only, and by then it is too late to say why a wake-up is
  there. `WakeInv` makes the promise for every place from which the loop gets to poll
  without taking the queue again, that is from the swap on and outside `Loop()`. For the
  refinement, each step maps to a step of `TaskQueue` or a stutter; `BatchInv` (the local
  vector is empty outside the run of the functors) makes the swap a stutter.
* `LoopThread`. `ThreadInv` says where `threadFunc` is for each place of the owner and the
  other way round, who set a `quit_` that is set, and that a loop that is over has
  `quit_` set. The steps of the loop in between
  need of `EventLoop` only what they do to `pc` and `quit_`. The composition is also a
  refinement: every step of `ThreadSpec` is a step of `EventLoop` or a stutter, so what is
  proved of a loop holds for one that is published, quit and joined by its thread object.
* `AsyncLogging`. The refill needs two buffers exactly if `nextBuffer_` was given away,
  and it was only if a full buffer had been queued: `RefillInv` carries this through the
  wait. `LinesInv` is that and `LinesAccounted`: the exchange of buffers keeps lines in
  order because the back-end has nothing left to write when it takes the queue.
  `InOrder` speaks of `Stages`, the four places of lines in a row; `FourParts` turns it
  into the order within each place and between any two of them, and every action moves or
  extends whole places.
* `LogFile`. Names increase because the open file bears the second of the last roll, and
  none is begun before the clock is beyond it. `FileInv` adds to `LogKept` and
  `RolledInTime` this fact, that the period is that of the last roll, and that while the
  clock was never set back (`InSequence`) the last roll, the last flush and the present
  come in this order and no unflushed line is older than the last flush (if none
  failed). A roll that is refused then falls in the second of the last one, in which no
  line is late.
* `TimerQueue`. That the two sets agree depends on no Timer being freed or added twice.
  `TimerInv` gives every live Timer one owner (`timers_`, the vector of `HandleRead`, or a
  functor that is to add it: `OwnedOnce`), every sequence one Timer (`SeqsUnique`, which
  is what makes a `TimerId` with a reused address harmless), and says that a cancelled
  timer is freed or noted for `Reset` (`CancelNoted`). `InTime` is `TimerfdArmed` stated
  for every timer instead of the earliest one.
* `Connector`. `ChannelInv` ties the channel, the descriptors and the functor that resets
  the channel to `state_`; it holds however often `Start` is called, and so do
  `SocketsAccounted` and `StopStops`. `AttemptInv` says that there is one attempt,
  wherever it is: in a caller, a functor, a timer or the socket. It counts them, so the
  proof rests on lemmas about the number of functors of a kind in a queue. `starts <= 1`
  is the discipline that nothing in the class enforces; the run has `MaxStarts = 1`.
* `TcpServer`. A descriptor is reused as soon as it is closed, so `TablesAgree` rests on
  who owns each one (`FdsOwned`) and on which functor is queued where for a connection in
  each state (`ConnInv`: each at most once, and always the one that is due). `ServerInv`
  puts these together with the tables and the spare descriptor's free one. `EvenlyGiven`
  counts connections per loop relative to `next_`.
* `TcpConnection`. `BufferInv` is `WriteInterest` and the promises to the user, for every
  state until the connection is closed, together with the one fact about functors that
  they need: `ConnectDestroyed` comes after the connection has left the map. `TeardownInv`
  goes through the life of a connection in phases (`Starting`, `Running`, `Ending`) and
  counts `ConnectDestroyed`. It needs `Disciplined`: other threads only send, nobody stops
  or starts reading, and the server outlives the connection. TLC gives a counterexample
  without each of the three (see *What was found*).
* `TcpStream`, the stream of the same module. `StreamInv` orders the bytes on the wire, in
  the buffer and in functors of the batch and of the queue, in this order, and says that a
  byte that was sent is in one of them unless the connection gave up bytes.
* `ConnBuffer`. `BufferInv` is `TypeOK` and one fact more: the vector is never shorter
  than `kCheapPrepend`, without which `RetrieveAll` would put the indices beyond its end.
  The rest is an algebra of sequences: `At(s, r, v)`, that `s` has the bytes `v` behind its
  first `r`, has a lemma for every copy, move and resize, and every operation has one that
  gives its readable bytes. The refinement then has one step per operation of `ByteQueue`.

What stays with TLC, and why:

* Liveness under fairness (`RequestsServed`, `DueTimerRuns`, `LogServed`, `Connects`, the
  closing of connections, ...): out of the prover's reach.
* `IntegersSurvive`: that `NetworkToHost` undoes `HostToNetwork` for every width is what
  a recursive function computes for every input, which needs induction over data, for
  which no installed prover can use the library's theorems.
* `TextRight` and `ReadsWhole`: `LogStream` and `FileReader` are recursive operators.
* The violations are statements about one behaviour: TLC's counterexample is the proof.

## What is not modelled

* Functors of `Send`, `Shutdown`, `StartRead` and `StopRead` bind a raw `this`, and the
  close callback a raw `TcpServer`; the source marks both as unsafe. The model does
  not run such a call on an object that is gone.
* The connection callback that `ConnectDestroyed` makes in the middle may only make
  calls before or after the handler in the model.
* Empty messages, and memory or system-call failures that end in `abort`.
* Destructors of `EventLoop`, `TimerQueue`, `Acceptor` and `Connector`; the contents of
  log files; what a user does with the input buffer of a connection.
* `TcpServer::Start` is modelled in the loop's thread: its comment says that it is thread
  safe (`TcpServer.h:52`), but the pool it starts asserts the loop's thread
  (`LoopThreadPool.cc:24`). `accept` errors that end in `LOG_FATAL` stop the process.
* `getLoopForHash` and `getAllLoops`, which nothing calls and which change nothing.
* `FormatSi` and `FormatIec` beyond 2^31 (TLC's integers), where their pattern repeats
  with the next units; doubles; the text of times and of events.
* `FileReader::GetFileContent`: it reads nothing of a file below 5 KiB, and its loop does
  not end for a larger one, as nothing in it changes its condition.
* `Thread`'s latch and detaching destructor: `Start` waits only for the thread's id.
* `http/*`: unfinished. `ConnectionManager` is declared and nowhere defined, cases of the
  parser fall through into each other, and it has no way to go on with a request that
  arrived in parts; there is no behaviour yet to hold the code to.

## Plan

`LogFile` under `AsyncLogging`, and `ConnBuffer` under `TcpConnection`, as compositions.
