# HTTPServer_base_muduo in TLA+

This directory models the networking core of the repository (a muduo-style
reactor library, `src/net`), the HTTP server on top of it (`src/http`), the
asynchronous logger and the thread pool (`src/base`) in TLA+. TLC checks the
models on small instances, and TLAPS proves the main safety properties of ten
of them for every value of their constants.

`PROJECT.json` lists the components, the runs, the proofs, the hazards each
property is for, the mutant that each property must catch, and for every
definition the source lines it models.

To check: `tlc -config MCX.cfg MCX` for a run (`tlc -config MCTcpServerDestroy.cfg
MCTcpServer` for the finding's), `tlapm XProofs.tla` for a proof module.

## 1. Inventory

The program is `src/http/bin/muduo_server.cc`: one `HttpServer` with five I/O
loops beside the base loop, an idle time of five seconds, and a FastCGI
connection to a PHP server. It is built with `-DNDEBUG` (`src/common.mk`):
`assert` is compiled out, so that a failed assertion is undefined behaviour of
what follows, while `assertInLoopThread` and `LOG_FATAL` still abort.

| Part | State | Operations | What is hard | What makes it correct |
|---|---|---|---|---|
| **EventLoop** (`net/EventLoop`) | `quit_`, `pendingFunctors_` under `mutex_`, `callingPendingFunctors_`, the eventfd, `activeChannels_` | `loop`, `quit`, `runInLoop`, `queueInLoop`, `wakeup`, `handleRead`, `doPendingFunctors` | any thread queues and quits at any point of an iteration; the wake-up is a decision taken on a flag | no sleep on work that is queued; each functor once, in order; `quit` ends `loop` |
| **Poller, Channel** (`net/Poller`, `net/Channel`) | `pollfds_`, `channels_`, each channel's `index_` and `events_` | `updateChannel`, `removeChannel`, `poll`, `fillActiveChannels` | swap-and-delete, hidden descriptors `-fd-1`, one descriptor used by two objects in turn, raw pointers in the active list | vector, map and indices agree; no dangling channel is dispatched |
| **TimerQueue, Timer** (`net/TimerQueue`) | `timers_`, `cancelingTimers_`, `callingExpiredTimers_`, the timerfd | `addTimer`, `cancel`, `handleRead`, `getExpired`, `reset`, `insert` | cancellation from callbacks of the same batch; re-arming; times already past | the timerfd covers the earliest timer; a cancelled timer stays away, a repeating one stays |
| **Buffer** (`net/Buffer`) | a vector and two indices | `append`, `readFd`, `retrieve`, `unwrite`, `prepend`, `shrink`, `makeSpace` | boundary arithmetic, content copied onto itself | content is a queue of bytes; the headroom is kept |
| **TcpConnection** (`net/TcpConnection`) | `state_` (no lock), `outputBuffer_`, the channel, callbacks | `send`, `shutdown`, `forceClose*`, `handleRead/Write/Close`, `connectEstablished`, `connectDestroyed` | partial writes, `EWOULDBLOCK`, resets, calls of other threads that test and set `state_` | bytes in order and complete, FIN only after the last of them, no use of the channel after its removal |
| **TcpServer, EventLoopThreadPool** (`net/TcpServer`, `net/EventLoopThreadPool`) | `connections_`, the pool's `next_` | `newConnection`, `removeConnection(InLoop)`, `getNextLoop`, `start` | closing hops from the I/O loop to the base loop and back, lifetimes by `shared_ptr` and raw `this` | a channel in the poller never outlives its connection; every closed connection is freed |
| **Connector, TcpClient** (`net/Connector`, `net/TcpClient`) | `connect_`, `state_`, `channel_`, `timerId_`; `retry_`, `connection_` | `connect`, `disconnect`, `stop`, `enableRetry`; attempts, `retry`, `restart`, `removeConnection` | members shared with the user's thread without a lock; a channel that may be destroyed only later | one attempt at a time, no lost socket, `stop` holds, the client connects in the end |
| **HttpContext, StaticFile, HttpResponse** (`http/`) | the parser's state in each connection's context; a file's status | `onMessage`, `parseRequest`, `onRequest`, `server_static` | requests cut anywhere or run together; who decides to close | the division into reads does not change the replies; a client can tell where each ends |
| **HttpServer** (`http/HttpServer`) | `connectionList_`, `ReqCGIId_`, `ReqCGIConnMap_`, `CGIConn_` | `onConnection`, `onMessage`, `onCheckTimer`, `server_cgi`, `onCGIConnection`, `onCGIMessage` | a list kept in order by splicing and walked until the first that is not idle; connections that go while php works; state touched from all loops | the idle are closed; an answer of php goes to whom it is for |
| **FastCgi** (`http/FastCgi`) | static records | `makeHeader`, `getRequestId`, `ParseFromPhp` | records cut by reads, 16-bit ids, padding | the stream stays in step |
| **AsyncLogging** (`base/AsyncLogging`) | four kinds of buffers under `mutex_`, `running_`, `latch_` | `append`, `threadFunc`, `start`, `stop` | front ends racing with the swap; a `notify` without the mutex | spare buffers always there, no full buffer slept beside, `start` and `stop` return |
| **LogFile, AppendFile** (`base/LogFile`, `base/FileUtil`) | `count_`, `startOfPeriod_`, `lastRoll_`, `lastFlush_`; the file and its stdio buffer | `append`, `flush`, `rollFile` | files named by the second, a clock that goes back, a day looked at only now and then, a crash | the files hold the lines in order; a day's file ends |
| **LogStream, Logger** (`base/LogStream`, `base/Logging`) | a buffer that is never grown | `operator<<`, `convert`, `~Logger` | numbers written in place in a nearly full buffer | a line reads as what was logged |
| **ThreadPool** (`base/ThreadPool`) | a queue under a mutex, two conditions, `running_` | `start`, `run`, `take`, `stop` | a notify lost, or eaten by a thread that finds nothing | nobody sleeps beside a task or a free place; no task is lost; tasks begin in order |
| **EventLoopThread** (`net/EventLoopThread`) | `loop_` under a mutex | `startLoop`, `threadFunc`, the destructor | `quit` before `loop`, a notify before the wait | `startLoop` and the destructor's `join` return |

The rest wraps system calls (`Socket`, `SocketsOps`, `InetAddress`, `Mutex`),
computes with calendars (`Timestamp`, `Date`, `TimeZone`), reads `/proc`
(`ProcessInfo`) or is used by nothing (`BlockingQueue`).

How the parts interact: an `EventLoop` owns a `Poller` and a `TimerQueue` and
calls the channels' callbacks; `TcpServer` and `TcpClient` give each
`TcpConnection` to a loop and take it back through functors queued with
`queueInLoop`; `HttpServer` is called back by the connection's I/O loop, by the
base loop's timer and by the FastCGI client on the base loop. All crossing of
threads is `queueInLoop`, `quit`, or a member read and written without a lock
(`TcpConnection::state_`, `Connector::connect_`, `HttpServer::connectionList_`).

## 2. Modules

| Module | Models | Abstract specification | Proofs |
|---|---|---|---|
| `EventLoop` | the loop and the other threads | `FunctorQueue`: a FIFO of callbacks | `LoopProofs` |
| `EventLoopThread` (extends `EventLoop`) | the thread a loop lives in, its owner, start and join | `EventLoop` | `LoopProofs` |
| `Poller` | registration of channels | | `LoopProofs` |
| `TimerQueue` | timers and the timerfd | | `TimerQueueProofs` |
| `Buffer` | the buffer as a record | `ByteQueue`: a queue of bytes | `ConnectionProofs` |
| `BufferText` (extends `Buffer`) | integers and lines in a buffer | | |
| `TcpConnection` | output and shutdown | `OutStream`: bytes in order, then a FIN | `ConnectionProofs` |
| `TcpServer` | accepting, connections across loops, their lifetimes | `ConnectionLife`: in the map, up, closing, erased, destroyed | `TcpServerProofs` |
| `TcpClient` | Connector and TcpClient, and their destruction | | `TcpClientProofs` |
| `HttpContext` | requests and replies of one connection | | `HttpServerProofs` |
| `HttpServer` | the list of idle connections; requests to cgi-bin | | `HttpServerProofs` |
| `AsyncLogging` | the logger | | `AsyncLoggingProofs` |
| `LogFile` (extends `AsyncLogging`) | the files the logger writes | `AsyncLogging` | `AsyncLoggingProofs` |
| `LogStream` | the text of a line | | |
| `ThreadPool` | workers, producers, the bounded queue | `FunctorQueue` | `ThreadPoolProofs` |

How they fit together: each module above the loop takes the loop as what
`LoopProofs!LoopIsFifo` shows it to be, a FIFO executor. `TcpServer`,
`TcpClient`, `TcpConnection` and `TimerQueue` have a sequence of pending functors
per loop and run them from the head; a batch is swapped out first
(`SwapPending`) in the two modules where a callback or a timer of the next
iteration can tell the difference. The order inside an iteration (expired timers
and ready channels, then functors) is the order of `EventLoop::loop`.

Names are those of the source. Variables without a counterpart are history
(`sent`, `wire`, `executed`, `cancelled`, `ran`, `lines`, `dropped`), the outside
world (`peer`, `unread`, `closed`, `open`) or the place where a thread has
got to (`pc`, `tpc`, `call`, `phase`, `backend`). Undefined behaviour ends a
behaviour: `ub` or `broken` becomes true and nothing is claimed after it, unless
a property says that it never does (`AssertionsHold`).

**EventLoop.** One action per critical section, system call or access to
`quit_`. `QueueInLoop(t, f)` is the push under the mutex; the write to the
eventfd is the separate `Wakeup(t)`, because the loop may run in between.
`QueueInLoopSelf` decides on the wake-up by `callingPendingFunctors_`. `TestQuit`
is the loop's test before `poll`; `PollWakeup`, `PollIo` and `PollTimeout` are
the ways `poll` returns. The order of the callbacks of one iteration is free.
`runInLoop` is `queueInLoop` from another thread and a plain call from the
loop's own.

**EventLoopThread.** `owner` is where `startLoop` and the destructor have got to,
`thread` where `threadFunc` has. `StartLoop` is one turn of the `while` under the
mutex, `Publish` the critical section that sets `loop_` and notifies, before or
after the owner waits. The loop's own steps are those of `EventLoop`, taken only
while `threadFunc` is in `loop`; when `loop` returns, the thread has ended.
`EventLoopThreadPool::start` does this for one thread after the other.

**Poller.** The three containers as they are, indices starting at 0 and
descriptors with their hidden form. The guards say who may call, as assumptions
on the channels' owners: a channel is removed only without interest and, unless
it is its own event, after the active list has been left; a channel object may
be made anew under the same descriptor only after its removal
(`Connector::resetChannel`). That connections keep to this is a matter of
`TcpServer` (`RegisteredIsAlive`).

**TimerQueue.** `timers_`, a set ordered by expiration and address, is a plain
set here. Time is a counter that may pass between any two steps. `HandleRead` reads
the timerfd and takes the batch; `RunTimer` runs its callbacks one by one, and
each may add and cancel; `Reset` puts repeating timers back and arms the
timerfd. `callingExpiredTimers_` starts with any value, because the constructor
does not set it. `runAt` and `runEvery` are steps of their own: a timer is made
in the caller's thread and added by a functor.

**Buffer.** A buffer is a record (size, bytes, two indices), each member function
an operator on records, with the arithmetic of the source. `readFd` is called
with what the kernel delivers, up to the writable space and `extrabuf`.
`BufferText` adds what users read and write: integers in network order through
the conversions of `Endian.h`, and lines up to CRLF or LF.

**TcpConnection.** Bytes are pairs (message, position). A direct write takes any
part that fits the socket's buffer, would block, or fails for good; `handleWrite`
writes what fits. `send` and `shutdown` of other threads are split at each
access to `state_`. The functor that `send` queues copies its data.

**TcpServer.** One action is one callback on one loop. References are counted by
what holds them: the map, a bound functor, the callback being run. `shutdown`
and `forceCloseWithDelay` of the base loop are split between the test and the
setting of `state_`. Calls bound to a raw `this` may run on a destroyed object;
the model then records the use after free and goes no further. `Listen`,
`Accept` and `AcceptFatal` stand for the acceptor, with the errors of `accept`
that it survives and those it dies of. `Stage` says, from the channel and
`state_`, how far a connection has got in `ConnectionLife`.

**TcpClient.** The user's calls and the loop's steps interleave at each access to
a shared member. Sockets are counted (`open`), so a leak is visible. The delay
of a retry is left out: a timer may expire at any poll. A callback of the loop
may destroy the client; what the loop still refers to by address (functors,
timers, the channel) then shows in `broken` when it is used.

**HttpContext.** The stream is a sequence of tokens (a line as the tuple of its
words, CRLF, a byte of a body), cut into reads everywhere: `Arrive` brings the
next token to the socket, `HandleRead` reads what is there. Each turn of
`parseRequest`'s loop is an action named for the state it is taken in
(`ParseRequestLine`, `ParseHeader`, `ParseBody`); `OnMessage` is what follows the
loop. `body_lenth` has any value of `Garbage` at the start of a call, and the body
stays in the buffer, as in the source. The callback is that of `muduo_server.cc`:
`StaticFile` with an uninitialised `sbuf_` when `stat` fails, and the response's
decision to close.

**HttpServer.** Ages instead of times: `age[c]` is how long ago the connection
was heard from, by a clock that may go back. The list is the sequence that
`push_back`, `splice` and `erase` make of it; `CheckTimer` walks it until the
first connection that is not idle. `connectDestroyed` erases through the iterator
the context keeps (`Down`); where it runs twice (section 5) the second erase is
undefined, and the behaviour ends there (`DownAgain`). On the other side,
`CgiRequest` to `OnCgiMessage` follow a request to cgi-bin to the base loop, to
php and back. A FastCGI header is two units that reads may separate, a record's
id is two bytes. What php writes is a sequence of pieces, of which `parseFromcgi`
tells colons and line ends from the rest; of its result the model keeps whether
it throws (`Throws`), which ends the process. Each STDOUT record is a response of
its own, as in the source.

**AsyncLogging.** One action is one critical section or the work between two.
Lines are numbered in the order of `append`; buffers are sequences of lines with
the capacity test of `FixedBuffer`; a batch above the limit is cut to two.
`start` sets `running_`, creates the thread and waits for `latch_`.

**LogFile.** `WriteBatch` taken apart: one `LogFile::append` per buffer of the
batch, each with the time it reads, and a `flush` at the end. Files are known by
the second in their name; `held` lines are in the stdio buffer of the open file,
so that what a crash leaves is the files without them.

**LogStream.** A stream is a record, `operator<<` an operator on it. `convert` is
the source's do-while with C's division, so the smallest integer takes its way
through negative digits; `top` remembers the furthest byte written, the NUL of a
number included.

**ThreadPool.** One action is one critical section. A thread in a wait is
"waiting" until it is notified or wakes of itself, and "woken" until it has the
mutex again; `Notify` wakes any one of the waiting. `start` creates the workers
one by one, and the first of them makes `run` queue its tasks; before that `run`
calls them itself (`inline`).

## 3. Runs

Every property below is checked with TLC, and for each one a plausible bug in a
named definition (a *mutant*, written next to that definition) is shown to
violate it under the same configuration.

| Run | Instance | Distinct states | What it shows |
|---|---|---|---|
| `eventloop` | an `EventLoopThread`: its owner, 2 more threads, 3 functors, plus the loop's own calls | 15 thousand | `NoLostWakeup`: the loop never sits in `poll` beside queued work or a requested quit without a wake-up on its way. `FifoOnce`: it implements `FunctorQueue`. `QueuedIsRun`, `OwnerReturns`: queued functors are run, `startLoop` and `join` return, without poll's time-out |
| `buffer_queue` | header space 2, initial size 1, extrabuf 2, pieces up to 2 bytes, vectors up to 7 | 7 thousand | `ContentIsQueue`: each call does to the content what `ByteQueue` says. `TextReadsBack`: from every buffer so reached integers and lines read back. `BufferTypeOK`: the indices stay in the vector |
| `poller` | 4 channels on 3 descriptors: descriptor 0, one that two objects share in turn, one more | 167 thousand | `IndexConsistent`, `NoInterestIsHidden` |
| `timers` | 2 timers, one-shot or of interval 1 or 2, clock to 3 | 342 thousand | `TimerfdCoversEarliest`, `CancelDecides`, `AddedIsRun` |
| `tcpserver` | 2 connections, base loop and one I/O loop; one of them kicked when idle and asking for CGI pages | 281 thousand | `RegisteredIsAlive`, `ErasedIsDestroyed`, `LifeSpec` (implements `ConnectionLife`), `ClosedIsFreed` |
| `tcpserver_destroyed_twice` | 1 connection, base loop only | violated | a finding, see below |
| `connection` | 3 messages of 2 bytes, socket buffer of 2, one more thread | 150 thousand | `OutputInStep`, `StreamSpec` (implements `OutStream`), `ShutdownCompletes` |
| `tcpclient` | 2 failed attempts, 3 connections, 4 calls of the user, a destruction at any point | 32 thousand | `OneAttempt`, `SocketsOwned`, `StopIsFinal`, `Connects` |
| `async_logging` | 5 lines, 2 to a buffer, batches cut above 2; files of 3 bytes, days of 2 seconds, a clock to 3 that goes back once | 102 thousand | `AssertionsHold`, `NoSleepOnFull`, `WritesUntilStopped` of the logger; `LinesInFiles`, `RollsByDay` of the files; `LineReadsBack` of the line's text |
| `http_requests` | up to 3 requests of 9 kinds, bodies of 2 bytes, every division into reads | 314 thousand | `CutsDoNotMatter`, `RequestsAnswered`, `RepliesFramed` |
| `http_server` | 2 connections, time-out 1, a loop's lag of 1, a clock that goes back once; 2 requests to cgi-bin, ids of two bytes of 2 values, replies with a record to stderr, in two records, with a colon in the body | 124 thousand | `NearlySorted`, `IdleIsClosed` of the idle list; `AnswersRight`, `CgiAnswered` of the FastCGI path |
| `thread_pool` | 3 producers, 2 workers, 5 tasks, a queue of 2 | 27 thousand | `NobodySleeps`, `TasksKept`, `TasksInOrder` (implements `FunctorQueue`), `CallsReturn` |

### Why these bounds

- *Loop*: three functors give a batch of two with a third one queued by another
  thread or by a functor of the batch; the owner's quit may come at any point
  after `startLoop`.
- *Poller*: three registered channels are the fewest with a first, a middle and
  a last slot; descriptor 0 is there because its hidden form is -1, and the
  shared descriptor because Connector and TcpConnection reuse one.
- *Timers*: two timers give a batch of two in which one cancels the other, and a
  timer that waits beside a batch; the clock leaves room for repetitions of
  different length.
- *Buffer*: all three ways of making space (enough, move to the front, grow) and
  both of reading (with and without extrabuf) occur within vectors of 7. The two
  byte values are also CR and LF, so every content up to that length is a text;
  integers of one to three bytes take every value.
- *TcpServer*: the hazards are about one connection and two loops; the second
  connection is there for the raw pointers of an active list. Beyond that only
  interleavings of independent connections are added.
- *TcpConnection*: with three messages one can be on the wire, one in the output
  buffer and one in a functor; the socket's buffer takes a message and the peer
  may read a byte of it, so direct, partial, refused and buffered writes occur.
- *AsyncLogging*: five lines fill two buffers and begin a third, enough for a
  batch that is cut down beside both of the spare ones. With `MaxBatch` at two a
  batch cut to two buffers is the only long one; the limit of 25 is covered by
  the proof. Three bytes to a file and two seconds to a day let rolls by size, by
  day and refused ones (the same second, a clock set back) follow each other.
- *LogStream*: integers of 8 bits take every value; `kMaxNumericSize` is the
  least that holds the longest of them with its NUL, so a check that is off by
  one writes past the buffer.
- *HttpContext*: three requests show what a reset after a reply leaves to the
  next one. `Garbage` has values below, at and above the length of a body.
- *HttpServer*: two connections are the fewest of which one can hide the other
  from the timer's walk; ages are counted up to the largest the properties speak
  of. `MCHttpServer` lets a behaviour have either a running clock with both
  connections, or two requests to cgi-bin with the clock standing still: the two
  share only the connections' states. A third kind of behaviour has both with one
  connection and one request, where the timer kicks a connection that waits for
  php. Two requests and the program's own first one (id 0) give three ids, of
  which two need the low byte and one the high one. `MaxUnread` has room for one
  reply beside the last unit of another, so that a read may span the two.
- *ThreadPool*: three producers before two places, so that one waits while
  another fills the place a `take` has freed.

Calls are bounded by the number of objects (`Functors`, `Timers`, `Messages`,
`Conns`: each is used once) and by the constants named `Max...` or `Num...`.
`CHECK_DEADLOCK FALSE` is said where the system really stops: a thread that was
joined (`eventloop`, `thread_pool`, `async_logging`), inputs that are used up
(`connection`, `tcpserver`, `tcpclient`, `http_requests`, `http_server`), and
undefined behaviour or a fatal error, which ends the model.

### Fairness

Safety needs none. Liveness is checked under weak fairness of what the code's
own threads do once they have something to do, and of nothing else:

- *EventLoop*: the loop's steps, with poll returning only because the eventfd is
  readable. Neither the ten seconds of `kPollTimeMs` nor other descriptors are
  relied on. A thread inside `queueInLoop` or `quit` gets to its `write`.
- *EventLoopThread*: besides those, `startLoop` and `threadFunc` go on. A wait
  need not end without a notify, and nobody has to destroy the thread.
- *TimerQueue*: the loop's polls, handlers and functors, and time passing.
- *TcpServer*: each loop's steps, calls once begun, and armed timers expiring.
  Peers, accepts and the idle check owe nothing.
- *TcpConnection*: the loop, calls once begun, and a peer that reads. Without the
  peer, output may stay for ever, which is what `forceCloseWithDelay` is for.
- *TcpClient*: the loop's steps and calls once begun.
- *AsyncLogging with LogFile*: the logging thread, including the time-out of its
  wait, and `start` and `stop` once called. That the time-out is needed is part
  of `WritesUntilStopped`: `stop` notifies without the mutex. The clock need not
  go on.
- *HttpServer*: `LoopFairness` has the base loop run what is queued, the check
  timer, the reads of the FastCGI connection and the force-close timers;
  `OtherFairness` has time pass and php answer each request it has. Clients and
  the FastCGI connection owe nothing.
- *ThreadPool*: tasks return, woken threads get the mutex, `join` returns when the
  threads have ended. No wait ends without a notify.

## 4. Proofs

Proved by TLAPS for every value of the constants that the modules' assumptions
allow (`PollerAssumption`, `LogFileAssumption` and so on; `EventLoop` needs none).
Two components share a proof module where their specifications have no state in
common.

**LoopProofs** is about `EventLoop`, `EventLoopThread` and `Poller`.
`LoopTypeCorrect`, `WakeupNeverLost`, `LoopIsFifo`: `NoLostWakeup` speaks of the
moment of `poll` only and is not inductive, since the step into `poll` needs to
know that a functor queued since the swap has caused a wake-up. `LoopInv` says
this for every place outside the window between poll's return and the swap
(`PendingHasWakeup`), which in turn needs `callingPendingFunctors_` to mean what
`queueInLoop` reads it for (`FlagMeansBatch`), and the same for quit
(`QuitHasWakeup`). The refinement maps the queue to what is left of the batch
followed by `pendingFunctors_`; the swap then is a stutter because a finished
batch is empty (`BatchFinished`). `ThreadUsesLoop`: every step of an
`EventLoopThread` is one of its `EventLoop` or a stutter, so what is proved of a
loop holds of every loop of a pool (`ThreadWakeupNeverLost`);
`ThreadTypeCorrect` says that the owner goes on only when the loop is there.

`IndicesAgree`, `NoInterestStaysHidden`: `IndexConsistent` is
not inductive, because `updateChannel` trusts `index_` to say whether a channel
is in the map, and `removeChannel` does not reset it. `IndexedIsMapped` adds that
an index is only stale in a removed object, `MapKeyed` that a channel is filed
under its own descriptor. The work is in `Remove`: the two slots of the swap, the
one in the middle and the one at the end. A channel without interest is hidden
from `poll(2)` by the same invariant: its slot is found through its index.

**TimerQueueProofs.** `NoTimerSleepsThrough`, `CancelDecidesRestart`. A timer is
in one place at a time: on its way once (`QueuedOnce`), in the set or in the
batch (`OnePlace`). `CancelledIsBarred` says what keeps a cancelled timer out:
out of the set, out of the queue, and in `cancelingTimers_` if it is in a batch.

**ConnectionProofs** is about `Buffer` and `TcpConnection`. `BufferTypeCorrect`,
`OperationsAreAQueue`, `BufferImplementsQueue`: each operation has a lemma on
records; it keeps the buffer well-formed and turns the content into what
`ByteQueue` says (`AppendAppends`, `RetrieveTakes`, `PrependPushes`, ...). They
rest on `EnsureMakesSpace`, where the three cases of `makeSpace` meet, and on
`CopiedIs`. `TypeCorrect`, `BytesAddUp`, `OutputStaysInStep`,
`ConnectionIsStream`: the invariant is the conjunction of the types, what is on
the wire and in the buffer, `OutputInStep` and `WireIsPrefix`; the hard step is
`SendMoves`, the direct write, with its five outcomes.

**TcpServerProofs.** `RegisteredStaysAlive`, `ErasedGetsDestroyed`,
`ConnectionsComeUpFirst` (for `UpFirst`, which no run needs beside `LifeSpec`),
`ServerImplementsLife`. The first three share one invariant, which follows a
connection through its states: nothing knows one that is not accepted
(`Fresh`); until it is established only the map knows it and one functor, on its
own loop, that establishes it (`Connecting`, `EstablishedOnce`); and once the map
has lost it `connectDestroyed` is on its way, to its own loop and no other
(`DestroyedAtHome`). A functor is on its way in the rest of a batch or in
`pendingFunctors_`, whichever loop runs; the lemmas are about the two as one queue
(`Todo`) that gains at one end and loses at the other. `ErasedIsDestroyed` needs
all of it although it names no functor: a connection that is erased twice, as in
the finding, is still destroyed.

For `ServerImplementsLife` a second invariant, `LifeInv`, relates the channel to
`state_`, to the map and to what is on its way: a connection that is not closed
has neither `removeConnectionInLoop` nor `connectDestroyed` queued, and one whose
`connectDestroyed` is queued is out of the map. A step is then either `Steady`, it
changes nothing of this, or it `Moves` one connection from a stage to the next.
The second `connectDestroyed` of the finding is a stutter: the course of a life
cannot tell it, which is why `DestroyedOnce` is a property of its own.

**TcpClientProofs.** `OneAttemptAtATime`, `SocketsAreOwned`, `StopsForGood`. An
attempt, a timer and a connection each need `state_` for themselves
(`AttemptInv`), which fails as soon as a second `startInLoop` or a second timer is
possible, so the invariant counts what is queued (`QueueInv`) and what the phases
of the loop leave behind (`PhaseInv`). `SocketInv` counts descriptors: the open
ones are those of the attempt, of the connection, and of connections on their way
to `connectDestroyed`, or one was `Leaked` in the way section 5 names.
`StopIsFinal` is an action property; `StopInv` is what makes a later step unable
to undo a `stop`, but for `restart`. The proof had the model corrected in two
places: an attempt given up leaves `state_` at `kDisconnected`, and what `retry`
does depends on the `connect_` it reads.

**AsyncLoggingProofs** is about the logger and its files. `SparesNeverRunOut`,
`NotifyNeverLost`: that a batch is long enough to refill the spare buffers
follows from what the front ends did before it was swapped out. They take
`nextBuffer_` only when they put a full buffer beside the one in use
(`NextTakenMeansFull`), so a batch for which `newBuffer2` was handed over has two
buffers (`BatchRefills`), and the cut of a long batch leaves two. That
`threadFunc` finds `running_` set is `FlagBeforeThread`. `LogFileUsesLogger`:
with the file, whose appends are steps of their own, the logger still implements
`AsyncLogging`. `DaysAreKeptApart`: `count_` is never behind the number of late
appends (`LateInv`), although rolls by size leave it alone, so the day is looked
at in time.

`CrashLeavesNoHole`: `LinesInFiles` speaks of what a crash leaves and, between
two batches, of the buffers in memory; the invariant says where each line is at
any time (`Placed`): in a file, dropped, in a buffer of the batch that has not
been appended (`LeftOf`), or in memory behind the batch, each place in order and
all of it before the next place. Every step moves lines from one place to the end
of the one before it (`PutAtTheEnd`). The open file is the last one (`FilesOK`),
because `rollFile` takes no second that is not later than the last, so no append
puts a line before older ones, and only what the open file holds back can be
lost. What is dropped with a cut batch is exactly what was not appended
(`DroppedIsLeft`).

**HttpServerProofs** is about both halves of `HttpServer` and about `HttpContext`.
`ListStaysSorted`, `CheckKicksAll`: `NearlySorted` is inductive once it says
how far ages may be below zero, and that the list holds each open connection once
(`TypeOK`); the lemmas are about lists: what erasing and
moving to the end do to the order of two others. `CheckKicksAll` is its
consequence for one walk of `onCheckTimer`.

`AnswersReachAskers`: an answer sent is right because it was right all the way.
`IdsLead` says it of what php works on, of the units on the connection and of
those in the buffer: their two id bytes lead to the connection that asked, as long
as the map knows the id, and no id is given out twice. For a record to be read
where it begins the units must be in step with the parser: what is in the buffer
and unread is whole records (`Framed`), until a read cuts a record in its content
(`cut`, after which nothing is claimed) or the connection goes down and half a
header is left. It assumes of php that its replies are records of the two output
streams (`HttpServerAssumption`), and of the ids that no more than two bytes hold
were given out, as the property does.

`RequestsReadRight`, `NoRequestLeft`, `EveryReplyFramed`: for any number of requests,
any length of bodies and any garbage. The properties look only at `sent` and
`replies`, and none is inductive. `ParserInvariant` says what lies between the
two. The stream, which is the input buffer followed by what the socket holds, is
whole tokens, each the successor of the one before it and the last the last one
sent (`WireInv`, `Linked`); appending at one end and `RetrieveLine` at the other
keep it so (`LinkedAppend`, `LinkedDrop`, `WireStep`). As long as the connection
is open and no body was answered (`Straight`), the parser is at the request behind
the last reply: `Place` says for each of its states at which token the stream
begins and what `request_` holds so far. The first line of the stream is then
known (`LineOf`), so a turn of the loop goes from one place to the next
(`LineTaken`, `HeaderTaken`, `ParserStep`), wherever the reads were cut, and
`OnRequest` has read exactly the request it answers (`ReplyOf`). `RequestsAnswered`
needs in addition that a read without pipelining ends within the request the
parser is at (`PromptInv`), and for bodies that a read of a whole request finds
buffer and parser empty, so that `body_lenth` is set by the call that uses it
(`WholeInv`). Behind a body or a shutdown `Straight` is false and only the framing
of replies is claimed.

**ThreadPoolProofs.** `NobodySleepsInPool`, `NoTaskLost`, `PoolIsQueue`. For the workers the
invariant adds in which phase there are threads at all and that one ends only
after `running_` was cleared (`Phases`); a `notify` then wakes a worker or finds
one awake. For the producers it is a count: places plus woken producers are at
least the limit as long as anybody waits, which uses the finiteness of
`Producers` and nothing about fairness. `NoTaskLost` follows a task from the call
that offers it to the end of the queue (`HandOver`, `Offering`) and from its head
to the begun (`HandedBySteps`); tasks run inline come before all others, because
by `Phases` nothing is queued or begun until there are threads.

Model-checked only:

- everything about liveness and `ENABLED`, which the prover does not reach;
- `TextReadsBack` and `LineReadsBack`, which are about what `convert` and the
  integers of `BufferText` compute for every input. That needs induction over
  data, which the installed provers cannot do.

What the models leave out is out of the proofs as well: in particular,
`OutStream` allows a connection to break, and nothing is claimed after undefined
behaviour.

## 5. Findings

- **A connection is destroyed twice** (`tcpserver_destroyed_twice`).
  `connectDestroyed` "should be called only once" (`net/TcpConnection.h:80`), and
  `removeConnectionInLoop` asserts that it erased one entry
  (`net/TcpServer.cc:103`). On one loop, when the force-close timer and the peer's
  close are reported by the same poll, `forceClose` queues `forceCloseInLoop`,
  `handleRead` closes the connection without changing `state_`, and
  `forceCloseInLoop` closes it once more.

Other behaviours the models contain, which the properties except by name or do
not speak of:

- *Loops and timers.* A quit between `startLoop` and the thread's entry into
  `loop` is forgotten (`net/EventLoop.cc:72`), and the destructor's `join` then
  hangs. A quit that the loop sees before it is woken up may leave `wakeup` with
  a loop that is gone. A cancel on the loop's thread overtakes an add queued by
  another one. Functors queued after the last swap before `loop` returns are not
  run. Events enabled again after `disableAll` stay hidden (`net/Poller.cc:74`).
- *Connections.* `shutdown` tests `state_` and sets it in two steps; when
  `connectDestroyed` runs in between, its `kDisconnected` is overwritten and a
  queued `sendInLoop` updates a channel the poller has removed. A send queued by
  another thread before a `shutdown` of the loop's own may run after the FIN.
- *Client.* A connection established after `Connector::stop` leaks its socket
  (`net/Connector.cc:163`), and a `stop` during a reconnection is undone by
  `restart`. A client destroyed with a connection nobody else holds, in the batch
  in which the connection came up, or while an attempt lasts longer than a second
  is still used by the loop.
- *Server.* `TcpServer::start` is called "Thread safe" by its comment, but starts
  the pool, which asserts that it runs in the base loop's thread.
- *HTTP.* A pipelined request waits for the client's next bytes; a body is not
  taken off the buffer, and one that arrives in a later read is measured with an
  uninitialised length. A line with a version such as HTTP/2.0 is refused after
  its method was set and stays in the buffer: the next read parses it again,
  against `setMethod`'s `assert(method_ == kInvalid)` (`http/HttpRequest.h:46`).
  Without assertions the line is refused again and the second 400 dropped.
- *FastCGI.* A record whose content a read cuts is taken as far as it is there,
  and the stream is out of step from then on. No id is given back, and 16 bits of
  it are sent. A request to cgi-bin before the first FastCGI connection ends the
  process; one after the connection went down is never answered; one that closes
  is shut down before it is sent to php (`http/HttpServer.cc:262`). Each STDOUT
  record is sent as a response of its own, so a page in two records reaches the
  client as two replies. A page with a colon in its body, which `parseFromcgi`
  looks for behind the line it is at, gives a string of negative length
  (`http/HttpServer.cc:169`); the exception is not caught and the process ends.
- *Idle list.* A connection destroyed twice, as in the finding, is erased twice
  from `connectionList_`, the second time at an iterator that is no more
  (`http/HttpServer.cc:206`).
- *Logging.* Lines appended after the last swap are not written by `stop`; a
  clock behind the last roll keeps a file open; an overlong message costs a line
  its number and its newline.
- *ThreadPool.* A producer that waits for room when `stop` is called waits for
  ever.

## 6. Limits

- `Poller`: `poll(2)` reports any subset of the polled channels. `POLLNVAL` and
  the order of callbacks within `Channel::handleEvent` are with the modules of the
  channels' owners.
- `TimerQueue`: its clock does not step; the destructor is left out.
- `EventLoopThread`: what a late `quit` writes to a loop that has returned is
  taken to hit nothing.
- `BufferText`: the comment at `net/Buffer.h:243` asks for `sizeof(int32_t)`
  readable bytes before `readInt64`; the code takes eight, and so does the model.
- `TcpConnection`: errors of `write` other than `EWOULDBLOCK`, `EPIPE` and
  `ECONNRESET` behave as the first; empty messages are left out.
- `TcpServer`: the server's destructor and the data of connections are left out;
  `setThreadNum` is a constant.
- `TcpClient`: `connect` is called once. A second one after a `stop` or a lost
  connection fails the assertion of `Connector.cc:44`. A destruction in another
  thread, "not 100% safe" by the code's own comment, is left out.
- `AsyncLogging`, `LogFile`: lines have one length; `fwrite` does not fail; the
  mutex that a `LogFile` of several threads would have is not used.
- `LogStream`: the text of times, levels and doubles is left out, and so is the
  time string each thread keeps for a second.
- `HttpContext`: one connection, static files; the text of replies is left out.
- `HttpServer`: changes of `connectionList_` do not overlap, as when every
  connection is on the base loop; with I/O threads the list is a data race. The
  parameters sent to php (`makeNameValueBody`, and `Params` with its buffer of
  1024 bytes that it does not check) are left out, as are the headers and the body
  that `parseFromcgi` takes from a page that does not make it throw, and the
  stream after a cut record.
- `ThreadPool`: exceptions of tasks, which abort the process, and the thread init
  callback are left out.

Not modelled, because there is no state or ordering to get wrong, or the program
does not use it: `BlockingQueue` and `BoundedBlockingQueue` (unused), the
calendar computations of `Timestamp`, `Date` and `TimeZone`, `ProcessInfo` and
`ReadSmallFile`, `InetAddress` and the thin wrappers of `SocketsOps`, the singleton
and thread-local templates, and the tests.

## 7. Where it could go on

`connectionList_` under the interleavings of several I/O loops, where each step
of `splice` and `erase` is an action, to say which of its fields a race can
corrupt.
