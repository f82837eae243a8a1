# A TLA+ model of the HTTP/WebSocket server's reactor

This directory holds TLA+ modules that model the C++ server under `src/`, the
TLC configurations that check them on small instances, and theorems about them
proved with TLAPS. File and line references are to `src/src/...`.

To check a module: `tlc -config MCServer.cfg MCServer`; to check the proofs of a
module: `tlapm EventLoopProofs.tla`.

## 1. The system

The program is a multi-threaded reactor in the style of muduo, with an HTTP and
a WebSocket server on top.

| Component (source) | State it keeps | Operations |
|---|---|---|
| EventLoop (`Event/EventLoop`) | `quit_`, `callingPendingFunctors_`, `pendingFunctors_` under `mutex_`, `wakeupfd_`, `activeChannel` | `loop`, `quit`, `runInLoop`, `queueInLoop`, `wakeup`, `handleRead`, `doPendingFunctor` |
| Epoll, Channel (`Event/`) | the kernel's interest list; a channel's `events_`, `revents_`, `inEpoll`, `tie_` | `updateChannel`, `del`, `Epoll_wait`; `enable*`, `disable*`, `tie`, `handleEvent` |
| EventLoopThread (`Pool/EventPool`) | `loop_` under `mutex_` and `cond_`, the thread | `start`, `threadFunctor`, destructor |
| EventLoopThreadPool | `loops_`, `next_` | `start`, `getNextLoop` |
| Acceptor, Socket (`Socket/`) | the listening socket | `listen`, `handleRead` (accept) |
| Server (`Socket/Server`) | `connections_`: descriptor to ConnectionPtr | `new_Connection`, `removeConnection`, `removeConnectionInLoop`, destructor |
| Connection (`Socket/Connection`) | `state_`, channel, socket, input and output buffer | `connectEstablished`, `connectDestroyed`, `send`, `shutdown`, `forceClose` and the handlers |
| Buffer | `readerIndex`, `writerIndex`, bytes | `append`, `retrieve*`, `readFd`, `makeSpace` |
| TimerQueue, Timer (`Time/`) | `timers_`, `active_timer_`, `cancelingTimer_`, timerfd | `addTime`, `cancel`, `handRead` |
| ThreadPool (`Pool/Thread`) | task queue, `running_` | `start`, `add`, `stop`, `runInThread` |
| AsyncLogger, LogFile (`Log/`) | current, next and full buffers; file, counters | `Append`, `ThreadFunc`, `stop`; `Append`, `rollFile` |
| HttpContext, HttpServer (`Http/`) | parse state and request per connection | `ParseBuffer`, `onMessage`, `onRequest` |
| WebSocket (`WebSocket/`) | handshake state per connection | `onMessage`, `handleData`, `encodeFrame`, `decodeFrame` |

### How they interact

* A loop's thread repeats: `epoll_wait`, the handlers of the active channels, the
  functors queued so far. Other threads reach a loop only through `queueInLoop()`
  (a mutex-protected vector plus a write to the eventfd) and through `quit()`.
* The acceptor's loop accepts a client, enters the connection in `connections_`
  and sends `connectEstablished` to the connection's I/O loop.
* Closing starts on the I/O loop (`handleClose`), goes to the acceptor's loop
  (`removeConnectionInLoop` erases the table's entry) and back to the I/O loop
  (`connectDestroyed`). The pointers in the table, in queued functors and in the
  application decide when the `Connection` and its descriptor go.
* `epoll` and `activeChannel` hold plain `Channel*`; `tie_` guards the dispatch.
* HttpServer's callbacks run on the I/O loop and call `send()` and `shutdown()`.

### What is hard here, and what makes each part correct

* EventLoop: a push races the swap of the vectors and the entry of `epoll_wait`.
  Correct: no functor lost, doubled, reordered or left until the timeout; the
  eventfd always drained.
* EventLoopThread: two threads hand over a pointer to an object on one's stack.
  Correct: `start()` returns, the loop outlives its use, the destructor returns.
* Server and Connection: a close takes three hops between two threads, while the
  peer, the application and the kernel (descriptor reuse) go on. Correct: table
  and connections agree, no dangling channel, each close announced once, the
  destructor finds an orderly end, descriptors are released.
* Output: direct and buffered writes share a stream. Correct: order and
  completeness, interest in `EPOLLOUT`, nothing left behind the FIN.
* TimerQueue: callbacks add and cancel timers while others are being handled.
  Correct: the two containers agree, no Timer leaks, no sleep past the first
  timer, no callback early or after deletion.
* ThreadPool: workers test `running_`, look at the queue and pop outside the
  mutex. Correct: nobody sleeps over a task or over `stop()`, tasks begin once and
  in order. What is outside of the mutex races other workers and, with one worker
  too, `add()`; a lone worker must be disturbed by nothing else.
* Buffer: two indices into a vector that grows and is compacted. Correct: the
  indices stay ordered, no byte is lost or repeated, there is room for what is appended.
* HTTP and WebSocket: a stream cut anywhere meets parsers that keep a state per
  connection. Correct: each request is answered from itself alone, in order, and
  nothing follows an answer that ends with the stream; frames come back whole.
* AsyncLogger: buffers change hands between loggers and a writing thread. Correct:
  what was logged before `stop()` is in the file when it returns.

`PROJECT.json` lists the hazards line by line, with the properties that cover
each one or the reason why none does.

## 2. The modules

| Module | Models | Remarks |
|---|---|---|
| `Mailbox` | what an EventLoop promises: a FIFO of functors, each run once, until the loop is left | abstract specification |
| `EventLoop` | one loop's thread, foreign callers, the eventfd | implements `Mailbox` |
| `EventLoopThread` | the owner and the thread around an `EventLoop` | `EL == INSTANCE EventLoop`, composed |
| `Server` | accepting, table, connection state, channel, ownership, several loops | a loop is what `EventLoop` promises |
| `ForeignClose` | `Server` plus `forceClose()` from another thread | extends `Server` |
| `ConnectionOutput` | `send`, `shutdown`, `handleWrite`, output buffer, socket, client | one connection on its loop |
| `TimerQueue` | `addTime`, `cancel`, `handRead`, `reset`, the timerfd, the clock | one queue on its loop |
| `ThreadPool` | the owner, the workers and the threads that add tasks | one pool, started once |
| `Buffer` | the byte buffer | operators on records, with the code's names |
| `HttpContext` | the parser | extends `Buffer` |
| `HttpServer` | `onMessage`, `onRequest`, the response, `main.cpp`'s application | extends `HttpContext` |
| `WebSocketServer` | handshake, frame codec, answers | extends `HttpServer` |
| `Services` | one connection from the client's bytes to its answers, through both Buffers | composes the four before it |
| `AsyncLogger` | loggers, the logger's thread, `stop()`, FixedBuffer, LogFile | |
| `MC*` | instances for TLC | model values and bounds only |
| `*Proofs` | theorems about the module before `Proofs` | TLAPS; `ServicesProofs` also holds those about `Buffer`, the parser and the codec, which it rests on |

Definitions whose comment begins with "Variant" are mistakes made on purpose: a
plausible bug in the definition that follows. Each property is known to fail
when a certain variant takes the definition's place (`mutants` in
`PROJECT.json`), so none of them holds by accident.

### EventLoop

`pendingFunctors_` is the shared vector, `functors` the local one of
`doPendingFunctor()`. A push and a swap happen under `mutex_` and are one step
each; the two assignments of `callingPendingFunctors_`, the `wakeup()` after the
push, and the reset of `quit_` on entry of `loop()` are steps of their own, so
that another thread can come in between. `loopPC` follows `loop()`:

| `loopPC` | place in the code |
|---|---|
| `enter` | before `quit_ = false` (EventLoop.cpp:59) |
| `test` | `while(!quit_)` |
| `poll` | in `epoll_wait` |
| `dispatch` | the loop over `activeChannel` |
| `swap` | `callingPendingFunctors_` set, vectors not swapped yet |
| `run`, `functor` | between two functors, inside one |
| `left` | `loop()` returned |

The loop's own thread calls `queueInLoop()`, `runInLoop()` and `quit()` only
from a handler or a functor (`InCallback`). In the program nothing is queued on
a loop from its own thread before `loop()`.

### EventLoopThread

`CheckLoop` is one test of the `while` in `start()` together with the wait, under
`mutex_`; `Publish` and `Unpublish` are the two critical sections of
`threadFunctor()`. `Finish` destroys the `EventLoop` on the stack. `Destroy` is
the destructor's unlocked test of `loop_`; it may come as soon as `start()` has
returned, also before `loop()` was entered. The owner is the only thread that calls
`quit()`, as in `src/`.

### Server

`conn[c]` is a Connection with its Channel: `state_`, descriptor, loop, events,
membership in epoll, `tied`, the numbers of "up" and "down" calls of
`connectionCallback_`, and `ended`, the history variable that counts the runs of
`connectDestroyed()` (`End`). `Alive` and `Destroyed` are derived: a Connection lives
while `connections_`, a functor (queued or in a running batch, whose vector keeps
all its functors to the end) or the application refers to it. The functor of
`forceClose()` captures a plain `this` and therefore does not count (`Owns`).
The kernel gives out the lowest descriptor that no living Connection holds
(`FreeFds`, `Accept`).

A handler or functor is one step: within a loop they run one after the other and
touch other loops only through one final `Enqueue`. `MessageCallback` stands for
HttpServer and any other application: it may shut down or force-close its own
connection or one it kept a pointer to, on the same loop. An application that does so
from `connectionCallback_` (Connection.cpp:67, :199) is not modelled; none of `src/`
does. `Hold` and `Release` are the application's: it copies the pointer it got in a
callback and drops the copy at any time. `NewConnection`
includes the advance of `next_` and, with no I/O threads, the direct call of
`connectEstablished()`.

### ConnectionOutput

A byte is a pair of message and position. `sndbuf` is what the kernel took and
the client has not read. `Takes` says how much a `write()` may take: at least one
byte if there is room, none otherwise. `accepted` is a history variable: the
bytes `sendInLoop()` took charge of (it drops them when the write fails with
EPIPE or ECONNRESET). `HandleClose` models the close after the client's end of
stream or reset; `forceClose()` is in `Server`.

### TimerQueue

EventLoop never constructs its `TimeQueue_`, so the class is modelled on its own.
A Timer is its sequence number; `timer[t]` says whether it exists and when it
expires. `timers_` is the set of (expiration, timer) pairs, `expired` the vector
of `handRead()`, `toRun` the part of it not yet run. `pc` is `polled` when
`epoll_wait` has reported the timerfd and handlers of other channels may still
come first, `expired` between two callbacks, `callback` inside one. Callbacks
and other code on the loop's thread may `AddTime` and `Cancel`
(`MayCall`); `Reset` is the end of `handRead()` with all of `reset()`.
`callingExpiredTimers_` is not initialised by the constructor, so `Init` allows both values.
`cancelingTimer_` is left out because the only statement that fills it
is the invalid access of `Cancel`. The clock goes on between any two steps and is
not set back; the timerfd, on another clock, may become readable early. An
`AddTime` may ask for a time that has passed, 0 included, which `reset()` takes
for an invalid one.

### ThreadPool

A region under `mutex_` is one step. `workerPC` follows `runInThread()`: `test`
(`while(running_)`), `lock` (the predicate of the wait), `asleep`, `look` (the
unlocked `tasks_.empty()`), `front`, `pop`, `run`. `Push` is the region of `add()`,
`Notify` its `notify_one()` after the release; a task may add tasks. The accesses
of `Look`, `Front` and `Pop` (ThreadPool.cpp:84-88) are unlocked, and `std::deque` allows
no access while another thread changes it. Where one overlaps the access of another
thread, either both have their effect or the outcome is `undefined`: `PushRaces`
(`add()` pushes at that time, which needs one worker only), `PopRaces` and `WaitRaces`
(another worker, or an empty queue). Accesses that are unordered but do not overlap are
taken to have their effect, and `running_`, read outside of the mutex too, is read
atomically. `fate` is `terminated` when a joinable thread is destroyed; nothing is
said of what follows either. Tasks queued at `stop()` are left. `Server` constructs a
pool and starts it with its second argument, which no server passes; nothing in `src/`
calls `add()`.

### Buffer

A Buffer is a record of `buffer_`, `readerIndex_` and `writerIndex_`. `ReadFd` is
`readv` into the vector and the stack buffer of 65 535 bytes (`ExtraSize`), the rest
appended. `KCheapPrepend`, `KInitailSize` are parameters, so that a small instance
grows, moves and wraps.

### HttpContext, HttpServer, WebSocketServer

These are operators: context and buffer in, new context, buffer and the calls of
`send()` and `shutdown()` out, because a callback is one step on its loop. A cell of
the Buffer holds a token: a word, a separator, CR, LF, a line of a response's
head, a part of a frame. Masking is the symmetric difference of key sets: its own
inverse, like the exclusive or. What the code does and one may not expect is
modelled as it is:

* a header's value keeps its colon, so `Connection: close` and `Keep-Alive` are never
  recognised, and no upgrade request passes the tests of `onMessage`: each one is
  answered with 400 and `shutdown()`, then the handshake's answer is dropped by
  `send()` while the context becomes `kHandsharked` all the same;
* `handleRead()` discards what the parser left: a request line cut by a segment
  is lost; what follows a head in its segment is its body, a pipelined
  request included; `Content-Length` of a request is not looked at;
* from 126 bytes of payload on `encodeFrame` writes no length; a Ping is answered
  with an empty Pong; a Close frame is answered but closes nothing.

In a request line with a method and only one space the parser builds
`std::string(end + 1, end)`, which throws, and nobody catches it (`Throws`): the process
ends, and `Services` takes no step behind such a segment (`Fatal`). A request line can
become one by the cut of the stream (a body cut from its head, as in the script `Put`).
In `KGotAll` the parser's loop has no branch and does not end; `ServicesInv` says that
no message finds the context there. Frames that arrive in parts are outside the inputs
(the decoder reads beyond the data).

### Services

`script` is a client: its service, its requests or frames and the places inside of
lines where its TCP may cut the stream; it may cut at the end of every line anyhow.
`HandleRead` is `handleRead()`, the whole message callback with its calls, and the final
discard. `clean` records whether every segment so far ended at the end of a line
and none held parts of two requests (a whole frame or request for WebSocket): what
the servers are written for. `AnswersMatch`, `EchoFaithful`, `AnswersArrive` and
`UpgradesServed` speak of such streams, the other properties of all. `Expected` is what the
client should get by its requests as it wrote them, `Connection: close`, `Keep-Alive` and
an upgrade included. The servers cannot recognise these headers, so `AnswersMatch` and
`AnswersArrive` stop at the first request that is misread for it (`Misread`), and
`UpgradesServed` says what an upgrade should get: it fails, see `upgrade_served`. `EchoFaithful` says that what is given to
`send()` behind the words of the handshake's answer is the frames' answers and nothing
else. `ScriptsAssumption` says what a script is: requests whose words are no separators,
and for the WebSocketServer a request first, then frames (or more requests). `Forget` drops the values of
cells that cannot be read again. `ServicesInv` is the inductive invariant: buffers, the
whole output, the parser's context (`ContextOK`: every header's value still begins with its
colon; never in `KGotAll`), and that a connection which handles frames is no longer
`kConnected`. Per callback at most one `send()` has an
effect, because the rest follow a `shutdown()`. Closing by the client is in `Server`
and `ConnectionOutput`.

### AsyncLogger

`LogLine` is `Append()`; `Swap` is the critical section of `ThreadFunc()`, entered at
once or after `wait_for`; `WriteOut` the rest of the round. Whether a write rolls or
flushes the file depends on the clock and on `WrittenBytes`, which nothing
initialises: a free choice.

## 3. The runs

| Run | Instance | What it shows |
|---|---|---|
| `event_loop` | 2 foreign threads, 3 functors, 1 channel, 9 264 states | `LoopInv`, `NoLostWakeup`, `WakeupDrained`, and that the loop implements `Mailbox`, liveness included |
| `event_loop_thread` | 2 functors, destruction at any time, 899 states | `TypeOK`, `LoopOutlivesOwner`, `WaitsForLoop`, `StartReturns`, `DestructorReturns` |
| `server` | 2 connections, descriptors 3 and 4, 0 or 2 I/O loops, 34 120 states | `ServerInv` (with `TypeOK`), `TableMatches`, `NoDanglingChannel`, `ClosedOnce`, `DestroyedAfterClose`, `EndedInv`, `ForceCloseAlive`, `StateForward`, `ClosedIsReleased` |
| `foreign_close` | 1 connection, 1 I/O loop | violation, see below |
| `output` | messages of 3, 2 and 0 bytes, socket buffer of 2, 1 046 states | `StreamIntact`, `OutputInv`, `FinIsLast`, `BufferDrains` |
| `shutdown_completes` | the same | violation, see below |
| `timer_queue` | 3 timers, one of them repeating with interval 2, instants 0 to 4, 490 899 states | `TimersInv`, `ArmedInTime`, `RunsWhenDue`, `DueTimersRun` |
| `cancel_in_callback` | the same | violation, see below |
| `thread_pool` | 0, 1 or 2 workers, 1 other caller, 3 tasks, 49 674 states | `PoolInv`, `NobodySleepsOverWork`, `OneWorkerIsFifo`, `OnlyPushesDisturb`, `StopReturns`, `TasksAreTaken` |
| `services` | 7 HTTP and 4 WebSocket clients, buffers of 1 + 3 cells, socket buffer of 3, 84 846 states | `ServicesInv` (with `BuffersOK`), `OutputIsWhole`, `AnswersMatch`, `OnlyTheLastLacksLength`, `EchoFaithful`, `AnswersArrive` |
| `upgrade_served` | the same | violation, see below |
| `stop_drains` | 3 lines of 1 and 2 bytes, buffers dropped from 4 on | violation, see below |

**Why the bounds are enough.** Three functors are one in the running batch and
two behind it, by two kinds of callers; the loop has no state that more functors
would reach. Two connections and two descriptors give two connections on one
loop, a descriptor reused while the removal of another is under way, and a loop
of its own for the acceptor or none. Since `getNextLoop()` never advances, a
third loop would stay idle. A message longer than the socket's buffer is written
directly in part, buffered in part and drained in several writes, with another
message behind it. Three timers over five instants expire together or one by one, come due during the
callbacks of others, and are added before, at and behind the first one; a longer
clock only repeats this. `MaxTime` stops the clock, and timers beyond it are
never due. Two workers are the fewest that race for a task, three tasks let one
be in hand, one in front and one behind it. The clients of `services` send
requests that keep and that close the connection, with a page, without one, with a
bad method or version, with headers (`Connection: close` too) and a body, and up to three
more behind them; an upgrade, a request for another WebSocket version and one for none;
frames of every opcode, masked and plain, and one of the length from which the code
writes none (`Short`, 126 in the code, 6 here). The masked frame of five bytes is in the
scope of `EchoFaithful`: its fifth byte takes the key's first again, and the Buffer of
the decoded payload grows while the bytes are appended. A buffer
of three cells is outgrown by the first line, and so is a socket buffer of three. `TypeOK`
bounds nothing; no state constraint is used. Only the numbers of functors, connections,
messages, timers, instants, tasks and scripts bound the runs.

**Deadlock.** `event_loop` is checked for deadlock. The other systems really
stop: the thread is joined, the pool destroyed, all clients have come and gone,
everything is sent, or the clock stops (`CHECK_DEADLOCK FALSE`).

**Fairness.** `EventLoop`: the loop's thread takes its next step, callbacks
return and a caller that pushed reaches `wakeup()`; in `epoll_wait` only a
readable eventfd is sure to end the wait, so that nothing relies on the 10 s
timeout. `EventLoopThread` does assume the timeout, because `quit()` writes no
eventfd and the destructor has nothing else to rely on; it assumes no spurious
wakeup of the condition variable. `Server`: a loop with a closed client or a
queued functor returns from `epoll_wait` (level-triggered readiness, and
`NoLostWakeup` of `EventLoop`), and the application drops the pointers of closed
connections. `ConnectionOutput`: a ready channel is served and a client that did
not reset keeps reading. `TimerQueue`: the loop dispatches the readable timerfd,
callbacks return, the timerfd becomes readable when its time has come, time goes
on. `ThreadPool`: workers run, tasks return, a caller reaches its `notify_one()`, the
joins end; nobody has to call `add()` or `stop()`, and no spurious wakeup is relied on.
`Services`: the loop serves a writable socket and the client reads; it need not
send all it could. `AsyncLogger` states none: its one property is an invariant.

### Where code and comments disagree

* `upgrade_served`: `addHeader()` keeps the colon in a header's value, so that a correct
  upgrade request fails the tests of WebSocketServer.cpp:72-75 and gets the 400 that
  the comment at :77 means for "not the WebSocket protocol"; the messages that
  `test.html` lets its user send are never answered. `Connection: close` is ignored, and
  `Keep-Alive` of HTTP/1.0, for the same reason.
* `foreign_close`: `forceClose()` captures `this`; the `shared_from_this()` meant
  to keep the object alive is evaluated when the functor runs. A thread that calls
  it while the client's close is being handled sets `state_` back to
  `kDisconnecting` and queues a functor that outlives the object. On the
  connection's own loop this cannot happen (`ForceCloseAlive` in `server`).
  The same race closes a connection twice, which may be the double exit that the
  comment at Connection.cpp:183 could not explain.
* `shutdown_completes`: `shutdown()` with output still buffered leaves the write
  side open for ever; `handleWrite()` does not resume it.
* `cancel_in_callback`: a timer being run is not in `active_timer_`, so
  `cancelInLoop()` enters it in `cancelingTimer_` with a value read through
  `end()`. The case the branch was written for ends in an invalid access; so does the
  cancellation, in a callback, of a timer that was deleted before.
* `stop_drains`: `FixedBuffer::Available()` returns the bytes used, not the room left,
  so that no line is ever stored, and `stop()` returns with nothing in the file.
  Behind that are more: `if(newBuffer2)` takes a second spare buffer when there is
  one already, which ends in `back()` of an empty vector (`thread = "crashed"`).

Not in a run of their own: if the new thread of an EventLoopThread has published its loop
but not entered `loop()` when the destructor calls `quit()`, `quit_ = false`
(EventLoop.cpp:59) undoes it and `join()` waits for ever, which is why `DestructorReturns`
asks that `loop()` was entered by then; `next_` of EventLoopThreadPool is reduced modulo the number
of threads but never incremented, so that all connections are served by the
first I/O loop; `writeFd`, `addFrameHeader` and `Set_mask` (which assigns its parameter
to itself) have no effect on the program; `HttpResponse::SetContentType` is empty.

## 4. The proofs

All theorems hold for every value of the constants under the named assumptions
of the modules.

**`EventLoopProofs`** (`ThreadsAssumption`, `ChannelsAssumption`).
`NoLostWakeup` speaks of `epoll_wait` only and is not inductive. `LoopInv`
strengthens it: from the end of one swap to the beginning of the next dispatch a
non-empty queue is announced by the eventfd or by a caller on its way to
`wakeup()` (`WakeupInv`). That a functor's push on the loop's own thread is such
a caller needs `callingPendingFunctors_` to cover the whole batch
(`CallingInv`), and that a handler's push needs no announcement needs the
own thread to push nowhere else (`CallbackInv`). `LoopInvariant` proves
`Spec => []LoopInv`, `WakeupNeverLost` derives `NoLostWakeup`. `LoopIsMailbox`
proves the safety part of the refinement, `Spec => Box!Safety`: a push appends to
the concatenation of the two vectors, `RunFunctor` takes its head, the swap leaves
it unchanged because the local vector is empty then (`BatchInv`).

**`EventLoopThreadProofs`** (`OwnerAssumption`). That the owner's
pointer stays good rests on `QuitInv`: only the destructor's `quit()` sets `quit_`, the
loop is left only then, and the thread unwinds behind the loop only. Proved:
`TypesHold`, `OwnerFindsLoop`, and `NotificationSeen`: the owner waits only for a
publication that is still to come.

**`ConnectionOutputProofs`** (`SizeAssumption`, `SndBufAssumption`). The
inductive invariant is `OutputInv /\ FinIsLast /\ StreamIntact`: the write side is
closed only if `EPOLLOUT` is not watched, and that means an empty buffer only by
`InterestIffBuffered`; the stream stays whole because write, buffer and read move
the border between adjacent parts of one sequence (`CutConcat`, `MoveFront`,
`MoveHead`). Proved: `OutputInvariant`, `NothingBehindFin`, `StreamStaysIntact`.

**`TimerQueueProofs`** (`IntervalAssumption`, `MaxTimeAssumption`,
`NoneAssumption`). `TimersInv` is inductive: `SetsAgree` says that the set is the
image of the map under the present expirations, which holds through `restart()`
because the timer is in neither container then (`Owned`), and `HandledInv` gives
`RunsWhenDue` (`CallbacksAreDue`). `ArmedInTime` alone is not inductive: `reset()`
does not set the timerfd when the first expiration is 0. `InvalidArmed`
adds that such an entry was added in a callback of the same `handRead()` and that
`addTime()` armed the timerfd for it. That a nonempty set has a first entry
(`EarliestIsFirst`) comes from the well-foundedness of `<` on the naturals.

**`ThreadPoolProofs`** (`DistinctAssumption`, `NoTaskAssumption`). `PoolInv` is
inductive. `NobodySleepsOverWork` is kept by a push because the pusher is then
`notifying`, by a notification because it wakes somebody or nobody slept, and by
`Wait` because the predicate and the falling asleep are one step under the mutex;
it needs that no worker has ended while the pool runs (`ThreadsInv`). With
one worker, and as long as no access ended undefined, `FrontStays` makes the unlocked
`front()` and `pop()` meet the element that `Look` saw, from which `OneWorkerIsFifo`
follows, and that no access but one that a push overlaps can end undefined
(`UndefinedByPush`, `OnlyPushesDisturb`). Proved: `PoolInvariant`, `NoLostNotification`,
`LoneWorkerKeepsOrder`, `OnlyPushesCanDisturb`.

**`ServerProofs`** (`FdsAssumption`, `PoolAssumption`, `NoneAssumption`,
`ListenAssumption`). None of the run's other invariants is inductive; `ServerInv`, which the
run checks too, is, and all but the last of these are its parts:

* `PhaseInv` ties the channel's place in epoll and the two counts of announcements to
  `state_`; `ClosesOnce` is its last line, and `ChannelsAlive` follows because an open
  connection is in the table (`OpenIsAlive`).
* `TableMatches` says that the table holds exactly what was set up and not removed. `Accept`
  keeps it only because the kernel gives out no descriptor of a living Connection, and an
  entry's Connection lives by the entry (`EntryAlive`): no entry is overwritten.
* `FunctorsInv` says of each functor that waits, queued or in the rest of a running batch,
  which loop it is on and what it will find; `connectEstablished` and
  `removeConnectionInLoop` wait once at most (`Once`), so that running one leaves none
  that would find its connection moved on.
* `LoopsInv` covers the handlers of a round: epoll reported open connections of this loop
  only, and they are still open when their handlers run, because one connection's callback
  closes another only through a queued functor.
* `KeptInv` is for the plain `this` of `forceClose()`. Once the table no longer has the
  connection, `connectDestroyed` is queued on the same loop or is in the running batch, and
  the batch keeps its functors, and their pointers, until its end. A functor of
  `forceClose()` queued behind that batch would be fatal; none is, because by then
  `state_` is `kDisconnected` and `forceClose()` does nothing.
* `EndedInv` is proved on top of `ServerInv`: of a closed connection exactly one functor on
  the way to `connectDestroyed()` waits, once, or it has run exactly once. Each step moves
  that one functor (`EndedRemoving`, `EndedQueued`, `EndedRun`) or leaves it where it is
  (`EndedSpared`), by what `Waiting` becomes when a functor is queued, taken or begun.
  `DestroyedAfterClose` follows: a functor that waits owns the Connection, so of a
  destroyed one none does, and `connectDestroyed()` has run.

Proved: `ServerInvariant`, `TypeInvariant`, `TableInvariant`, `ChannelsAlive`,
`ClosesOnce`, `EndedInvariant`, `DestroyedAfter`, `ForceCloseSafe` and the action property
`StateMovesForward`. With a foreign thread `KeptInv` fails, see `foreign_close`.

**`ServicesProofs`** (`ByteAssumption`, `SizesAssumption`, `SeparatorsAssumption`,
`PagesAssumption`, `AnswerAssumption`, `HandshakeAssumption`, `HeadsAssumption`,
`ShortAssumption`, `ScriptsAssumption`, `SndBufAssumption`: the streams, pages and answers
consist of what a Buffer can hold, a CR is no space and no colon, no word of a request is a
space or a CR, no path is empty, no page's body has a cell that is a response's status
line, sizes are numbers). Five layers:

* *Buffer.* For every size of the vector, the free cells and the stack buffer, and every
  legal state of the indices, `RetrieveDrops`, `MakeSpaceSuffices`, `AppendAdds`,
  `AppendByteAdds` and `ReadFdAdds` say that each operation keeps the indices in order and
  changes the content by exactly what it drops or adds, and that `makeSpace()` leaves the
  room asked for. The compaction is the delicate part (`MoveKeeps`).
* *Parser and callbacks.* Whatever bytes arrive in whatever state, the parser leaves a
  context and a Buffer well formed (`ParseKeepsTypes`), and the callbacks give bytes to
  `send()`. A header's value keeps its colon (`HeaderOK`), hence no request passes the tests
  for an upgrade (`NoUpgrade`), and the first message that completes a request also shuts
  the connection down (`HandshakeMessage`).
* *Connection.* `ServicesInvariant` and `OutputStaysWhole`, by the theorems about Buffer.
  `LackOfLengthEnds` proves `OnlyTheLastLacksLength`, which is not inductive either:
  `LengthInv` adds that while the connection is `kConnected` even the last response has its
  length. Every callback sends one response at most before its `shutdown()`, and one with a
  length if there is no `shutdown()` (`GoodCalls`).
* *Codec.* For every payload, of any size, `DecodeReturnsPayload` says that `decodeFrame()`
  returns opcode and payload of a frame in the 7-bit or the 16-bit form, masked or not;
  `EchoReturnsPayload` that a frame of fewer than `Short` bytes is answered by the one
  frame `EchoOf` says; `LongEchoLacksLength` that from `Short` bytes on the answer has no
  length.
* *Answers.* `SegmentParse` says what `ParseBuffer` makes of any run of whole lines of any
  request: refused at the first line for its version, otherwise a context that holds
  method, version and path, expecting a header or complete (`Holds`). `AnswersMatch` and
  `EchoFaithful` speak only of the ends of units, so they are not inductive. `AnswersInv`
  says what is true between: the stream is read to a *place*, `k` units and `j` lines of the
  next (`CutPlace`: a clean cut leads from a place to a place; `SegmentRead`: and brings
  lines of one request, or one unit); the replies to the units answered so far are what was
  accepted, and the connection is `kConnected` exactly while none of them closes; the
  parser's context is new at the end of a request and holds the request inside of one; of a
  WebSocket connection, behind the handshake `offered` has the echoes so far. A request
  that is refused counts as answered from its first line on (`Reached`). `HttpAdvances` and
  `WebSocketAdvances` prove the step. `AnswersInv` speaks of what the servers answer
  (`AnswerTo`), for every request; that is what the client should get (`Reply`) unless the
  request is misread, from which `AnswersAlwaysMatch` follows, and `EchoesAreFaithful`.

The rounds of the parser, the bytes of a payload and the calls of a callback are
recursive functions and folds. The library's induction theorems take operators, which the
provers cannot instantiate; `SetInduction` states induction for a set instead and is
proved from the well-foundedness of `<` (`WFMin`), and `Iteration` says that a function
defined by recursion over the naturals exists.

**`AsyncLoggerProofs`** (stated with its hypotheses: sizes are numbers, null is no buffer).
`BuffersAreThere`: the moves of buffers between the loggers and the thread leave no null
pointer where the code uses one untested. The swap takes `newBuffer1`, which the
round before has refilled because it had at least one buffer to write (`SwapBuffers`,
`WriteOutBuffers`). It says nothing of the lines in the buffers, see `stop_drains`.

**Only model-checked**: liveness under fairness (`WakeupDrained`,
`StartReturns`, `DestructorReturns`, `ClosedIsReleased`, `BufferDrains`, `DueTimersRun`,
`StopReturns`, `TasksAreTaken`, `AnswersArrive` and the liveness of the mailbox), which
TLAPS does not reach. Every invariant of a passing run is stated by a theorem.

## 5. The plan

1. Done: `EventLoop` with `Mailbox`, `EventLoopThread`, `Server`,
   `ConnectionOutput`; the proofs above.
2. Done: `TimerQueue` on its loop's thread, with its proofs.
3. Done: `AsyncLogger`. An abstract FIFO of lines, which it would implement, has no
   instance as long as no line is stored.
4. Done: `ThreadPool` and its proofs.
5. Done: `Buffer` and its proofs.
6. Done: `HttpContext`, `HttpServer`, `WebSocketServer`, composed in `Services`.
7. Done: the proofs of `Server` and of `Services` on top of `Buffer`, with `AnswersMatch`
   and `EchoFaithful` for every script.
8. The order in which `main`'s objects are destroyed: `~Server`, the pool and its loops.

## 6. Not modelled

* `runAt`, `runAfter`, `runEntry`, `cancel` of EventLoop: they dereference
  `TimeQueue_`, which is never constructed.
* `~Server`: it calls `connectDestroyed()` on the destroying thread; the program
  destroys its servers when `main` ends.
* Failures that end the process at once (`perror_if` after `accept4`,
  `epoll_ctl`, `epoll_wait`, `bind`). Of a request line for which the parser throws only
  this is modelled: nothing follows.
* `send()` from a thread other than the connection's, `writeCompleteCallback_`.
* `addTime()` and `cancel()` of TimerQueue from another thread (the queued functor refers
  to the caller's variables).
* The overload of `ParseBuffer` with a time stamp, which nothing calls; frames of 2^16
  bytes and more; the 127 form, which is decoded as 32 bits; headers an
  application adds to a response; errors of `write` and `fwrite` other than those
  `ConnectionOutput` names; the names of log files.
* SHA-1 and Base64 (third party; no request reaches them with success), the
  formatting of log lines, addresses and time stamps, the wiring in `main()`. Logger
  writes to the standard output: nothing connects it to AsyncLogger. The
  WebSocket files are not in `CMakeLists.txt` and are modelled from their source.
