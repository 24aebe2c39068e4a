# A TLA+ verification of libmwnet

libmwnet (`src/mwnet_mt`) is a C++11 network library: a fork of muduo's
one-loop-per-thread reactor (`net`, `base`) with its own send queue, send timeouts and
suspended reading, and on top of it TCP/HTTP servers (`netserver`), TCP clients and a
libcurl-based HTTP client (`netclient`), an asynchronous logger and utilities. This
project models the reactor (event loop, timer queue, TCP connection), the life of a server
with its threads, outgoing connections, the client that manages them, the HTTP
client's request queues and the servers' bookkeeping.

## 1. Inventory

| Component | State | Operations | Interacts through | Module |
|---|---|---|---|---|
| `EventLoop` | `pendingFunctors_` (mutex), `callingPendingFunctors_`, `quit_`, eventfd | `loop`, `quit`, `runInLoop`, `queueInLoop`, `wakeup`, `handleRead`, `doPendingFunctors` | any thread queues functors; callbacks run in the loop thread | `EventLoop` |
| `TimerQueue`, `Timer` | `timers_`, `activeTimers_`, `cancelingTimers_`, timerfd | `addTimer`, `cancel`, `handleRead`, `getExpired`, `reset`, `insert` | functors of the loop; raw `Timer*` inside a `TimerId` | `TimerQueue` |
| `TcpConnection` | `state_`, `outputBufferList_`, `sendQueSize_`, channel interest, timers | `send`, `shutdown`, `forceClose`, `suspendRecv`, `handleRead/Write/Close`, `connectEstablished/Destroyed` | its loop's functors and timers; callbacks to owner and user | `TcpConnection` |
| `Acceptor`, `TcpServer` | `m_mapConnections`, `m_AtomicIntStarted`, the stop latch | `start`, `stop`, `newConnection`, `removeConnection` | base loop and I/O loops exchange functors | `TcpServer` |
| `EventLoopThread(Pool)` | `loop_`, `thread_`, `next_` | `startLoop`, `threadFunc`, `getNextLoop`, destructors | publishes a loop on another thread's stack | `TcpServer` |
| `Connector`, `net/TcpClient` | `state_`, `connect_`, `channel_`, connect timer, `connection_` | `start`, `stop`, `connecting`, `handleWrite/Error`, connect timeout, `disconnect` | timers and queued `resetChannel` of its loop; user threads | `Connector` |
| `xTcpClient` | `connections_`, `conn_obj`, `self_`, `exit_` | `AddConnection`, `DelConnection`, `UnInitTcpClient` | a main loop and I/O loops | `MTcpClient` |
| curl HTTP client | waiting, running and recycled requests, `wait_rsp_`, handle counts | `GetHttpRequest`, `SendHttpRequest`, wake-up, `check_multi_info`, `ExitHttpClient` | user threads and I/O threads share three locked collections | `CurlClient` |
| `NetServer` | connection counter, id map, idle lists, wait-send counter, close flag | connection, message, result and idle-check callbacks; `SendMsg`, `ForceClose` | `TcpConnection` callbacks, user threads | `NetServer` |
| `Channel`, `Poller` | interest set, registration state | `update`, `remove`, `handleEvent`, `poll` | owned by all descriptors of a loop | parts in `EventLoop`, `TcpConnection`, `Connector` |
| `base` threads | `CountDownLatch`, `Condition`, `ThreadPool`, `AsyncLogging` | wait/count down, notify, run/stop, append/flush | mutexes and conditions | latch in `TcpServer`, condition in `CurlClient` |
| `UserOnlineList` | per-user connection lists, cached best connection | add, delete, update, `GetBestConn` | nothing in the repository calls it | - |
| `tcpclient`, HTTP parser wrapper, `Buffer`, sockets, formatting, crypto | per-call data | - | - | - |

What is hard about it: functors cross threads with a wake-up outside the lock;
exceptions of user callbacks are caught *outside* the iteration and skip the rest of it;
a timer can be cancelled by its own batch; an output entry can leave its list by being
written, failing, timing out or the connection going down; `state_` is a plain variable
tested and set by several threads in separate steps; stopping a server crosses three
kinds of threads and two latches; the end of a connection attempt has four competing
causes; limits are tested outside the locks that guard what they limit. `PROJECT.json`
lists these hazards at their lines, with the properties about them.

## 2. Modules and the code they model

**`FunctorQueue`** is the abstract specification of what `queueInLoop` promises: one
FIFO queue of functors. `Submit` appends one, `Execute` takes the first, `Abort(k)`
takes the first `k`, of which only the first ran (an exception lost the others).

**`EventLoop`** models `EventLoop.cc`. A foreign thread's `queueInLoop` is two actions
(`QueueInLoop`, the push under `mutex_`, then `Wakeup`), because the eventfd is written
after the lock is released; so is `quit()`. The loop thread's `pc` follows `loop()`:
`StartLoop` (which resets `quit_`), `TestQuit`, `Poll`/`PollTimeout`, the handlers
(`HandleRead` for the eventfd; `HandleEvent`, `HandlerReturn`, `HandlerThrow` for any
other channel), `BeginPending`, `SwapPending`, `RunFunctor`/`FunctorThrow`,
`EndPending`, `FreeFunctors` (the destruction of the local vector, whose destructors
are user code too). `CallbackQueue` and `CallbackQuit` are what callbacks do. `left`,
`lost`, `throws` and `unsignalled` are history variables.

**`TimerQueue`** models `TimerQueue.cc` with `Timer.h` and `EventLoop::runAt/runEvery/
cancel`. Timers live at *addresses* that the allocator reuses while sequence numbers
never repeat, which is what `TimerId`'s pair is for. `HandleRead` (with `getExpired`),
`RunTimer`, `RunReturns`/`RunThrows` and `Reset` (with `reset` and `insert`) are the
parts of `TimerQueue::handleRead` between which user code runs. Other threads' calls
travel as functors through `pending`. `AddTimerReturns` is the read of
`timer->sequence()` that follows `runInLoop`; if the Timer has been deleted it reads
the old number, the number of the Timer now there, or garbage. Time is counted in units
of the 100 µs that `howMuchTimeFromNow` never goes below.

**`TcpConnection`** models `TcpConnection.cc` on one I/O loop, with
`TcpServer::removeConnectionInLoop` and `stopInLoop` as its owner; the removal takes two
hops, `closeCallback_` to the base loop (`baseQueue`), then `connectDestroyed` back in
`functors`. Messages are `MsgLen` units, so that they can be written in part. `RunTimer`
relies on what `TimerQueue` shows: a timer cancelled while its batch is being called
still runs. `ForeignCall`, `ForeignSetState`, `ForeignHandOver` are the test of
`state_`, its assignment and the queueing in `shutdown`, `forceClose` and
`forceCloseWithDelay` of other threads. `wire`, `taken`, `outcome`, `ret`, `closes`,
`destroys` are history variables.

**`TcpServer`** models `TcpServer.cc`, `Acceptor.cc`, `EventLoopThread.cc`,
`EventLoopThreadPool.cc`, the stop latch and the idle timers `NetServer.cc` has started in
every I/O loop. The base loop runs one batch of functors after the other and accepts
between batches. `basePc` is where the base thread is inside `start()` (waiting in
`startLoop` for each thread to publish its loop) or `stopInLoop` (waiting for the latch
of one connection after the other, then quitting and joining the threads). The loops of
a pool live on the stacks of their threads, so each `start()` brings new ones, and a functor
for a loop that is gone vanishes. A descriptor is in use as long as something holds its
connection (`Alive`), which is what the limit in `RefuseConnection` counts.

**`Connector`** models `Connector.cc` and `net/TcpClient.cc` for a set of clients.
Attempts are numbered, and the number stands for the socket, the `Channel` and the timer
of the attempt, so that a timer or a queued `resetChannel` that hits the wrong attempt
shows. `disconnect()` is two steps under `mutex_` (test and set of the connection's `state_`),
`newConnection` and `handleClose` are two each. The assertion `state_ == kDisconnected` of
`connecting()` (Connector.cc:40) is left out, as a release build, the default of
CMakeLists.txt, leaves it out: `state_` stays `kConnected` after a success, so that a second
`start()` would fail it in a debug build. `xTcpClient` connects once and never meets it.

**`MTcpClient`** composes `Connector` (which it extends) with `netclient/xTcpClient/
TcpClient.cc`: the main loop's functors create an `xTcpClient` per connection and call
`DisConnect()` and `Stop()` on it while its I/O loop takes `Connector`'s steps. `self`,
`conn_obj` and `mainStack` are the references that keep an `xTcpClient` alive;
`OnConnection` is its connection callback, which gives up `self_`.

**`CurlClient`** models `CurlHttpClient.cpp`, `CurlManager.cpp` and `RequestManager.cpp`.
`user` is each thread inside `SendHttpRequest` (the loop on `wait_rsp_`, `wait()` without
the mutex, the increment, the tests of the limits, the wake-up), `io` each I/O thread in
`checkNeedSendRequest` and `check_multi_info`. libcurl is external: `SocketAction`
finishes any set of the transfers it works on. `sendRequestInLoop` may finish transfers
too, because libcurl calls the timer callback from within `curl_multi_add_handle` and
`handleCurlmTimerCb(0)` drives it at once; nobody looks for their messages then, which the
field `early` of `io` records as history. `NoneStranded` is the safety form of "every accepted
request is called back": until exit, as long as one is due some thread or transfer is at
work for it, unless it is `Missed`. That this work comes to its end under the fairness
below, since transfers end, is argued here and not checked. `ExitClearsRequesting` destroys
any of the requests that only `requestings_` held, with their handles.

**`NetServer`** models the TCP and HTTP server classes of `NetServer.cc` and the calls
of `NetServerCtrlInfo` by user threads. `http` selects the class. The books are
`nCurrConnNum`, `mapConns` and the `connlist` of each loop. Here `handleClose` is split
between the assignment of `state_` and the callback (`reporting`), since another thread
may overwrite `state_` in between. Instead of absolute times the model has the `age` of
each list entry, which a clock set back can make negative. `onCheckConnTimeOut` is
described by the indices it walks over, keeps and closes (`InOrder`), so that it can be
reasoned about without induction over the list.

In `TcpServer`, `Connector` and `MTcpClient`, `handleClose` sets `state_` and calls back in
one step; in `TcpServer` `~EventLoopThread` tests `loop_` and calls `quit()` in one step.
Every module has a type invariant, `TypeOK` (`MTypeOK`), that documents its state; all
are proved. `MC*` modules add the symmetry sets;
every `.cfg` names its bounds. Operators named "Mutant of ..." stand before the
definition they corrupt the way a plausible bug would; they are used by nothing but the
sensitivity analysis in `PROJECT.json`, in which each property is violated once the
definition is replaced.

## 3. Runs

| Run | States | Shows |
|---|---|---|
| `event_loop` | 93,071 | `NoLostWakeup`: the loop never goes to sleep on pending functors unless a wake-up is on its way, except in the situations `unsignalled` records. `ImplementsFunctorQueue`: batch and `pendingFunctors_` refine one FIFO queue. `QueuedFunctorRuns`, `QuitStopsRunningLoop`: liveness, even after a lost wake-up. |
| `timer_queue` | 2,697,041 | `SetsAgree`, `NoDanglingTimer`, `ArmedForEarliest`, `CancelSticks`, `NeverEarly` with reuse of addresses, self-cancelling and mutually cancelling callbacks, another thread, and an exception. |
| `timer_queue_live` | 362,625 | `DueTimersLeaveUnlessThrow`: as long as no callback throws every timer leaves the queue. |
| `tcp_connection` | 338,600 | With closes in the loop thread and by the peer: the counter equals the list, non-empty lists are waited for, timer iterators are valid, every accepted message has exactly one result, the peer's stream is in order, the connection is closed and destroyed at most once, no data is cut off by a shutdown or written after it, and a close completes unless a send timeout takes the last message. |
| `tcp_connection_foreign` | 993,249 | `OneOutcome` although other threads race the loop in every operation and the server stops. (`ClosedOnce` does not survive this.) |
| `tcp_server` | 362,513 | Callbacks come in pairs; a connection not reported closed never loses its loop; after a stop nothing is left; every loop gets its idle timer; `stop()` returns; the listen queue is emptied at the descriptor limit. |
| `connector` | 26,349 | One answer per attempt, no descriptor and no channel left over, a timeout aborts its own attempt (with the exception `stopInLoop` makes), an attempt with a timeout ends. |
| `mtcp_client` | 5,459 | The callback protocol of a connection, the life of the `xTcpClient` behind it, an answer in the end, and a deleted connection going down. |
| `curl_client` | 1,177,694 | `WaitRspExact`: the counter is exact through refusals, callbacks and exit. `LimitsHold`: three senders and two I/O threads pass the limits that are tested outside of the locks by no more than their number allows. `OnePlace`: a request is in one collection, or in one thread's hands. `NoneStranded`: until the client exits, every accepted request has somebody who will answer it, also one that waits while the running requests are full, unless a transfer ended within `curl_multi_add_handle`. |
| `net_server` | 1,605,423 | Counter, id map and idle lists agree; one idle check finds all idle connections; the count of messages to be sent settles. |
| `net_server_flag` | | *Violation.* `bKeepAlive = false` marks the connection rather than the message: the result of an earlier message closes it while the flagged one is unsent, against the comment in `NetServer.h:325`. |
| `curl_client_block` | | *Violation.* A sender tests `wait_rsp_` and waits without the mutex; the response comes in between and it waits for ever, although `CurlHttpClient.h:212` says this needs as many threads as `nMaxTotalConns`. |

Several properties state the exceptions the code makes, each by a history variable of
its own, rather than being left out. Behaviours of the code the models show in this way
or in passing:

* `quit()` before `loop()` began is overwritten (`lostQuits`), and whoever joins the thread
  waits for ever; `start()` of a running server sets the latch up under a waiting
  `stop()` (`latchOverwritten`); a `stop()` before the idle timers were started leaves
  `startTimer` a null pool (`Crashed`).
* A timer callback that throws leaves the timerfd disarmed; a timer cancelled by another
  callback of its batch is still called once; `addTimer` of another thread may read a
  deleted `Timer`.
* A send timeout that removes the last message leaves a waiting shutdown unfinished;
  `send()` on a connection that is down returns success; `forceClose()` of another thread can
  set a closed connection to `kDisconnecting`, which is then closed twice (`raced`); the
  timer that resumes reading is not cancelled by `handleClose`.
* `stop()` while a removal is queued makes the removal find nothing, against `assert(n == 1)`
  (off in a release build); a connection that is stopped in `kDisconnecting` is never
  reported down (`halfClosed`).
* A connection deleted before its I/O loop began to connect is never answered and its
  `self_` never given up, while one deleted during an attempt is answered ("aborted"); one
  made between `DisConnect()` and `Stop()` stays up (`missed`).
* A request whose transfer ended within `curl_multi_add_handle` is called back, and leaves
  the running requests, only when another transfer of its `CurlManager` makes it read
  messages. If such requests take all the places, waiting ones stay as well (`Missed`).
  `CurlHttpClient.h:106` says that a timer of the library catches what libcurl's timeout
  misses; that timer is commented out (`CurlManager.cpp:345-352`).
* `ExitHttpClient` forgets running requests without their callbacks, although the comment
  above `HttpRequesting::clear` (`RequestManager.cpp:88`) says that they are made; `wait_rsp_`
  stays up for them.
* With `WaitOrReturnIfOverMaxTotalConns = false` the sender spins instead of returning.
* Replies that `DealHttpRequest` sends itself are counted down and never up (`uncounted`).

Hazards beyond the listed ones that no property covers: several senders can pass
`m_nMaxSendQue` together; a message of length 0 gets no result callback while the channel
is writing; `shutdownInLoop` is queued with a raw `this`; `SendMsgWithTcpServer` reads
`m_TcpNetServerImpls` while `StopTcpServerInLoop` clears it; `GetBestConn` of
`UserOnlineList` returns a cached connection.

**Bounds.** They limit how often the environment acts, and are chosen so that the races meet.

* `MCEventLoop`: two threads and three functors let functors of both threads and of a
  callback meet in one batch that an exception cuts; two exceptions let the second
  come while `callingPendingFunctors_` is still set from the first.
* `MCTimerQueue`: three timers at two addresses make the allocator reuse an address while
  the `TimerId` of its earlier owner is held; intervals 0 and 1 and instants 1 to 3 cover
  one-shot, repeating, due and future timers.
* `MCTcpConnection`: three messages exceed `MaxSendQue = 2`; two units per message
  distinguish unwritten, partly written and written; two operations let two closes race.
* `MCTcpServer`: three connections at a limit of two descriptors, so that one is refused or
  takes the place of one that closed; two I/O loops for the round robin; two starts and a stop,
  so that the server is stopped and started again, or started while it runs.
* `MCConnector`: three attempts, so that a timer or reset of one can meet the next two.
  Attempts follow each other (`Overlap = FALSE`), as `xTcpClient` uses the class.
* `MCMTcpClient`: one connection, deleted twice and cleared at any time; connections only
  meet in the main loop, one functor at a time.
* `MCCurlClient`: two I/O threads, and one request to run, to wait and to be recycled
  (`MaxTotalConns = MaxReqQueSize = 1`). Three senders make four calls with four request
  objects, so that every term of `LimitsHold` reaches its bound: three requests run (limit 1,
  tested with `>`, two I/O threads), and three are counted in `wait_rsp_` (limit 1, three
  senders). Refusal 2 happens, and refusal 3 while another request waits. A request waits
  behind a full `requestings_` with both I/O threads idle, and behind one with nothing but
  unread messages (`Missed`). `ExitHttpClient` may come after one or two calls (`ExitCalls`) and makes two of
  its 30 rounds; it does not begin after the third or fourth. Senders and requests are
  symmetric; the managers are numbered. `curl_client_block` has one sender and room for two
  requests.
* `MCNetServer`: three events from outside (connections, reads, calls) on three connections with
  room for one or two, and one setting back of the clock by more than the idle time.

`CHECK_DEADLOCK FALSE` is set everywhere, since a loop that has quit, a queue without
timers, a closed connection, a stopped server or client and exhausted bounds do stop.

**Fairness.** Threads run: `epoll_wait` returns after `kPollTimeMs` (50 ms) at the latest,
callbacks return or throw, functors and handlers are served in turn, and a thread inside a
call goes on until it is blocked. Time passes and timers that are not cancelled expire.
libcurl finishes every transfer in the end, by its own timeouts (`SF`, since other
events of the thread come between). Nothing is assumed of peers and users: whether a
peer answers, sends or closes is possible and never owed. Only for
`ShutdownCompletesUnlessTimeout` the socket of a live peer becomes writable again
(`WF(HandleWrite)`).

## 4. Proofs

`EventLoopProofs` proves for every set of threads and functors and every number of
exceptions (assumption `MaxThrowsAssumption`: a natural number):

* `TypeCorrect`: `Spec => []TypeOK`.
* `WakeupCorrect`: `Spec => []NoLostWakeup`. The property speaks of `"polling"` only
  and is not inductive: the functor is pushed, and the eventfd read, elsewhere. The
  inductive invariant is `TypeOK /\ WakeupInv`. `WakeupInv` says the same at every
  control point from which the loop can reach `poll()` without swapping first (before
  `loop()`, in the test, in and after a batch), and that `callingPendingFunctors_`
  is set from `BeginPending` to the end of the batch, which is what makes the loop
  thread's own `queueInLoop` write the eventfd there. While handlers run nothing is
  required, since `doPendingFunctors` follows, unless a handler throws.
* `LoopImplementsFunctorQueue`: `Spec => ImplementsFunctorQueue`. The refinement maps
  the abstract queue to `functors \o pendingFunctors_`. It needs `BatchInv` (no batch
  outside `doPendingFunctors`): without it `SwapPending` would overwrite functors. The
  sequence lemmas say what append, head and tail do to that concatenation.

`TcpConnectionProofs` proves for every set of messages and threads, every message
length, every limit of the send queue and every number of calls (assumption
`ConnectionConstants`), with closes, time-outs and calls of other threads in any order:

* `ConnectionTypeCorrect`: `Spec => []TypeOK`.
* `UnsentDataCorrect`: `Spec => []UnsentDataIsWritten`. `sendQueSize_` is the length of
  the list, a list that is not empty has the channel waiting to write, and a
  disconnected connection has an empty one.
* `TimerIteratorsCorrect`: `Spec => []TimerIteratorValid`. A send timer that may still
  run, armed or already taken into the expiring batch, holds the iterator of an
  entry that is still in `outputBufferList_`.
* `ShutdownCorrect`: `Spec => NothingAfterShutdown`, an action property. Nothing is
  written after the sending side was shut down, and the shutdown finds the list empty.

* `OutcomeCorrect`: `Spec => []OneOutcome`. A message that `send()` accepted is in exactly
  one place: on its way to the loop, in the output list, or reported.
* `WireCorrect`: `Spec => []WireInOrder`. The peer receives messages whole, or cut short
  with a failure reported, in the order in which `sendInLoop` took them.
* `ClosedOnceCorrect`: `LoopCloses` implies `Spec => []ClosedOnce`. `LoopCloses` says that
  the loop thread alone closes the connection, that reading is not switched on and off
  by hand and that the server is not stopped. TLC shows a counterexample without each of
  them: the `forceClose` or `shutdown` of another thread overwrites `kDisconnected`;
  `startRead`, or the timer of `suspendRecv`, registers the channel that `handleClose` has
  taken out, so that the end of file is read again; and `stopInLoop` destroys a connection
  that `removeConnectionInLoop` is about to destroy.

None of these follows from itself alone. The inductive invariant `IInv` adds

* `TimerInv`: outside `TimerQueue::handleRead` no timer is in the expired batch, and a
  send timer is not both armed and expiring. Cancelling a timer does not take it out of
  the expired batch, so an entry may only be erased while its timer is not in it;
* `SendInv`: only messages on which `send()` has returned travel to the loop or are in
  the list. Otherwise a new `send()` could arm a timer for a message whose other timer
  is about to run;
* `PhaseInv`: a connection in `kConnecting` is untouched until `connectEstablished`, and
  once the write half is shut down the connection is down and its list is empty. The
  shutdown is only performed on an empty list, and nothing enters the list of a
  connection that is down.

The last three theorems have invariants of their own on top of it: `OutcomeInv` (the queued
`sendInLoop`, the list and the outcomes hold every accepted message once), `CloseInv`
(how a queued `forceCloseInLoop`, `removeConnection` or `connectDestroyed` determines
`state_` and the two counters) and `WireInv` (`wire` is, message by message in the order of
`taken`, what each entry of the list has already written). The proof has one lemma per
part (`UnsentStep`, `SendStep`, `IteratorStep`, ...), with one step per action under it.

`TimerQueueProofs` proves for every set of addresses and threads, every interval and every
number of timers: `TypeCorrect`, `QueueSetsAgree` (`SetsAgree`), `NothingDangles`
(`NoDanglingTimer`), `CancelIsFinal` (`CancelSticks`), `TimerfdCoversEarliest`
(`ArmedForEarliest`) and the action property `CallbacksNeverEarly` (`NeverEarly`). They
need each other and five more parts: `BatchInv` (the expired batch exists inside
`handleRead` only and holds each Timer once), `PendingInv` (a Timer waiting in an
`addTimerInLoop` is waiting once and is at no other place), `FreshInv` (no sequence number
in use is greater than `s_numCreated_`, which is what makes a reused address harmless),
`CancelInv` (a Timer of the batch that was cancelled is in `cancelingTimers_`) and
`ClockInv` (no expiration is 0, so that `resetTimerfd` is never given an invalid time).

`ConnectorProofs` proves for every set of clients and time-outs and every number of calls:
`TypeCorrect`, `AttemptsAnsweredOnce` (`AnsweredOnce`), `DescriptorsKept`
(`NoDescriptorLost`), and the action properties `ChannelGoneInTime` (`ChannelIsFree`) and
`TimeoutsOfTheirAttempt` (`TimeoutIsOwn`). The hypothesis is `~Overlap`: a client calls
`start()` again only after the connection before it has ended, as `xTcpClient` does and
as the run `MCConnector` has it; `connecting()` asserts `!channel_`, which a second `start()`
during an attempt violates. The invariant has six parts per client. `StartInv` and
`PhaseInv` say which of the Connector, the loop's functors and the TcpConnection can be
active together; `ChannelInv` that the queued `resetChannel` is ahead of the next
`startInLoop` and is the only one; `AnswerInv`, `SocketInv` and `TimerInv` give for each
attempt its answers, its descriptor and its timer.

`CurlClientProofs` proves for every number of users, managers, requests and limits:
`TypeCorrect`, `CountIsExact` (`WaitRspExact`), `LimitsAreKept` (`LimitsHold`),
`RequestsInOnePlace` (`OnePlace`) and `NothingStranded` (`NoneStranded`). `DueInv` and `CountInv` tie `wait_rsp_` to the finite
set `due` of requests counted and not yet answered, so that every increment and decrement
is the arrival or departure of one member; `FreeInv` and `RunInv` place each request in
the free list, a queue, a curl handle or a thread's hands; `LimitInv` counts the threads
between the test of a limit and the lock under which they add. `WorkInv`, which holds on top of
them, says until exit that unread messages have a transfer or a reading thread (or are
`early`), and that waiting requests have a thread that is about to wake a `CurlManager`, or a
`CurlManager` at work, or that unread messages take all the places. An I/O thread leaves a
request waiting only when it finds `requestings_` full; each running request is then being
transferred, being read, or such a message. The theorems cover transfers
that end within `curl_multi_add_handle` and handles destroyed at exit.

`TcpServerProofs` proves for every number of threads, starts, stops and connections:
`ServerTypeCorrect`, `CallbacksCorrect` (`CallbacksPaired`), `LoopKeptCorrect`
(`OpenConnectionsHaveALoop`), `StoppedCorrect` (`StoppedServerIsEmpty`) and
`IdleTimersCorrect` (`EveryLoopHasIdleTimer`). Its invariant:

* `PoolInv`, `LoopInv`: what the pool consists of at each point of `start()` and
  `stopInLoop`, and that its threads loop until `ResetPool`; `SpawnInv`, `PeerInv` and
  `CallInv` are the counting that gives every thread a loop and every socket an id;
* `ReportInv`: the callbacks made follow from `state_`;
* `MapInv`: a connection leaves the map only when its close was reported or never will be,
  and the latch `stopInLoop` waits for goes down only then;
* `FunctorInv`, `ConnectingInv`, `RemoveInv`: what the functors in flight say about their
  connections. `connectEstablished` is the first functor of its connection, which is why
  the one with the latch finds it established;
* `IdleInv`: the `startTimer` functors of a new pool run in one batch, between which the
  Acceptor does not draw on the round robin, so that they reach all loops. The proof
  counts them (`Count`) against the distance of each loop from `next_`.

`MTcpClientProofs` proves for every set of connections and time-outs and every number of
calls: `MTypeCorrect`, `CallbacksInProtocol` (`CallbackProtocol`), the action property
`CallbacksFindClient` (`ClientOutlivesCallbacks`) and `ComposedConnectorSafe`: the
Connectors keep `AnsweredOnce` and `NoDescriptorLost` when the main loop drives them, with
no hypothesis on the user, because `AddConnectionInLoop` calls `Connect()` once for each
connection. The invariant `MInv` is that of `ConnectorProofs`, whose step lemmas are cited
for the steps of the I/O loops, and

* `QueueInv`, `AddInv`: `AddConnectionInLoop` is queued once for a connection, and before
  it runs nothing was started and nobody was told anything;
* `StackInv`: a connection that is being closed has left the map and is on the main loop's
  stack once. So `DisConnect()` comes at most once, which bounds the lost races by one;
* `ToldInv`: what the user was told follows from the state of the Connector and of the
  TcpConnection, and from whether the race was lost;
* `SelfInv`: as long as a callback is to come (nothing, or only the connect, was told),
  `self_` is held.

`NetServerProofs` proves for every set of connections, loops and users, every limit and
every idle time (assumption `NetServerConstants`): `TypeCorrect`, `BooksCorrect`
(`BooksAgree`), `IdleCorrect` (`IdleAreInFront`) and `WaitSendCorrect`
(`WaitSendSettles`). Its invariant:

* `ConnInv`, `FunctorInv`: polled connections can be closed, a loop is inside `handleClose`
  of one connection at most, a functor runs in the loop of its connection, and what a user
  thread holds was made;
* `ListInv`, `BookInv`: a list has each connection once, and until a `ForceClose` has lost
  the race (`raced`) a connection in `handleClose` is still `kDisconnected`, so that
  `onConnection` counts it down exactly once. Then no listed connection is expired, and the
  idle check drops none;
* `AgeInv`: as long as the clock was not set back, the ages fall along each list.
  `UpdateConnList` keeps this because it moves the entry to the end when it makes it young;
* `CountInv`: `nTotalWaitSendNum + uncounted` is the number of messages in functors
  (`Pending`) and in output lists (`Unsent`), less the user threads that have queued a
  message and not counted it (`Counting`). A message moves from one set to another or
  leaves with its result; the counter can be negative in between.

The lemmas on queues (`DueAppend`, `DueTail`, `DueConcat`) say how many of the functors of
a queue stand for a message; those on lists (`EraseFacts`, `InOrderFacts`) that what is
left of a list keeps its order.

Each of these invariants was checked by TLC on small instances before it was proved.

Only model-checked: the liveness properties, since fairness is outside the prover's reach,
and the two violations.

## 5. Not modelled, and why

* `Buffer`, sockets, addresses, formatting and process helpers are sequential index
  arithmetic or wrappers of system calls; their results are the nondeterministic inputs
  of the models. `http_parser`, the headers of curl and the crypto directory (mbedtls),
  which make up most of the lines of the repository, are third-party; the HTTP parser
  wrapper's results are inputs of `NetServer`.
* `Channel`'s and the pollers' registration states, `ThreadPool`, `AsyncLogging`, `MWLogger`
  and `UserOnlineList` are planned below. `tcpclient` is an earlier form of `xTcpClient`.
* Within the modelled parts: the input buffer of a connection changes none of the modelled
  state; a message of length 0 is excluded; object lifetimes of connections are modelled
  only where descriptors or weak pointers depend on them. `Connector::restart`, which
  nothing calls, and the destructor of `net::TcpClient` are left out. Of `NetServer`:
  suspending, session data, `StartTcpServer`/`StopTcpServer` of `NetServerCtrlInfo` and
  access to HTTP headers. Of the curl client: request options, responses, and cancelling,
  which is commented out in the source.

## 6. Plan

1. `Channel` with `EPollPoller`: registration states against the kernel's interest set.
2. `NetServerCtrlInfo`: stopping a server while user threads send.
3. `ThreadPool`, `AsyncLogging`, `UserOnlineList`.
