------------------------------ MODULE TcpServer ------------------------------
(***************************************************************************)
(* The life of a server: TcpServer.cc, Acceptor.cc, EventLoopThread.cc,    *)
(* EventLoopThreadPool.cc, the stop latch (CountDownLatch.cc) and the idle *)
(* timer that NetServer.cc starts in every io loop.                        *)
(*                                                                         *)
(* The base loop runs one batch of functors after another and accepts      *)
(* between two batches; every io loop is the FIFO executor that module     *)
(* EventLoop implements.  start() and stop() arrive from user threads,     *)
(* closes from the peers.  The loops of a pool are objects on the stacks   *)
(* of their threads, so each start() brings new ones.                      *)
(***************************************************************************)
EXTENDS Integers, Sequences, FiniteSets, FiniteSetsExt

CONSTANTS
    Users,        \* threads that stop the server
    NumThreads,   \* m_nThreadNum
    MaxFds,       \* connections the descriptor limit leaves room for
    MaxConns,     \* bound: peers that connect in a behaviour
    MaxStarts,    \* bound: calls of start()
    MaxStops      \* bound: calls of stop()

ASSUME TcpServerConstants ==
    /\ NumThreads \in Nat \ {0} /\ MaxFds \in Nat /\ MaxConns \in Nat
    /\ MaxStarts \in Nat /\ MaxStops \in Nat

Conns == 1..MaxConns                   \* m_nNextSockId counts them
Loops == 1..(NumThreads * MaxStarts)   \* the loops of all pools

VARIABLES
    \* the base loop and its thread
    baseQueue, batch,    \* pendingFunctors_, and the functors doPendingFunctors took
    basePc,              \* where the base thread is inside a functor
    \* TcpServer
    started,             \* m_AtomicIntStarted
    listening,           \* m_acceptor
    connections,         \* keys of m_mapConnections
    nextSockId,          \* m_nNextSockId
    latch,               \* stopLatch_
    \* EventLoopThreadPool
    pool,                \* m_threadPool is not null
    loops_, threads_, next_,
    \* the io loops and their threads
    loop,                \* EventLoopThread and the EventLoop on its stack
    ioQueue,             \* pendingFunctors_
    idleTimers,          \* timers running onCheckConnTimeOut
    \* the connections
    conn,                \* TcpConnection: state_, loop_, whether its channel is in the poller
    connLatch,           \* the latch of the connection stopInLoop is closing
    ups, downs,          \* connection callbacks that reported up, and down
    halfClosed,          \* history: connections destroyed in kDisconnecting
    \* the environment
    backlog,             \* peers waiting in the listen queue
    waiting,             \* users inside stop()
    calls,               \* calls of start(), stop() and connect() so far
    \* history: what has gone wrong
    lostQuits,           \* loops whose quit() loop() overwrote
    latchOverwritten     \* resetCount came before a waiter saw the count at 0

baseVars == <<baseQueue, batch, basePc>>
serverVars == <<started, listening, latch>>
poolVars == <<pool, loops_, threads_, next_>>
ioVars == <<loop, ioQueue, idleTimers>>
connVars == <<connections, nextSockId, conn, ups, downs, halfClosed, connLatch>>
envVars == <<backlog, waiting, calls>>
flags == <<lostQuits, latchOverwritten>>
vars == <<baseVars, serverVars, poolVars, ioVars, connVars, envVars, flags>>

Idle == [at |-> "idle"]
Crashed == [at |-> "crashed"]
BaseOps == [op : {"start", "stop", "startTimer"}] \cup [op : {"remove"}, c : Conns]
IoOps == [op : {"runEvery"}]
         \cup [op : {"established", "destroyed", "destroyedWithLatch"}, c : Conns]

TypeOK ==
    /\ baseQueue \in Seq(BaseOps) /\ batch \in Seq(BaseOps)
    /\ basePc \in {Idle, Crashed} \cup [at : {"startLoop", "destruct", "join"},
                                        i : 1..NumThreads]
                  \cup [at : {"next"}] \cup [at : {"close"}, c : Conns]
    /\ started \in 0..1 /\ listening \in BOOLEAN /\ latch \in Int
    /\ connections \subseteq Conns /\ nextSockId \in 1..(MaxConns + 1)
    /\ pool \in BOOLEAN /\ next_ \in 0..(NumThreads - 1)
    /\ loops_ \in Seq(Loops) /\ threads_ \in Seq(Loops)
    /\ loop \in [Loops -> [at : {"none", "init", "published", "looping", "left", "gone"},
                           quit : BOOLEAN]]
    /\ ioQueue \in [Loops -> Seq(IoOps)]
    /\ idleTimers \in [Loops -> Nat]
    /\ conn \in [Conns -> [state : {"none", "kConnecting", "kConnected", "kDisconnecting",
                                    "kDisconnected"},
                           loop : Loops \cup {0}, registered : BOOLEAN]]
    /\ ups \in [Conns -> Nat] /\ downs \in [Conns -> Nat]
    /\ connLatch \in Int
    /\ halfClosed \subseteq Conns
    /\ backlog \in 0..MaxConns /\ waiting \subseteq Users
    /\ calls \in [{"start", "stop", "connect"} -> Nat]
    /\ lostQuits \subseteq Loops /\ latchOverwritten \in BOOLEAN

Init ==
    /\ baseQueue = <<>> /\ batch = <<>> /\ basePc = Idle
    /\ started = 0 /\ listening = FALSE /\ latch = 1
    /\ pool = FALSE /\ loops_ = <<>> /\ threads_ = <<>> /\ next_ = 0
    /\ loop = [l \in Loops |-> [at |-> "none", quit |-> FALSE]]
    /\ ioQueue = [l \in Loops |-> <<>>]
    /\ idleTimers = [l \in Loops |-> 0]
    /\ connections = {} /\ nextSockId = 1
    /\ conn = [c \in Conns |-> [state |-> "none", loop |-> 0, registered |-> FALSE]]
    /\ ups = [c \in Conns |-> 0] /\ downs = [c \in Conns |-> 0] /\ halfClosed = {}
    /\ connLatch = 0
    /\ backlog = 0 /\ waiting = {} /\ calls = [x \in {"start", "stop", "connect"} |-> 0]
    /\ lostQuits = {} /\ latchOverwritten = FALSE

-----------------------------------------------------------------------------
(* Helpers.                                                                *)

\* queueInLoop of an io loop; a loop that is gone is freed memory, and the
\* functor vanishes.
Queued(l, functor) ==
    IF loop[l].at = "gone" THEN ioQueue
    ELSE [ioQueue EXCEPT ![l] = Append(@, functor)]

\* A TcpConnection, and with it its descriptor, lives as long as the map, a
\* functor or the stopping base thread holds a reference.
Mentions(queue, c) == \E i \in DOMAIN queue : "c" \in DOMAIN queue[i] /\ queue[i].c = c
Alive(c) ==
    \/ c \in connections
    \/ basePc = [at |-> "close", c |-> c]
    \/ Mentions(baseQueue, c) \/ Mentions(batch, c)
    \/ \E l \in Loops : Mentions(ioQueue[l], c)
FdsInUse == Cardinality({c \in Conns : Alive(c)})

\* Mutant of NextIndex: next_ is not advanced.
NextIndexStuck == next_

\* getNextLoop: round robin over loops_.
NextIndex == IF next_ + 1 >= Len(loops_) THEN 0 ELSE next_ + 1

\* The base thread takes the next functor of its batch, for which op stands.
Takes(op) ==
    /\ basePc = Idle /\ batch # <<>> /\ Head(batch).op = op
    /\ batch' = Tail(batch)

-----------------------------------------------------------------------------
(* The base loop: start.                                                   *)

\* doPendingFunctors swaps the queue with an empty vector and runs the batch.
DoPendingFunctors ==
    /\ basePc = Idle /\ batch = <<>> /\ baseQueue # <<>>
    /\ batch' = baseQueue /\ baseQueue' = <<>>
    /\ UNCHANGED <<basePc, serverVars, poolVars, ioVars, connVars, envVars, flags>>

\* Thread::start of the pool's i-th EventLoopThread: a thread with a new loop.
Spawn(threads) ==
    LET l == 1 + Cardinality({k \in Loops : loop[k].at # "none"}) IN
    /\ threads_' = Append(threads, l)
    /\ loop' = [loop EXCEPT ![l].at = "init"]

\* start(): the latch is set again whether or not the server is running.
Start ==
    /\ Takes("start")
    /\ latch' = 1
    /\ latchOverwritten' = (latchOverwritten \/ (latch <= 0 /\ waiting # {}))
    /\ started' = 1
    /\ IF started = 0
       THEN /\ pool' = TRUE /\ loops_' = <<>> /\ next_' = 0
            /\ Spawn(<<>>)
            /\ basePc' = [at |-> "startLoop", i |-> 1]
       ELSE UNCHANGED <<poolVars, loop, basePc>>
    /\ UNCHANGED <<baseQueue, listening, ioQueue, idleTimers, connVars, envVars, lostQuits>>

\* EventLoopThreadPool::start waits for each loop to be published before it
\* creates the next thread; then TcpServer::start listens.
StartLoop(i) ==
    /\ basePc = [at |-> "startLoop", i |-> i]
    /\ loop[threads_[i]].at \in {"published", "looping"}
    /\ loops_' = Append(loops_, threads_[i])
    /\ IF i < NumThreads
       THEN Spawn(threads_) /\ basePc' = [basePc EXCEPT !.i = i + 1] /\ UNCHANGED listening
       ELSE listening' = TRUE /\ basePc' = Idle /\ UNCHANGED <<threads_, loop>>
    /\ UNCHANGED <<baseQueue, batch, started, latch, pool, next_, ioQueue, idleTimers,
                   connVars, envVars, flags>>

\* startTimer: the idle timer goes to whichever loop is next.  Without a pool
\* it calls a member of a null pointer.
StartTimer ==
    /\ Takes("startTimer")
    /\ IF pool
       THEN /\ ioQueue' = Queued(loops_[next_ + 1], [op |-> "runEvery"])
            /\ next_' = NextIndex
            /\ UNCHANGED basePc
       ELSE basePc' = Crashed /\ UNCHANGED <<ioQueue, next_>>
    /\ UNCHANGED <<baseQueue, serverVars, pool, loops_, threads_, loop, idleTimers, connVars,
                   envVars, flags>>

-----------------------------------------------------------------------------
(* The base loop: connections.                                             *)

\* handleRead of the Acceptor has a peer to accept.
Accepts ==
    /\ basePc = Idle /\ batch = <<>> /\ listening /\ backlog > 0
    /\ backlog' = backlog - 1
    /\ UNCHANGED <<baseVars, serverVars, pool, loops_, threads_, loop, idleTimers, waiting,
                   calls, flags, ups, downs, halfClosed, connLatch>>

\* newConnection: the connection joins the map and is established in its loop.
NewConnection ==
    /\ FdsInUse < MaxFds
    /\ Accepts
    /\ LET l == loops_[next_ + 1] IN
       /\ conn' = [conn EXCEPT ![nextSockId] =
                     [state |-> "kConnecting", loop |-> l, registered |-> FALSE]]
       /\ ioQueue' = Queued(l, [op |-> "established", c |-> nextSockId])
    /\ next_' = NextIndex
    /\ connections' = connections \cup {nextSockId}
    /\ nextSockId' = nextSockId + 1

\* Mutant of RefuseConnection: accept() fails and the peer stays in the queue.
LeaveInBacklog ==
    /\ FdsInUse >= MaxFds /\ basePc = Idle /\ batch = <<>> /\ listening /\ backlog > 0
    /\ UNCHANGED vars

\* EMFILE: the idle descriptor is given up to accept and close the peer.
RefuseConnection ==
    /\ FdsInUse >= MaxFds
    /\ Accepts
    /\ UNCHANGED <<conn, ioQueue, next_, connections, nextSockId>>

\* removeConnectionInLoop: connectDestroyed is queued without waiting for it.
\* stop() may have taken the connection out of the map already; the assertion
\* that it has not is off in a release build.
RemoveConnectionInLoop ==
    /\ Takes("remove")
    /\ LET c == Head(batch).c IN
       /\ connections' = connections \ {c}
       /\ ioQueue' = Queued(conn[c].loop, [op |-> "destroyed", c |-> c])
    /\ UNCHANGED <<baseQueue, basePc, serverVars, poolVars, loop, idleTimers, nextSockId, conn,
                   ups, downs, halfClosed, connLatch, envVars, flags>>

-----------------------------------------------------------------------------
(* The base loop: stopInLoop.                                              *)

\* The Acceptor is destroyed: peers in the listen queue are reset.
StopInLoop ==
    /\ Takes("stop")
    /\ listening' = FALSE /\ backlog' = 0
    /\ basePc' = [at |-> "next"]
    /\ UNCHANGED <<baseQueue, started, latch, poolVars, ioVars, connVars, waiting, calls, flags>>

\* Mutant of NewLatch: nobody waits on it.
LatchAtZero == 0

\* new CountDownLatch(1).
NewLatch == 1

\* The next connection of the map is destroyed in its loop ...
CloseNext ==
    /\ basePc = [at |-> "next"] /\ connections # {}
    /\ LET c == Min(connections) IN
       /\ ioQueue' = Queued(conn[c].loop, [op |-> "destroyedWithLatch", c |-> c])
       /\ basePc' = [at |-> "close", c |-> c]
    /\ connLatch' = NewLatch
    /\ UNCHANGED <<baseQueue, batch, serverVars, poolVars, loop, idleTimers, connections,
                   nextSockId, conn, ups, downs, halfClosed, envVars, flags>>

\* ... and leaves the map when the latch is down.
Closed ==
    /\ basePc.at = "close" /\ connLatch <= 0
    /\ connections' = connections \ {basePc.c}
    /\ basePc' = [at |-> "next"]
    /\ UNCHANGED <<baseQueue, batch, serverVars, poolVars, ioVars, nextSockId, conn, ups, downs,
                   halfClosed, connLatch, envVars, flags>>

\* The end of stopInLoop, with the pool destroyed.
Stopped ==
    /\ pool' = FALSE /\ loops_' = <<>> /\ threads_' = <<>>
    /\ started' = 0 /\ latch' = latch - 1
    /\ basePc' = Idle

\* m_threadPool.reset(): ~EventLoopThreadPool quits every loop before it
\* destroys the threads one after the other.
ResetPool ==
    /\ basePc = [at |-> "next"] /\ connections = {}
    /\ IF pool THEN /\ loop' = [l \in Loops |-> [loop[l] EXCEPT !.quit = @ \/ l \in Range(loops_)]]
                    /\ basePc' = [at |-> "destruct", i |-> 1]
                    /\ UNCHANGED <<pool, loops_, threads_, started, latch>>
               ELSE Stopped /\ UNCHANGED loop
    /\ UNCHANGED <<baseQueue, batch, listening, next_, ioQueue, idleTimers, connVars, envVars,
                   flags>>

\* ~EventLoopThread quits the loop once more and joins the thread, if the
\* thread has not yet taken loop_ away.
DestructThread(i) ==
    /\ basePc = [at |-> "destruct", i |-> i]
    /\ loop[threads_[i]].at # "gone"
    /\ loop' = [loop EXCEPT ![threads_[i]].quit = TRUE]
    /\ basePc' = [basePc EXCEPT !.at = "join"]
    /\ UNCHANGED <<baseQueue, batch, serverVars, poolVars, ioQueue, idleTimers, connVars, envVars,
                   flags>>

\* The thread has ended: on to the next one, or to the end of stopInLoop.
ThreadDestroyed(i) ==
    /\ basePc \in [at : {"destruct", "join"}, i : {i}]
    /\ loop[threads_[i]].at = "gone"
    /\ IF i < Len(threads_)
       THEN basePc' = [at |-> "destruct", i |-> i + 1]
            /\ UNCHANGED <<pool, loops_, threads_, started, latch>>
       ELSE Stopped
    /\ UNCHANGED <<baseQueue, batch, listening, next_, ioVars, connVars, envVars, flags>>

-----------------------------------------------------------------------------
(* The io threads.                                                         *)

\* threadFunc up to the publication of loop_: onThreadInit has asked the base
\* loop for an idle timer.
ThreadInit(l) ==
    /\ loop[l].at = "init"
    /\ loop' = [loop EXCEPT ![l].at = "published"]
    /\ baseQueue' = Append(baseQueue, [op |-> "startTimer"])
    /\ UNCHANGED <<batch, basePc, serverVars, poolVars, ioQueue, idleTimers, connVars, envVars,
                   flags>>

\* loop() begins by clearing quit_.
LoopBegin(l) ==
    /\ loop[l].at = "published"
    /\ loop' = [loop EXCEPT ![l] = [at |-> "looping", quit |-> FALSE]]
    /\ lostQuits' = IF loop[l].quit THEN lostQuits \cup {l} ELSE lostQuits
    /\ UNCHANGED <<baseVars, serverVars, poolVars, ioQueue, idleTimers, connVars, envVars,
                   latchOverwritten>>

\* Io loop l runs the functor at the head of its queue.
Runs(l, ops) ==
    /\ loop[l].at = "looping" /\ ioQueue[l] # <<>> /\ Head(ioQueue[l]).op \in ops
    /\ ioQueue' = [ioQueue EXCEPT ![l] = Tail(@)]
    /\ UNCHANGED <<baseVars, serverVars, poolVars, loop, connections, nextSockId, envVars, flags>>

RunEvery(l) ==
    /\ Runs(l, {"runEvery"})
    /\ idleTimers' = [idleTimers EXCEPT ![l] = @ + 1]
    /\ UNCHANGED <<conn, ups, downs, halfClosed, connLatch>>

ConnectEstablished(l) ==
    /\ Runs(l, {"established"})
    /\ LET c == Head(ioQueue[l]).c IN
       /\ conn' = [conn EXCEPT ![c].state = "kConnected", ![c].registered = TRUE]
       /\ ups' = [ups EXCEPT ![c] = @ + 1]
    /\ UNCHANGED <<idleTimers, downs, halfClosed, connLatch>>

\* Mutants of ReportsClose: a close is reported in every state, and never.
ReportsAlways(c) == TRUE
ReportsNever(c) == FALSE

\* connectDestroyed tells the user of a connection in kConnected only.
ReportsClose(c) == conn[c].state = "kConnected"

\* Mutant of CountsDown: the latch is counted down with the report.
CountsDownWithReport(functor) ==
    functor.op = "destroyedWithLatch" /\ conn[functor.c].state = "kConnected"

\* connectDestroyedWithLatch counts down in every state.
CountsDown(functor) == functor.op = "destroyedWithLatch"

\* connectDestroyed and connectDestroyedWithLatch.
ConnectDestroyed(l) ==
    /\ Runs(l, {"destroyed", "destroyedWithLatch"})
    /\ LET c == Head(ioQueue[l]).c IN
       /\ conn' = [conn EXCEPT ![c].registered = FALSE,
                              ![c].state = IF ReportsClose(c) THEN "kDisconnected" ELSE @]
       /\ downs' = [downs EXCEPT ![c] = IF ReportsClose(c) THEN @ + 1 ELSE @]
       /\ halfClosed' = IF conn[c].state = "kDisconnecting" THEN halfClosed \cup {c}
                                                           ELSE halfClosed
    /\ connLatch' = IF CountsDown(Head(ioQueue[l])) THEN connLatch - 1 ELSE connLatch
    /\ UNCHANGED <<idleTimers, ups>>

\* handleClose: the user is told and the base loop is asked to remove it.
HandleClose(c) ==
    /\ conn[c].state \in {"kConnected", "kDisconnecting"} /\ conn[c].registered
    /\ loop[conn[c].loop].at = "looping"
    /\ conn' = [conn EXCEPT ![c].state = "kDisconnected"]
    /\ downs' = [downs EXCEPT ![c] = @ + 1]
    /\ baseQueue' = Append(baseQueue, [op |-> "remove", c |-> c])
    /\ UNCHANGED <<batch, basePc, serverVars, poolVars, ioVars, connections, nextSockId, ups,
                   halfClosed, connLatch, envVars, flags>>

\* The user shuts a connection down that still has data to write.
Shutdown(c) ==
    /\ conn[c].state = "kConnected" /\ loop[conn[c].loop].at = "looping"
    /\ conn' = [conn EXCEPT ![c].state = "kDisconnecting"]
    /\ UNCHANGED <<baseVars, serverVars, poolVars, ioVars, connections, nextSockId, ups, downs,
                   halfClosed, connLatch, envVars, flags>>

\* loop() sees quit_: functors queued since the last batch are never run.
LoopEnd(l) ==
    /\ loop[l].at = "looping" /\ loop[l].quit
    /\ loop' = [loop EXCEPT ![l].at = "left"]
    /\ UNCHANGED <<baseVars, serverVars, poolVars, ioQueue, idleTimers, connVars, envVars, flags>>

\* loop_ = NULL, the loop on the stack is destroyed and the thread ends.
ThreadExit(l) ==
    /\ loop[l].at = "left"
    /\ loop' = [loop EXCEPT ![l].at = "gone"]
    /\ ioQueue' = [ioQueue EXCEPT ![l] = <<>>]
    /\ UNCHANGED <<baseVars, serverVars, poolVars, idleTimers, connVars, envVars, flags>>

-----------------------------------------------------------------------------
(* Users and peers.                                                        *)

\* Some thread has start() run in the base loop.
CallStart ==
    /\ calls["start"] < MaxStarts
    /\ calls' = [calls EXCEPT !["start"] = @ + 1]
    /\ baseQueue' = Append(baseQueue, [op |-> "start"])
    /\ UNCHANGED <<batch, basePc, serverVars, poolVars, ioVars, connVars, backlog, waiting, flags>>

CallStop(u) ==
    /\ u \notin waiting /\ calls["stop"] < MaxStops
    /\ calls' = [calls EXCEPT !["stop"] = @ + 1]
    /\ baseQueue' = Append(baseQueue, [op |-> "stop"])
    /\ waiting' = waiting \cup {u}
    /\ UNCHANGED <<batch, basePc, serverVars, poolVars, ioVars, connVars, backlog, flags>>

\* stopLatch_->wait() returns.
ReturnFromStop(u) ==
    /\ u \in waiting /\ latch <= 0
    /\ waiting' = waiting \ {u}
    /\ UNCHANGED <<baseVars, serverVars, poolVars, ioVars, connVars, backlog, calls, flags>>

PeerConnects ==
    /\ listening /\ calls["connect"] < MaxConns
    /\ calls' = [calls EXCEPT !["connect"] = @ + 1]
    /\ backlog' = backlog + 1
    /\ UNCHANGED <<baseVars, serverVars, poolVars, ioVars, connVars, waiting, flags>>

-----------------------------------------------------------------------------

BaseStep ==
    \/ DoPendingFunctors
    \/ Start \/ StartTimer \/ StopInLoop \/ RemoveConnectionInLoop
    \/ NewConnection \/ RefuseConnection
    \/ CloseNext \/ Closed \/ ResetPool
    \/ \E i \in 1..NumThreads : StartLoop(i) \/ DestructThread(i) \/ ThreadDestroyed(i)

IoStep(l) ==
    \/ ThreadInit(l) \/ LoopBegin(l) \/ LoopEnd(l) \/ ThreadExit(l)
    \/ RunEvery(l) \/ ConnectEstablished(l) \/ ConnectDestroyed(l)

Env ==
    \/ CallStart
    \/ \E u \in Users : CallStop(u)
    \/ \E c \in Conns : HandleClose(c) \/ Shutdown(c)
    \/ PeerConnects

\* After a crash the base thread takes no step; what the other threads still
\* do says nothing about the program.
Next ==
    \/ BaseStep
    \/ \E l \in Loops : IoStep(l)
    \/ \E u \in Users : ReturnFromStop(u)
    \/ Env

Spec == Init /\ [][Next]_vars

\* Every thread runs on as long as it is not blocked.
Fairness ==
    /\ WF_vars(BaseStep)
    /\ \A l \in Loops : WF_vars(IoStep(l))
    /\ \A u \in Users : WF_vars(ReturnFromStop(u))

FairSpec == Spec /\ Fairness

-----------------------------------------------------------------------------
(* Properties.                                                             *)

\* However stop(), the peer's close and the queued removal interleave, the
\* user hears of each connection once that it is up and at most once, and
\* only afterwards, that it is down.
CallbacksPaired == \A c \in Conns : downs[c] <= ups[c] /\ ups[c] <= 1

\* A connection that has not been reported closed never loses its io loop:
\* stopInLoop destroys the connections before the pool.
OpenConnectionsHaveALoop ==
    \A c \in Conns :
        \/ conn[c].state \in {"kConnecting", "kConnected"}
        \/ conn[c].state = "kDisconnecting" /\ conn[c].registered
        => loop[conn[c].loop].at \notin {"left", "gone"}

\* When stopInLoop has ended, no connection is left: each one that was
\* accepted has been reported up and down, except those that stopInLoop found
\* in kDisconnecting, whose close the code never reports.
StoppedServerIsEmpty ==
    basePc = Idle /\ ~pool =>
        /\ connections = {}
        /\ \A c \in Conns : c < nextSockId => ups[c] = 1 /\ (downs[c] = 1 \/ c \in halfClosed)

\* Every io loop gets a timer that looks for idle connections, although the
\* timers and the new connections draw on the same round robin.
EveryLoopHasIdleTimer ==
    basePc = Idle /\ pool /\ [op |-> "startTimer"] \notin Range(baseQueue) \cup Range(batch)
    => \A l \in Range(loops_) : idleTimers[l] > 0 \/ [op |-> "runEvery"] \in Range(ioQueue[l])

\* stop() returns, unless a quit() came before loop() had begun, start() put
\* the latch up before the waiter looked, or the server was stopped with its
\* idle timers still to be started.
StopReturns ==
    \A u \in Users : u \in waiting ~>
        u \notin waiting \/ lostQuits # {} \/ latchOverwritten \/ basePc = Crashed

\* At the descriptor limit the Acceptor still empties the listen queue.
BacklogDrains ==
    backlog > 0 ~> backlog = 0 \/ lostQuits # {} \/ basePc = Crashed

=============================================================================
