--------------------------- MODULE TcpConnection ----------------------------
(***************************************************************************)
(* One TcpConnection (mwnet_mt/net/TcpConnection.cc) on its I/O loop: the  *)
(* state machine of state_, the list of unsent buffers with their send     *)
(* timers, suspended reading, and the ways a connection is closed, by its  *)
(* peer, by the loop thread, by other threads, and by the TcpServer.       *)
(*                                                                         *)
(* The loop is what modules EventLoop and TimerQueue describe: functors    *)
(* run in the order they were queued, and a timer that is cancelled while  *)
(* its batch is being called still runs.  Callbacks to the user are not    *)
(* queued but recorded in outcome.  Every message is sent at most once and *)
(* is MsgLen units long.  state_ is a plain variable that other threads    *)
(* test and set in separate steps.                                         *)
(***************************************************************************)
EXTENDS Naturals, Sequences, FiniteSets, Functions

CONSTANTS
    Msgs,         \* messages callers send
    Threads,      \* threads other than the I/O loop's
    LoopOps,      \* operations that callbacks in the loop thread call
    ForeignOps,   \* operations that other threads call
    Timeouts,     \* BOOLEAN values: do senders ask for a send timeout
    WriteFails,   \* may write() fail other than by blocking
    ServerStops,  \* may TcpServer::stop run
    MsgLen,
    MaxSendQue,   \* m_nMaxSendQue
    MaxOps        \* bound: operations other than send in a behaviour

CloseOps == {"shutdown", "forceClose", "forceCloseWithDelay"}
ReadOps == {"suspendRecv", "resumeRecv", "startRead", "stopRead"}

ASSUME ConnectionConstants ==
    /\ LoopOps \subseteq CloseOps \cup ReadOps
    /\ ForeignOps \subseteq CloseOps \cup ReadOps
    /\ Timeouts \subseteq BOOLEAN
    /\ WriteFails \in BOOLEAN /\ ServerStops \in BOOLEAN
    /\ MsgLen \in Nat \ {0} /\ MaxSendQue \in Nat /\ MaxOps \in Nat
    /\ {"none", "resume", "close"} \cap Msgs = {}

VARIABLES
    state_,
    reading_,
    chReading, chWriting,   \* the interest set of channel_
    removed_,               \* channel_->removed_
    outputBufferList_,      \* <<message, units left>>, oldest first
    sendQueSize_,
    functors,               \* functors queued in the loop
    timers,                 \* armed timers: a message, "resume" or "close"
    timerBatch,             \* expired timers not yet called
    calling,                \* the loop is inside TimerQueue::handleRead
    tpc,                    \* what a thread inside a close operation does next
    baseQueue,              \* closeCallbacks the server's base loop has to serve
    inServer,               \* the connection is in m_mapConnections
    writeShut,              \* shutdownWrite has been called
    wire,                   \* history: the units written, by message
    taken,                  \* history: messages in the order sendInLoop saw them
    outcome,                \* history: per message, the results reported
    ret,                    \* history: per message, what send() returned
    closes, destroys,       \* history: calls of closeCallback_, connectDestroyed
    ops

chan == <<chReading, chWriting, removed_>>
out == <<outputBufferList_, sendQueSize_, wire, taken, outcome>>
clock == <<timers, timerBatch, calling>>
server == <<baseQueue, inServer, closes, destroys>>
vars == <<state_, reading_, chan, out, functors, clock, tpc, server, writeShut, ret, ops>>

States == {"kConnecting", "kConnected", "kDisconnecting", "kDisconnected"}
Timers == Msgs \cup {"resume", "close"}
Codes == {"SUCCESS", "DISCONNECTED", "HIGHWATERMARK", "WRITEERR", "TIMEOUT"}
InLoopOps == ReadOps \cup {"sendInLoop", "shutdownInLoop", "forceCloseInLoop",
                           "addCloseTimer", "connectEstablished", "connectDestroyed"}
Functor == [op : InLoopOps, msg : Msgs \cup {"none"}, timeout : BOOLEAN]
Idle == [op |-> "none", step |-> "none"]

TypeOK ==
    /\ state_ \in States
    /\ reading_ \in BOOLEAN /\ chReading \in BOOLEAN /\ chWriting \in BOOLEAN
    /\ removed_ \in BOOLEAN
    /\ outputBufferList_ \in Seq(Msgs \X (1..MsgLen))
    /\ sendQueSize_ \in Nat
    /\ functors \in Seq(Functor)
    /\ timers \subseteq Timers /\ timerBatch \subseteq Timers /\ calling \in BOOLEAN
    /\ tpc \in [Threads -> [op : CloseOps, step : {"checked", "set"}] \cup {Idle}]
    /\ baseQueue \in Nat /\ inServer \in BOOLEAN
    /\ writeShut \in BOOLEAN
    /\ wire \in Seq(Msgs) /\ taken \in Seq(Msgs)
    /\ outcome \in [Msgs -> Seq(Codes)]
    /\ ret \in [Msgs -> Codes \cup {"none"}]
    /\ closes \in Nat /\ destroys \in Nat /\ ops \in Nat

\* TcpServer::newConnection: the connection is in the map, connectEstablished
\* queued in its loop.
Init ==
    /\ state_ = "kConnecting"
    /\ reading_ = TRUE /\ chReading = FALSE /\ chWriting = FALSE /\ removed_ = FALSE
    /\ outputBufferList_ = <<>> /\ sendQueSize_ = 0
    /\ functors = <<[op |-> "connectEstablished", msg |-> "none", timeout |-> FALSE]>>
    /\ timers = {} /\ timerBatch = {} /\ calling = FALSE
    /\ tpc = [t \in Threads |-> Idle]
    /\ baseQueue = 0 /\ inServer = TRUE
    /\ writeShut = FALSE
    /\ wire = <<>> /\ taken = <<>>
    /\ outcome = [m \in Msgs |-> <<>>]
    /\ ret = [m \in Msgs |-> "none"]
    /\ closes = 0 /\ destroys = 0 /\ ops = 0

-----------------------------------------------------------------------------
(* Helpers.                                                                *)

Queue(op) == Append(functors, [op |-> op, msg |-> "none", timeout |-> FALSE])

\* Messages in the output list.
Unsent == {outputBufferList_[i][1] : i \in DOMAIN outputBufferList_}

\* Mutant of Closable: a connection that is down counts too.
ClosableWhenDown == state_ # "kConnecting"

\* The condition of forceClose, forceCloseInLoop and forceCloseWithDelay.
Closable == state_ \in {"kConnected", "kDisconnecting"}

Report(m, code) == outcome' = [outcome EXCEPT ![m] = Append(@, code)]

\* Mutant of ReportAll: the unsent messages are dropped silently.
ReportNone(ms, code) == UNCHANGED outcome

\* writeErrCallback_ for each of the messages ms
ReportAll(ms, code) ==
    outcome' = [m \in Msgs |-> IF m \in ms THEN Append(outcome[m], code) ELSE outcome[m]]

\* Mutant of CancelTimers: the send timers stay armed.
CancelNoTimers(ms) == UNCHANGED timers

\* loop_->cancel(timerid_) for each of the messages ms
CancelTimers(ms) == timers' = timers \ ms

\* write() takes n units of m.
Written(m, n) == wire' = wire \o [i \in 1..n |-> m]

Without(seq, i) == SubSeq(seq, 1, i - 1) \o SubSeq(seq, i + 1, Len(seq))

-----------------------------------------------------------------------------
(* Sending.                                                                *)

\* Mutant of Enqueue: the channel is not told to wait.
EnqueueOnly(m, left, timeout) ==
    /\ outputBufferList_' = Append(outputBufferList_, <<m, left>>)
    /\ sendQueSize_' = sendQueSize_ + 1
    /\ timers' = IF timeout THEN timers \cup {m} ELSE timers
    /\ UNCHANGED <<chWriting, outcome>>

\* What sendInLoop leaves unsent goes to the end of the list, with a timer if
\* the caller asked for one, and the channel waits for the socket to be writable.
Enqueue(m, left, timeout) ==
    /\ outputBufferList_' = Append(outputBufferList_, <<m, left>>)
    /\ sendQueSize_' = sendQueSize_ + 1
    /\ timers' = IF timeout THEN timers \cup {m} ELSE timers
    /\ chWriting' = TRUE
    /\ UNCHANGED outcome

\* Mutant of WritesDirectly: the unsent data is overtaken.
WritesAlways == TRUE

\* sendInLoop tries write() itself when nothing is waiting.
WritesDirectly == ~chWriting /\ sendQueSize_ = 0

\* sendInLoop, with what write() returns
SendInLoop(m, timeout) ==
    /\ taken' = Append(taken, m)
    /\ \/ /\ state_ # "kConnected"
          /\ Report(m, "DISCONNECTED")
          /\ UNCHANGED <<outputBufferList_, sendQueSize_, timers, chWriting, wire>>
       \/ /\ state_ = "kConnected"
          /\ ~WritesDirectly
          /\ Enqueue(m, MsgLen, timeout)
          /\ UNCHANGED wire
       \/ /\ state_ = "kConnected"
          /\ WritesDirectly
          /\ \/ \E n \in 0..MsgLen - 1 :   \* 0: nothing written, or EWOULDBLOCK
                   /\ Written(m, n)
                   /\ Enqueue(m, MsgLen - n, timeout)
             \/ /\ Written(m, MsgLen)
                /\ Report(m, "SUCCESS")
                /\ UNCHANGED <<outputBufferList_, sendQueSize_, timers, chWriting>>
             \/ /\ WriteFails              \* EPIPE, ECONNRESET
                /\ Report(m, "WRITEERR")
                /\ UNCHANGED <<outputBufferList_, sendQueSize_, timers, chWriting, wire>>

\* What send() returns: only the length of the list decides.
SendResult == IF sendQueSize_ >= MaxSendQue THEN "HIGHWATERMARK" ELSE "SUCCESS"

\* send() in the loop thread, from a callback of this or another connection
LoopSend(m, timeout) ==
    /\ ret[m] = "none"
    /\ state_ # "kConnecting"
    /\ ret' = [ret EXCEPT ![m] = SendResult]
    /\ \/ /\ SendResult = "SUCCESS"
          /\ SendInLoop(m, timeout)
       \/ /\ SendResult # "SUCCESS"
          /\ UNCHANGED <<out, timers, chWriting>>
    /\ UNCHANGED <<state_, reading_, chReading, removed_, functors, timerBatch, calling, tpc,
                   server, writeShut, ops>>

\* send() in another thread
ForeignSend(m, timeout) ==
    /\ Threads # {}
    /\ ret[m] = "none"
    /\ state_ # "kConnecting"
    /\ ret' = [ret EXCEPT ![m] = SendResult]
    /\ functors' = IF SendResult = "SUCCESS"
                     THEN Append(functors, [op |-> "sendInLoop", msg |-> m, timeout |-> timeout])
                     ELSE functors
    /\ UNCHANGED <<state_, reading_, chan, out, clock, tpc, server, writeShut, ops>>

\* Mutant of ShutdownInLoop: isWriting() is not tested.
ShutdownAtOnce(writing) == writeShut' = TRUE

\* shutdownInLoop: while the channel is writing, handleWrite will do it.
ShutdownInLoop(writing) == writeShut' = (writeShut \/ ~writing)

\* Mutant of AfterRemoval: the shutdown that waits is forgotten.
AfterRemovalOnly(size) == chWriting' = (size > 0) /\ UNCHANGED writeShut

\* handleWrite has removed the front and size entries are left: after the last
\* one the channel stops writing and a shutdown that waited for it happens.
AfterRemoval(size) ==
    /\ chWriting' = (size > 0)
    /\ IF size <= 0 /\ state_ = "kDisconnecting" THEN ShutdownInLoop(FALSE)
                                                 ELSE UNCHANGED writeShut

\* What write() may take of a buffer without emptying it.
PartialWrites(left) == 1..left - 1

\* handleWrite: the front of the list is written, in part or to its end, or
\* given up when write() fails.
HandleWrite ==
    /\ ~calling /\ ~removed_ /\ chWriting
    /\ outputBufferList_ # <<>>
    /\ LET m == Head(outputBufferList_)[1]
           left == Head(outputBufferList_)[2]
           Drop == /\ outputBufferList_' = Tail(outputBufferList_)
                   /\ sendQueSize_' = sendQueSize_ - 1
                   /\ CancelTimers({m})
                   /\ AfterRemoval(sendQueSize_ - 1)
       IN  \/ \E n \in PartialWrites(left) :
                 /\ Written(m, n)
                 /\ outputBufferList_' = <<<<m, left - n>>>> \o Tail(outputBufferList_)
                 /\ UNCHANGED <<sendQueSize_, timers, chWriting, writeShut, outcome>>
           \/ Written(m, left) /\ Drop /\ Report(m, "SUCCESS")
           \/ WriteFails /\ Drop /\ Report(m, "WRITEERR") /\ UNCHANGED wire
    /\ UNCHANGED <<state_, reading_, chReading, removed_, taken, functors, timerBatch,
                   calling, tpc, server, ret, ops>>

\* sendTimeoutCallBack(it), it being the list entry of m
SendTimeoutCallBack(m) ==
    /\ Report(m, "TIMEOUT")
    /\ \E i \in DOMAIN outputBufferList_ :
          /\ outputBufferList_[i][1] = m
          /\ outputBufferList_' = Without(outputBufferList_, i)
    /\ sendQueSize_' = sendQueSize_ - 1
    /\ UNCHANGED <<wire, taken>>

-----------------------------------------------------------------------------
(* Closing.                                                                *)

\* setState(kDisconnected), disableAll() and callbackAllNoSendOutputBuffer(),
\* which handleClose and connectDestroyed share
FailAllUnsent ==
    /\ state_' = "kDisconnected"
    /\ chReading' = FALSE /\ chWriting' = FALSE
    /\ ReportAll(Unsent, "DISCONNECTED")
    /\ CancelTimers(Unsent)
    /\ outputBufferList_' = <<>>
    /\ sendQueSize_' = sendQueSize_ - Len(outputBufferList_)
    /\ UNCHANGED <<wire, taken>>

\* handleClose: closeCallback_ posts the removal to the server's base loop.
HandleClose ==
    /\ FailAllUnsent
    /\ closes' = closes + 1
    /\ baseQueue' = baseQueue + 1
    /\ UNCHANGED <<inServer, destroys>>

\* The peer has closed: handleRead reads 0, or POLLHUP comes without POLLIN.
PeerCloses ==
    /\ ~calling /\ ~removed_
    /\ chReading \/ chWriting
    /\ HandleClose
    /\ UNCHANGED <<reading_, removed_, functors, timerBatch, calling, tpc, writeShut, ret, ops>>

\* connectDestroyed and connectDestroyedWithLatch
ConnectDestroyed ==
    /\ destroys' = destroys + 1
    /\ removed_' = TRUE
    /\ IF state_ = "kConnected"
         THEN FailAllUnsent
         ELSE UNCHANGED <<state_, chReading, chWriting, out, timers>>
    /\ UNCHANGED <<baseQueue, inServer, closes>>

\* TcpServer::removeConnectionInLoop, in the base loop
RemoveConnectionInLoop ==
    /\ baseQueue > 0
    /\ baseQueue' = baseQueue - 1
    /\ inServer' = FALSE
    /\ functors' = Queue("connectDestroyed")
    /\ UNCHANGED <<state_, reading_, chan, out, clock, tpc, closes, destroys, writeShut, ret,
                   ops>>

\* TcpServer::stopInLoop, in the base loop, for a connection still in the map
StopInLoop ==
    /\ ServerStops
    /\ inServer
    /\ inServer' = FALSE
    /\ functors' = Queue("connectDestroyed")
    /\ UNCHANGED <<state_, reading_, chan, out, clock, tpc, baseQueue, closes, destroys,
                   writeShut, ret, ops>>

-----------------------------------------------------------------------------
(* Operations.                                                             *)

Precondition(op) ==
    CASE op = "shutdown" -> state_ = "kConnected"
      [] op \in {"forceClose", "forceCloseWithDelay"} -> Closable
      [] OTHER -> TRUE

InLoopOf(op) ==
    CASE op = "shutdown" -> "shutdownInLoop"
      [] op = "forceClose" -> "forceCloseInLoop"
      [] op = "forceCloseWithDelay" -> "addCloseTimer"
      [] OTHER -> op

\* startReadInLoop and stopReadInLoop: whatever the two flags were, they agree
\* afterwards.
SetReading(b) == reading_' = b /\ chReading' = b

\* suspendRecvInLoop, resumeRecvInLoop, startReadInLoop, stopReadInLoop
ReadOpInLoop(op) ==
    /\ SetReading(op \in {"resumeRecv", "startRead"})
    /\ timers' = CASE op = "suspendRecv" -> timers \cup {"resume"}
                   [] op = "resumeRecv" -> timers \ {"resume"}
                   [] OTHER -> timers

\* The same operations called in the loop thread, by any callback, those of
\* timers included.
LoopCall(op) ==
    /\ ops < MaxOps
    /\ ops' = ops + 1
    /\ state_ # "kConnecting"
    /\ Precondition(op)
    /\ state_' = IF op \in CloseOps THEN "kDisconnecting" ELSE state_
    /\ functors' = IF op = "forceClose" THEN Queue("forceCloseInLoop") ELSE functors
    /\ IF op = "shutdown" THEN ShutdownInLoop(chWriting) ELSE UNCHANGED writeShut
    /\ IF op \in ReadOps
         THEN ReadOpInLoop(op)
         ELSE /\ timers' = IF op = "forceCloseWithDelay" THEN timers \cup {"close"} ELSE timers
              /\ UNCHANGED <<reading_, chReading>>
    /\ UNCHANGED <<chWriting, removed_, out, timerBatch, calling, tpc, server, ret>>

\* A thread other than the loop's tests state_ ...
ForeignCall(t, op) ==
    /\ ops < MaxOps
    /\ ops' = ops + 1
    /\ state_ # "kConnecting"
    /\ tpc[t] = Idle
    /\ Precondition(op)
    /\ IF op \in ReadOps
         THEN functors' = Queue(op) /\ UNCHANGED tpc
         ELSE tpc' = [tpc EXCEPT ![t] = [op |-> op, step |-> "checked"]] /\ UNCHANGED functors
    /\ UNCHANGED <<state_, reading_, chan, out, clock, server, writeShut, ret>>

\* ... then sets it ...
ForeignSetState(t) ==
    /\ tpc[t].step = "checked"
    /\ state_' = "kDisconnecting"
    /\ tpc' = [tpc EXCEPT ![t].step = "set"]
    /\ UNCHANGED <<reading_, chan, out, functors, clock, server, writeShut, ret, ops>>

\* ... then hands the rest to the loop.
ForeignHandOver(t) ==
    /\ tpc[t].step = "set"
    /\ functors' = Queue(InLoopOf(tpc[t].op))
    /\ tpc' = [tpc EXCEPT ![t] = Idle]
    /\ UNCHANGED <<state_, reading_, chan, out, clock, server, writeShut, ret, ops>>

-----------------------------------------------------------------------------
(* The loop.                                                               *)

\* connectEstablished
ConnectEstablished ==
    /\ state_' = "kConnected"
    /\ chReading' = TRUE

\* doPendingFunctors runs the oldest functor.
RunFunctor ==
    /\ ~calling
    /\ functors # <<>>
    /\ functors' = Tail(functors)
    /\ LET f == Head(functors)
       IN  \/ /\ f.op = "connectEstablished"
              /\ ConnectEstablished
              /\ UNCHANGED <<reading_, chWriting, removed_, out, timers, server, writeShut>>
           \/ /\ f.op = "sendInLoop"
              /\ SendInLoop(f.msg, f.timeout)
              /\ UNCHANGED <<state_, reading_, chReading, removed_, server, writeShut>>
           \/ /\ f.op = "shutdownInLoop"
              /\ ShutdownInLoop(chWriting)
              /\ UNCHANGED <<state_, reading_, chan, out, timers, server>>
           \/ /\ f.op = "forceCloseInLoop"
              /\ IF Closable THEN HandleClose
                             ELSE UNCHANGED <<state_, chReading, chWriting, out, timers, server>>
              /\ UNCHANGED <<reading_, removed_, writeShut>>
           \/ /\ f.op = "addCloseTimer"
              /\ timers' = timers \cup {"close"}
              /\ UNCHANGED <<state_, reading_, chan, out, server, writeShut>>
           \/ /\ f.op = "connectDestroyed"
              /\ ConnectDestroyed
              /\ UNCHANGED <<reading_, writeShut>>
           \/ /\ f.op \in ReadOps
              /\ ReadOpInLoop(f.op)
              /\ UNCHANGED <<state_, chWriting, removed_, out, server, writeShut>>
    /\ UNCHANGED <<timerBatch, calling, tpc, ret, ops>>

\* TimerQueue::handleRead takes the expired timers out ...
TimersExpire ==
    /\ ~calling
    /\ \E batch \in (SUBSET timers) \ {{}} :
          /\ timerBatch' = batch
          /\ timers' = timers \ batch
    /\ calling' = TRUE
    /\ UNCHANGED <<state_, reading_, chan, out, functors, tpc, server, writeShut, ret, ops>>

\* ... and calls them.
RunTimer(timer) ==
    /\ calling
    /\ timer \in timerBatch
    /\ timerBatch' = timerBatch \ {timer}
    /\ \/ /\ timer \in Msgs
          /\ SendTimeoutCallBack(timer)
          /\ UNCHANGED <<state_, reading_, chReading, functors>>
       \/ /\ timer = "resume"
          /\ SetReading(TRUE)
          /\ UNCHANGED <<state_, out, functors>>
       \/ /\ timer = "close"
          /\ state_' = IF Closable THEN "kDisconnecting" ELSE state_
          /\ functors' = IF Closable THEN Queue("forceCloseInLoop") ELSE functors
          /\ UNCHANGED <<reading_, chReading, out>>
    /\ UNCHANGED <<chWriting, removed_, timers, calling, tpc, server, writeShut, ret, ops>>

TimersDone ==
    /\ calling
    /\ timerBatch = {}
    /\ calling' = FALSE
    /\ UNCHANGED <<state_, reading_, chan, out, functors, timers, timerBatch, tpc, server,
                   writeShut, ret, ops>>

LoopStep == HandleWrite \/ RunFunctor \/ TimersDone \/ \E timer \in Timers : RunTimer(timer)

Next ==
    \/ LoopStep
    \/ TimersExpire
    \/ PeerCloses
    \/ RemoveConnectionInLoop
    \/ StopInLoop
    \/ \E m \in Msgs, timeout \in Timeouts : LoopSend(m, timeout) \/ ForeignSend(m, timeout)
    \/ \E op \in LoopOps : LoopCall(op)
    \/ \E t \in Threads : \/ \E op \in ForeignOps : ForeignCall(t, op)
                          \/ ForeignSetState(t)
                          \/ ForeignHandOver(t)

\* The loop serves its functors and timers, a socket that is written to becomes
\* writable again, and the base loop and a thread inside an operation go on.
Fairness ==
    /\ WF_vars(RunFunctor)
    /\ WF_vars(HandleWrite)
    /\ WF_vars(TimersExpire)
    /\ WF_vars(TimersDone \/ \E timer \in Timers : RunTimer(timer))
    /\ WF_vars(RemoveConnectionInLoop)
    /\ \A t \in Threads : WF_vars(ForeignSetState(t) \/ ForeignHandOver(t))

Spec == Init /\ [][Next]_vars
FairSpec == Spec /\ Fairness

-----------------------------------------------------------------------------
(* Properties.                                                             *)

Indices(seq, m) == {i \in DOMAIN seq : seq[i] = m}

\* sendQueSize_, an unsigned counter kept by hand at six places, is the length
\* of the list, and as long as the connection is up a list that is not empty
\* has the channel waiting for the socket to be writable, so that handleWrite
\* will come.
UnsentDataIsWritten ==
    /\ sendQueSize_ = Len(outputBufferList_)
    /\ outputBufferList_ # <<>> => chWriting
    /\ state_ = "kDisconnected" => outputBufferList_ = <<>>

\* The list iterator bound to a send timer is valid whenever its timer can be
\* called: the entry is in the list, although cancelling a timer of a batch
\* that is being called does not stop it.  That forceClose and closeCallback_
\* go through queueInLoop, even in the loop thread, makes it so.
TimerIteratorValid == (timers \cup timerBatch) \cap Msgs \subseteq Unsent

\* A message that send() accepted is in exactly one place: on its way to the
\* loop, in the list, or reported to the user, once.
OneOutcome ==
    \A m \in Msgs :
        Cardinality({i \in DOMAIN functors : functors[i].msg = m})
        + Cardinality({i \in DOMAIN outputBufferList_ : outputBufferList_[i][1] = m})
        + Len(outcome[m]) = IF ret[m] = "SUCCESS" THEN 1 ELSE 0

\* The peer receives messages one after the other in the order sendInLoop took
\* them, never interleaved; one is cut short only if its failure is reported,
\* and reported as sent only if it is complete.
WireInOrder ==
    /\ \A i \in 1..Len(wire) - 1 : wire[i] # wire[i + 1] =>
          \E j, k \in DOMAIN taken : j < k /\ taken[j] = wire[i] /\ taken[k] = wire[i + 1]
    /\ \A m \in Msgs :
          /\ outcome[m] = <<"SUCCESS">> <=> Cardinality(Indices(wire, m)) = MsgLen
          /\ \A i \in Indices(wire, m) :
                i < Len(wire) /\ wire[i + 1] # m =>
                    outcome[m] \in {<<"SUCCESS">>, <<"WRITEERR">>, <<"TIMEOUT">>}

\* Once shutdownWrite has closed the sending side nothing is written any more,
\* and it never cuts off data that is still in the list.
NothingAfterShutdown ==
    [][/\ writeShut => wire' = wire
       /\ ~writeShut /\ writeShut' => outputBufferList_' = <<>>]_vars

\* closeCallback_ and connectDestroyed are called once at most, however many of
\* the ways to close the connection are used at the same time in the loop
\* thread.  (A forceClose of another thread that has tested state_ before
\* handleClose breaks this: "should be called only once", TcpConnection.h.)
ClosedOnce == closes <= 1 /\ destroys <= 1

\* The sending side is shut down, or the connection is down altogether.
HalfClosed == writeShut \/ state_ = "kDisconnected" \/ removed_

TimedOut(m) == "TIMEOUT" \in Range(outcome[m])

\* A connection that is being closed gets there, whether its unsent messages
\* are written or given up by write(): handleWrite shuts the sending side down
\* with the last of them.  The exception is a message that timed out:
\* sendTimeoutCallBack takes the last entry away and leaves the channel writing
\* and the shutdown waiting.
ShutdownCompletesUnlessTimeout ==
    state_ = "kDisconnecting" ~> HalfClosed \/ \E m \in Msgs : TimedOut(m)

-----------------------------------------------------------------------------
(* The parts that make the invariants above inductive; see                  *)
(* TcpConnectionProofs.                                                     *)

\* Outside TimerQueue::handleRead no expired timer waits, and a send timer is
\* armed or expiring, not both.
TimerInv ==
    /\ ~calling => timerBatch = {}
    /\ timers \cap timerBatch \cap Msgs = {}

\* A message is new until send() has returned, and only messages that it has
\* accepted travel to the loop.
SendInv ==
    /\ \A m \in Msgs : ret[m] = "none" => m \notin Unsent
    /\ \A i \in DOMAIN functors :
          functors[i].op = "sendInLoop" => /\ functors[i].msg \in Msgs
                                           /\ ret[functors[i].msg] # "none"

Down == state_ \in {"kDisconnecting", "kDisconnected"}

\* kConnecting lasts until connectEstablished, the first functor, has run, and
\* nothing has happened to the connection before; what leads to shutdownWrite
\* has made state_ leave kConnected for good, and finds the list empty.
PhaseInv ==
    /\ state_ = "kConnecting" =>
          /\ ~chReading /\ ~chWriting
          /\ timers = {} /\ timerBatch = {}
          /\ \A i \in DOMAIN functors :
                functors[i].op \in {"connectEstablished", "connectDestroyed"}
    /\ \A i \in DOMAIN functors :
          /\ functors[i].op = "connectEstablished" => i = 1 /\ state_ = "kConnecting"
          /\ functors[i].op = "shutdownInLoop" => Down
    /\ \A t \in Threads : /\ tpc[t].step = "checked" => state_ # "kConnecting"
                          /\ tpc[t].step = "set" => Down
    /\ writeShut => Down /\ outputBufferList_ = <<>>
=============================================================================
