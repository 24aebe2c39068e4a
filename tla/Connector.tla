------------------------------ MODULE Connector ------------------------------
(***************************************************************************)
(* Outgoing connections: Connector.cc and the TcpClient that owns it       *)
(* (net/TcpClient.cc), for a set of clients.  A Connector makes one        *)
(* attempt to connect per start(): a socket, a Channel that waits for it   *)
(* to become writable and a timer; its answer is a descriptor, which the   *)
(* TcpClient turns into a TcpConnection, or an error.                      *)
(*                                                                         *)
(* start(), stop() and disconnect() are called by other threads while the  *)
(* loop of the client runs functors, channel events and timers one at a    *)
(* time.  Attempts are numbered; the number stands for the socket, the     *)
(* Channel and the timer of the attempt.                                   *)
(*                                                                         *)
(* The model is of a release build, which the build files make by default  *)
(* (NDEBUG).  state_ stays kConnected after a success, so the second       *)
(* start() of a client fails assert(state_ == kDisconnected) of            *)
(* startInLoop in a debug build; xTcpClient calls start() once.            *)
(***************************************************************************)
EXTENDS Integers, Sequences

CONSTANTS
    Clients,
    Timeouts,       \* timeouts given to start(): 0 for none, 1 for some
    MaxAttempts,    \* bound: calls of start() per client
    Overlap         \* start() may be called before the last one was answered

ASSUME ConnectorConstants ==
    Timeouts \subseteq {0, 1} /\ MaxAttempts \in Nat /\ Overlap \in BOOLEAN

VARIABLES
    queue,          \* functors of the client's loop
    ctor,           \* Connector: state_, connect_, conn_timeout_, conn_timeout_timer_,
                    \*   channel_ and whether it is registered with the poller
    attempts,       \* attempts begun
    timers,         \* connect timers that have neither fired nor been cancelled
    sockets,        \* descriptors open
    ioPc,           \* the loop thread: "idle", in newConnection ("created",
                    \*   "published") or in handleClose ("closing")
    holder,         \* a thread in disconnect() holds mutex_ and has tested state_
    connection,     \* TcpClient::connection_: the attempt it came from, or 0
    tcp,            \* state_ of the latest TcpConnection
    starts,         \* calls of start()
    told,           \* history: what the user's connection callback was told
    answers,        \* history: number of answers to each attempt
    dangling        \* history: a registered Channel was destroyed

connectorVars == <<ctor, attempts, timers, answers, dangling>>
clientVars == <<ioPc, holder, connection, tcp>>
connVars == <<queue, connectorVars, clientVars, sockets, starts, told>>

Attempts == 1..MaxAttempts
Functors == {"startInLoop", "stopInLoop", "resetChannel", "connTimeOutInLoop",
             "forceCloseInLoop", "connectDestroyed"}
States == {"kDisconnected", "kConnecting", "kConnected"}

TypeOK ==
    /\ queue \in [Clients -> Seq(Functors)]
    /\ ctor \in [Clients -> [state : States, connect : BOOLEAN, timeout : {0, 1},
                             timer : 0..MaxAttempts, channel : 0..MaxAttempts,
                             registered : BOOLEAN]]
    /\ attempts \in [Clients -> 0..MaxAttempts] /\ starts \in [Clients -> 0..MaxAttempts]
    /\ timers \in [Clients -> SUBSET Attempts] /\ sockets \in [Clients -> SUBSET Attempts]
    /\ ioPc \in [Clients -> {"idle", "created", "published", "closing"}]
    /\ holder \in [Clients -> BOOLEAN]
    /\ connection \in [Clients -> 0..MaxAttempts]
    /\ tcp \in [Clients -> States \cup {"none", "kDisconnecting"}]
    /\ told \in [Clients -> Seq({"fail", "timeout", "aborted", "up", "down"})]
    /\ answers \in [Clients -> [Attempts -> Nat]]
    /\ dangling \in [Clients -> BOOLEAN]

ConnInit ==
    /\ queue = [k \in Clients |-> <<>>]
    /\ ctor = [k \in Clients |-> [state |-> "kDisconnected", connect |-> FALSE, timeout |-> 0,
                                  timer |-> 0, channel |-> 0, registered |-> FALSE]]
    /\ attempts = [k \in Clients |-> 0] /\ starts = [k \in Clients |-> 0]
    /\ timers = [k \in Clients |-> {}] /\ sockets = [k \in Clients |-> {}]
    /\ ioPc = [k \in Clients |-> "idle"]
    /\ holder = [k \in Clients |-> FALSE]
    /\ connection = [k \in Clients |-> 0]
    /\ tcp = [k \in Clients |-> "none"]
    /\ told = [k \in Clients |-> <<>>]
    /\ answers = [k \in Clients |-> [a \in Attempts |-> 0]]
    /\ dangling = [k \in Clients |-> FALSE]

-----------------------------------------------------------------------------
(* Helpers.                                                                *)

\* The loop of client k, with nothing on its stack, runs functor f.
Runs(k, f) ==
    /\ ioPc[k] = "idle" /\ queue[k] # <<>> /\ Head(queue[k]) = f

Current(k) == attempts[k]    \* the latest attempt

\* newConnectionCallback_(-1, ...): TcpClient passes the failure to the user.
Answer(k, text) ==
    /\ answers' = [answers EXCEPT ![k][Current(k)] = @ + 1]
    /\ told' = [told EXCEPT ![k] = Append(@, text)]

\* Mutant of ClosesSocket: an aborted attempt keeps its descriptor.
KeepsSocketWhenAborted(text) == text # "aborted"

\* Every way an attempt can fail closes its socket.
ClosesSocket(text) == text \in {"fail", "timeout", "aborted"}

\* Mutant of ResetLater: the Channel is taken from the poller and kept.
ResetNever(rest) == rest

\* removeAndResetChannel runs inside Channel::handleEvent, so the reset is
\* queued behind what is there.
ResetLater(rest) == Append(rest, "resetChannel")

\* An attempt in kConnecting fails: removeAndResetChannel, close, callback.
\* rest is what is left of the queue.
Fails(k, text, rest) ==
    /\ ctor' = [ctor EXCEPT ![k].state = "kDisconnected", ![k].registered = FALSE]
    /\ queue' = [queue EXCEPT ![k] = ResetLater(rest)]
    /\ sockets' = [sockets EXCEPT ![k] = IF ClosesSocket(text) THEN @ \ {Current(k)} ELSE @]
    /\ Answer(k, text)
    /\ UNCHANGED <<attempts, dangling, clientVars, starts>>

-----------------------------------------------------------------------------
(* Calls of other threads.                                                 *)

\* TcpClient::connect, Connector::start.
Start(k, t) ==
    /\ starts[k] < MaxAttempts
    /\ starts' = [starts EXCEPT ![k] = @ + 1]
    /\ ctor' = [ctor EXCEPT ![k].connect = TRUE, ![k].timeout = t]
    /\ queue' = [queue EXCEPT ![k] = Append(@, "startInLoop")]
    /\ UNCHANGED <<attempts, timers, answers, dangling, clientVars, sockets, told>>

\* TcpClient::stop, Connector::stop.
Stop(k) ==
    /\ ctor' = [ctor EXCEPT ![k].connect = FALSE]
    /\ queue' = [queue EXCEPT ![k] = Append(@, "stopInLoop")]
    /\ UNCHANGED <<attempts, timers, answers, dangling, clientVars, sockets, starts, told>>

\* TcpClient::disconnect: shutdown and forceClose of connection_, under
\* mutex_.  They test state_ (before connectEstablished they do nothing) ...
Disconnect(k) ==
    /\ ~holder[k] /\ connection[k] # 0 /\ tcp[k] \in {"kConnected", "kDisconnecting"}
    /\ holder' = [holder EXCEPT ![k] = TRUE]
    /\ UNCHANGED <<queue, connectorVars, ioPc, connection, tcp, sockets, starts, told>>

\* ... and set it, whatever the loop thread has made of it meanwhile.
DisconnectSetsState(k) ==
    /\ holder[k]
    /\ holder' = [holder EXCEPT ![k] = FALSE]
    /\ tcp' = [tcp EXCEPT ![k] = "kDisconnecting"]
    /\ queue' = [queue EXCEPT ![k] = Append(@, "forceCloseInLoop")]
    /\ UNCHANGED <<connectorVars, ioPc, connection, sockets, starts, told>>

-----------------------------------------------------------------------------
(* The loop: Connector.                                                    *)

\* startInLoop and connect: the socket fails at once ...
ConnectFailsAtOnce(k) ==
    /\ Runs(k, "startInLoop") /\ ctor[k].connect
    /\ attempts' = [attempts EXCEPT ![k] = @ + 1]
    /\ ctor' = [ctor EXCEPT ![k].state = "kDisconnected"]
    /\ queue' = [queue EXCEPT ![k] = Tail(@)]
    /\ answers' = [answers EXCEPT ![k][attempts'[k]] = @ + 1]
    /\ told' = [told EXCEPT ![k] = Append(@, "fail")]
    /\ UNCHANGED <<timers, dangling, clientVars, sockets, starts>>

\* Mutant of SetsTimer: only the first attempt of a client has a timer.
SetsTimerOnce(k) == ctor[k].timeout > 0 /\ attempts[k] = 0

\* connecting() sets a timer when start() was given a timeout.
SetsTimer(k) == ctor[k].timeout > 0

\* ... or connecting() waits for it, with a new Channel in the place of the
\* last one.
Connecting(k) ==
    LET a == attempts[k] + 1 IN
    /\ Runs(k, "startInLoop") /\ ctor[k].connect
    /\ attempts' = [attempts EXCEPT ![k] = a]
    /\ sockets' = [sockets EXCEPT ![k] = @ \cup {a}]
    /\ ctor' = [ctor EXCEPT ![k].state = "kConnecting", ![k].channel = a,
                            ![k].registered = TRUE,
                            ![k].timer = IF SetsTimer(k) THEN a ELSE @]
    /\ timers' = [timers EXCEPT ![k] = IF SetsTimer(k) THEN @ \cup {a} ELSE @]
    /\ dangling' = [dangling EXCEPT ![k] = @ \/ ctor[k].registered]
    /\ queue' = [queue EXCEPT ![k] = Tail(@)]
    /\ UNCHANGED <<answers, clientVars, starts, told>>

\* A start() that was stopped before its functor ran connects nothing, and
\* tells nobody.
DoNotConnect(k) ==
    /\ Runs(k, "startInLoop") /\ ~ctor[k].connect
    /\ queue' = [queue EXCEPT ![k] = Tail(@)]
    /\ UNCHANGED <<connectorVars, clientVars, sockets, starts, told>>

\* Mutant of StopInLoop: the attempt in progress ends without its callback.
StopInLoopSilently(k) ==
    /\ Runs(k, "stopInLoop")
    /\ IF ctor[k].state = "kConnecting"
       THEN /\ ctor' = [ctor EXCEPT ![k].state = "kDisconnected", ![k].registered = FALSE]
            /\ queue' = [queue EXCEPT ![k] = ResetLater(Tail(@))]
            /\ sockets' = [sockets EXCEPT ![k] = @ \ {Current(k)}]
       ELSE queue' = [queue EXCEPT ![k] = Tail(@)] /\ UNCHANGED <<ctor, sockets>>
    /\ UNCHANGED <<attempts, timers, answers, dangling, clientVars, starts, told>>

\* stopInLoop leaves the timer of the attempt alone.
StopInLoop(k) ==
    /\ Runs(k, "stopInLoop")
    /\ UNCHANGED timers
    /\ IF ctor[k].state = "kConnecting"
       THEN Fails(k, "aborted", Tail(queue[k]))
       ELSE /\ queue' = [queue EXCEPT ![k] = Tail(@)]
            /\ UNCHANGED <<ctor, attempts, answers, dangling, clientVars, sockets, starts, told>>

\* resetChannel destroys whatever channel_ points to by now.
ResetChannel(k) ==
    /\ Runs(k, "resetChannel")
    /\ dangling' = [dangling EXCEPT ![k] = @ \/ ctor[k].registered]
    /\ ctor' = [ctor EXCEPT ![k].channel = 0, ![k].registered = FALSE]
    /\ queue' = [queue EXCEPT ![k] = Tail(@)]
    /\ UNCHANGED <<attempts, timers, answers, clientVars, sockets, starts, told>>

\* Mutant of Cancelled: the timer is not cancelled when the attempt ends.
NothingCancelled(k) == {}

\* The timers loop_->cancel(conn_timeout_timer_) takes away.
Cancelled(k) == {ctor[k].timer}

\* The Channel is ready and the socket is connected: handleWrite has seen
\* connect_ and is on its way to TcpClient::newConnection.
HandleWriteConnected(k) ==
    /\ ioPc[k] = "idle" /\ ctor[k].registered /\ ctor[k].state = "kConnecting"
    /\ ctor[k].connect
    /\ timers' = [timers EXCEPT ![k] = @ \ Cancelled(k)]
    /\ ctor' = [ctor EXCEPT ![k].state = "kConnected", ![k].registered = FALSE]
    /\ queue' = [queue EXCEPT ![k] = ResetLater(@)]
    /\ ioPc' = [ioPc EXCEPT ![k] = "created"]
    /\ tcp' = [tcp EXCEPT ![k] = "kConnecting"]
    /\ UNCHANGED <<attempts, answers, dangling, holder, connection, sockets, starts, told>>

\* handleWrite with a socket error, a connection to itself or a stop() seen
\* late, and handleError.
HandleWriteFails(k) ==
    /\ ioPc[k] = "idle" /\ ctor[k].registered /\ ctor[k].state = "kConnecting"
    /\ timers' = [timers EXCEPT ![k] = @ \ Cancelled(k)]
    /\ \/ Fails(k, "fail", queue[k])
       \/ ~ctor[k].connect /\ Fails(k, "aborted", queue[k])

\* handleConnTimeOut: the timer of attempt a expires.
ConnTimeOut(k, a) ==
    /\ ioPc[k] = "idle" /\ a \in timers[k]
    /\ timers' = [timers EXCEPT ![k] = @ \ {a}]
    /\ queue' = [queue EXCEPT ![k] = Append(@, "connTimeOutInLoop")]
    /\ UNCHANGED <<ctor, attempts, answers, dangling, clientVars, sockets, starts, told>>

\* Mutant of Abortable: a connection made meanwhile is reported as timed out.
AbortableAlways(k) == ctor[k].state # "kDisconnected"

Abortable(k) == ctor[k].state = "kConnecting"

\* handleConnTimeOutInLoop does not know which attempt's timer expired.
ConnTimeOutInLoop(k) ==
    /\ Runs(k, "connTimeOutInLoop")
    /\ timers' = [timers EXCEPT ![k] = @ \ Cancelled(k)]
    /\ IF Abortable(k)
       THEN Fails(k, "timeout", Tail(queue[k]))
       ELSE /\ queue' = [queue EXCEPT ![k] = Tail(@)]
            /\ UNCHANGED <<ctor, attempts, answers, dangling, clientVars, sockets, starts, told>>

-----------------------------------------------------------------------------
(* The loop: TcpClient and its TcpConnection.                              *)

\* newConnection stores connection_ under the mutex ...
PublishConnection(k) ==
    /\ ioPc[k] = "created" /\ ~holder[k]
    /\ connection' = [connection EXCEPT ![k] = Current(k)]
    /\ ioPc' = [ioPc EXCEPT ![k] = "published"]
    /\ UNCHANGED <<queue, connectorVars, holder, tcp, sockets, starts, told>>

\* ... and then runs connectEstablished, which tells the user.
Establish(k) ==
    /\ ioPc[k] = "published"
    /\ tcp' = [tcp EXCEPT ![k] = "kConnected"]
    /\ ioPc' = [ioPc EXCEPT ![k] = "idle"]
    /\ Answer(k, "up")
    /\ UNCHANGED <<queue, ctor, attempts, timers, dangling, holder, connection, sockets, starts>>

\* handleClose tells the user; rest is what is left of the queue ...
HandleClose(k, rest) ==
    /\ tcp' = [tcp EXCEPT ![k] = "kDisconnected"]
    /\ told' = [told EXCEPT ![k] = Append(@, "down")]
    /\ ioPc' = [ioPc EXCEPT ![k] = "closing"]
    /\ queue' = [queue EXCEPT ![k] = rest]
    /\ UNCHANGED <<connectorVars, holder, connection, sockets, starts>>

\* ... and removeConnection forgets connection_, under mutex_.
RemoveConnection(k) ==
    /\ ioPc[k] = "closing"
    /\ connection[k] # 0 => ~holder[k]
    /\ connection' = [connection EXCEPT ![k] = 0]
    /\ queue' = [queue EXCEPT ![k] = Append(@, "connectDestroyed")]
    /\ ioPc' = [ioPc EXCEPT ![k] = "idle"]
    /\ UNCHANGED <<connectorVars, holder, tcp, sockets, starts, told>>

\* The channel, disabled by handleClose, is ready no second time.
PeerCloses(k) ==
    /\ ioPc[k] = "idle" /\ connection[k] # 0 /\ tcp[k] \in {"kConnected", "kDisconnecting"}
    /\ HandleClose(k, queue[k])

ForceCloseInLoop(k) ==
    /\ Runs(k, "forceCloseInLoop")
    /\ IF tcp[k] \in {"kConnected", "kDisconnecting"}
       THEN HandleClose(k, Tail(queue[k]))
       ELSE /\ queue' = [queue EXCEPT ![k] = Tail(@)]
            /\ UNCHANGED <<connectorVars, clientVars, sockets, starts, told>>

\* connectDestroyed: with the last reference to the TcpConnection (a queued
\* forceCloseInLoop or a second connectDestroyed holds one too) goes the socket.
ConnectDestroyed(k) ==
    LET last == Tail(queue[k]) IN
    /\ Runs(k, "connectDestroyed")
    /\ IF \E i \in DOMAIN last : last[i] \in {"forceCloseInLoop", "connectDestroyed"}
       THEN UNCHANGED <<sockets, tcp>>
       ELSE /\ sockets' = [sockets EXCEPT ![k] = @ \ {Current(k)}]
            /\ tcp' = [tcp EXCEPT ![k] = "none"]
    /\ queue' = [queue EXCEPT ![k] = Tail(@)]
    /\ UNCHANGED <<connectorVars, ioPc, holder, connection, starts, told>>

-----------------------------------------------------------------------------

\* A step of the loop thread of client k that it owes to nobody else.
LoopStep(k) ==
    \/ ConnectFailsAtOnce(k) \/ Connecting(k) \/ DoNotConnect(k)
    \/ StopInLoop(k) \/ ResetChannel(k) \/ ConnTimeOutInLoop(k)
    \/ PublishConnection(k) \/ Establish(k)
    \/ RemoveConnection(k) \/ ForceCloseInLoop(k) \/ ConnectDestroyed(k)

TimerStep(k) == \E a \in Attempts : ConnTimeOut(k, a)

\* What the network does to client k.
NetworkStep(k) == HandleWriteConnected(k) \/ HandleWriteFails(k) \/ PeerCloses(k)

\* Whether everything asked of client k so far has come to its end.
Settled(k) ==
    /\ ctor[k].state # "kConnecting" /\ ioPc[k] = "idle" /\ tcp[k] = "none"
    /\ ~holder[k] /\ \A i \in DOMAIN queue[k] : queue[k][i] # "startInLoop"

\* A user of TcpClient: connects when the last connection has come to its end,
\* or without waiting; disconnects and stops at any time.
UserStep(k) ==
    \/ (Overlap \/ Settled(k)) /\ \E t \in Timeouts : Start(k, t)
    \/ Stop(k) /\ starts[k] > 0 /\ ctor[k].connect
    \/ Disconnect(k) /\ tcp[k] = "kConnected"
    \/ DisconnectSetsState(k)

Init == ConnInit
Next == \E k \in Clients : LoopStep(k) \/ TimerStep(k) \/ NetworkStep(k) \/ UserStep(k)
Spec == Init /\ [][Next]_connVars

\* The loop thread runs, and a timer that is not cancelled expires.
FairSpec ==
    /\ Spec
    /\ \A k \in Clients : WF_connVars(LoopStep(k)) /\ WF_connVars(TimerStep(k))

-----------------------------------------------------------------------------
(* Properties.                                                             *)

\* However completion, error, timeout and stop() race, an attempt is answered
\* once, and all attempts but the one in progress have been answered.
AnsweredOnce ==
    \A k \in Clients : \A a \in 1..attempts[k] :
        answers[k][a] = IF a = Current(k) /\ (ctor[k].state = "kConnecting" \/ ioPc[k] \in {"created", "published"}) THEN 0 ELSE 1

\* No descriptor is lost: the only ones open belong to the attempt in
\* progress or to the connection it became.
NoDescriptorLost ==
    \A k \in Clients :
        sockets[k] = IF ctor[k].state = "kConnecting" \/ tcp[k] # "none" THEN {Current(k)} ELSE {}

\* assert(!channel_) in connecting(): the Channel of the last attempt is gone
\* when a new one is made, and no Channel is destroyed that the poller knows.
ChannelIsFree ==
    /\ [][\A k \in Clients : attempts'[k] > attempts[k] /\ ctor'[k].registered
                             => ctor[k].channel = 0]_connVars
    /\ [](\A k \in Clients : ~dangling[k])

\* A timeout aborts the attempt it was set for, unless the timer of an attempt
\* that stop() ended is still running: stopInLoop does not cancel it.
TimeoutIsOwn ==
    [][\A k \in Clients :
        /\ Len(told'[k]) > Len(told[k]) /\ told'[k][Len(told'[k])] = "timeout"
        => \/ Current(k) \notin timers[k]
           \/ \E i \in DOMAIN told[k] : told[k][i] = "aborted"]_connVars

\* An attempt with a timeout comes to an answer although the network does
\* nothing.
AttemptEnds ==
    \A k \in Clients :
        ctor[k].state = "kConnecting" /\ ctor[k].timeout > 0
        ~> ctor[k].state # "kConnecting"

=============================================================================
