----------------------------- MODULE MTcpClient -----------------------------
(***************************************************************************)
(* mTcpClient (netclient/xTcpClient/TcpClient.cc): a client with a main    *)
(* loop, a pool of I/O loops and a map of connections, composed with the   *)
(* Connector and net::TcpClient that each connection has.                  *)
(*                                                                         *)
(* AddConnection, DelConnection and UnInitTcpClient only queue functors of *)
(* the main loop.  The main loop creates an xTcpClient for each connection *)
(* and later calls DisConnect() and Stop() on it, while its I/O loop       *)
(* connects and reports: the two threads meet in the variables of          *)
(* Connector.  An xTcpClient is kept alive by self_ from Connect() until   *)
(* its last callback, and by conn_obj and the main loop's stack.           *)
(***************************************************************************)
EXTENDS Connector, FiniteSets, Functions

CONSTANT MaxDels    \* bound: calls of DelConnection

ASSUME MTcpClientConstants == MaxDels \in Nat

VARIABLES
    mainQ,          \* functors of the main loop, <<operation, connection>>
    mainStack,      \* inside DelConnectionInLoop or ClearConnMap: the connections
                    \*   it still has to close, <<next call, connection>>
    connections,    \* connections_
    conn_obj,       \* connections whose ConnBaseInfo holds the xTcpClient
    self,           \* connections whose xTcpClient holds itself
    exit,           \* exit_
    added, dels,    \* calls made of AddConnection and DelConnection
    served,         \* history: connections AddConnectionInLoop has run for
    raced,          \* history: disconnect() lost the race with handleClose
    missed         \* history: DisConnect() came before there was a connection

mainVars == <<mainQ, mainStack, connections, conn_obj, exit, added, dels, served>>
vars == <<connVars, mainVars, self, raced, missed>>

MTypeOK ==
    /\ TypeOK
    /\ mainQ \in Seq({"Add", "Del", "Clear"} \X (Clients \cup {"all"}))
    /\ mainStack \in Seq({"DisConnect", "SetState", "Stop"} \X Clients)
    /\ connections \subseteq Clients /\ conn_obj \subseteq Clients /\ self \subseteq Clients
    /\ exit \in BOOLEAN /\ added \subseteq Clients /\ dels \in 0..MaxDels
    /\ served \subseteq Clients /\ raced \subseteq Clients /\ missed \subseteq Clients

\* After InitTcpClient.
MInit ==
    /\ ConnInit
    /\ mainQ = <<>> /\ mainStack = <<>> /\ connections = {} /\ conn_obj = {} /\ self = {}
    /\ exit = FALSE /\ added = {} /\ dels = 0
    /\ served = {} /\ raced = {} /\ missed = {}

-----------------------------------------------------------------------------
(* Calls of the user.                                                      *)

AddConnection(k) ==
    /\ k \notin added
    /\ added' = added \cup {k}
    /\ mainQ' = Append(mainQ, <<"Add", k>>)
    /\ UNCHANGED <<connVars, mainStack, connections, conn_obj, self, exit, dels, served,
                   raced, missed>>

DelConnection(k) ==
    /\ k \in added /\ dels < MaxDels
    /\ dels' = dels + 1
    /\ mainQ' = Append(mainQ, <<"Del", k>>)
    /\ UNCHANGED <<connVars, mainStack, connections, conn_obj, self, exit, added, served,
                   raced, missed>>

UnInitTcpClient ==
    /\ ~exit
    /\ exit' = TRUE
    /\ mainQ' = Append(mainQ, <<"Clear", "all">>)
    /\ UNCHANGED <<connVars, mainStack, connections, conn_obj, self, added, dels, served,
                   raced, missed>>

-----------------------------------------------------------------------------
(* The main loop.                                                          *)

Serves(op) == mainStack = <<>> /\ mainQ # <<>> /\ Head(mainQ)[1] = op

\* Mutant of RefusalTold: after UnInitTcpClient a queued request is dropped.
RefusalDropped(k) == IF exit THEN told[k] ELSE Append(told[k], "fail")

\* AddConnectionInLoop calls the user back for a connection it cannot make.
RefusalTold(k) == Append(told[k], "fail")

\* AddConnectionInLoop: after UnInitTcpClient, or when the name cannot be
\* resolved, the connection fails at once ...
AddConnectionFails(k) ==
    /\ Serves("Add") /\ k = Head(mainQ)[2]
    /\ mainQ' = Tail(mainQ)
    /\ served' = served \cup {k}
    /\ told' = [told EXCEPT ![k] = RefusalTold(k)]
    /\ UNCHANGED <<queue, connectorVars, clientVars, sockets, starts, mainStack, connections,
                   conn_obj, self, exit, added, dels, raced, missed>>

\* Mutant of KeepsItself: Connect() does not take a reference to itself.
KeepsNothing(k) == self

\* xTcpClient::Connect sets self_.
KeepsItself(k) == self \cup {k}

\* ... otherwise an xTcpClient is stored in the map and connects.
AddConnectionConnects(k, t) ==
    /\ Serves("Add") /\ k = Head(mainQ)[2] /\ ~exit
    /\ mainQ' = Tail(mainQ)
    /\ served' = served \cup {k}
    /\ conn_obj' = conn_obj \cup {k}
    /\ connections' = connections \cup {k}
    /\ self' = KeepsItself(k)
    /\ Start(k, t)
    /\ UNCHANGED <<mainStack, exit, added, dels, raced, missed>>

\* Mutant of Close: the xTcpClient is stopped and not disconnected.
StopOnly(k) == <<"Stop", k>>

\* What DelConnectionInLoop and ClearConnMap do to the xTcpClient of k:
\* DisConnect() and then Stop().
Close(k) == <<"DisConnect", k>>

\* DelConnectionInLoop: nothing for a connection that is not in the map.
DelConnectionInLoop(k) ==
    /\ Serves("Del") /\ k = Head(mainQ)[2]
    /\ mainQ' = Tail(mainQ)
    /\ connections' = connections \ {k}
    /\ mainStack' = IF k \in connections \cap conn_obj THEN <<Close(k)>> ELSE <<>>
    /\ conn_obj' = conn_obj \ (connections \cap {k})
    /\ UNCHANGED <<connVars, self, exit, added, dels, served, raced, missed>>

\* ClearConnMap closes the connections of the map one after the other.
ClearConnMap ==
    /\ Serves("Clear")
    /\ mainQ' = Tail(mainQ)
    /\ \E order \in Bijection(1..Cardinality(connections), connections) :
          mainStack' = [i \in 1..Cardinality(connections) |-> Close(order[i])]
    /\ connections' = {}
    /\ conn_obj' = conn_obj \ connections
    /\ UNCHANGED <<connVars, self, exit, added, dels, served, raced, missed>>

\* The call at the top of the stack returns, and op follows.
Proceed(op, k) == mainStack' = <<<<op, k>>>> \o Tail(mainStack)

\* client->DisConnect(): tests the connection under the client's mutex, ...
MainDisConnect(k) ==
    /\ mainStack # <<>> /\ Head(mainStack) = <<"DisConnect", k>>
    /\ IF connection[k] # 0 /\ tcp[k] \in {"kConnected", "kDisconnecting"}
       THEN Disconnect(k) /\ Proceed("SetState", k)
       ELSE UNCHANGED connVars /\ Proceed("Stop", k)
    /\ missed' = IF told[k] = <<>> THEN missed \cup {k} ELSE missed
    /\ UNCHANGED <<mainQ, connections, conn_obj, self, exit, added, dels, served, raced>>

\* ... then sets its state, and ...
MainSetState(k) ==
    /\ mainStack # <<>> /\ Head(mainStack) = <<"SetState", k>>
    /\ DisconnectSetsState(k)
    /\ raced' = IF tcp[k] = "kDisconnected" THEN raced \cup {k} ELSE raced
    /\ Proceed("Stop", k)
    /\ UNCHANGED <<mainQ, connections, conn_obj, self, exit, added, dels, served, missed>>

\* ... client->Stop().
MainStop(k) ==
    /\ mainStack # <<>> /\ Head(mainStack) = <<"Stop", k>>
    /\ Stop(k)
    /\ mainStack' = Tail(mainStack)
    /\ UNCHANGED <<mainQ, connections, conn_obj, self, exit, added, dels, served, raced, missed>>

-----------------------------------------------------------------------------
(* The I/O loops.  onConnection reports to the user, and gives up self_    *)
(* with a failure or a disconnection.                                      *)

OnConnection(k) ==
    self' = IF told'[k] # told[k] /\ told'[k][Len(told'[k])] # "up" THEN self \ {k} ELSE self

\* The user's callback refuses the new connection with a negative result:
\* shutdown and forceClose by the loop thread.
EstablishRefused(k) ==
    /\ ioPc[k] = "published"
    /\ tcp' = [tcp EXCEPT ![k] = "kDisconnecting"]
    /\ queue' = [queue EXCEPT ![k] = Append(@, "forceCloseInLoop")]
    /\ ioPc' = [ioPc EXCEPT ![k] = "idle"]
    /\ Answer(k, "up")
    /\ UNCHANGED <<ctor, attempts, timers, dangling, holder, connection, sockets, starts>>

IoStep(k) ==
    /\ LoopStep(k) \/ TimerStep(k) \/ NetworkStep(k) \/ EstablishRefused(k)
    /\ OnConnection(k)
    /\ UNCHANGED <<mainVars, raced, missed>>

MainStep ==
    \/ \E k \in Clients :
         \/ AddConnectionFails(k) \/ (\E t \in Timeouts : AddConnectionConnects(k, t))
         \/ DelConnectionInLoop(k) \/ MainDisConnect(k) \/ MainSetState(k) \/ MainStop(k)
    \/ ClearConnMap

MNext ==
    \/ \E k \in Clients : AddConnection(k) \/ DelConnection(k) \/ IoStep(k)
    \/ UnInitTcpClient \/ MainStep

\* The two kinds of loops run, and timers expire; the network owes nothing.
MSpec ==
    /\ MInit /\ [][MNext]_vars
    /\ WF_vars(MainStep)
    /\ \A k \in Clients :
         /\ WF_vars(LoopStep(k) /\ OnConnection(k) /\ UNCHANGED <<mainVars, raced, missed>>)
         /\ WF_vars(TimerStep(k) /\ OnConnection(k) /\ UNCHANGED <<mainVars, raced, missed>>)

-----------------------------------------------------------------------------
(* Properties.                                                             *)

Alive(k) ==
    \/ k \in self \cup conn_obj
    \/ \E i \in DOMAIN mainStack : mainStack[i][2] = k

\* The connection callbacks of a ConnBaseInfo come as one failure, or as one
\* connect followed by one disconnect; a disconnect comes twice only when
\* disconnect() of the main loop has lost the race with handleClose.
CallbackProtocol ==
    \A k \in Clients :
        \/ told[k] \in {<<>>, <<"fail">>, <<"timeout">>, <<"aborted">>, <<"up">>, <<"up", "down">>}
        \/ k \in raced /\ told[k] = <<"up", "down", "down">>

\* A callback of net::TcpClient into the xTcpClient, bound to a raw pointer,
\* finds it alive (but for that race): self_ is held from Connect() until the
\* last callback.
ClientOutlivesCallbacks ==
    [][\A k \in Clients : told'[k] # told[k] /\ starts[k] > 0 => Alive(k) \/ k \in raced]_vars

\* A connection that has been added is answered, although the network is
\* silent, unless it has no timeout and nobody stops it, or it was stopped before
\* the I/O loop had begun to connect: startInLoop then says nothing.  An attempt
\* in progress that is stopped is answered, by stopInLoop or by handleWrite.
AnsweredUnlessStopped ==
    \A k \in Clients :
        k \in served ~> \/ told[k] # <<>>
                        \/ ctor[k].state = "kConnecting" /\ ctor[k].timeout = 0 /\ ctor[k].connect
                        \/ starts[k] > 0 /\ ~ctor[k].connect /\ attempts[k] = 0

\* A connection that is deleted, or cleared when the client exits, goes down,
\* unless it was made in the moment after DisConnect() and before the Stop()
\* that follows it was seen.
DeletedCloses ==
    \A k \in Clients :
        (k \in served \ connections /\ tcp[k] = "kConnected")
        ~> (tcp[k] # "kConnected" \/ k \in missed)

=============================================================================
