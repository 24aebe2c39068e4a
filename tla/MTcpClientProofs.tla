-------------------------- MODULE MTcpClientProofs --------------------------
(***************************************************************************)
(* Proofs about MTcpClient for any connections, timeouts and calls: what   *)
(* the user's connection callback is told, and that the xTcpClient is      *)
(* alive when it is called.  The inductive invariant of Connector is kept  *)
(* by the steps of the composed system too, so that its lemmas serve here  *)
(* and its results hold without the hypothesis on the user's calls: the    *)
(* main loop calls Connect() once.                                         *)
(***************************************************************************)
EXTENDS MTcpClient, ConnectorProofs, FiniteSetTheorems

-----------------------------------------------------------------------------
(* The inductive invariant.                                                *)

\* AddConnectionInLoop is queued once for a connection ...
QueueInv ==
    \A i \in DOMAIN mainQ : mainQ[i][1] = "Add" =>
        /\ mainQ[i][2] \in added /\ mainQ[i][2] \notin served
        /\ \A j \in DOMAIN mainQ : mainQ[j] = mainQ[i] => j = i

\* ... and until it has run there is none.
AddInv ==
    /\ IsFiniteSet(connections) /\ served \subseteq added
    /\ \A k \in Clients : k \notin served => starts[k] = 0 /\ told[k] = <<>>

\* The connections being closed have left the map, each once; DisConnect() comes
\* once in the life of a connection, so that the race is lost at most once.
StackInv ==
    /\ \A i, j \in DOMAIN mainStack : mainStack[i][2] = mainStack[j][2] => i = j
    /\ \A i \in DOMAIN mainStack :
          /\ mainStack[i][2] \notin connections
          /\ mainStack[i][1] = "DisConnect" => mainStack[i][2] \notin raced
    /\ \A k \in Clients :
          /\ holder[k] => k \notin raced
          /\ k \in connections => k \notin raced /\ ~holder[k]

\* The connection callbacks told to the user, as far as CallbackProtocol goes.
Protocol(k) ==
    \/ told[k] \in {<<>>, <<"fail">>, <<"timeout">>, <<"aborted">>, <<"up">>, <<"up", "down">>}
    \/ k \in raced /\ told[k] = <<"up", "down", "down">>

\* What they have been, by where the connection is.
ToldInv(k) ==
    /\ starts[k] <= 1
    /\ starts[k] = 0 => tcp[k] = "none" /\ k \notin raced
    /\ InProgress(k) \/ Has(queue[k], "startInLoop") => told[k] = <<>>
    /\ tcp[k] \in {"kConnected", "kDisconnecting"} =>
          told[k] = <<"up">> \/ (k \in raced /\ told[k] = <<"up", "down">>)
    /\ tcp[k] = "kDisconnected" =>
          told[k] = <<"up", "down">> \/ (k \in raced /\ told[k] = <<"up", "down", "down">>)
    /\ Protocol(k)

\* self_ is held from Connect() until the last callback.
SelfInv(k) == starts[k] > 0 /\ told[k] \in {<<>>, <<"up">>} => k \in self

MInv ==
    /\ MTypeOK /\ IInv /\ QueueInv /\ AddInv /\ StackInv
    /\ \A k \in Clients : ToldInv(k) /\ SelfInv(k)


-----------------------------------------------------------------------------
(* What a step of the I/O loop of k does to what ToldInv is about.         *)

\* It calls the user back at most once, while the xTcpClient is held or after a
\* lost race, and not at all before Connect().
Tells(k) ==
    told'[k] # told[k] =>
        /\ starts[k] # 0
        /\ told[k] \in {<<>>, <<"up">>} \/ k \in raced
        /\ \E x \in Texts : told'[k] = Append(told[k], x)

OthersTold(k) ==
    \A j \in Clients : j # k =>
        /\ queue'[j] = queue[j] /\ ctor'[j] = ctor[j] /\ ioPc'[j] = ioPc[j]
        /\ tcp'[j] = tcp[j] /\ told'[j] = told[j]

Effect(k) == OthersTold(k) /\ holder' = holder /\ starts' = starts /\ Tells(k) /\ ToldInv(k)'

\* A step that calls nobody.
LEMMA KeepsTold ==
  ASSUME NEW k \in Clients, ToldInv(k), raced' = raced, holder' = holder, starts' = starts,
         OthersTold(k), told'[k] = told[k],
         tcp'[k] = tcp[k] \/ tcp'[k] = "none" \/ (tcp'[k] = "kConnecting" /\ starts[k] # 0),
         (InProgress(k))' => InProgress(k) \/ Has(queue[k], "startInLoop"),
         Has(queue'[k], "startInLoop") => Has(queue[k], "startInLoop")
  PROVE  Effect(k)
BY DEF Effect, Tells, ToldInv, Protocol

\* The answer to an attempt.
LEMMA TellsAnswer ==
  ASSUME NEW k \in Clients, ToldInv(k), raced' = raced, holder' = holder, starts' = starts,
         OthersTold(k), NEW x \in {"fail", "timeout", "aborted", "up"},
         told[k] = <<>>, told'[k] = Append(told[k], x), starts[k] # 0,
         IF x = "up" THEN tcp'[k] \in {"kConnected", "kDisconnecting"} ELSE tcp'[k] = "none",
         ~(InProgress(k))', ~Has(queue'[k], "startInLoop")
  PROVE  Effect(k)
<1>1. told'[k] = <<x>>
  OBVIOUS
<1>2. Tells(k)
  BY DEF Tells, Texts
<1>3. Protocol(k)'
  BY <1>1 DEF Protocol
<1>4. ToldInv(k)'
  BY <1>1, <1>3 DEF ToldInv
<1> QED BY <1>2, <1>4 DEF Effect

\* handleClose.
LEMMA TellsDown ==
  ASSUME NEW k \in Clients, ToldInv(k), raced' = raced, holder' = holder, starts' = starts,
         OthersTold(k), tcp[k] \in {"kConnected", "kDisconnecting"}, tcp'[k] = "kDisconnected",
         told'[k] = Append(told[k], "down"), starts[k] # 0,
         ~(InProgress(k))', ~Has(queue'[k], "startInLoop")
  PROVE  Effect(k)
<1>1. told[k] = <<"up">> \/ (k \in raced /\ told[k] = <<"up", "down">>)
  BY DEF ToldInv
<1>2. told'[k] = <<"up", "down">> \/ (k \in raced /\ told'[k] = <<"up", "down", "down">>)
  <2> DEFINE u == Append(<<"up">>, "down")
             d == Append(<<"up", "down">>, "down")
  <2>1. u = <<"up", "down">>
    <3>1. <<"up">> \in Seq(Texts) /\ <<"up", "down">> \in Seq(Texts) /\ "down" \in Texts
      BY DEF Texts
    <3>2. u \in Seq(Texts) /\ Len(u) = 2 /\ u[1] = "up" /\ u[2] = "down"
      BY <3>1, AppendProperties
    <3> HIDE DEF u
    <3>3. Len(<<"up", "down">>) = 2 /\ \A i \in 1..2 : i = 1 \/ i = 2
      OBVIOUS
    <3>4. \A i \in 1..Len(u) : u[i] = <<"up", "down">>[i]
      BY <3>2, <3>3
    <3> QED BY <3>1, <3>2, <3>3, <3>4, SeqEqual
  <2>2. d = <<"up", "down", "down">>
    <3>1. <<"up", "down">> \in Seq(Texts) /\ <<"up", "down", "down">> \in Seq(Texts) /\ "down" \in Texts
      BY DEF Texts
    <3>2. d \in Seq(Texts) /\ Len(d) = 3 /\ d[1] = "up" /\ d[2] = "down" /\ d[3] = "down"
      BY <3>1, AppendProperties
    <3> HIDE DEF d
    <3>3. Len(<<"up", "down", "down">>) = 3 /\ \A i \in 1..3 : i = 1 \/ i = 2 \/ i = 3
      OBVIOUS
    <3>4. \A i \in 1..Len(d) : d[i] = <<"up", "down", "down">>[i]
      BY <3>2, <3>3
    <3> QED BY <3>1, <3>2, <3>3, <3>4, SeqEqual
  <2>3. CASE told[k] = <<"up">>
    BY <2>1, <2>3
  <2>4. CASE k \in raced /\ told[k] = <<"up", "down">>
    BY <2>2, <2>4
  <2> QED BY <1>1, <2>3, <2>4
<1>3. Tells(k)
  BY <1>1 DEF Tells, Texts
<1>4. Protocol(k)'
  BY <1>2 DEF Protocol
<1>5. ToldInv(k)'
  BY <1>2, <1>4 DEF ToldInv
<1> QED BY <1>3, <1>5 DEF Effect

\* An attempt in progress, and a connection, come from a start().
LEMMA Started ==
  ASSUME IInv, NEW k \in Clients, ToldInv(k),
         InProgress(k) \/ Has(queue[k], "startInLoop") \/ tcp[k] # "none"
  PROVE  starts[k] # 0
<1>1. attempts[k] \in Nat /\ starts[k] \in Nat
  BY ClientType DEF IInv
<1> QED BY <1>1 DEF IInv, ClientInv, StartInv, ToldInv

LEMMA ConnectFailsAtOnceEffect ==
  ASSUME IInv, NEW k \in Clients, ToldInv(k), raced' = raced, ConnectFailsAtOnce(k)
  PROVE  Effect(k)
<1> TypeOK /\ ClientInv(k)
  BY DEF IInv
<1>1. /\ Runs(k, "startInLoop")
      /\ ctor' = WithState(ctor, k, "kDisconnected")
      /\ queue' = [queue EXCEPT ![k] = Tail(@)]
      /\ told' = [told EXCEPT ![k] = Append(@, "fail")]
      /\ UNCHANGED <<ioPc, holder, connection, tcp, starts>>
  BY Zenon DEF ConnectFailsAtOnce, clientVars, WithState
<1>2. But(k, ctor, ctor') /\ ctor'[k].state = "kDisconnected"
  BY <1>1, SetState, ClientType DEF States
<1>3. queue'[k] = Tail(queue[k]) /\ told'[k] = Append(told[k], "fail")
  BY <1>1 DEF TypeOK
<1>4. /\ Has(queue[k], "startInLoop") /\ ~Has(queue'[k], "startInLoop") /\ ioPc[k] = "idle"
      /\ tcp[k] = "none"
  BY <1>1, <1>3, RestOfQueue, Begins
<1>5. told[k] = <<>> /\ starts[k] # 0
  BY <1>4, Started DEF ToldInv
<1>6. ~(InProgress(k))'
  BY <1>1, <1>2, <1>4 DEF InProgress
<1>7. OthersTold(k)
  BY <1>1, <1>2 DEF OthersTold, But, TypeOK
<1> QED BY <1>1, <1>3, <1>4, <1>5, <1>6, <1>7, TellsAnswer

LEMMA ConnectingEffect ==
  ASSUME IInv, NEW k \in Clients, ToldInv(k), raced' = raced, Connecting(k)
  PROVE  Effect(k)
<1> TypeOK /\ ClientInv(k)
  BY DEF IInv
<1>1. /\ Runs(k, "startInLoop")
      /\ queue' = [queue EXCEPT ![k] = Tail(@)]
      /\ UNCHANGED <<ioPc, holder, connection, tcp, starts, told>>
  BY DEF Connecting, clientVars
<1>2. queue'[k] = Tail(queue[k])
  BY <1>1 DEF TypeOK
<1>3. Has(queue[k], "startInLoop") /\ ~Has(queue'[k], "startInLoop")
  BY <1>1, <1>2, RestOfQueue, Begins
<1>4. OthersTold(k)
  <2>1. \A j \in Clients : j # k => ctor'[j] = ctor[j]
    BY DEF Connecting, TypeOK
  <2> QED BY <1>1, <2>1 DEF OthersTold, TypeOK
<1> QED BY <1>1, <1>3, <1>4, KeepsTold

\* An attempt fails, for whatever reason.
LEMMA FailsEffect ==
  ASSUME IInv, NEW k \in Clients, ToldInv(k), raced' = raced, ctor[k].state = "kConnecting",
         NEW text \in {"fail", "timeout", "aborted"}, NEW rest \in Seq(Functors), Fails(k, text, rest),
         \A g : Has(rest, g) => Has(queue[k], g)
  PROVE  Effect(k)
<1> TypeOK /\ ClientInv(k)
  BY DEF IInv
<1>1. /\ ctor' = WithStateForgotten(ctor, k, "kDisconnected")
      /\ queue' = [queue EXCEPT ![k] = Append(rest, "resetChannel")]
      /\ told' = [told EXCEPT ![k] = Append(@, text)]
      /\ UNCHANGED <<ioPc, holder, connection, tcp, starts>>
  BY Zenon DEF Fails, Answer, ResetLater, clientVars, WithStateForgotten
<1>2. But(k, ctor, ctor') /\ ctor'[k].state = "kDisconnected"
  BY <1>1, SetStateForgotten, ClientType DEF States
<1>3. queue'[k] = Append(rest, "resetChannel") /\ told'[k] = Append(told[k], text)
  BY <1>1 DEF TypeOK
<1>4. tcp[k] = "none" /\ ioPc[k] = "idle" /\ InProgress(k) /\ ~Has(queue[k], "startInLoop")
  BY DEF ClientInv, PhaseInv, InProgress, StartInv
<1>5. ~Has(queue'[k], "startInLoop")
  BY <1>3, <1>4, AppendHas DEF Functors
<1>6. told[k] = <<>> /\ starts[k] # 0
  BY <1>4, Started DEF ToldInv
<1>7. ~(InProgress(k))'
  BY <1>1, <1>2, <1>4 DEF InProgress
<1>8. OthersTold(k)
  BY <1>1, <1>2 DEF OthersTold, But, TypeOK
<1> QED BY <1>1, <1>3, <1>4, <1>5, <1>6, <1>7, <1>8, TellsAnswer

\* A functor that finds nothing to do.
LEMMA IdleFunctorEffect ==
  ASSUME IInv, NEW k \in Clients, ToldInv(k), raced' = raced, NEW f, Runs(k, f),
         queue' = [queue EXCEPT ![k] = Tail(@)],
         UNCHANGED <<ctor, ioPc, holder, starts, told>>,
         \A j \in Clients : j # k => tcp'[j] = tcp[j], tcp'[k] \in {tcp[k], "none"}
  PROVE  Effect(k)
<1> TypeOK /\ ClientInv(k)
  BY DEF IInv
<1>1. queue'[k] = Tail(queue[k]) /\ OthersTold(k)
  BY DEF TypeOK, OthersTold
<1>2. Has(queue'[k], "startInLoop") => Has(queue[k], "startInLoop")
  BY <1>1, RestOfQueue
<1>3. (InProgress(k))' <=> InProgress(k)
  BY DEF InProgress
<1> QED BY <1>1, <1>2, <1>3, KeepsTold

\* Only start() queues a startInLoop.
LEMMA NoStartQueued ==
  ASSUME TypeOK, NEW k \in Clients,
         NEW f \in {"stopInLoop", "resetChannel", "connTimeOutInLoop", "forceCloseInLoop", "connectDestroyed"},
         queue'[k] = Append(queue[k], f)
  PROVE  Has(queue'[k], "startInLoop") <=> Has(queue[k], "startInLoop")
<1>1. queue[k] \in Seq(Functors) /\ f \in Functors /\ f # "startInLoop"
  BY ClientType DEF Functors
<1>2. \A g : Has(Append(queue[k], f), g) <=> Has(queue[k], g) \/ g = f
  BY <1>1, AppendHas
<1> QED BY <1>1, <1>2

LEMMA ConnectorEffect ==
  ASSUME IInv, NEW k \in Clients, ToldInv(k), raced' = raced,
         \/ DoNotConnect(k) \/ StopInLoop(k) \/ ResetChannel(k) \/ ConnTimeOutInLoop(k)
         \/ HandleWriteFails(k) \/ \E a \in Attempts : ConnTimeOut(k, a)
  PROVE  Effect(k)
<1> TypeOK /\ ClientInv(k)
  BY DEF IInv
<1> USE DEF connectorVars, clientVars
<1>1. CASE DoNotConnect(k)
  BY <1>1, IdleFunctorEffect DEF DoNotConnect
<1>2. CASE StopInLoop(k)
  <2>1. Runs(k, "stopInLoop") /\ Tail(queue[k]) \in Seq(Functors)
        /\ \A g : Has(Tail(queue[k]), g) => Has(queue[k], g)
    BY <1>2, RestOfQueue DEF StopInLoop
  <2>2. CASE ctor[k].state = "kConnecting"
    BY <1>2, <2>1, <2>2, FailsEffect DEF StopInLoop
  <2>3. CASE ctor[k].state # "kConnecting"
    <3>1. queue' = [queue EXCEPT ![k] = Tail(@)] /\ UNCHANGED <<ctor, ioPc, holder, tcp, starts, told>>
      BY <1>2, <2>3 DEF StopInLoop
    <3> QED BY <2>1, <3>1, IdleFunctorEffect
  <2> QED BY <2>2, <2>3
<1>3. CASE ResetChannel(k)
  <2>1. /\ Runs(k, "resetChannel") /\ ctor' = WithChannelForgotten(ctor, k, 0)
        /\ queue' = [queue EXCEPT ![k] = Tail(@)] /\ UNCHANGED <<ioPc, holder, tcp, starts, told>>
    BY <1>3, Zenon DEF ResetChannel, WithChannelForgotten
  <2>2. But(k, ctor, ctor') /\ ctor'[k].state = ctor[k].state
    BY <2>1, UnsetChannel, ClientType
  <2>3. queue'[k] = Tail(queue[k]) /\ OthersTold(k)
    BY <2>1, <2>2 DEF TypeOK, OthersTold, But
  <2>4. Has(queue'[k], "startInLoop") => Has(queue[k], "startInLoop")
    BY <2>1, <2>3, RestOfQueue
  <2>5. (InProgress(k))' <=> InProgress(k)
    BY <2>1, <2>2 DEF InProgress
  <2> QED BY <2>1, <2>3, <2>4, <2>5, KeepsTold
<1>4. CASE ConnTimeOutInLoop(k)
  <2>1. Runs(k, "connTimeOutInLoop") /\ Tail(queue[k]) \in Seq(Functors)
        /\ \A g : Has(Tail(queue[k]), g) => Has(queue[k], g)
    BY <1>4, RestOfQueue DEF ConnTimeOutInLoop
  <2>2. CASE ctor[k].state = "kConnecting"
    BY <1>4, <2>1, <2>2, FailsEffect DEF ConnTimeOutInLoop, Abortable
  <2>3. CASE ctor[k].state # "kConnecting"
    <3>1. queue' = [queue EXCEPT ![k] = Tail(@)] /\ UNCHANGED <<ctor, ioPc, holder, tcp, starts, told>>
      BY <1>4, <2>3 DEF ConnTimeOutInLoop, Abortable
    <3> QED BY <2>1, <3>1, IdleFunctorEffect
  <2> QED BY <2>2, <2>3
<1>5. CASE HandleWriteFails(k)
  <2>1. queue[k] \in Seq(Functors)
    BY ClientType
  <2>2. ctor[k].state = "kConnecting" /\ (Fails(k, "fail", queue[k]) \/ Fails(k, "aborted", queue[k]))
    BY <1>5 DEF HandleWriteFails
  <2> QED BY <2>1, <2>2, FailsEffect
<1>6. ASSUME NEW a \in Attempts, ConnTimeOut(k, a) PROVE Effect(k)
  <2>1. /\ queue' = [queue EXCEPT ![k] = Append(@, "connTimeOutInLoop")]
        /\ UNCHANGED <<ctor, ioPc, holder, tcp, starts, told>>
    BY <1>6 DEF ConnTimeOut
  <2>2. queue'[k] = Append(queue[k], "connTimeOutInLoop") /\ OthersTold(k)
    BY <2>1 DEF TypeOK, OthersTold
  <2>3. Has(queue'[k], "startInLoop") => Has(queue[k], "startInLoop")
    BY <2>2, NoStartQueued
  <2>4. (InProgress(k))' <=> InProgress(k)
    BY <2>1 DEF InProgress
  <2> QED BY <2>1, <2>2, <2>3, <2>4, KeepsTold
<1> QED BY <1>1, <1>2, <1>3, <1>4, <1>5, <1>6

\* newConnection, and connectEstablished with or without a refusal.
LEMMA ConnectionEffect ==
  ASSUME IInv, NEW k \in Clients, ToldInv(k), raced' = raced,
         HandleWriteConnected(k) \/ PublishConnection(k) \/ Establish(k) \/ EstablishRefused(k)
  PROVE  Effect(k)
<1> TypeOK /\ ClientInv(k)
  BY DEF IInv
<1> USE DEF connectorVars, clientVars
<1>1. CASE HandleWriteConnected(k)
  <2>1. /\ ctor[k].state = "kConnecting" /\ ctor' = WithStateForgotten(ctor, k, "kConnected")
        /\ queue' = [queue EXCEPT ![k] = Append(@, "resetChannel")]
        /\ ioPc' = [ioPc EXCEPT ![k] = "created"] /\ tcp' = [tcp EXCEPT ![k] = "kConnecting"]
        /\ UNCHANGED <<holder, starts, told>>
    BY <1>1, Zenon DEF HandleWriteConnected, ResetLater, WithStateForgotten
  <2>2. But(k, ctor, ctor')
    BY <2>1, SetStateForgotten, ClientType DEF States
  <2>3. queue'[k] = Append(queue[k], "resetChannel") /\ tcp'[k] = "kConnecting" /\ OthersTold(k)
    BY <2>1, <2>2 DEF TypeOK, OthersTold, But
  <2>4. Has(queue'[k], "startInLoop") => Has(queue[k], "startInLoop")
    BY <2>3, NoStartQueued
  <2>5. InProgress(k) /\ starts[k] # 0
    BY <2>1, Started DEF InProgress
  <2> QED BY <2>1, <2>3, <2>4, <2>5, KeepsTold
<1>2. CASE PublishConnection(k)
  <2>1. /\ ioPc[k] = "created" /\ ioPc' = [ioPc EXCEPT ![k] = "published"]
        /\ UNCHANGED <<queue, ctor, holder, tcp, starts, told>>
    BY <1>2 DEF PublishConnection
  <2>2. OthersTold(k) /\ InProgress(k)
    BY <2>1 DEF TypeOK, OthersTold, InProgress
  <2> QED BY <2>1, <2>2, KeepsTold
<1>3. ASSUME ioPc[k] = "published" PROVE /\ InProgress(k) /\ ~Has(queue[k], "startInLoop")
                                         /\ ctor[k].state # "kConnecting"
                                         /\ told[k] = <<>> /\ starts[k] # 0
  <2>1. InProgress(k) /\ tcp[k] = "kConnecting"
    BY <1>3 DEF InProgress, ClientInv, PhaseInv
  <2> QED BY <2>1, Started DEF ToldInv, ClientInv, PhaseInv, StartInv
<1>4. CASE Establish(k)
  <2>1. /\ ioPc[k] = "published" /\ ioPc' = [ioPc EXCEPT ![k] = "idle"]
        /\ tcp' = [tcp EXCEPT ![k] = "kConnected"] /\ told' = [told EXCEPT ![k] = Append(@, "up")]
        /\ UNCHANGED <<queue, ctor, holder, starts>>
    BY <1>4 DEF Establish, Answer
  <2>2. OthersTold(k) /\ tcp'[k] = "kConnected" /\ told'[k] = Append(told[k], "up") /\ ioPc'[k] = "idle"
    BY <2>1 DEF TypeOK, OthersTold
  <2>3. ~(InProgress(k))'
    BY <1>3, <2>1, <2>2 DEF InProgress
  <2> QED BY <1>3, <2>1, <2>2, <2>3, TellsAnswer
<1>5. CASE EstablishRefused(k)
  <2>1. /\ ioPc[k] = "published" /\ ioPc' = [ioPc EXCEPT ![k] = "idle"]
        /\ queue' = [queue EXCEPT ![k] = Append(@, "forceCloseInLoop")]
        /\ tcp' = [tcp EXCEPT ![k] = "kDisconnecting"] /\ told' = [told EXCEPT ![k] = Append(@, "up")]
        /\ UNCHANGED <<ctor, holder, starts>>
    BY <1>5 DEF EstablishRefused, Answer
  <2>2. /\ OthersTold(k) /\ tcp'[k] = "kDisconnecting" /\ told'[k] = Append(told[k], "up")
        /\ ioPc'[k] = "idle" /\ queue'[k] = Append(queue[k], "forceCloseInLoop")
    BY <2>1 DEF TypeOK, OthersTold
  <2>3. ~(InProgress(k))'
    BY <1>3, <2>1, <2>2 DEF InProgress
  <2>4. ~Has(queue'[k], "startInLoop")
    BY <1>3, <2>1, <2>2, NoStartQueued
  <2> QED BY <1>3, <2>1, <2>2, <2>3, <2>4, TellsAnswer
<1> QED BY <1>1, <1>2, <1>4, <1>5

LEMMA HandleCloseEffect ==
  ASSUME IInv, NEW k \in Clients, ToldInv(k), raced' = raced, ioPc[k] = "idle",
         tcp[k] \in {"kConnected", "kDisconnecting"},
         NEW rest \in Seq(Functors), HandleClose(k, rest), \A g : Has(rest, g) => Has(queue[k], g)
  PROVE  Effect(k)
<1> TypeOK /\ ClientInv(k)
  BY DEF IInv
<1>1. /\ tcp' = [tcp EXCEPT ![k] = "kDisconnected"] /\ told' = [told EXCEPT ![k] = Append(@, "down")]
      /\ ioPc' = [ioPc EXCEPT ![k] = "closing"] /\ queue' = [queue EXCEPT ![k] = rest]
      /\ UNCHANGED <<ctor, holder, starts>>
  BY DEF HandleClose, connectorVars
<1>2. /\ OthersTold(k) /\ tcp'[k] = "kDisconnected" /\ told'[k] = Append(told[k], "down")
      /\ ioPc'[k] = "closing" /\ queue'[k] = rest
  BY <1>1 DEF TypeOK, OthersTold
<1>3. ctor[k].state # "kConnecting" /\ ~Has(queue[k], "startInLoop") /\ starts[k] # 0
  BY Started DEF ClientInv, PhaseInv, StartInv
<1>4. ~(InProgress(k))' /\ ~Has(queue'[k], "startInLoop")
  BY <1>1, <1>2, <1>3 DEF InProgress
<1> QED BY <1>1, <1>2, <1>3, <1>4, TellsDown

\* handleClose, removeConnection and connectDestroyed.
LEMMA CloseEffect ==
  ASSUME IInv, NEW k \in Clients, ToldInv(k), raced' = raced,
         PeerCloses(k) \/ ForceCloseInLoop(k) \/ RemoveConnection(k) \/ ConnectDestroyed(k)
  PROVE  Effect(k)
<1> TypeOK /\ ClientInv(k)
  BY DEF IInv
<1> USE DEF connectorVars, clientVars
<1>1. CASE PeerCloses(k)
  BY <1>1, ClientType, HandleCloseEffect DEF PeerCloses
<1>2. CASE ForceCloseInLoop(k)
  <2>1. Runs(k, "forceCloseInLoop") /\ Tail(queue[k]) \in Seq(Functors) /\ ioPc[k] = "idle"
        /\ \A g : Has(Tail(queue[k]), g) => Has(queue[k], g)
    BY <1>2, RestOfQueue DEF ForceCloseInLoop
  <2>2. CASE tcp[k] \in {"kConnected", "kDisconnecting"}
    BY <1>2, <2>1, <2>2, HandleCloseEffect DEF ForceCloseInLoop
  <2>3. CASE tcp[k] \notin {"kConnected", "kDisconnecting"}
    <3>1. queue' = [queue EXCEPT ![k] = Tail(@)] /\ UNCHANGED <<ctor, ioPc, holder, tcp, starts, told>>
      BY <1>2, <2>3 DEF ForceCloseInLoop
    <3> QED BY <2>1, <3>1, IdleFunctorEffect
  <2> QED BY <2>2, <2>3
<1>3. CASE RemoveConnection(k)
  <2>1. /\ ioPc[k] = "closing" /\ ioPc' = [ioPc EXCEPT ![k] = "idle"]
        /\ queue' = [queue EXCEPT ![k] = Append(@, "connectDestroyed")]
        /\ UNCHANGED <<ctor, holder, tcp, starts, told>>
    BY <1>3 DEF RemoveConnection
  <2>2. OthersTold(k) /\ queue'[k] = Append(queue[k], "connectDestroyed") /\ ioPc'[k] = "idle"
    BY <2>1 DEF TypeOK, OthersTold
  <2>3. Has(queue'[k], "startInLoop") => Has(queue[k], "startInLoop")
    BY <2>2, NoStartQueued
  <2>4. (InProgress(k))' => InProgress(k)
    BY <2>1, <2>2 DEF InProgress
  <2> QED BY <2>1, <2>2, <2>3, <2>4, KeepsTold
<1>4. CASE ConnectDestroyed(k)
  <2>1. /\ Runs(k, "connectDestroyed") /\ queue' = [queue EXCEPT ![k] = Tail(@)]
        /\ UNCHANGED <<ctor, ioPc, holder, starts, told>>
        /\ tcp' = tcp \/ tcp' = [tcp EXCEPT ![k] = "none"]
    BY <1>4 DEF ConnectDestroyed
  <2>2. tcp'[k] \in {tcp[k], "none"} /\ \A j \in Clients : j # k => tcp'[j] = tcp[j]
    BY <2>1 DEF TypeOK
  <2> QED BY <2>1, <2>2, IdleFunctorEffect
<1> QED BY <1>1, <1>2, <1>3, <1>4

LEMMA IoEffect ==
  ASSUME IInv, NEW k \in Clients, ToldInv(k), raced' = raced,
         LoopStep(k) \/ TimerStep(k) \/ NetworkStep(k) \/ EstablishRefused(k)
  PROVE  Effect(k)
BY ConnectFailsAtOnceEffect, ConnectingEffect, ConnectorEffect, ConnectionEffect, CloseEffect
   DEF LoopStep, TimerStep, NetworkStep

-----------------------------------------------------------------------------
(* The invariant of Connector.                                             *)

\* A connection that the user's callback refuses.
LEMMA EstablishRefusedStep ==
  ASSUME IInv, NEW k \in Clients, EstablishRefused(k)
  PROVE  IInv'
<1> TypeOK /\ ClientInv(k)
  BY DEF IInv
<1> DEFINE a == attempts[k]
<1>1. /\ ioPc[k] = "published"
      /\ tcp' = [tcp EXCEPT ![k] = "kDisconnecting"]
      /\ queue' = [queue EXCEPT ![k] = Append(@, "forceCloseInLoop")]
      /\ ioPc' = [ioPc EXCEPT ![k] = "idle"]
      /\ told' = [told EXCEPT ![k] = Append(@, "up")]
      /\ UNCHANGED <<ctor, attempts, timers, dangling, holder, connection, sockets, starts>>
  BY DEF EstablishRefused, Answer
<1>2. answers' = Counted(answers, k, a)
  BY Zenon DEF EstablishRefused, Answer, Current, Counted
<1>3. InProgress(k) /\ a \in Attempts /\ a \in Nat
  BY <1>1, ClientType DEF ClientInv, StartInv, InProgress, Attempts
<1>4. /\ answers' \in [Clients -> [Attempts -> Nat]] /\ answers'[k][a] = answers[k][a] + 1
      /\ \A b \in Attempts : b # a => answers'[k][b] = answers[k][b]
      /\ \A j \in Clients : j # k => answers'[j] = answers[j]
  <2>1. answers \in [Clients -> [Attempts -> Nat]] /\ a \in Attempts /\ answers' = Counted(answers, k, a)
    BY <1>2, <1>3, ClientType
  <2> HIDE DEF a
  <2> QED BY <2>1, SetAnswers
<1>5. /\ tcp'[k] = "kDisconnecting" /\ ioPc'[k] = "idle" /\ told'[k] = Append(told[k], "up")
      /\ queue'[k] = Append(queue[k], "forceCloseInLoop")
  BY <1>1 DEF TypeOK
<1>6. /\ told'[k] \in Seq(Texts)
      /\ (Has(told'[k], "aborted") <=> Has(told[k], "aborted"))
  <2>1. told[k] \in Seq(Texts) /\ "up" \in Texts
    BY ClientType DEF Texts
  <2> QED BY <1>5, <2>1, AppendHas
<1>7. /\ queue'[k] \in Seq(Functors)
      /\ \A f : f # "forceCloseInLoop" => (Has(queue'[k], f) <=> Has(queue[k], f))
      /\ \A f \in {"resetChannel", "connTimeOutInLoop"} :
            Ahead(queue[k], f, "startInLoop") => Ahead(queue'[k], f, "startInLoop")
      /\ Once(queue[k], "startInLoop") => Once(queue'[k], "startInLoop")
  <2>1. queue[k] \in Seq(Functors) /\ "forceCloseInLoop" \in Functors
    BY ClientType DEF Functors
  <2>2. \A f \in {"resetChannel", "connTimeOutInLoop"} :
            Ahead(queue[k], f, "startInLoop") => Ahead(queue'[k], f, "startInLoop")
    BY <1>5, <2>1, AppendAhead
  <2>3. Once(queue[k], "startInLoop") => Once(queue'[k], "startInLoop")
    BY <1>5, <2>1, AppendOnce
  <2> QED BY <1>5, <2>1, <2>2, <2>3, AppendHas
<1>8. TypeOK'
  <2>1. told' \in [Clients -> Seq({"fail", "timeout", "aborted", "up", "down"})]
    BY <1>1, <1>5, <1>6 DEF TypeOK, Texts
  <2>2. queue' \in [Clients -> Seq(Functors)]
    BY <1>1, <1>5, <1>7 DEF TypeOK
  <2>3. ioPc' \in [Clients -> {"idle", "created", "published", "closing"}]
        /\ tcp' \in [Clients -> States \cup {"none", "kDisconnecting"}]
    BY <1>1 DEF TypeOK, States
  <2> QED BY <1>1, <1>4, <2>1, <2>2, <2>3 DEF TypeOK
<1>9. OthersSame(k)
  BY <1>1, <1>4 DEF OthersSame, TypeOK
<1>10. tcp[k] = "kConnecting" /\ ctor[k].state # "kConnecting" /\ ~holder[k]
  BY <1>1 DEF ClientInv, PhaseInv
<1>11. ~(InProgress(k))'
  BY <1>1, <1>5, <1>10 DEF InProgress
<1>12. StartInv(k)'
  BY <1>1, <1>7, <1>10, <1>11 DEF ClientInv, StartInv
<1>13. PhaseInv(k)'
  BY <1>1, <1>5, <1>7, <1>10 DEF ClientInv, PhaseInv
<1>14. AnswerInv(k)'
  <2>1. \A b \in Attempts : answers[k][b] = IF b > a \/ b = a THEN 0 ELSE 1
    BY <1>3 DEF ClientInv, AnswerInv
  <2>2. \A b \in Attempts : b \in Int /\ (b > a \/ b = a \/ b < a)
    BY <1>3, ClientType DEF Attempts
  <2>3. answers'[k][a] = 1
    BY <1>3, <1>4, <2>1
  <2>4. \A b \in Attempts : answers'[k][b] = IF b > a THEN 0 ELSE 1
    <3> HIDE DEF a
    <3> QED BY <1>3, <1>4, <2>1, <2>2, <2>3
  <2> QED BY <1>1, <1>11, <2>4 DEF AnswerInv
<1>15. ChannelInv(k)'
  BY <1>1, <1>7 DEF ClientInv, ChannelInv
<1>16. SocketInv(k)'
  BY <1>1, <1>5, <1>10 DEF ClientInv, SocketInv
<1>17. TimerInv(k)'
  BY <1>1, <1>6, <1>7 DEF ClientInv, TimerInv
<1> QED BY <1>8, <1>9, <1>12, <1>13, <1>14, <1>15, <1>16, <1>17, OneClient

-----------------------------------------------------------------------------
(* The main loop's queue and stack.                                        *)

MainOps == {"Add", "Del", "Clear"} \X (Clients \cup {"all"})
StackOps == {"DisConnect", "SetState", "Stop"} \X Clients

\* MTypeOK without the variables of Connector.
MainType ==
    /\ mainQ \in Seq(MainOps) /\ mainStack \in Seq(StackOps)
    /\ connections \subseteq Clients /\ conn_obj \subseteq Clients /\ self \subseteq Clients
    /\ exit \in BOOLEAN /\ added \subseteq Clients /\ dels \in 0..MaxDels
    /\ served \subseteq Clients /\ raced \subseteq Clients /\ missed \subseteq Clients

LEMMA MTypeParts == MTypeOK <=> TypeOK /\ MainType
BY DEF MTypeOK, MainType, MainOps, StackOps

\* A call of the user.
LEMMA QueueGrows ==
  ASSUME MainType, QueueInv, AddInv, NEW f \in MainOps, mainQ' = Append(mainQ, f),
         served' = served, added \subseteq added',
         f[1] = "Add" => f[2] \notin added /\ f[2] \in added'
  PROVE  mainQ' \in Seq(MainOps) /\ QueueInv'
<1>1. /\ mainQ' \in Seq(MainOps) /\ DOMAIN mainQ' = 1..Len(mainQ) + 1 /\ DOMAIN mainQ = 1..Len(mainQ)
      /\ Len(mainQ) \in Nat /\ mainQ'[Len(mainQ) + 1] = f
      /\ \A i \in 1..Len(mainQ) : mainQ'[i] = mainQ[i]
  BY AppendProperties DEF MainType
<1>2. \A i \in DOMAIN mainQ' : i \in DOMAIN mainQ \/ i = Len(mainQ) + 1
  BY <1>1
<1>3. \A i \in DOMAIN mainQ : mainQ[i][1] = "Add" /\ f[1] = "Add" => mainQ[i][2] # f[2]
  BY DEF QueueInv
<1>4. \A i \in DOMAIN mainQ' : mainQ'[i][1] = "Add" => mainQ'[i][2] \in added' /\ mainQ'[i][2] \notin served'
  BY <1>1, <1>2 DEF QueueInv, AddInv
<1>5. ASSUME NEW i \in DOMAIN mainQ', mainQ'[i][1] = "Add", NEW j \in DOMAIN mainQ', mainQ'[j] = mainQ'[i]
      PROVE  j = i
  <2>1. CASE i \in DOMAIN mainQ /\ j \in DOMAIN mainQ
    BY <1>1, <1>5, <2>1 DEF QueueInv
  <2>2. CASE i = Len(mainQ) + 1 /\ j \in DOMAIN mainQ
    BY <1>1, <1>3, <1>5, <2>2
  <2>3. CASE i \in DOMAIN mainQ /\ j = Len(mainQ) + 1
    BY <1>1, <1>3, <1>5, <2>3
  <2> QED BY <1>2, <2>1, <2>2, <2>3
<1> QED BY <1>1, <1>4, <1>5 DEF QueueInv

\* The main loop takes the first functor.
LEMMA QueueShrinks ==
  ASSUME MainType, QueueInv, mainQ # <<>>, mainQ' = Tail(mainQ), added' = added,
         NEW k, served' = served \/ (served' = served \cup {k} /\ Head(mainQ) = <<"Add", k>>)
  PROVE  mainQ' \in Seq(MainOps) /\ QueueInv'
<1>1. /\ Tail(mainQ) \in Seq(MainOps) /\ Len(Tail(mainQ)) = Len(mainQ) - 1 /\ Len(mainQ) \in Nat
      /\ Len(mainQ) >= 1
      /\ \A i \in 1..Len(mainQ) - 1 : Tail(mainQ)[i] = mainQ[i + 1]
      /\ mainQ[1] = Head(mainQ) /\ DOMAIN mainQ = 1..Len(mainQ)
  BY HeadTailProperties DEF MainType
<1>2. \A i \in DOMAIN mainQ' : /\ i + 1 \in DOMAIN mainQ /\ i \in Int /\ i + 1 # 1
                               /\ mainQ'[i] = mainQ[i + 1]
  BY <1>1
<1>3. ASSUME NEW i \in DOMAIN mainQ', mainQ'[i][1] = "Add"
      PROVE  mainQ'[i][2] \notin served'
  <2>1. mainQ[i + 1][2] \notin served /\ 1 \in DOMAIN mainQ
    BY <1>1, <1>2, <1>3 DEF QueueInv
  <2>2. ASSUME Head(mainQ) = <<"Add", k>>, mainQ[i + 1][2] = k PROVE FALSE
    <3>1. mainQ[i + 1] \in MainOps
      BY <1>2 DEF MainType
    <3>2. mainQ[i + 1] = mainQ[1]
      BY <1>1, <1>2, <1>3, <2>2, <3>1 DEF MainOps
    <3> QED BY <1>2, <1>3, <2>1, <3>2 DEF QueueInv
  <2> QED BY <1>2, <2>1, <2>2
<1>4. ASSUME NEW i \in DOMAIN mainQ', mainQ'[i][1] = "Add", NEW j \in DOMAIN mainQ', mainQ'[j] = mainQ'[i]
      PROVE  j = i
  <2>1. j + 1 = i + 1
    BY <1>2, <1>4 DEF QueueInv
  <2> QED BY <1>2, <2>1
<1>5. \A i \in DOMAIN mainQ' : mainQ'[i][1] = "Add" => mainQ'[i][2] \in added'
  BY <1>2 DEF QueueInv
<1> QED BY <1>1, <1>3, <1>4, <1>5 DEF QueueInv

\* The first call of DelConnectionInLoop or ClearConnMap goes on to the next.
LEMMA StackProceeds ==
  ASSUME MainType, mainStack # <<>>, NEW k \in Clients, Head(mainStack)[2] = k,
         NEW op \in {"SetState", "Stop"}, Proceed(op, k)
  PROVE  /\ mainStack' \in Seq(StackOps) /\ DOMAIN mainStack' = DOMAIN mainStack
         /\ 1 \in DOMAIN mainStack /\ mainStack[1] = Head(mainStack) /\ mainStack'[1] = <<op, k>>
         /\ \A i \in DOMAIN mainStack : i # 1 => mainStack'[i] = mainStack[i]
<1> DEFINE t == Tail(mainStack)
<1>1. /\ t \in Seq(StackOps) /\ Len(t) = Len(mainStack) - 1 /\ Len(mainStack) \in Nat
      /\ Len(mainStack) >= 1
      /\ \A i \in 1..Len(mainStack) - 1 : t[i] = mainStack[i + 1]
      /\ mainStack[1] = Head(mainStack) /\ DOMAIN mainStack = 1..Len(mainStack)
  BY HeadTailProperties DEF MainType
<1>2. <<<<op, k>>>> \in Seq(StackOps) /\ Len(<<<<op, k>>>>) = 1
  BY DEF StackOps
<1>3. mainStack' = <<<<op, k>>>> \o t
  BY DEF Proceed
<1> HIDE DEF t
<1>4. /\ mainStack' \in Seq(StackOps) /\ Len(mainStack') = 1 + Len(t)
      /\ \A i \in 1..1 + Len(t) : mainStack'[i] = IF i <= 1 THEN <<<<op, k>>>>[i] ELSE t[i - 1]
  BY <1>1, <1>2, <1>3, ConcatProperties
<1>5. DOMAIN mainStack' = DOMAIN mainStack /\ 1 \in DOMAIN mainStack
  BY <1>1, <1>4
<1>6. mainStack'[1] = <<op, k>>
  BY <1>1, <1>4
<1>7. \A i \in DOMAIN mainStack : i # 1 => mainStack'[i] = mainStack[i]
  BY <1>1, <1>4
<1> QED BY <1>1, <1>4, <1>5, <1>6, <1>7

-----------------------------------------------------------------------------
(* The steps.                                                              *)

LEMMA SameTold ==
  ASSUME NEW j \in Clients, ToldInv(j), SelfInv(j),
         queue'[j] = queue[j], ctor'[j].state = ctor[j].state, ioPc'[j] = ioPc[j],
         tcp'[j] = tcp[j], told'[j] = told[j], starts'[j] = starts[j],
         j \in raced' <=> j \in raced, j \in self => j \in self'
  PROVE  ToldInv(j)' /\ SelfInv(j)'
<1>1. (InProgress(j))' <=> InProgress(j)
  BY DEF InProgress
<1>2. Protocol(j)'
  BY DEF ToldInv, Protocol
<1> QED BY <1>1, <1>2 DEF ToldInv, SelfInv

\* AddConnection, DelConnection and UnInitTcpClient.
LEMMA CallStep ==
  ASSUME MInv, UnInitTcpClient \/ \E k \in Clients : AddConnection(k) \/ DelConnection(k)
  PROVE  MInv'
<1> TypeOK /\ MainType /\ IInv /\ QueueInv /\ AddInv /\ StackInv
  BY MTypeParts DEF MInv
<1>1. PICK f \in MainOps : mainQ' = Append(mainQ, f) /\ (f[1] = "Add" => f[2] \notin added /\ f[2] \in added')
  <2> DEFINE Queued(f) == mainQ' = Append(mainQ, f) /\ (f[1] = "Add" => f[2] \notin added /\ f[2] \in added')
  <2>1. CASE UnInitTcpClient
    <3>1. <<"Clear", "all">> \in MainOps /\ Queued(<<"Clear", "all">>)
      BY <2>1 DEF UnInitTcpClient, MainOps
    <3> QED BY <3>1
  <2>2. ASSUME NEW k \in Clients, AddConnection(k) PROVE \E f \in MainOps : Queued(f)
    <3>1. <<"Add", k>> \in MainOps /\ Queued(<<"Add", k>>)
      BY <2>2 DEF AddConnection, MainOps
    <3> QED BY <3>1
  <2>3. ASSUME NEW k \in Clients, DelConnection(k) PROVE \E f \in MainOps : Queued(f)
    <3>1. <<"Del", k>> \in MainOps /\ Queued(<<"Del", k>>)
      BY <2>3 DEF DelConnection, MainOps
    <3> QED BY <3>1
  <2> QED BY <2>1, <2>2, <2>3
<1>2. /\ UNCHANGED connVars /\ UNCHANGED <<mainStack, connections, conn_obj, self, served, raced, missed>>
      /\ added \subseteq added'
  BY DEF UnInitTcpClient, AddConnection, DelConnection
<1>3. UNCHANGED <<queue, ctor, ioPc, holder, tcp, told, starts>>
  BY <1>2 DEF connVars, connectorVars, clientVars
<1>4. IInv'
  BY <1>2, SilenceKeeps
<1>5. mainQ' \in Seq(MainOps) /\ QueueInv'
  BY <1>1, <1>2, QueueGrows
<1>6. exit' \in BOOLEAN /\ added' \subseteq Clients /\ dels' \in 0..MaxDels
  <2>1. CASE UnInitTcpClient
    BY <2>1 DEF UnInitTcpClient, MainType
  <2>2. ASSUME NEW k \in Clients, AddConnection(k) PROVE exit' \in BOOLEAN /\ added' \subseteq Clients /\ dels' \in 0..MaxDels
    BY <2>2 DEF AddConnection, MainType
  <2>3. ASSUME NEW k \in Clients, DelConnection(k) PROVE exit' \in BOOLEAN /\ added' \subseteq Clients /\ dels' \in 0..MaxDels
    BY <2>3, MTcpClientConstants DEF DelConnection, MainType
  <2> QED BY <2>1, <2>2, <2>3
<1>7. MainType'
  BY <1>2, <1>5, <1>6 DEF MainType
<1>8. TypeOK'
  BY <1>4 DEF IInv
<1>9. AddInv' /\ StackInv'
  BY <1>2, <1>3 DEF AddInv, StackInv
<1>10. ASSUME NEW j \in Clients PROVE ToldInv(j)' /\ SelfInv(j)'
  BY <1>2, <1>3, SameTold DEF MInv
<1>11. MTypeOK'
  BY <1>7, <1>8, MTypeParts, PTL
<1> QED BY <1>4, <1>5, <1>9, <1>10, <1>11 DEF MInv

\* A functor that the main loop serves.
LEMMA ServesFacts ==
  ASSUME MInv, NEW op, Serves(op), mainQ' = Tail(mainQ), added' = added,
         NEW k, served' = served \/ (served' = served \cup {k} /\ op = "Add" /\ Head(mainQ)[2] = k)
  PROVE  /\ mainQ' \in Seq(MainOps) /\ QueueInv' /\ mainStack = <<>>
         /\ op = "Add" => Head(mainQ)[2] \in added /\ Head(mainQ)[2] \notin served
<1> MainType /\ QueueInv
  BY MTypeParts DEF MInv
<1>1. mainQ # <<>> /\ Head(mainQ)[1] = op /\ mainStack = <<>>
  BY DEF Serves
<1>2. Head(mainQ) \in MainOps /\ 1 \in DOMAIN mainQ /\ mainQ[1] = Head(mainQ)
  BY <1>1, HeadTailProperties DEF MainType
<1>3. Head(mainQ) = <<Head(mainQ)[1], Head(mainQ)[2]>>
  BY <1>2 DEF MainOps
<1>4. mainQ' \in Seq(MainOps) /\ QueueInv'
  BY <1>1, <1>3, QueueShrinks
<1>5. op = "Add" => Head(mainQ)[2] \in added /\ Head(mainQ)[2] \notin served
  BY <1>1, <1>2 DEF QueueInv
<1> QED BY <1>1, <1>4, <1>5

\* A connection that Connect() was not called for.
LEMMA NotStarted ==
  ASSUME IInv, NEW k \in Clients, ToldInv(k), starts[k] = 0
  PROVE  Settled(k) /\ ~InProgress(k) /\ ~Has(queue[k], "startInLoop") /\ tcp[k] = "none" /\ k \notin raced
<1>1. ~InProgress(k) /\ ~Has(queue[k], "startInLoop") /\ tcp[k] = "none" /\ k \notin raced
  BY Started DEF ToldInv
<1>2. ioPc[k] = "idle" /\ connection[k] = 0 /\ ~holder[k]
  BY <1>1 DEF IInv, ClientInv, PhaseInv
<1> QED BY <1>1, <1>2 DEF Settled, InProgress, Has

LEMMA AddConnectionFailsStep ==
  ASSUME MInv, NEW k \in Clients, AddConnectionFails(k)
  PROVE  MInv'
<1> TypeOK /\ MainType /\ IInv /\ QueueInv /\ AddInv /\ StackInv /\ ToldInv(k)
  BY MTypeParts DEF MInv
<1>1. /\ Serves("Add") /\ k = Head(mainQ)[2] /\ mainQ' = Tail(mainQ) /\ served' = served \cup {k}
      /\ told' = [told EXCEPT ![k] = Append(told[k], "fail")]
      /\ UNCHANGED <<queue, connectorVars, clientVars, sockets, starts, mainStack, connections,
                     conn_obj, self, exit, added, dels, raced, missed>>
  BY DEF AddConnectionFails, RefusalTold
<1>2. UNCHANGED <<queue, ctor, attempts, timers, answers, dangling, ioPc, holder, connection, tcp,
                  sockets, starts>>
  BY <1>1 DEF connectorVars, clientVars
<1>3. /\ mainQ' \in Seq(MainOps) /\ QueueInv' /\ k \in added /\ k \notin served
  BY <1>1, ServesFacts
<1>4. told[k] = <<>> /\ starts[k] = 0
  BY <1>3 DEF AddInv
<1>5. told'[k] = <<"fail">> /\ \A j \in Clients : j # k => told'[j] = told[j]
  <2>1. told'[k] = Append(<<>>, "fail")
    BY <1>1, <1>4 DEF TypeOK
  <2> QED BY <1>1, <2>1 DEF TypeOK
<1>6. TypeOK'
  <2>1. <<"fail">> \in Seq(Texts)
    BY DEF Texts
  <2>2. told' \in [Clients -> Seq({"fail", "timeout", "aborted", "up", "down"})]
    BY <1>1, <1>5, <2>1 DEF TypeOK, Texts
  <2> QED BY <1>2, <2>2 DEF TypeOK
<1>7. IInv'
  <2>1. ~Has(<<"fail">>, "aborted") /\ ~Has(<<>>, "aborted")
    BY DEF Has
  <2>2. ASSUME NEW j \in Clients PROVE ClientInv(j)'
    <3>1. ClientInv(j) /\ ((InProgress(j))' <=> InProgress(j))
      BY <1>2 DEF IInv, InProgress
    <3>2. Has(told'[j], "aborted") <=> Has(told[j], "aborted")
      BY <1>4, <1>5, <2>1
    <3>3. StartInv(j)' /\ PhaseInv(j)' /\ ChannelInv(j)' /\ AnswerInv(j)' /\ SocketInv(j)'
      BY <1>2, <3>1 DEF ClientInv, StartInv, PhaseInv, ChannelInv, AnswerInv, SocketInv
    <3>4. TimerInv(j)'
      BY <1>2, <3>1, <3>2 DEF ClientInv, TimerInv
    <3> QED BY <3>3, <3>4 DEF ClientInv
  <2> QED BY <1>6, <2>2 DEF IInv
<1>8. MainType'
  BY <1>1, <1>3 DEF MainType
<1>9. AddInv'
  BY <1>1, <1>2, <1>3, <1>5 DEF AddInv
<1>10. StackInv'
  BY <1>1, <1>2 DEF StackInv
<1>11. ASSUME NEW j \in Clients PROVE ToldInv(j)' /\ SelfInv(j)'
  <2>1. CASE j # k
    <3>1. ToldInv(j) /\ SelfInv(j)
      BY DEF MInv
    <3> QED BY <1>1, <1>2, <1>5, <2>1, <3>1, SameTold
  <2>2. CASE j = k
    <3>1. ~InProgress(k) /\ ~Has(queue[k], "startInLoop") /\ tcp[k] = "none" /\ k \notin raced
      BY <1>4, NotStarted
    <3>2. ~(InProgress(k))'
      BY <1>2, <3>1 DEF InProgress
    <3>3. Protocol(k)'
      BY <1>5 DEF Protocol
    <3> QED BY <1>1, <1>2, <1>4, <2>2, <3>1, <3>2, <3>3 DEF ToldInv, SelfInv
  <2> QED BY <2>1, <2>2
<1>12. MTypeOK'
  BY <1>6, <1>8, MTypeParts, PTL
<1> QED BY <1>3, <1>7, <1>9, <1>10, <1>11, <1>12 DEF MInv

LEMMA AddConnectionConnectsStep ==
  ASSUME MInv, NEW k \in Clients, NEW t \in Timeouts, AddConnectionConnects(k, t)
  PROVE  MInv'
<1> TypeOK /\ MainType /\ IInv /\ QueueInv /\ AddInv /\ StackInv /\ ToldInv(k)
  BY MTypeParts DEF MInv
<1>1. /\ Serves("Add") /\ k = Head(mainQ)[2] /\ mainQ' = Tail(mainQ) /\ served' = served \cup {k}
      /\ conn_obj' = conn_obj \cup {k} /\ connections' = connections \cup {k} /\ self' = self \cup {k}
      /\ Start(k, t)
      /\ UNCHANGED <<mainStack, exit, added, dels, raced, missed>>
  BY DEF AddConnectionConnects, KeepsItself
<1>2. /\ mainQ' \in Seq(MainOps) /\ QueueInv' /\ k \in added /\ k \notin served /\ mainStack = <<>>
  BY <1>1, ServesFacts
<1>3. told[k] = <<>> /\ starts[k] = 0
  BY <1>2 DEF AddInv
<1>4. /\ Settled(k) /\ ~InProgress(k) /\ tcp[k] = "none" /\ k \notin raced
      /\ ~holder[k]
  BY <1>3, NotStarted DEF Settled
<1>5. IInv'
  BY <1>1, <1>4, StartStep
<1>6. TypeOK'
  BY <1>5 DEF IInv
<1>7. /\ starts' = [starts EXCEPT ![k] = @ + 1]
      /\ ctor' = WithConnectTimeout(ctor, k, TRUE, t)
      /\ queue' = [queue EXCEPT ![k] = Append(@, "startInLoop")]
      /\ UNCHANGED <<ioPc, holder, tcp, told>>
  BY <1>1, Zenon DEF Start, clientVars, WithConnectTimeout
<1>8. But(k, ctor, ctor') /\ ctor'[k].state = ctor[k].state
  BY <1>7, SetConnectTimeout, ClientType, ConnectorConstants
<1>9. starts'[k] = 1 /\ \A j \in Clients : j # k =>
         starts'[j] = starts[j] /\ queue'[j] = queue[j] /\ ctor'[j] = ctor[j]
  <2>1. starts'[k] = 1
    BY <1>3, <1>7 DEF TypeOK
  <2>2. ASSUME NEW j \in Clients, j # k PROVE starts'[j] = starts[j] /\ queue'[j] = queue[j]
    BY <1>7, <2>2 DEF TypeOK
  <2>3. ASSUME NEW j \in Clients, j # k PROVE ctor'[j] = ctor[j]
    BY <1>8, <2>3 DEF But
  <2> QED BY <2>1, <2>2, <2>3
<1>10. MainType'
  BY <1>1, <1>2 DEF MainType
<1>11. AddInv'
  <2>1. IsFiniteSet(connections')
    BY <1>1, FS_AddElement DEF AddInv
  <2> QED BY <1>1, <1>2, <1>7, <1>9, <2>1 DEF AddInv
<1>12. StackInv'
  <2>1. DOMAIN mainStack' = {}
    BY <1>1, <1>2
  <2> QED BY <1>1, <1>4, <1>7, <2>1 DEF StackInv
<1>13. ASSUME NEW j \in Clients PROVE ToldInv(j)' /\ SelfInv(j)'
  <2>1. CASE j # k
    <3>1. ToldInv(j) /\ SelfInv(j)
      BY DEF MInv
    <3> QED BY <1>1, <1>7, <1>9, <2>1, <3>1, SameTold
  <2>2. CASE j = k
    <3>1. ~(InProgress(k))'
      BY <1>4, <1>7, <1>8 DEF InProgress
    <3>2. Protocol(k)'
      BY <1>3, <1>7 DEF Protocol
    <3>3. SelfInv(k)'
      BY <1>1 DEF SelfInv
    <3>4. ToldInv(k)'
      BY <1>1, <1>3, <1>4, <1>7, <1>9, <3>1, <3>2 DEF ToldInv
    <3> QED BY <2>2, <3>3, <3>4
  <2> QED BY <2>1, <2>2
<1>14. MTypeOK'
  BY <1>6, <1>10, MTypeParts, PTL
<1> QED BY <1>2, <1>5, <1>11, <1>12, <1>13, <1>14 DEF MInv

\* A step of the main loop that changes its own variables only: connections
\* leave the map, and are put on its stack.
LEMMA ClosingStep ==
  ASSUME MInv, UNCHANGED connVars, UNCHANGED <<self, exit, added, dels, served, raced, missed>>,
         mainQ' \in Seq(MainOps), QueueInv', mainStack' \in Seq(StackOps),
         connections' \subseteq connections, conn_obj' \subseteq conn_obj,
         \A i, j \in DOMAIN mainStack' : mainStack'[i][2] = mainStack'[j][2] => i = j,
         \A i \in DOMAIN mainStack' :
             mainStack'[i] = Close(mainStack'[i][2]) /\ mainStack'[i][2] \in connections \ connections'
  PROVE  MInv'
<1> TypeOK /\ MainType /\ IInv /\ QueueInv /\ AddInv /\ StackInv
  BY MTypeParts DEF MInv
<1>1. UNCHANGED <<queue, ctor, ioPc, holder, tcp, told, starts>>
  BY DEF connVars, connectorVars, clientVars
<1>2. IInv'
  BY SilenceKeeps
<1>3. TypeOK'
  BY <1>2 DEF IInv
<1>4. MainType'
  BY DEF MainType
<1>5. AddInv'
  <2>1. IsFiniteSet(connections')
    BY FS_Subset DEF AddInv
  <2> QED BY <1>1, <2>1 DEF AddInv
<1>6. StackInv'
  <2>1. \A i \in DOMAIN mainStack' : mainStack'[i][2] \notin connections' /\ mainStack'[i][2] \notin raced
    BY DEF StackInv, MainType
  <2>2. \A j \in Clients : /\ holder'[j] => j \notin raced'
                           /\ j \in connections' => j \notin raced' /\ ~holder'[j]
    BY <1>1 DEF StackInv
  <2> QED BY <2>1, <2>2 DEF StackInv
<1>7. ASSUME NEW j \in Clients PROVE ToldInv(j)' /\ SelfInv(j)'
  <2>1. ToldInv(j) /\ SelfInv(j)
    BY DEF MInv
  <2> QED BY <1>1, <2>1, SameTold
<1>8. MTypeOK'
  BY <1>3, <1>4, MTypeParts, PTL
<1> QED BY <1>2, <1>5, <1>6, <1>7, <1>8 DEF MInv

LEMMA DelConnectionInLoopStep ==
  ASSUME MInv, NEW k \in Clients, DelConnectionInLoop(k)
  PROVE  MInv'
<1> MainType
  BY MTypeParts DEF MInv
<1>1. /\ Serves("Del") /\ mainQ' = Tail(mainQ) /\ connections' = connections \ {k}
      /\ mainStack' = IF k \in connections \cap conn_obj THEN <<Close(k)>> ELSE <<>>
      /\ conn_obj' = conn_obj \ (connections \cap {k})
      /\ UNCHANGED connVars /\ UNCHANGED <<self, exit, added, dels, served, raced, missed>>
  BY DEF DelConnectionInLoop
<1>2. mainQ' \in Seq(MainOps) /\ QueueInv'
  BY <1>1, ServesFacts
<1>3. Close(k) \in StackOps /\ Close(k)[2] = k
  BY DEF Close, StackOps
<1>4. CASE k \in connections \cap conn_obj
  <2>1. mainStack' = <<Close(k)>>
    BY <1>1, <1>4
  <2>2. mainStack' \in Seq(StackOps) /\ DOMAIN mainStack' = {1} /\ mainStack'[1] = Close(k)
    BY <1>3, <2>1
  <2>3. \A i \in DOMAIN mainStack' : i = 1 /\ mainStack'[i] = Close(k) /\ mainStack'[i][2] = k
    BY <1>3, <2>2
  <2> QED BY <1>1, <1>2, <1>4, <2>2, <2>3, ClosingStep
<1>5. CASE ~(k \in connections \cap conn_obj)
  <2>1. mainStack' = <<>> /\ mainStack' \in Seq(StackOps) /\ DOMAIN mainStack' = {}
    BY <1>1, <1>5
  <2> QED BY <1>1, <1>2, <2>1, ClosingStep
<1> QED BY <1>4, <1>5

LEMMA ClearConnMapStep ==
  ASSUME MInv, ClearConnMap
  PROVE  MInv'
<1> MainType
  BY MTypeParts DEF MInv
<1> DEFINE n == Cardinality(connections)
<1>1. /\ Serves("Clear") /\ mainQ' = Tail(mainQ) /\ connections' = {}
      /\ conn_obj' = conn_obj \ connections
      /\ UNCHANGED connVars /\ UNCHANGED <<self, exit, added, dels, served, raced, missed>>
  BY DEF ClearConnMap
<1>2. mainQ' \in Seq(MainOps) /\ QueueInv'
  BY <1>1, ServesFacts
<1>3. n \in Nat
  BY FS_CardinalityType DEF MInv, AddInv
<1>4. PICK order \in Bijection(1..n, connections) : mainStack' = [i \in 1..n |-> Close(order[i])]
  BY DEF ClearConnMap
<1> HIDE DEF n
<1>5. /\ order \in [1..n -> connections]
      /\ \A i, j \in 1..n : order[i] = order[j] => i = j
  BY <1>4 DEF Bijection, Injection, IsInjective
<1>6. /\ DOMAIN mainStack' = 1..n
      /\ \A i \in 1..n : /\ mainStack'[i] = Close(order[i]) /\ order[i] \in connections
                         /\ mainStack'[i][2] = order[i] /\ mainStack'[i] \in StackOps
  BY <1>4, <1>5 DEF Close, StackOps, MainType
<1>7. mainStack' \in Seq(StackOps)
  BY <1>3, <1>4, <1>6
<1>8. \A i, j \in DOMAIN mainStack' : mainStack'[i][2] = mainStack'[j][2] => i = j
  BY <1>5, <1>6
<1>9. \A i \in DOMAIN mainStack' :
          mainStack'[i] = Close(mainStack'[i][2]) /\ mainStack'[i][2] \in connections \ connections'
  BY <1>1, <1>6
<1> QED BY <1>1, <1>2, <1>7, <1>8, <1>9, ClosingStep

\* A call on the xTcpClient of k leaves the other connections being closed, and
\* the others in the map, as they are.
LEMMA StackKeeps ==
  ASSUME MainType, StackInv, mainStack # <<>>, NEW k \in Clients, Head(mainStack)[2] = k,
         NEW op \in {"SetState", "Stop"}, Proceed(op, k),
         connections' = connections, raced' \subseteq raced \cup {k},
         holder'[k] => k \notin raced',
         \A j \in Clients : j # k => holder'[j] = holder[j]
  PROVE  mainStack' \in Seq(StackOps) /\ StackInv'
<1>1. /\ mainStack' \in Seq(StackOps) /\ DOMAIN mainStack' = DOMAIN mainStack
      /\ 1 \in DOMAIN mainStack /\ mainStack[1][2] = k /\ mainStack'[1] = <<op, k>>
      /\ \A i \in DOMAIN mainStack : i # 1 => mainStack'[i] = mainStack[i]
  BY StackProceeds
<1>2. \A i \in DOMAIN mainStack : mainStack'[i][2] = mainStack[i][2]
  BY <1>1
<1>3. k \notin connections
  BY <1>1 DEF StackInv
<1>4. \A i \in DOMAIN mainStack : i # 1 => mainStack[i][2] # k
  BY <1>1 DEF StackInv
<1>5. \A i \in DOMAIN mainStack' : /\ mainStack'[i][2] \notin connections'
                                   /\ mainStack'[i][1] = "DisConnect" => mainStack'[i][2] \notin raced'
  BY <1>1, <1>2, <1>4 DEF StackInv
<1>6. \A i, j \in DOMAIN mainStack' : mainStack'[i][2] = mainStack'[j][2] => i = j
  BY <1>1, <1>2 DEF StackInv
<1>7. \A j \in Clients : /\ holder'[j] => j \notin raced'
                         /\ j \in connections' => j \notin raced' /\ ~holder'[j]
  BY <1>3 DEF StackInv
<1> QED BY <1>1, <1>5, <1>6, <1>7 DEF StackInv

LEMMA MainDisConnectStep ==
  ASSUME MInv, NEW k \in Clients, MainDisConnect(k)
  PROVE  MInv'
<1> TypeOK /\ MainType /\ IInv /\ QueueInv /\ AddInv /\ StackInv
  BY MTypeParts DEF MInv
<1>1. /\ mainStack # <<>> /\ Head(mainStack) = <<"DisConnect", k>>
      /\ missed' = IF told[k] = <<>> THEN missed \cup {k} ELSE missed
      /\ UNCHANGED <<mainQ, connections, conn_obj, self, exit, added, dels, served, raced>>
      /\ \/ Disconnect(k) /\ Proceed("SetState", k)
         \/ UNCHANGED connVars /\ Proceed("Stop", k)
  BY DEF MainDisConnect
<1>2. Head(mainStack)[2] = k /\ mainStack[1] = <<"DisConnect", k>> /\ 1 \in DOMAIN mainStack
  BY <1>1, HeadTailProperties DEF MainType
<1>3. k \notin raced
  BY <1>2 DEF StackInv
<1>4. UNCHANGED <<queue, ctor, ioPc, tcp, told, starts>> /\ \A j \in Clients : j # k => holder'[j] = holder[j]
  <2>1. CASE Disconnect(k)
    BY <2>1 DEF Disconnect, connectorVars, TypeOK
  <2>2. CASE UNCHANGED connVars
    BY <2>2 DEF connVars, connectorVars, clientVars
  <2> QED BY <1>1, <2>1, <2>2
<1>5. IInv'
  BY <1>1, DisconnectStep, SilenceKeeps
<1>6. TypeOK'
  BY <1>5 DEF IInv
<1>7. mainStack' \in Seq(StackOps) /\ StackInv'
  BY <1>1, <1>2, <1>3, <1>4, StackKeeps
<1>8. MainType'
  <2>1. missed' \subseteq Clients
    BY <1>1 DEF MainType
  <2> QED BY <1>1, <1>7, <2>1 DEF MainType
<1>9. QueueInv' /\ AddInv'
  BY <1>1, <1>4 DEF QueueInv, AddInv
<1>10. ASSUME NEW j \in Clients PROVE ToldInv(j)' /\ SelfInv(j)'
  <2>1. ToldInv(j) /\ SelfInv(j)
    BY DEF MInv
  <2> QED BY <1>1, <1>4, <2>1, SameTold
<1>11. MTypeOK'
  BY <1>6, <1>8, MTypeParts, PTL
<1> QED BY <1>5, <1>7, <1>9, <1>10, <1>11 DEF MInv

LEMMA MainSetStateStep ==
  ASSUME MInv, NEW k \in Clients, MainSetState(k)
  PROVE  MInv'
<1> TypeOK /\ MainType /\ IInv /\ QueueInv /\ AddInv /\ StackInv /\ ToldInv(k) /\ SelfInv(k)
  BY MTypeParts DEF MInv
<1>1. /\ mainStack # <<>> /\ Head(mainStack) = <<"SetState", k>>
      /\ DisconnectSetsState(k) /\ Proceed("Stop", k)
      /\ raced' = IF tcp[k] = "kDisconnected" THEN raced \cup {k} ELSE raced
      /\ UNCHANGED <<mainQ, connections, conn_obj, self, exit, added, dels, served, missed>>
  BY DEF MainSetState
<1>2. /\ holder[k] /\ holder' = [holder EXCEPT ![k] = FALSE]
      /\ tcp' = [tcp EXCEPT ![k] = "kDisconnecting"]
      /\ queue' = [queue EXCEPT ![k] = Append(@, "forceCloseInLoop")]
      /\ UNCHANGED <<ctor, ioPc, starts, told>>
  BY <1>1 DEF DisconnectSetsState, connectorVars
<1>3. /\ ~holder'[k] /\ tcp'[k] = "kDisconnecting" /\ queue'[k] = Append(queue[k], "forceCloseInLoop")
      /\ \A j \in Clients : j # k => holder'[j] = holder[j] /\ tcp'[j] = tcp[j] /\ queue'[j] = queue[j]
  BY <1>2 DEF TypeOK
<1>4. IInv'
  BY <1>1, DisconnectSetsStateStep
<1>5. TypeOK'
  BY <1>4 DEF IInv
<1>6. mainStack' \in Seq(StackOps) /\ StackInv'
  BY <1>1, <1>3, StackKeeps
<1>7. MainType'
  <2>1. raced' \subseteq Clients
    BY <1>1 DEF MainType
  <2> QED BY <1>1, <1>6, <2>1 DEF MainType
<1>8. QueueInv' /\ AddInv'
  BY <1>1, <1>2 DEF QueueInv, AddInv
<1>9. ToldInv(k)' /\ SelfInv(k)'
  <2>1. tcp[k] \in {"kConnected", "kDisconnecting", "kDisconnected"} /\ k \notin raced
    <3>1. PhaseInv(k)
      BY DEF IInv, ClientInv
    <3>2. tcp[k] # "none" /\ tcp[k] # "kConnecting"
      BY <1>2, <3>1 DEF PhaseInv
    <3>3. tcp[k] \in States \cup {"none", "kDisconnecting"}
      BY DEF TypeOK
    <3> QED BY <1>2, <3>2, <3>3 DEF States, StackInv
  <2>2. told[k] = <<"up">> \/ (k \in raced' /\ told[k] = <<"up", "down">>)
    BY <1>1, <2>1 DEF ToldInv
  <2>3. (InProgress(k))' <=> InProgress(k)
    BY <1>2 DEF InProgress
  <2>4. Has(queue'[k], "startInLoop") <=> Has(queue[k], "startInLoop")
    BY <1>3, NoStartQueued
  <2>5. starts[k] # 0
    BY <2>1 DEF ToldInv
  <2>6. Protocol(k)'
    BY <1>2, <2>2 DEF Protocol
  <2>7. ToldInv(k)'
    BY <1>2, <1>3, <2>2, <2>3, <2>4, <2>5, <2>6 DEF ToldInv
  <2> QED BY <1>1, <1>2, <2>7 DEF SelfInv
<1>10. ASSUME NEW j \in Clients, j # k PROVE ToldInv(j)' /\ SelfInv(j)'
  <2>1. ToldInv(j) /\ SelfInv(j)
    BY DEF MInv
  <2>2. j \in raced' <=> j \in raced
    BY <1>1, <1>10
  <2> QED BY <1>1, <1>2, <1>3, <1>10, <2>1, <2>2, SameTold
<1>11. MTypeOK'
  BY <1>5, <1>7, MTypeParts, PTL
<1> QED BY <1>4, <1>6, <1>8, <1>9, <1>10, <1>11 DEF MInv

LEMMA MainStopStep ==
  ASSUME MInv, NEW k \in Clients, MainStop(k)
  PROVE  MInv'
<1> TypeOK /\ MainType /\ IInv /\ QueueInv /\ AddInv /\ StackInv
  BY MTypeParts DEF MInv
<1>1. /\ mainStack # <<>> /\ Stop(k) /\ mainStack' = Tail(mainStack)
      /\ UNCHANGED <<mainQ, connections, conn_obj, self, exit, added, dels, served, raced, missed>>
  BY DEF MainStop
<1>2. /\ ctor' = WithConnect(ctor, k, FALSE)
      /\ queue' = [queue EXCEPT ![k] = Append(@, "stopInLoop")]
      /\ UNCHANGED <<ioPc, holder, tcp, starts, told>>
  BY <1>1, Zenon DEF Stop, clientVars, WithConnect
<1>3. But(k, ctor, ctor') /\ ctor'[k].state = ctor[k].state
  BY <1>2, SetConnect, ClientType
<1>4. /\ queue'[k] = Append(queue[k], "stopInLoop")
      /\ \A j \in Clients : j # k => queue'[j] = queue[j] /\ ctor'[j] = ctor[j]
  BY <1>2, <1>3 DEF TypeOK, But
<1>5. IInv'
  BY <1>1, StopStep
<1>6. TypeOK'
  BY <1>5 DEF IInv
<1>7. mainStack' \in Seq(StackOps) /\ StackInv'
  <2>1. /\ mainStack' \in Seq(StackOps) /\ Len(mainStack') = Len(mainStack) - 1
        /\ Len(mainStack) \in Nat /\ DOMAIN mainStack = 1..Len(mainStack)
        /\ \A i \in 1..Len(mainStack) - 1 : mainStack'[i] = mainStack[i + 1]
    BY <1>1, HeadTailProperties DEF MainType
  <2>2. \A i \in DOMAIN mainStack' : i \in Int /\ i + 1 \in DOMAIN mainStack /\ mainStack'[i] = mainStack[i + 1]
    BY <2>1
  <2>3. ASSUME NEW i \in DOMAIN mainStack', NEW j \in DOMAIN mainStack', mainStack'[i][2] = mainStack'[j][2]
        PROVE  i = j
    <3>1. i + 1 = j + 1
      BY <2>2, <2>3 DEF StackInv
    <3> QED BY <2>2, <3>1
  <2>4. \A i \in DOMAIN mainStack' : /\ mainStack'[i][2] \notin connections'
                                     /\ mainStack'[i][1] = "DisConnect" => mainStack'[i][2] \notin raced'
    BY <1>1, <2>2 DEF StackInv
  <2>5. \A j \in Clients : /\ holder'[j] => j \notin raced'
                           /\ j \in connections' => j \notin raced' /\ ~holder'[j]
    BY <1>1, <1>2 DEF StackInv
  <2> QED BY <2>1, <2>3, <2>4, <2>5 DEF StackInv
<1>8. MainType'
  BY <1>1, <1>7 DEF MainType
<1>9. QueueInv' /\ AddInv'
  BY <1>1, <1>2 DEF QueueInv, AddInv
<1>10. ASSUME NEW j \in Clients PROVE ToldInv(j)' /\ SelfInv(j)'
  <2>1. ToldInv(j) /\ SelfInv(j)
    BY DEF MInv
  <2>2. CASE j # k
    BY <1>1, <1>2, <1>4, <2>1, <2>2, SameTold
  <2>3. CASE j = k
    <3>1. (InProgress(k))' <=> InProgress(k)
      BY <1>2, <1>3 DEF InProgress
    <3>2. Has(queue'[k], "startInLoop") <=> Has(queue[k], "startInLoop")
      BY <1>4, NoStartQueued
    <3>3. Protocol(k)'
      BY <1>1, <1>2, <2>1, <2>3 DEF ToldInv, Protocol
    <3>4. ToldInv(k)'
      BY <1>1, <1>2, <2>1, <2>3, <3>1, <3>2, <3>3 DEF ToldInv
    <3> QED BY <1>1, <1>2, <2>1, <2>3, <3>4 DEF SelfInv
  <2> QED BY <2>2, <2>3
<1>11. MTypeOK'
  BY <1>6, <1>8, MTypeParts, PTL
<1> QED BY <1>5, <1>7, <1>9, <1>10, <1>11 DEF MInv

LEMMA IoStepStep ==
  ASSUME MInv, NEW k \in Clients, IoStep(k)
  PROVE  MInv'
<1> TypeOK /\ MainType /\ IInv /\ QueueInv /\ AddInv /\ StackInv /\ ToldInv(k) /\ SelfInv(k)
  BY MTypeParts DEF MInv
<1>1. /\ LoopStep(k) \/ TimerStep(k) \/ NetworkStep(k) \/ EstablishRefused(k)
      /\ OnConnection(k)
      /\ UNCHANGED <<mainQ, mainStack, connections, conn_obj, exit, added, dels, served, raced, missed>>
  BY DEF IoStep, mainVars
<1>2. IInv'
  BY <1>1, LoopKeeps, EstablishRefusedStep
<1>3. TypeOK'
  BY <1>2 DEF IInv
<1>4. OthersTold(k) /\ holder' = holder /\ starts' = starts /\ Tells(k) /\ ToldInv(k)'
  BY <1>1, IoEffect DEF Effect
<1>5. self' = IF told'[k] # told[k] /\ told'[k][Len(told'[k])] # "up" THEN self \ {k} ELSE self
  BY <1>1 DEF OnConnection
<1>6. self' \subseteq self /\ \A j \in Clients : j # k /\ j \in self => j \in self'
  BY <1>5
<1>7. MainType'
  BY <1>1, <1>6 DEF MainType
<1>8. QueueInv' /\ StackInv'
  BY <1>1, <1>4 DEF QueueInv, StackInv
<1>9. AddInv'
  BY <1>1, <1>4 DEF AddInv, OthersTold, Tells
<1>10. ASSUME NEW j \in Clients, j # k PROVE ToldInv(j)' /\ SelfInv(j)'
  <2>1. ToldInv(j) /\ SelfInv(j)
    BY DEF MInv
  <2>2. /\ queue'[j] = queue[j] /\ ctor'[j].state = ctor[j].state /\ ioPc'[j] = ioPc[j]
        /\ tcp'[j] = tcp[j] /\ told'[j] = told[j]
    BY <1>4, <1>10 DEF OthersTold
  <2> QED BY <1>1, <1>4, <1>6, <1>10, <2>1, <2>2, SameTold
<1>11. SelfInv(k)'
  <2>1. CASE told'[k] = told[k]
    BY <1>4, <1>5, <2>1 DEF SelfInv
  <2>2. CASE told'[k] # told[k]
    <3> SUFFICES ASSUME starts[k] > 0, told'[k] \in {<<>>, <<"up">>} PROVE k \in self'
      BY <1>4 DEF SelfInv
    <3>1. PICK x \in Texts : told'[k] = Append(told[k], x)
      BY <1>4, <2>2 DEF Tells
    <3>2. told[k] \in Seq(Texts)
      BY ClientType DEF Texts
    <3>3. Len(told'[k]) = Len(told[k]) + 1 /\ Len(told[k]) \in Nat
      BY <3>1, <3>2, AppendProperties
    <3>4. told'[k] = <<"up">>
      BY <3>3
    <3>5. Len(told'[k]) = 1 /\ told'[k][Len(told'[k])] = "up"
      BY <3>4
    <3>6. Len(told[k]) = 0
      BY <3>3, <3>5
    <3>7. told[k] = <<>>
      BY <3>2, <3>6, EmptySeq
    <3> QED BY <1>5, <3>5, <3>7 DEF SelfInv
  <2> QED BY <2>1, <2>2
<1>12. MTypeOK'
  BY <1>3, <1>7, MTypeParts, PTL
<1> QED BY <1>2, <1>4, <1>8, <1>9, <1>10, <1>11, <1>12 DEF MInv

-----------------------------------------------------------------------------
(* The invariant.                                                          *)

LEMMA MInvInit == MInit => MInv
<1> SUFFICES ASSUME MInit PROVE MInv
  OBVIOUS
<1>1. IInv
  BY InvInit DEF MInit, Init
<1>2. TypeOK
  BY <1>1 DEF IInv
<1>3. MainType
  <2>1. dels \in 0..MaxDels
    BY MTcpClientConstants DEF MInit
  <2>2. mainQ \in Seq(MainOps) /\ mainStack \in Seq(StackOps)
    BY DEF MInit
  <2>3. exit \in BOOLEAN
    BY Zenon DEF MInit
  <2> QED BY <2>1, <2>2, <2>3 DEF MInit, MainType
<1>4. QueueInv
  BY DEF MInit, QueueInv
<1>5. /\ connections = {} /\ raced = {} /\ mainStack = <<>>
      /\ \A k \in Clients : /\ told[k] = <<>> /\ starts[k] = 0 /\ tcp[k] = "none" /\ ~holder[k]
                            /\ ctor[k].state = "kDisconnected" /\ ioPc[k] = "idle" /\ queue[k] = <<>>
  BY DEF MInit, ConnInit
<1>6. AddInv
  BY <1>5, FS_EmptySet DEF AddInv, MInit
<1>7. StackInv
  BY <1>5 DEF StackInv
<1>8. ASSUME NEW k \in Clients PROVE ToldInv(k) /\ SelfInv(k)
  <2>1. told[k] = <<>> /\ starts[k] = 0 /\ tcp[k] = "none" /\ k \notin raced
    BY <1>5
  <2> QED BY <2>1 DEF ToldInv, SelfInv, Protocol
<1>9. MTypeOK
  BY <1>2, <1>3, MTypeParts
<1> QED BY <1>1, <1>4, <1>6, <1>7, <1>8, <1>9 DEF MInv

LEMMA MSilence ==
  ASSUME MInv, UNCHANGED vars
  PROVE  MInv'
<1> TypeOK /\ MainType /\ IInv /\ QueueInv /\ AddInv /\ StackInv
  BY MTypeParts DEF MInv
<1>1. /\ UNCHANGED connVars
      /\ UNCHANGED <<mainQ, mainStack, connections, conn_obj, self, exit, added, dels, served, raced, missed>>
  BY DEF vars, mainVars
<1>2. UNCHANGED <<queue, ctor, ioPc, holder, tcp, told, starts>>
  BY <1>1 DEF connVars, connectorVars, clientVars
<1>3. IInv'
  BY <1>1, SilenceKeeps
<1>4. TypeOK'
  BY <1>3 DEF IInv
<1>5. MainType'
  BY <1>1 DEF MainType
<1>6. QueueInv' /\ AddInv' /\ StackInv'
  BY <1>1, <1>2 DEF QueueInv, AddInv, StackInv
<1>7. ASSUME NEW j \in Clients PROVE ToldInv(j)' /\ SelfInv(j)'
  <2>1. ToldInv(j) /\ SelfInv(j)
    BY DEF MInv
  <2> QED BY <1>1, <1>2, <2>1, SameTold
<1>8. MTypeOK'
  BY <1>4, <1>5, MTypeParts, PTL
<1> QED BY <1>3, <1>6, <1>7, <1>8 DEF MInv

LEMMA MInvStep == MInv /\ [MNext]_vars => MInv'
<1> SUFFICES ASSUME MInv, [MNext]_vars PROVE MInv'
  OBVIOUS
<1>1. CASE UnInitTcpClient
  BY <1>1, CallStep
<1>2. ASSUME NEW k \in Clients, AddConnection(k) \/ DelConnection(k) PROVE MInv'
  BY <1>2, CallStep
<1>3. ASSUME NEW k \in Clients, IoStep(k) PROVE MInv'
  BY <1>3, IoStepStep
<1>4. ASSUME NEW k \in Clients, AddConnectionFails(k) PROVE MInv'
  BY <1>4, AddConnectionFailsStep
<1>5. ASSUME NEW k \in Clients, NEW t \in Timeouts, AddConnectionConnects(k, t) PROVE MInv'
  BY <1>5, AddConnectionConnectsStep
<1>6. ASSUME NEW k \in Clients, DelConnectionInLoop(k) PROVE MInv'
  BY <1>6, DelConnectionInLoopStep
<1>7. ASSUME NEW k \in Clients, MainDisConnect(k) \/ MainSetState(k) \/ MainStop(k) PROVE MInv'
  BY <1>7, MainDisConnectStep, MainSetStateStep, MainStopStep
<1>8. CASE ClearConnMap
  BY <1>8, ClearConnMapStep
<1>9. CASE UNCHANGED vars
  BY <1>9, MSilence
<1>10. CASE MainStep
  BY <1>4, <1>5, <1>6, <1>7, <1>8, <1>10 DEF MainStep
<1> QED BY <1>1, <1>2, <1>3, <1>9, <1>10 DEF MNext

\* For any connections, timeouts and calls, the invariant holds in every
\* reachable state: what the user was told agrees with the state of the
\* connection, and the main loop closes each connection once.
THEOREM MInvariant == MSpec => []MInv
<1>1. MInit => MInv
  BY MInvInit
<1>2. MInv /\ [MNext]_vars => MInv'
  BY MInvStep
<1> QED BY <1>1, <1>2, PTL DEF MSpec

\* Type correctness of the client, the Connectors it owns included.
THEOREM MTypeCorrect == MSpec => []MTypeOK
<1>1. MInv => MTypeOK
  BY DEF MInv
<1> QED BY <1>1, MInvariant, PTL

\* However AddConnection, DelConnection and UnInitTcpClient fall, and whatever
\* the I/O loops and the network do, onConnection reports one failure, or one
\* connect followed by one disconnect; the second disconnect needs a
\* disconnect() of the main loop that lost the race with handleClose.
THEOREM CallbacksInProtocol == MSpec => []CallbackProtocol
<1>1. MInv => CallbackProtocol
  BY DEF MInv, ToldInv, Protocol, CallbackProtocol
<1> QED BY <1>1, MInvariant, PTL

\* A callback of net::TcpClient finds the xTcpClient it is bound to by a raw
\* pointer alive, but for that race: self_ is given up by the last callback.
THEOREM CallbacksFindClient == MSpec => ClientOutlivesCallbacks
<1>1. ASSUME MInv, [MNext]_vars, NEW k \in Clients, told'[k] # told[k], starts[k] > 0
      PROVE  Alive(k) \/ k \in raced
  <2> TypeOK /\ IInv /\ AddInv
    BY <1>1, MTypeParts DEF MInv
  <2>1. ASSUME NEW j \in Clients, IoStep(j) PROVE Alive(k) \/ k \in raced
    <3>1. OthersTold(j) /\ Tells(j)
      <4>1. ToldInv(j) /\ raced' = raced
        BY <1>1, <2>1 DEF IoStep, MInv
      <4>2. LoopStep(j) \/ TimerStep(j) \/ NetworkStep(j) \/ EstablishRefused(j)
        BY <2>1 DEF IoStep
      <4> QED BY <4>1, <4>2, IoEffect DEF Effect
    <3>2. j = k /\ (told[k] \in {<<>>, <<"up">>} \/ k \in raced)
      BY <1>1, <3>1 DEF OthersTold, Tells
    <3> QED BY <1>1, <3>2 DEF MInv, SelfInv, Alive
  <2>2. ASSUME NEW j \in Clients, AddConnectionFails(j) PROVE FALSE
    <3>1. j \notin served
      <4>1. /\ Serves("Add") /\ Head(mainQ)[2] = j /\ mainQ' = Tail(mainQ) /\ added' = added
            /\ served' = served \cup {j}
        BY <2>2 DEF AddConnectionFails
      <4> QED BY <1>1, <4>1, ServesFacts
    <3>2. starts[j] = 0 /\ j # k
      BY <1>1, <3>1 DEF AddInv
    <3> QED BY <1>1, <2>2, <3>2 DEF AddConnectionFails, TypeOK
  <2>3. ASSUME NEW j \in Clients, AddConnection(j) \/ DelConnection(j) \/ DelConnectionInLoop(j)
        PROVE  FALSE
    BY <1>1, <2>3 DEF AddConnection, DelConnection, DelConnectionInLoop, connVars
  <2>4. ASSUME NEW j \in Clients, NEW t \in Timeouts, AddConnectionConnects(j, t) PROVE FALSE
    BY <1>1, <2>4 DEF AddConnectionConnects, Start
  <2>5. ASSUME NEW j \in Clients, MainDisConnect(j) \/ MainSetState(j) \/ MainStop(j) PROVE FALSE
    BY <1>1, <2>5 DEF MainDisConnect, MainSetState, MainStop, Disconnect, DisconnectSetsState, Stop, connVars
  <2>6. CASE UnInitTcpClient \/ ClearConnMap \/ UNCHANGED vars
    BY <1>1, <2>6 DEF UnInitTcpClient, ClearConnMap, vars, connVars
  <2> QED BY <1>1, <2>1, <2>2, <2>3, <2>4, <2>5, <2>6 DEF MNext, MainStep
<1>2. MInv /\ [MNext]_vars =>
        [\A k \in Clients : told'[k] # told[k] /\ starts[k] > 0 => Alive(k) \/ k \in raced]_vars
  BY <1>1
<1> QED BY <1>2, MInvariant, PTL DEF MSpec, ClientOutlivesCallbacks

\* Composed with its main loop, a Connector answers each attempt once, loses no
\* descriptor and destroys no Channel that the poller knows, whatever the calls:
\* the start() too early that Overlap allows a user of TcpClient is never made.
THEOREM ComposedConnectorSafe ==
  MSpec => [](AnsweredOnce /\ NoDescriptorLost /\ \A k \in Clients : ~dangling[k])
<1>1. MInv => AnsweredOnce /\ NoDescriptorLost /\ \A k \in Clients : ~dangling[k]
  BY AnswerFacts, SocketFacts DEF MInv, IInv, ClientInv, ChannelInv
<1> QED BY <1>1, MInvariant, PTL
=============================================================================
