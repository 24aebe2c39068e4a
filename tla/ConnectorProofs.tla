--------------------------- MODULE ConnectorProofs ---------------------------
(***************************************************************************)
(* Proofs about Connector for any clients, timeouts and number of calls of *)
(* start(), when each start() waits for the end of the last connection     *)
(* (Overlap is FALSE): every attempt is answered once, no descriptor is    *)
(* lost, assert(!channel_) holds, and a timeout is that of its attempt.    *)
(***************************************************************************)
EXTENDS Connector, SequenceTheorems, TLAPS

-----------------------------------------------------------------------------
(* The inductive invariant, for one client.                                *)

\* Functor f waits in queue q, and none of f waits behind one of g.
Has(q, f) == \E i \in DOMAIN q : q[i] = f
Ahead(q, f, g) == \A i, j \in DOMAIN q : q[i] = f /\ q[j] = g => i < j
Once(q, f) == \A i, j \in DOMAIN q : q[i] = f /\ q[j] = f => i = j

\* The attempt of client k is not answered yet.
InProgress(k) == ctor[k].state = "kConnecting" \/ ioPc[k] \in {"created", "published"}

\* A start() is on its way only when the last connection has come to its end;
\* there is one at a time, and the attempts never outnumber the calls.
StartInv(k) ==
    /\ attempts[k] <= starts[k] /\ (InProgress(k) => attempts[k] # 0)
    /\ Has(queue[k], "startInLoop") =>
          /\ attempts[k] < starts[k]
          /\ ctor[k].state # "kConnecting" /\ tcp[k] = "none"
          /\ Once(queue[k], "startInLoop")

\* The Connector is done before a TcpConnection exists, and the TcpConnection
\* is gone when nothing refers to it any more.
PhaseInv(k) ==
    /\ ctor[k].state = "kConnecting" => tcp[k] = "none"
    /\ tcp[k] = "none" => /\ ioPc[k] = "idle" /\ connection[k] = 0
                          /\ ~Has(queue[k], "forceCloseInLoop")
                          /\ ~Has(queue[k], "connectDestroyed")
    /\ ioPc[k] \in {"created", "published"} =>
          /\ connection[k] = IF ioPc[k] = "created" THEN 0 ELSE attempts[k]
          /\ ~holder[k] /\ tcp[k] = "kConnecting"
          /\ ~Has(queue[k], "connectDestroyed")
    /\ tcp[k] = "kConnecting" => ioPc[k] \in {"created", "published"}
    /\ connection[k] # 0 => ~Has(queue[k], "connectDestroyed")
    /\ holder[k] => connection[k] # 0

\* The poller knows the Channel while the attempt is in kConnecting; after that
\* a resetChannel waits for it, ahead of the next start().
ChannelInv(k) ==
    /\ ctor[k].registered <=> ctor[k].state = "kConnecting"
    /\ ctor[k].registered => ~Has(queue[k], "resetChannel")
    /\ ctor[k].channel # 0 /\ ~ctor[k].registered => Has(queue[k], "resetChannel")
    /\ Ahead(queue[k], "resetChannel", "startInLoop")
    /\ ~dangling[k]

\* Attempts that have not begun are not answered, the others once.
AnswerInv(k) ==
    \A a \in Attempts :
        answers[k][a] = IF a > attempts[k] \/ (a = attempts[k] /\ InProgress(k)) THEN 0 ELSE 1

SocketInv(k) ==
    sockets[k] = IF ctor[k].state = "kConnecting" \/ tcp[k] # "none" THEN {attempts[k]} ELSE {}

\* Until stop() has ended an attempt: only the attempt in progress has a timer,
\* conn_timeout_timer_ is that timer, and once it has fired the functor it
\* queued is ahead of the next start().
TimerInv(k) ==
    Has(told[k], "aborted") \/
        /\ timers[k] \subseteq {attempts[k]}
        /\ timers[k] # {} => ctor[k].state = "kConnecting" /\ ctor[k].timer = attempts[k]
        /\ Has(queue[k], "connTimeOutInLoop") => timers[k] = {}
        /\ Ahead(queue[k], "connTimeOutInLoop", "startInLoop")

ClientInv(k) ==
    /\ StartInv(k) /\ PhaseInv(k) /\ ChannelInv(k) /\ AnswerInv(k) /\ SocketInv(k) /\ TimerInv(k)

IInv == TypeOK /\ \A k \in Clients : ClientInv(k)

-----------------------------------------------------------------------------
(* Sequences: what Append and Tail do to what waits in a queue.            *)

LEMMA AppendHas ==
  ASSUME NEW S, NEW q \in Seq(S), NEW g \in S
  PROVE  /\ Append(q, g) \in Seq(S)
         /\ \A f : Has(Append(q, g), f) <=> Has(q, f) \/ f = g
<1>1. /\ Append(q, g) \in Seq(S) /\ DOMAIN Append(q, g) = 1..Len(q) + 1 /\ DOMAIN q = 1..Len(q)
      /\ Len(q) \in Nat /\ Append(q, g)[Len(q) + 1] = g
      /\ \A i \in 1..Len(q) : Append(q, g)[i] = q[i]
  BY AppendProperties
<1>2. \A i \in 1..Len(q) + 1 : i \in 1..Len(q) \/ i = Len(q) + 1
  BY <1>1
<1> QED BY <1>1, <1>2 DEF Has

LEMMA AppendAhead ==
  ASSUME NEW S, NEW q \in Seq(S), NEW g \in S, NEW f, NEW h, f # h, Ahead(q, f, h),
         f # g \/ ~Has(q, h)
  PROVE  Ahead(Append(q, g), f, h)
<1>1. /\ DOMAIN Append(q, g) = 1..Len(q) + 1 /\ DOMAIN q = 1..Len(q)
      /\ Len(q) \in Nat /\ Append(q, g)[Len(q) + 1] = g
      /\ \A i \in 1..Len(q) : Append(q, g)[i] = q[i]
  BY AppendProperties
<1>2. SUFFICES ASSUME NEW i \in 1..Len(q) + 1, NEW j \in 1..Len(q) + 1,
                      Append(q, g)[i] = f, Append(q, g)[j] = h
               PROVE  i < j
  BY <1>1 DEF Ahead
<1>3. CASE j = Len(q) + 1
  <2>1. i # j
    BY <1>2
  <2> QED BY <1>1, <1>3, <2>1
<1>4. CASE j \in 1..Len(q)
  <2>1. q[j] = h
    BY <1>1, <1>2, <1>4
  <2>2. Has(q, h)
    BY <1>1, <1>4, <2>1 DEF Has
  <2>3. i # Len(q) + 1
    BY <1>1, <1>2, <2>2
  <2>4. i \in 1..Len(q) /\ q[i] = f
    BY <1>1, <1>2, <2>3
  <2> QED BY <1>1, <1>4, <2>1, <2>4 DEF Ahead
<1> QED BY <1>1, <1>3, <1>4

LEMMA AppendOnce ==
  ASSUME NEW S, NEW q \in Seq(S), NEW g \in S, NEW f, Once(q, f), f # g \/ ~Has(q, f)
  PROVE  Once(Append(q, g), f)
<1>1. /\ DOMAIN Append(q, g) = 1..Len(q) + 1 /\ DOMAIN q = 1..Len(q)
      /\ Len(q) \in Nat /\ Append(q, g)[Len(q) + 1] = g
      /\ \A i \in 1..Len(q) : Append(q, g)[i] = q[i]
  BY AppendProperties
<1>2. SUFFICES ASSUME NEW i \in 1..Len(q) + 1, NEW j \in 1..Len(q) + 1,
                      Append(q, g)[i] = f, Append(q, g)[j] = f
               PROVE  i = j
  BY <1>1 DEF Once
<1>3. CASE f = g
  <2>1. i \notin 1..Len(q) /\ j \notin 1..Len(q)
    BY <1>1, <1>2, <1>3 DEF Has
  <2> QED BY <1>1, <2>1
<1>4. CASE f # g
  <2>1. i \in 1..Len(q) /\ j \in 1..Len(q)
    BY <1>1, <1>2, <1>4
  <2> QED BY <1>1, <1>2, <2>1 DEF Once
<1> QED BY <1>3, <1>4

LEMMA TailHas ==
  ASSUME NEW S, NEW q \in Seq(S), q # <<>>
  PROVE  /\ Tail(q) \in Seq(S) /\ Has(q, Head(q))
         /\ \A f : Has(Tail(q), f) => Has(q, f)
         /\ \A f : Has(q, f) /\ f # Head(q) => Has(Tail(q), f)
         /\ \A f, h : Ahead(q, f, h) => Ahead(Tail(q), f, h)
         /\ \A f : Once(q, f) => Once(Tail(q), f)
         /\ Once(q, Head(q)) => ~Has(Tail(q), Head(q))
         /\ \A f : Ahead(q, f, Head(q)) => ~Has(q, f)
<1>1. /\ Tail(q) \in Seq(S) /\ Len(Tail(q)) = Len(q) - 1 /\ Len(q) \in Nat /\ Len(q) >= 1
      /\ \A i \in 1..Len(q) - 1 : Tail(q)[i] = q[i + 1]
      /\ q[1] = Head(q) /\ DOMAIN q = 1..Len(q)
  BY HeadTailProperties
<1>2. DOMAIN Tail(q) = 1..Len(q) - 1
  BY <1>1
<1>3. \A i \in DOMAIN Tail(q) : i + 1 \in DOMAIN q /\ i + 1 # 1 /\ i \in Int /\ Tail(q)[i] = q[i + 1]
  BY <1>1, <1>2
<1>4. 1 \in DOMAIN q /\ \A i \in DOMAIN q : i \in Int /\ i >= 1
  BY <1>1
<1>5. \A i \in DOMAIN q : i = 1 \/ (i - 1 \in DOMAIN Tail(q) /\ Tail(q)[i - 1] = q[i])
  BY <1>1, <1>2
<1>6. Has(q, Head(q)) /\ \A f : Has(Tail(q), f) => Has(q, f)
  BY <1>1, <1>3, <1>4 DEF Has
<1>7. \A f : Has(q, f) /\ f # Head(q) => Has(Tail(q), f)
  BY <1>1, <1>5 DEF Has
<1>8. \A f, h : Ahead(q, f, h) => Ahead(Tail(q), f, h)
  <2> SUFFICES ASSUME NEW f, NEW h, Ahead(q, f, h), NEW i \in DOMAIN Tail(q), NEW j \in DOMAIN Tail(q),
                      Tail(q)[i] = f, Tail(q)[j] = h
               PROVE  i < j
    BY DEF Ahead
  <2>1. i + 1 < j + 1
    BY <1>3 DEF Ahead
  <2> QED BY <1>3, <2>1
<1>9. \A f : Once(q, f) => Once(Tail(q), f)
  <2> SUFFICES ASSUME NEW f, Once(q, f), NEW i \in DOMAIN Tail(q), NEW j \in DOMAIN Tail(q),
                      Tail(q)[i] = f, Tail(q)[j] = f
               PROVE  i = j
    BY DEF Once
  <2>1. i + 1 = j + 1
    BY <1>3 DEF Once
  <2> QED BY <1>3, <2>1
<1>10. Once(q, Head(q)) => ~Has(Tail(q), Head(q))
  BY <1>1, <1>3, <1>4 DEF Once, Has
<1>11. \A f : Ahead(q, f, Head(q)) => ~Has(q, f)
  BY <1>1, <1>4 DEF Ahead, Has
<1> QED BY <1>1, <1>6, <1>7, <1>8, <1>9, <1>10, <1>11

-----------------------------------------------------------------------------
(* Connector's members, and what an assignment leaves alone.               *)

Ctors == [state : States, connect : BOOLEAN, timeout : {0, 1},
          timer : 0..MaxAttempts, channel : 0..MaxAttempts, registered : BOOLEAN]

WithState(f, k, s) == [f EXCEPT ![k].state = s]
WithStateForgotten(f, k, s) == [f EXCEPT ![k].state = s, ![k].registered = FALSE]
WithStateChannel(f, k, s, a) == [f EXCEPT ![k].state = s, ![k].channel = a]
WithRegisteredTimer(f, k, t) == [f EXCEPT ![k].registered = TRUE, ![k].timer = t]
WithChannelForgotten(f, k, a) == [f EXCEPT ![k].channel = a, ![k].registered = FALSE]
WithConnect(f, k, b) == [f EXCEPT ![k].connect = b]
WithConnectTimeout(f, k, b, t) == [f EXCEPT ![k].connect = b, ![k].timeout = t]

\* f and g agree on every client but k.
But(k, f, g) == g \in [Clients -> Ctors] /\ \A j \in Clients : j # k => g[j] = f[j]

LEMMA SetState ==
  ASSUME NEW f \in [Clients -> Ctors], NEW k \in Clients, NEW s \in States
  PROVE  LET g == WithState(f, k, s)
         IN  /\ But(k, f, g) /\ g[k].state = s /\ g[k].registered = f[k].registered
             /\ g[k].channel = f[k].channel /\ g[k].timer = f[k].timer
BY DEF Ctors, But, WithState

LEMMA SetStateForgotten ==
  ASSUME NEW f \in [Clients -> Ctors], NEW k \in Clients, NEW s \in States
  PROVE  LET g == WithStateForgotten(f, k, s)
         IN  /\ But(k, f, g) /\ g[k].state = s /\ ~g[k].registered
             /\ g[k].channel = f[k].channel /\ g[k].timer = f[k].timer
BY DEF Ctors, But, WithStateForgotten

LEMMA SetStateChannel ==
  ASSUME NEW f \in [Clients -> Ctors], NEW k \in Clients, NEW s \in States, NEW a \in 0..MaxAttempts
  PROVE  LET g == WithStateChannel(f, k, s, a)
         IN  But(k, f, g) /\ g[k].state = s /\ g[k].channel = a
BY DEF Ctors, But, WithStateChannel

LEMMA SetRegisteredTimer ==
  ASSUME NEW f \in [Clients -> Ctors], NEW k \in Clients, NEW t \in 0..MaxAttempts
  PROVE  LET g == WithRegisteredTimer(f, k, t)
         IN  /\ But(k, f, g) /\ g[k].state = f[k].state /\ g[k].channel = f[k].channel
             /\ g[k].registered /\ g[k].timer = t
BY DEF Ctors, But, WithRegisteredTimer

LEMMA UnsetChannel ==
  ASSUME NEW f \in [Clients -> Ctors], NEW k \in Clients, NEW a \in 0..MaxAttempts
  PROVE  LET g == WithChannelForgotten(f, k, a)
         IN  /\ But(k, f, g) /\ g[k].state = f[k].state /\ ~g[k].registered
             /\ g[k].channel = a /\ g[k].timer = f[k].timer
BY DEF Ctors, But, WithChannelForgotten

LEMMA SetConnect ==
  ASSUME NEW f \in [Clients -> Ctors], NEW k \in Clients, NEW b \in BOOLEAN
  PROVE  LET g == WithConnect(f, k, b)
         IN  /\ But(k, f, g) /\ g[k].state = f[k].state /\ g[k].registered = f[k].registered
             /\ g[k].channel = f[k].channel /\ g[k].timer = f[k].timer
BY DEF Ctors, But, WithConnect

LEMMA SetConnectTimeout ==
  ASSUME NEW f \in [Clients -> Ctors], NEW k \in Clients, NEW b \in BOOLEAN, NEW t \in {0, 1}
  PROVE  LET g == WithConnectTimeout(f, k, b, t)
         IN  /\ But(k, f, g) /\ g[k].state = f[k].state /\ g[k].registered = f[k].registered
             /\ g[k].channel = f[k].channel /\ g[k].timer = f[k].timer
BY DEF Ctors, But, WithConnectTimeout

\* The assignments of connecting().
LEMMA SetConnecting ==
  ASSUME NEW f \in [Clients -> Ctors], NEW k \in Clients, NEW s \in States, NEW a \in 0..MaxAttempts,
         NEW t \in 0..MaxAttempts
  PROVE  LET g == WithRegisteredTimer(WithStateChannel(f, k, s, a), k, t)
         IN  /\ But(k, f, g) /\ g[k].state = s /\ g[k].registered
             /\ g[k].channel = a /\ g[k].timer = t
<1> DEFINE h == WithStateChannel(f, k, s, a)
           g == WithRegisteredTimer(h, k, t)
<1>1. But(k, f, h) /\ h[k].state = s /\ h[k].channel = a
  BY SetStateChannel
<1>2. h \in [Clients -> Ctors]
  BY <1>1 DEF But
<1> HIDE DEF h
<1>3. /\ But(k, h, g) /\ g[k].state = h[k].state /\ g[k].channel = h[k].channel
      /\ g[k].registered /\ g[k].timer = t
  BY <1>2, SetRegisteredTimer
<1> HIDE DEF g
<1>4. But(k, f, g)
  BY <1>1, <1>3 DEF But
<1>5. /\ But(k, f, g) /\ g[k].state = s /\ g[k].registered
      /\ g[k].channel = a /\ g[k].timer = t
  BY <1>1, <1>3, <1>4
<1> QED BY <1>5 DEF h, g

Counted(f, k, a) == [f EXCEPT ![k][a] = @ + 1]

LEMMA SetAnswers ==
  ASSUME NEW f \in [Clients -> [Attempts -> Nat]], NEW k \in Clients, NEW a \in Attempts
  PROVE  LET g == Counted(f, k, a)
         IN  /\ g \in [Clients -> [Attempts -> Nat]] /\ g[k][a] = f[k][a] + 1
             /\ \A b \in Attempts : b # a => g[k][b] = f[k][b]
             /\ \A j \in Clients : j # k => g[j] = f[j]
BY DEF Counted

-----------------------------------------------------------------------------
(* A step of one client leaves the others alone.                           *)

OthersSame(k) ==
    \A j \in Clients : j # k =>
        /\ queue'[j] = queue[j] /\ ctor'[j] = ctor[j] /\ attempts'[j] = attempts[j]
        /\ timers'[j] = timers[j] /\ sockets'[j] = sockets[j] /\ ioPc'[j] = ioPc[j]
        /\ holder'[j] = holder[j] /\ connection'[j] = connection[j] /\ tcp'[j] = tcp[j]
        /\ starts'[j] = starts[j] /\ told'[j] = told[j] /\ answers'[j] = answers[j]
        /\ dangling'[j] = dangling[j]

LEMMA OneClient ==
  ASSUME IInv, NEW k \in Clients, TypeOK', OthersSame(k),
         StartInv(k)', PhaseInv(k)', ChannelInv(k)', AnswerInv(k)', SocketInv(k)', TimerInv(k)'
  PROVE  IInv'
<1>1. ASSUME NEW j \in Clients, j # k PROVE ClientInv(j)'
  <2>1. ClientInv(j)
    BY DEF IInv
  <2>2. /\ queue'[j] = queue[j] /\ ctor'[j] = ctor[j] /\ attempts'[j] = attempts[j]
        /\ timers'[j] = timers[j] /\ sockets'[j] = sockets[j] /\ ioPc'[j] = ioPc[j]
        /\ holder'[j] = holder[j] /\ connection'[j] = connection[j] /\ tcp'[j] = tcp[j]
        /\ starts'[j] = starts[j] /\ told'[j] = told[j] /\ answers'[j] = answers[j]
        /\ dangling'[j] = dangling[j]
    BY <1>1 DEF OthersSame
  <2>3. (InProgress(j))' <=> InProgress(j)
    BY <2>2 DEF InProgress
  <2>4. StartInv(j)' /\ AnswerInv(j)'
    BY <2>1, <2>2, <2>3 DEF ClientInv, StartInv, AnswerInv
  <2>5. PhaseInv(j)' /\ ChannelInv(j)' /\ SocketInv(j)' /\ TimerInv(j)'
    BY <2>1, <2>2 DEF ClientInv, PhaseInv, ChannelInv, SocketInv, TimerInv
  <2> QED BY <2>4, <2>5 DEF ClientInv
<1> QED BY <1>1 DEF IInv, ClientInv

\* The types of what belongs to client k.
LEMMA ClientType ==
  ASSUME TypeOK, NEW k \in Clients
  PROVE  /\ queue[k] \in Seq(Functors) /\ ctor[k] \in Ctors /\ ctor \in [Clients -> Ctors]
         /\ attempts[k] \in 0..MaxAttempts /\ starts[k] \in 0..MaxAttempts
         /\ attempts[k] \in Nat /\ starts[k] \in Nat /\ MaxAttempts \in Nat
         /\ timers[k] \subseteq Attempts /\ sockets[k] \subseteq Attempts
         /\ told[k] \in Seq({"fail", "timeout", "aborted", "up", "down"})
         /\ answers \in [Clients -> [Attempts -> Nat]] /\ answers[k] \in [Attempts -> Nat]
BY ConnectorConstants DEF TypeOK, Ctors

-----------------------------------------------------------------------------
(* Steps of other threads.                                                 *)

LEMMA StartStep ==
  ASSUME IInv, NEW k \in Clients, NEW t \in Timeouts, Settled(k), Start(k, t)
  PROVE  IInv'
<1> TypeOK /\ ClientInv(k)
  BY DEF IInv
<1>1. /\ starts' = [starts EXCEPT ![k] = @ + 1] /\ starts[k] < MaxAttempts
      /\ ctor' = WithConnectTimeout(ctor, k, TRUE, t)
      /\ queue' = [queue EXCEPT ![k] = Append(@, "startInLoop")]
      /\ UNCHANGED <<attempts, timers, answers, dangling, ioPc, holder, connection, tcp, sockets, told>>
  BY Zenon DEF Start, clientVars, WithConnectTimeout
<1>2. /\ But(k, ctor, ctor') /\ ctor'[k].state = ctor[k].state /\ ctor'[k].registered = ctor[k].registered
      /\ ctor'[k].channel = ctor[k].channel /\ ctor'[k].timer = ctor[k].timer
  BY <1>1, SetConnectTimeout, ClientType, ConnectorConstants
<1>3. /\ queue'[k] = Append(queue[k], "startInLoop") /\ starts'[k] = starts[k] + 1
  BY <1>1 DEF TypeOK
<1>4. /\ queue[k] \in Seq(Functors) /\ "startInLoop" \in Functors
  BY ClientType DEF Functors
<1>5. TypeOK'
  <2>1. queue' \in [Clients -> Seq(Functors)]
    BY <1>1, <1>4 DEF TypeOK
  <2>2. starts' \in [Clients -> 0..MaxAttempts]
    BY <1>1, ClientType DEF TypeOK
  <2> QED BY <1>1, <1>2, <2>1, <2>2 DEF TypeOK, But, Ctors
<1>6. OthersSame(k)
  BY <1>1, <1>2 DEF OthersSame, But, TypeOK
<1>7. ctor[k].state # "kConnecting" /\ tcp[k] = "none" /\ ~Has(queue[k], "startInLoop")
  BY DEF Settled, Has
<1>8. \A f : f # "startInLoop" => (Has(queue'[k], f) <=> Has(queue[k], f))
  BY <1>3, <1>4, AppendHas
<1>9. (InProgress(k))' <=> InProgress(k)
  BY <1>1, <1>2 DEF InProgress
<1>10. StartInv(k)'
  <2>1. Once(queue'[k], "startInLoop")
    BY <1>3, <1>4, <1>7, AppendOnce DEF Once, Has
  <2>2. attempts[k] < starts'[k] /\ attempts[k] <= starts'[k]
    BY <1>3, ClientType DEF ClientInv, StartInv
  <2> QED BY <1>1, <1>2, <1>7, <1>9, <2>1, <2>2 DEF ClientInv, StartInv
<1>11. PhaseInv(k)'
  BY <1>1, <1>2, <1>8 DEF ClientInv, PhaseInv
<1>12. ChannelInv(k)'
  <2>1. Ahead(queue'[k], "resetChannel", "startInLoop")
    BY <1>3, <1>4, AppendAhead DEF ClientInv, ChannelInv
  <2> QED BY <1>1, <1>2, <1>8, <2>1 DEF ClientInv, ChannelInv
<1>13. AnswerInv(k)' /\ SocketInv(k)'
  BY <1>1, <1>2, <1>9 DEF ClientInv, AnswerInv, SocketInv
<1>14. TimerInv(k)'
  <2>1. Ahead(queue[k], "connTimeOutInLoop", "startInLoop") => Ahead(queue'[k], "connTimeOutInLoop", "startInLoop")
    BY <1>3, <1>4, AppendAhead
  <2> QED BY <1>1, <1>2, <1>8, <2>1 DEF ClientInv, TimerInv
<1> QED BY <1>5, <1>6, <1>10, <1>11, <1>12, <1>13, <1>14, OneClient

LEMMA StopStep ==
  ASSUME IInv, NEW k \in Clients, Stop(k)
  PROVE  IInv'
<1> TypeOK /\ ClientInv(k)
  BY DEF IInv
<1>1. /\ ctor' = WithConnect(ctor, k, FALSE)
      /\ queue' = [queue EXCEPT ![k] = Append(@, "stopInLoop")]
      /\ UNCHANGED <<attempts, timers, answers, dangling, ioPc, holder, connection, tcp, sockets, starts,
                     told>>
  BY Zenon DEF Stop, clientVars, WithConnect
<1>2. /\ But(k, ctor, ctor') /\ ctor'[k].state = ctor[k].state /\ ctor'[k].registered = ctor[k].registered
      /\ ctor'[k].channel = ctor[k].channel /\ ctor'[k].timer = ctor[k].timer
  BY <1>1, SetConnect, ClientType
<1>3. queue'[k] = Append(queue[k], "stopInLoop")
  BY <1>1 DEF TypeOK
<1>4. /\ queue[k] \in Seq(Functors) /\ "stopInLoop" \in Functors
  BY ClientType DEF Functors
<1>5. TypeOK'
  <2>1. queue' \in [Clients -> Seq(Functors)]
    BY <1>1, <1>4 DEF TypeOK
  <2> QED BY <1>1, <1>2, <2>1 DEF TypeOK, But, Ctors
<1>6. OthersSame(k)
  BY <1>1, <1>2 DEF OthersSame, But, TypeOK
<1>7. \A f : f # "stopInLoop" => (Has(queue'[k], f) <=> Has(queue[k], f))
  BY <1>3, <1>4, AppendHas
<1>8. (InProgress(k))' <=> InProgress(k)
  BY <1>1, <1>2 DEF InProgress
<1>9. StartInv(k)'
  <2>1. Once(queue[k], "startInLoop") => Once(queue'[k], "startInLoop")
    BY <1>3, <1>4, AppendOnce
  <2> QED BY <1>1, <1>2, <1>7, <1>8, <2>1 DEF ClientInv, StartInv
<1>10. PhaseInv(k)'
  BY <1>1, <1>2, <1>7 DEF ClientInv, PhaseInv
<1>11. ChannelInv(k)'
  <2>1. Ahead(queue'[k], "resetChannel", "startInLoop")
    BY <1>3, <1>4, AppendAhead DEF ClientInv, ChannelInv
  <2> QED BY <1>1, <1>2, <1>7, <2>1 DEF ClientInv, ChannelInv
<1>12. AnswerInv(k)' /\ SocketInv(k)'
  BY <1>1, <1>2, <1>8 DEF ClientInv, AnswerInv, SocketInv
<1>13. TimerInv(k)'
  <2>1. Ahead(queue[k], "connTimeOutInLoop", "startInLoop") => Ahead(queue'[k], "connTimeOutInLoop", "startInLoop")
    BY <1>3, <1>4, AppendAhead
  <2> QED BY <1>1, <1>2, <1>7, <2>1 DEF ClientInv, TimerInv
<1> QED BY <1>5, <1>6, <1>9, <1>10, <1>11, <1>12, <1>13, OneClient

LEMMA DisconnectStep ==
  ASSUME IInv, NEW k \in Clients, Disconnect(k)
  PROVE  IInv'
<1> TypeOK /\ ClientInv(k)
  BY DEF IInv
<1>1. /\ connection[k] # 0 /\ tcp[k] \in {"kConnected", "kDisconnecting"}
      /\ holder' = [holder EXCEPT ![k] = TRUE]
      /\ UNCHANGED <<queue, ctor, attempts, timers, answers, dangling, ioPc, connection, tcp, sockets,
                     starts, told>>
  BY DEF Disconnect, connectorVars
<1>2. TypeOK'
  <2>1. holder' \in [Clients -> BOOLEAN]
    BY <1>1 DEF TypeOK
  <2> QED BY <1>1, <2>1 DEF TypeOK
<1>3. OthersSame(k)
  BY <1>1 DEF OthersSame, TypeOK
<1>4. PhaseInv(k)'
  BY <1>1 DEF ClientInv, PhaseInv
<1>5. StartInv(k)' /\ ChannelInv(k)' /\ AnswerInv(k)' /\ SocketInv(k)' /\ TimerInv(k)'
  BY <1>1 DEF ClientInv, StartInv, ChannelInv, AnswerInv, SocketInv, TimerInv, InProgress
<1> QED BY <1>2, <1>3, <1>4, <1>5, OneClient

LEMMA DisconnectSetsStateStep ==
  ASSUME IInv, NEW k \in Clients, DisconnectSetsState(k)
  PROVE  IInv'
<1> TypeOK /\ ClientInv(k)
  BY DEF IInv
<1>1. /\ holder[k]
      /\ holder' = [holder EXCEPT ![k] = FALSE]
      /\ tcp' = [tcp EXCEPT ![k] = "kDisconnecting"]
      /\ queue' = [queue EXCEPT ![k] = Append(@, "forceCloseInLoop")]
      /\ UNCHANGED <<ctor, attempts, timers, answers, dangling, ioPc, connection, sockets, starts, told>>
  BY DEF DisconnectSetsState, connectorVars
<1>2. queue'[k] = Append(queue[k], "forceCloseInLoop") /\ tcp'[k] = "kDisconnecting" /\ ~holder'[k]
  BY <1>1 DEF TypeOK
<1>3. /\ queue[k] \in Seq(Functors) /\ "forceCloseInLoop" \in Functors
  BY ClientType DEF Functors
<1>4. TypeOK'
  <2>1. queue' \in [Clients -> Seq(Functors)]
    BY <1>1, <1>3 DEF TypeOK
  <2>2. holder' \in [Clients -> BOOLEAN] /\ tcp' \in [Clients -> States \cup {"none", "kDisconnecting"}]
    BY <1>1 DEF TypeOK
  <2> QED BY <1>1, <2>1, <2>2 DEF TypeOK
<1>5. OthersSame(k)
  BY <1>1 DEF OthersSame, TypeOK
<1>6. \A f : f # "forceCloseInLoop" => (Has(queue'[k], f) <=> Has(queue[k], f))
  BY <1>2, <1>3, AppendHas
<1>7. tcp[k] # "none" /\ ctor[k].state # "kConnecting" /\ ioPc[k] \notin {"created", "published"}
  BY <1>1 DEF ClientInv, PhaseInv
<1>8. (InProgress(k))' <=> InProgress(k)
  BY <1>1 DEF InProgress
<1>9. StartInv(k)'
  BY <1>1, <1>6, <1>7, <1>8 DEF ClientInv, StartInv
<1>10. PhaseInv(k)'
  BY <1>1, <1>2, <1>6, <1>7 DEF ClientInv, PhaseInv
<1>11. ChannelInv(k)'
  <2>1. Ahead(queue'[k], "resetChannel", "startInLoop")
    BY <1>2, <1>3, AppendAhead DEF ClientInv, ChannelInv
  <2> QED BY <1>1, <1>6, <2>1 DEF ClientInv, ChannelInv
<1>12. AnswerInv(k)' /\ SocketInv(k)'
  BY <1>1, <1>2, <1>7, <1>8 DEF ClientInv, AnswerInv, SocketInv
<1>13. TimerInv(k)'
  <2>1. Ahead(queue[k], "connTimeOutInLoop", "startInLoop") => Ahead(queue'[k], "connTimeOutInLoop", "startInLoop")
    BY <1>2, <1>3, AppendAhead
  <2> QED BY <1>1, <1>6, <2>1 DEF ClientInv, TimerInv
<1> QED BY <1>4, <1>5, <1>9, <1>10, <1>11, <1>12, <1>13, OneClient

-----------------------------------------------------------------------------
(* Steps of the loop: Connector.                                           *)

\* What is left of the queue when its head has run.
LEMMA RestOfQueue ==
  ASSUME TypeOK, NEW k \in Clients, NEW f, Runs(k, f)
  PROVE  /\ ioPc[k] = "idle" /\ Has(queue[k], f) /\ Tail(queue[k]) \in Seq(Functors)
         /\ \A g : Has(Tail(queue[k]), g) => Has(queue[k], g)
         /\ \A g : g # f => (Has(Tail(queue[k]), g) <=> Has(queue[k], g))
         /\ \A g, h : Ahead(queue[k], g, h) => Ahead(Tail(queue[k]), g, h)
         /\ \A g : Once(queue[k], g) => Once(Tail(queue[k]), g)
         /\ Once(queue[k], f) => ~Has(Tail(queue[k]), f)
         /\ \A g : Ahead(queue[k], g, f) => ~Has(queue[k], g)
<1>1. queue[k] \in Seq(Functors) /\ queue[k] # <<>> /\ Head(queue[k]) = f /\ ioPc[k] = "idle"
  BY ClientType DEF Runs
<1> QED BY <1>1, TailHas

LEMMA DoNotConnectStep ==
  ASSUME IInv, NEW k \in Clients, DoNotConnect(k)
  PROVE  IInv'
<1> TypeOK /\ ClientInv(k)
  BY DEF IInv
<1>1. /\ Runs(k, "startInLoop")
      /\ queue' = [queue EXCEPT ![k] = Tail(@)]
      /\ UNCHANGED <<ctor, attempts, timers, answers, dangling, ioPc, holder, connection, tcp, sockets,
                     starts, told>>
  BY DEF DoNotConnect, connectorVars, clientVars
<1>2. queue'[k] = Tail(queue[k])
  BY <1>1 DEF TypeOK
<1>3. TypeOK'
  <2>1. queue' \in [Clients -> Seq(Functors)]
    BY <1>1, RestOfQueue DEF TypeOK
  <2> QED BY <1>1, <2>1 DEF TypeOK
<1>4. OthersSame(k)
  BY <1>1 DEF OthersSame, TypeOK
<1>5. (InProgress(k))' <=> InProgress(k)
  BY <1>1 DEF InProgress
<1>6. StartInv(k)'
  BY <1>1, <1>2, <1>5, RestOfQueue DEF ClientInv, StartInv
<1>7. PhaseInv(k)' /\ ChannelInv(k)' /\ TimerInv(k)'
  <2>1. /\ \A g : g # "startInLoop" => (Has(queue'[k], g) <=> Has(queue[k], g))
        /\ \A g, h : Ahead(queue[k], g, h) => Ahead(queue'[k], g, h)
    BY <1>1, <1>2, RestOfQueue
  <2>2. PhaseInv(k)'
    BY <1>1, <2>1 DEF ClientInv, PhaseInv
  <2>3. ChannelInv(k)'
    BY <1>1, <2>1 DEF ClientInv, ChannelInv
  <2>4. TimerInv(k)'
    BY <1>1, <2>1 DEF ClientInv, TimerInv
  <2> QED BY <2>2, <2>3, <2>4
<1>8. AnswerInv(k)' /\ SocketInv(k)'
  BY <1>1, <1>5 DEF ClientInv, AnswerInv, SocketInv
<1> QED BY <1>3, <1>4, <1>6, <1>7, <1>8, OneClient

\* A new attempt begins when the last one is answered and its connection gone.
LEMMA Begins ==
  ASSUME IInv, NEW k \in Clients, Runs(k, "startInLoop")
  PROVE  /\ attempts[k] + 1 \in Attempts /\ attempts[k] + 1 <= starts[k]
         /\ ctor[k].state # "kConnecting" /\ tcp[k] = "none" /\ ~InProgress(k)
         /\ ~ctor[k].registered /\ ctor[k].channel = 0
         /\ ~Has(queue[k], "resetChannel") /\ ~Has(Tail(queue[k]), "startInLoop")
<1> TypeOK /\ ClientInv(k)
  BY DEF IInv
<1>1. /\ attempts[k] < starts[k] /\ ctor[k].state # "kConnecting" /\ tcp[k] = "none"
      /\ ~Has(Tail(queue[k]), "startInLoop")
  BY RestOfQueue DEF ClientInv, StartInv
<1>2. ~ctor[k].registered /\ ~Has(queue[k], "resetChannel")
  BY <1>1, RestOfQueue DEF ClientInv, ChannelInv
<1>3. ctor[k].channel = 0
  BY <1>2 DEF ClientInv, ChannelInv
<1>4. attempts[k] + 1 \in Attempts /\ attempts[k] + 1 <= starts[k]
  BY <1>1, ClientType DEF Attempts
<1>5. ~InProgress(k)
  BY <1>1, RestOfQueue DEF InProgress
<1> QED BY <1>1, <1>2, <1>3, <1>4, <1>5

LEMMA ConnectFailsAtOnceStep ==
  ASSUME IInv, NEW k \in Clients, ConnectFailsAtOnce(k)
  PROVE  IInv'
<1> TypeOK /\ ClientInv(k)
  BY DEF IInv
<1> DEFINE a == attempts[k] + 1
<1>1. /\ Runs(k, "startInLoop")
      /\ attempts' = [attempts EXCEPT ![k] = a]
      /\ ctor' = WithState(ctor, k, "kDisconnected")
      /\ queue' = [queue EXCEPT ![k] = Tail(@)]
      /\ answers' = Counted(answers, k, attempts'[k])
      /\ told' = [told EXCEPT ![k] = Append(@, "fail")]
      /\ UNCHANGED <<timers, dangling, ioPc, holder, connection, tcp, sockets, starts>>
  BY Zenon DEF ConnectFailsAtOnce, clientVars, WithState, Counted
<1>2. /\ But(k, ctor, ctor') /\ ctor'[k].state = "kDisconnected" /\ ctor'[k].registered = ctor[k].registered
      /\ ctor'[k].channel = ctor[k].channel /\ ctor'[k].timer = ctor[k].timer
  BY <1>1, SetState, ClientType DEF States
<1>3. /\ a \in Attempts /\ a <= starts[k] /\ a \in Nat /\ a \in 0..MaxAttempts
      /\ ctor[k].state # "kConnecting" /\ tcp[k] = "none" /\ ~InProgress(k)
      /\ ~ctor[k].registered /\ ctor[k].channel = 0
      /\ ~Has(queue[k], "resetChannel") /\ ~Has(Tail(queue[k]), "startInLoop")
  BY <1>1, Begins, ClientType DEF Attempts
<1>4. queue'[k] = Tail(queue[k]) /\ attempts'[k] = a /\ told'[k] = Append(told[k], "fail")
  BY <1>1 DEF TypeOK
<1>5. /\ answers' \in [Clients -> [Attempts -> Nat]] /\ answers'[k][a] = answers[k][a] + 1
      /\ \A b \in Attempts : b # a => answers'[k][b] = answers[k][b]
      /\ \A j \in Clients : j # k => answers'[j] = answers[j]
  BY <1>1, <1>3, <1>4, SetAnswers, ClientType
<1>6. TypeOK'
  <2>1. queue' \in [Clients -> Seq(Functors)]
    BY <1>1, RestOfQueue DEF TypeOK
  <2>2. attempts' \in [Clients -> 0..MaxAttempts]
    BY <1>1, <1>3 DEF TypeOK
  <2>3. told' \in [Clients -> Seq({"fail", "timeout", "aborted", "up", "down"})]
    BY <1>1 DEF TypeOK
  <2> QED BY <1>1, <1>2, <1>5, <2>1, <2>2, <2>3 DEF TypeOK, But, Ctors
<1>7. OthersSame(k)
  BY <1>1, <1>2, <1>5 DEF OthersSame, But, TypeOK
<1>8. ~(InProgress(k))'
  BY <1>1, <1>2, RestOfQueue DEF InProgress
<1>9. StartInv(k)'
  BY <1>1, <1>3, <1>4, <1>8 DEF StartInv
<1>15. /\ ioPc[k] = "idle"
       /\ \A g : g # "startInLoop" => (Has(queue'[k], g) <=> Has(queue[k], g))
       /\ \A g, h : Ahead(queue[k], g, h) => Ahead(queue'[k], g, h)
  <2>1. Runs(k, "startInLoop") /\ queue'[k] = Tail(queue[k])
    BY <1>1, <1>4
  <2> QED BY <2>1, RestOfQueue
<1>10. PhaseInv(k)'
  BY <1>1, <1>2, <1>3, <1>15 DEF ClientInv, PhaseInv
<1>11. ChannelInv(k)'
  BY <1>1, <1>2, <1>3, <1>15 DEF ClientInv, ChannelInv
<1>12. AnswerInv(k)'
  <2>1. \A b \in Attempts : answers[k][b] = IF b > attempts[k] THEN 0 ELSE 1
    BY <1>3 DEF ClientInv, AnswerInv
  <2>2. \A b \in Attempts : answers'[k][b] = IF b > a THEN 0 ELSE 1
    BY <1>3, <1>5, <2>1, ClientType DEF Attempts
  <2> QED BY <1>4, <1>8, <2>2 DEF AnswerInv
<1>13. SocketInv(k)'
  BY <1>1, <1>2, <1>3 DEF ClientInv, SocketInv
<1>14. TimerInv(k)'
  <2>1. Has(told'[k], "aborted") <=> Has(told[k], "aborted")
    <3>1. told[k] \in Seq({"fail", "timeout", "aborted", "up", "down"})
      BY ClientType
    <3> QED BY <1>4, <3>1, AppendHas
  <2>2. CASE Has(told[k], "aborted")
    BY <2>1, <2>2 DEF TimerInv
  <2>3. CASE ~Has(told[k], "aborted")
    BY <1>1, <1>3, <1>15, <2>3 DEF ClientInv, TimerInv
  <2> QED BY <2>2, <2>3
<1> QED BY <1>6, <1>7, <1>9, <1>10, <1>11, <1>12, <1>13, <1>14, OneClient

LEMMA ConnectingStep ==
  ASSUME IInv, NEW k \in Clients, Connecting(k)
  PROVE  IInv'
<1> TypeOK /\ ClientInv(k)
  BY DEF IInv
<1> DEFINE a == attempts[k] + 1
           t == IF SetsTimer(k) THEN a ELSE ctor[k].timer
           T == IF SetsTimer(k) THEN timers[k] \cup {a} ELSE timers[k]
<1>1. /\ Runs(k, "startInLoop")
      /\ attempts' = [attempts EXCEPT ![k] = a]
      /\ sockets' = [sockets EXCEPT ![k] = @ \cup {a}]
      /\ timers' = [timers EXCEPT ![k] = T]
      /\ dangling' = [dangling EXCEPT ![k] = @ \/ ctor[k].registered]
      /\ queue' = [queue EXCEPT ![k] = Tail(@)]
      /\ UNCHANGED <<answers, ioPc, holder, connection, tcp, starts, told>>
  BY DEF Connecting, clientVars
<1>2. ctor' = WithRegisteredTimer(WithStateChannel(ctor, k, "kConnecting", a), k, t)
  BY Zenon DEF Connecting, WithRegisteredTimer, WithStateChannel
<1>3. /\ a \in Attempts /\ a <= starts[k] /\ a \in Nat /\ a \in 0..MaxAttempts /\ a # 0
      /\ ctor[k].state # "kConnecting" /\ tcp[k] = "none" /\ ~InProgress(k)
      /\ ~ctor[k].registered /\ ctor[k].channel = 0
      /\ ~Has(queue[k], "resetChannel") /\ ~Has(Tail(queue[k]), "startInLoop")
  BY <1>1, Begins, ClientType DEF Attempts
<1>4. t \in 0..MaxAttempts /\ T \subseteq Attempts
  BY <1>3, ClientType DEF Ctors
<1> HIDE DEF t, T
<1>5. /\ But(k, ctor, ctor') /\ ctor'[k].state = "kConnecting" /\ ctor'[k].registered
      /\ ctor'[k].channel = a /\ ctor'[k].timer = t
  <2>1. "kConnecting" \in States /\ ctor \in [Clients -> Ctors]
    BY ClientType DEF States
  <2> QED BY <1>2, <1>3, <1>4, <2>1, SetConnecting
<1>6. /\ queue'[k] = Tail(queue[k]) /\ attempts'[k] = a /\ sockets'[k] = sockets[k] \cup {a}
      /\ timers'[k] = T /\ (dangling'[k] <=> dangling[k])
  BY <1>1, <1>3 DEF TypeOK
<1>7. /\ ioPc[k] = "idle"
      /\ \A g : g # "startInLoop" => (Has(queue'[k], g) <=> Has(queue[k], g))
      /\ \A g, h : Ahead(queue[k], g, h) => Ahead(queue'[k], g, h)
      /\ queue'[k] \in Seq(Functors)
  <2>1. Runs(k, "startInLoop") /\ queue'[k] = Tail(queue[k])
    BY <1>1, <1>6
  <2> QED BY <2>1, RestOfQueue
<1>8. TypeOK'
  <2>1. queue' \in [Clients -> Seq(Functors)]
    BY <1>1, <1>6, <1>7 DEF TypeOK
  <2>2. attempts' \in [Clients -> 0..MaxAttempts]
    BY <1>1, <1>3 DEF TypeOK
  <2>3. timers' \in [Clients -> SUBSET Attempts] /\ sockets' \in [Clients -> SUBSET Attempts]
    BY <1>1, <1>3, <1>4 DEF TypeOK
  <2>4. dangling' \in [Clients -> BOOLEAN]
    <3>1. (dangling[k] \/ ctor[k].registered) \in BOOLEAN
      BY Zenon
    <3> QED BY <1>1, <3>1 DEF TypeOK
  <2> QED BY <1>1, <1>5, <2>1, <2>2, <2>3, <2>4 DEF TypeOK, But, Ctors
<1>9. OthersSame(k)
  BY <1>1, <1>5 DEF OthersSame, But, TypeOK
<1>10. (InProgress(k))'
  BY <1>5 DEF InProgress
<1>11. StartInv(k)'
  BY <1>1, <1>3, <1>6 DEF StartInv
<1>12. PhaseInv(k)'
  BY <1>1, <1>3, <1>6, <1>7 DEF ClientInv, PhaseInv
<1>13. ChannelInv(k)'
  BY <1>3, <1>5, <1>6, <1>7 DEF ClientInv, ChannelInv
<1>14. AnswerInv(k)'
  <2>1. \A b \in Attempts : answers[k][b] = IF b > attempts[k] THEN 0 ELSE 1
    BY <1>3 DEF ClientInv, AnswerInv
  <2>2. \A b \in Attempts : answers[k][b] = IF b > a \/ b = a THEN 0 ELSE 1
    BY <1>3, <2>1, ClientType DEF Attempts
  <2> QED BY <1>1, <1>6, <1>10, <2>2 DEF AnswerInv
<1>15. SocketInv(k)'
  BY <1>1, <1>3, <1>5, <1>6 DEF ClientInv, SocketInv
<1>16. TimerInv(k)'
  <2>1. CASE Has(told[k], "aborted")
    BY <1>1, <2>1 DEF TimerInv
  <2>2. CASE ~Has(told[k], "aborted")
    <3>1. timers[k] = {} /\ ~Has(queue[k], "connTimeOutInLoop")
          /\ Ahead(queue[k], "connTimeOutInLoop", "startInLoop")
      BY <1>1, <1>3, <2>2, RestOfQueue DEF ClientInv, TimerInv
    <3>2. T \subseteq {a} /\ (T # {} => t = a)
      BY <3>1 DEF T, t
    <3> QED BY <1>5, <1>6, <1>7, <3>1, <3>2 DEF TimerInv
  <2> QED BY <2>1, <2>2
<1> QED BY <1>8, <1>9, <1>11, <1>12, <1>13, <1>14, <1>15, <1>16, OneClient

LEMMA ResetChannelStep ==
  ASSUME IInv, NEW k \in Clients, ResetChannel(k)
  PROVE  IInv'
<1> TypeOK /\ ClientInv(k)
  BY DEF IInv
<1>1. /\ Runs(k, "resetChannel")
      /\ dangling' = [dangling EXCEPT ![k] = @ \/ ctor[k].registered]
      /\ ctor' = WithChannelForgotten(ctor, k, 0)
      /\ queue' = [queue EXCEPT ![k] = Tail(@)]
      /\ UNCHANGED <<attempts, timers, answers, ioPc, holder, connection, tcp, sockets, starts, told>>
  BY Zenon DEF ResetChannel, clientVars, WithChannelForgotten
<1>2. /\ But(k, ctor, ctor') /\ ctor'[k].state = ctor[k].state /\ ~ctor'[k].registered
      /\ ctor'[k].channel = 0 /\ ctor'[k].timer = ctor[k].timer
  <2>1. 0 \in 0..MaxAttempts /\ ctor \in [Clients -> Ctors]
    BY ClientType
  <2> QED BY <1>1, <2>1, UnsetChannel
<1>3. queue'[k] = Tail(queue[k])
  BY <1>1 DEF TypeOK
<1>4. /\ ioPc[k] = "idle" /\ Has(queue[k], "resetChannel")
      /\ \A g : g # "resetChannel" => (Has(queue'[k], g) <=> Has(queue[k], g))
      /\ \A g, h : Ahead(queue[k], g, h) => Ahead(queue'[k], g, h)
      /\ \A g : Once(queue[k], g) => Once(queue'[k], g)
      /\ queue'[k] \in Seq(Functors)
  <2>1. Runs(k, "resetChannel") /\ queue'[k] = Tail(queue[k])
    BY <1>1, <1>3
  <2> QED BY <2>1, RestOfQueue
<1>5. ~ctor[k].registered /\ ctor[k].state # "kConnecting" /\ (dangling'[k] <=> dangling[k])
  BY <1>1, <1>4 DEF ClientInv, ChannelInv, TypeOK
<1>6. TypeOK'
  <2>1. queue' \in [Clients -> Seq(Functors)]
    BY <1>1, <1>3, <1>4 DEF TypeOK
  <2>2. dangling' \in [Clients -> BOOLEAN]
    <3>1. (dangling[k] \/ ctor[k].registered) \in BOOLEAN
      BY Zenon
    <3> QED BY <1>1, <3>1 DEF TypeOK
  <2> QED BY <1>1, <1>2, <2>1, <2>2 DEF TypeOK, But, Ctors
<1>7. OthersSame(k)
  BY <1>1, <1>2 DEF OthersSame, But, TypeOK
<1>8. (InProgress(k))' <=> InProgress(k)
  BY <1>1, <1>2 DEF InProgress
<1>9. StartInv(k)'
  BY <1>1, <1>2, <1>4, <1>8 DEF ClientInv, StartInv
<1>10. PhaseInv(k)'
  BY <1>1, <1>2, <1>4 DEF ClientInv, PhaseInv
<1>11. ChannelInv(k)'
  BY <1>2, <1>4, <1>5 DEF ClientInv, ChannelInv
<1>12. AnswerInv(k)' /\ SocketInv(k)'
  BY <1>1, <1>2, <1>8 DEF ClientInv, AnswerInv, SocketInv
<1>13. TimerInv(k)'
  BY <1>1, <1>2, <1>4 DEF ClientInv, TimerInv
<1> QED BY <1>6, <1>7, <1>9, <1>10, <1>11, <1>12, <1>13, OneClient

LEMMA ConnTimeOutStep ==
  ASSUME IInv, NEW k \in Clients, NEW a \in Attempts, ConnTimeOut(k, a)
  PROVE  IInv'
<1> TypeOK /\ ClientInv(k)
  BY DEF IInv
<1>1. /\ a \in timers[k]
      /\ timers' = [timers EXCEPT ![k] = @ \ {a}]
      /\ queue' = [queue EXCEPT ![k] = Append(@, "connTimeOutInLoop")]
      /\ UNCHANGED <<ctor, attempts, answers, dangling, ioPc, holder, connection, tcp, sockets, starts,
                     told>>
  BY DEF ConnTimeOut, clientVars
<1>2. queue'[k] = Append(queue[k], "connTimeOutInLoop") /\ timers'[k] = timers[k] \ {a}
  BY <1>1 DEF TypeOK
<1>3. queue[k] \in Seq(Functors) /\ "connTimeOutInLoop" \in Functors
  BY ClientType DEF Functors
<1>4. TypeOK'
  <2>1. queue' \in [Clients -> Seq(Functors)] /\ timers' \in [Clients -> SUBSET Attempts]
    BY <1>1, <1>3 DEF TypeOK
  <2> QED BY <1>1, <2>1 DEF TypeOK
<1>5. OthersSame(k)
  BY <1>1 DEF OthersSame, TypeOK
<1>6. \A f : f # "connTimeOutInLoop" => (Has(queue'[k], f) <=> Has(queue[k], f))
  BY <1>2, <1>3, AppendHas
<1>7. (InProgress(k))' <=> InProgress(k)
  BY <1>1 DEF InProgress
<1>8. StartInv(k)'
  <2>1. Once(queue[k], "startInLoop") => Once(queue'[k], "startInLoop")
    BY <1>2, <1>3, AppendOnce
  <2> QED BY <1>1, <1>6, <1>7, <2>1 DEF ClientInv, StartInv
<1>9. PhaseInv(k)'
  BY <1>1, <1>6 DEF ClientInv, PhaseInv
<1>10. ChannelInv(k)'
  <2>1. Ahead(queue'[k], "resetChannel", "startInLoop")
    BY <1>2, <1>3, AppendAhead DEF ClientInv, ChannelInv
  <2> QED BY <1>1, <1>6, <2>1 DEF ClientInv, ChannelInv
<1>11. AnswerInv(k)' /\ SocketInv(k)'
  BY <1>1, <1>7 DEF ClientInv, AnswerInv, SocketInv
<1>12. TimerInv(k)'
  <2>1. CASE Has(told[k], "aborted")
    BY <1>1, <2>1 DEF TimerInv
  <2>2. CASE ~Has(told[k], "aborted")
    <3>1. timers[k] \subseteq {attempts[k]} /\ ctor[k].state = "kConnecting"
          /\ Ahead(queue[k], "connTimeOutInLoop", "startInLoop")
      BY <1>1, <2>2 DEF ClientInv, TimerInv
    <3>2. timers'[k] = {} /\ ~Has(queue[k], "startInLoop")
      BY <1>1, <1>2, <3>1 DEF ClientInv, StartInv
    <3>3. Ahead(queue'[k], "connTimeOutInLoop", "startInLoop")
      BY <1>2, <1>3, <3>1, <3>2, AppendAhead
    <3> QED BY <1>1, <3>2, <3>3 DEF TimerInv
  <2> QED BY <2>1, <2>2
<1> QED BY <1>4, <1>5, <1>8, <1>9, <1>10, <1>11, <1>12, OneClient

\* An attempt in progress fails, whoever finds out: rest is what remains of the
\* queue and T of the timers.
LEMMA FailsStep ==
  ASSUME IInv, NEW k \in Clients, ctor[k].state = "kConnecting",
         NEW text \in {"fail", "timeout", "aborted"}, NEW rest \in Seq(Functors), Fails(k, text, rest),
         \A g : Has(rest, g) => Has(queue[k], g),
         NEW T \in SUBSET Attempts, T \subseteq timers[k], timers' = [timers EXCEPT ![k] = T],
         text = "aborted" \/ T = timers[k] \ {ctor[k].timer}
  PROVE  IInv'
<1> TypeOK /\ ClientInv(k)
  BY DEF IInv
<1> DEFINE a == attempts[k]
<1>1. /\ queue' = [queue EXCEPT ![k] = Append(rest, "resetChannel")]
      /\ sockets' = [sockets EXCEPT ![k] = @ \ {a}]
      /\ told' = [told EXCEPT ![k] = Append(@, text)]
      /\ UNCHANGED <<attempts, dangling, ioPc, holder, connection, tcp, starts>>
  BY DEF Fails, Answer, Current, ResetLater, ClosesSocket, clientVars
<1>2. ctor' = WithStateForgotten(ctor, k, "kDisconnected") /\ answers' = Counted(answers, k, a)
  BY Zenon DEF Fails, Answer, Current, WithStateForgotten, Counted
<1>3. a \in Attempts /\ a \in Nat
  BY ClientType DEF ClientInv, StartInv, InProgress, Attempts
<1>4. /\ But(k, ctor, ctor') /\ ctor'[k].state = "kDisconnected" /\ ~ctor'[k].registered
      /\ ctor'[k].channel = ctor[k].channel /\ ctor'[k].timer = ctor[k].timer
  BY <1>2, SetStateForgotten, ClientType DEF States
<1>5. /\ answers' \in [Clients -> [Attempts -> Nat]] /\ answers'[k][a] = answers[k][a] + 1
      /\ \A b \in Attempts : b # a => answers'[k][b] = answers[k][b]
      /\ \A j \in Clients : j # k => answers'[j] = answers[j]
  <2>1. answers \in [Clients -> [Attempts -> Nat]] /\ a \in Attempts /\ answers' = Counted(answers, k, a)
    BY <1>2, <1>3, ClientType
  <2> HIDE DEF a
  <2> QED BY <2>1, SetAnswers
<1>6. /\ queue'[k] = Append(rest, "resetChannel") /\ sockets'[k] = sockets[k] \ {a}
      /\ told'[k] = Append(told[k], text) /\ timers'[k] = T
  BY <1>1 DEF TypeOK
<1>7. /\ queue'[k] \in Seq(Functors)
      /\ \A f : Has(queue'[k], f) <=> Has(rest, f) \/ f = "resetChannel"
  <2>1. "resetChannel" \in Functors
    BY DEF Functors
  <2> QED BY <1>6, <2>1, AppendHas
<1>8. /\ told'[k] \in Seq({"fail", "timeout", "aborted", "up", "down"})
      /\ (Has(told'[k], "aborted") <=> Has(told[k], "aborted") \/ text = "aborted")
  <2>1. told[k] \in Seq({"fail", "timeout", "aborted", "up", "down"})
        /\ text \in {"fail", "timeout", "aborted", "up", "down"}
    BY ClientType
  <2> QED BY <1>6, <2>1, AppendHas
<1>9. TypeOK'
  <2>1. queue' \in [Clients -> Seq(Functors)]
    BY <1>1, <1>6, <1>7 DEF TypeOK
  <2>2. told' \in [Clients -> Seq({"fail", "timeout", "aborted", "up", "down"})]
    BY <1>1, <1>6, <1>8 DEF TypeOK
  <2>3. sockets' \in [Clients -> SUBSET Attempts] /\ timers' \in [Clients -> SUBSET Attempts]
    BY <1>1 DEF TypeOK
  <2> QED BY <1>1, <1>4, <1>5, <2>1, <2>2, <2>3 DEF TypeOK, But, Ctors
<1>10. OthersSame(k)
  BY <1>1, <1>4, <1>5 DEF OthersSame, But, TypeOK
<1>11. tcp[k] = "none" /\ ioPc[k] = "idle" /\ connection[k] = 0 /\ ~Has(queue[k], "startInLoop")
  BY DEF ClientInv, PhaseInv, StartInv
<1>12. ~Has(queue'[k], "startInLoop")
  BY <1>7, <1>11
<1>13. InProgress(k) /\ ~(InProgress(k))'
  BY <1>1, <1>4, <1>11 DEF InProgress
<1>14. StartInv(k)'
  BY <1>1, <1>12, <1>13 DEF ClientInv, StartInv
<1>15. PhaseInv(k)'
  BY <1>1, <1>4, <1>7, <1>11 DEF ClientInv, PhaseInv
<1>16. ChannelInv(k)'
  BY <1>1, <1>4, <1>7, <1>12 DEF ClientInv, ChannelInv, Ahead, Has
<1>17. AnswerInv(k)'
  <2>1. \A b \in Attempts : answers[k][b] = IF b > a \/ b = a THEN 0 ELSE 1
    BY <1>13 DEF ClientInv, AnswerInv
  <2>2. \A b \in Attempts : answers'[k][b] = IF b > a THEN 0 ELSE 1
    BY <1>3, <1>5, <2>1, ClientType DEF Attempts
  <2> QED BY <1>1, <1>13, <2>2 DEF AnswerInv
<1>18. SocketInv(k)'
  BY <1>1, <1>4, <1>6, <1>11 DEF ClientInv, SocketInv
<1>19. TimerInv(k)'
  <2>1. CASE Has(told[k], "aborted") \/ text = "aborted"
    BY <1>8, <2>1 DEF TimerInv
  <2>2. CASE ~(Has(told[k], "aborted") \/ text = "aborted")
    <3>1. timers[k] \subseteq {a} /\ (timers[k] # {} => ctor[k].timer = a)
      BY <2>2 DEF ClientInv, TimerInv
    <3>2. timers'[k] = {}
      BY <1>6, <2>2, <3>1
    <3> QED BY <1>12, <3>2 DEF TimerInv, Ahead, Has
  <2> QED BY <2>1, <2>2
<1> QED BY <1>9, <1>10, <1>14, <1>15, <1>16, <1>17, <1>18, <1>19, OneClient

\* A functor of Connector finds nothing to do but, perhaps, timers to cancel.
LEMMA IdleFunctorStep ==
  ASSUME IInv, NEW k \in Clients, NEW f \in {"stopInLoop", "connTimeOutInLoop", "forceCloseInLoop"},
         Runs(k, f), queue' = [queue EXCEPT ![k] = Tail(@)],
         NEW T \in SUBSET Attempts, T \subseteq timers[k], timers' = [timers EXCEPT ![k] = T],
         UNCHANGED <<ctor, attempts, answers, dangling, ioPc, holder, connection, tcp, sockets, starts, told>>
  PROVE  IInv'
<1> TypeOK /\ ClientInv(k)
  BY DEF IInv
<1>1. queue'[k] = Tail(queue[k]) /\ timers'[k] = T
  BY DEF TypeOK
<1>2. /\ \A g : Has(queue'[k], g) => Has(queue[k], g)
      /\ Has(queue[k], "resetChannel") => Has(queue'[k], "resetChannel")
      /\ \A g, h : Ahead(queue[k], g, h) => Ahead(queue'[k], g, h)
      /\ \A g : Once(queue[k], g) => Once(queue'[k], g)
      /\ queue'[k] \in Seq(Functors)
  <2>1. Runs(k, f) /\ queue'[k] = Tail(queue[k]) /\ f # "resetChannel"
    BY <1>1
  <2>2. /\ \A g : Has(Tail(queue[k]), g) => Has(queue[k], g)
        /\ \A g : g # f => (Has(Tail(queue[k]), g) <=> Has(queue[k], g))
        /\ \A g, h : Ahead(queue[k], g, h) => Ahead(Tail(queue[k]), g, h)
        /\ \A g : Once(queue[k], g) => Once(Tail(queue[k]), g)
        /\ Tail(queue[k]) \in Seq(Functors)
    BY RestOfQueue
  <2> QED BY <2>1, <2>2
<1>3. TypeOK'
  <2>1. queue' \in [Clients -> Seq(Functors)] /\ timers' \in [Clients -> SUBSET Attempts]
    BY <1>1, <1>2 DEF TypeOK
  <2> QED BY <2>1 DEF TypeOK
<1>4. OthersSame(k)
  BY DEF OthersSame, TypeOK
<1>5. (InProgress(k))' <=> InProgress(k)
  BY DEF InProgress
<1>6. StartInv(k)'
  BY <1>2, <1>5 DEF ClientInv, StartInv
<1>7. PhaseInv(k)'
  BY <1>2 DEF ClientInv, PhaseInv
<1>8. ChannelInv(k)'
  BY <1>2 DEF ClientInv, ChannelInv
<1>9. AnswerInv(k)' /\ SocketInv(k)'
  BY <1>5 DEF ClientInv, AnswerInv, SocketInv
<1>10. TimerInv(k)'
  <2>1. CASE Has(told[k], "aborted")
    BY <2>1 DEF TimerInv
  <2>2. CASE ~Has(told[k], "aborted")
    BY <1>1, <1>2, <2>2 DEF ClientInv, TimerInv
  <2> QED BY <2>1, <2>2
<1> QED BY <1>3, <1>4, <1>6, <1>7, <1>8, <1>9, <1>10, OneClient

LEMMA HandleWriteConnectedStep ==
  ASSUME IInv, NEW k \in Clients, HandleWriteConnected(k)
  PROVE  IInv'
<1> TypeOK /\ ClientInv(k)
  BY DEF IInv
<1>1. /\ ctor[k].state = "kConnecting"
      /\ timers' = [timers EXCEPT ![k] = @ \ {ctor[k].timer}]
      /\ queue' = [queue EXCEPT ![k] = Append(@, "resetChannel")]
      /\ ioPc' = [ioPc EXCEPT ![k] = "created"]
      /\ tcp' = [tcp EXCEPT ![k] = "kConnecting"]
      /\ UNCHANGED <<attempts, answers, dangling, holder, connection, sockets, starts, told>>
  BY DEF HandleWriteConnected, ResetLater, Cancelled
<1>2. ctor' = WithStateForgotten(ctor, k, "kConnected")
  BY Zenon DEF HandleWriteConnected, WithStateForgotten
<1>3. /\ But(k, ctor, ctor') /\ ctor'[k].state = "kConnected" /\ ~ctor'[k].registered
      /\ ctor'[k].channel = ctor[k].channel /\ ctor'[k].timer = ctor[k].timer
  BY <1>2, SetStateForgotten, ClientType DEF States
<1>4. /\ queue'[k] = Append(queue[k], "resetChannel") /\ timers'[k] = timers[k] \ {ctor[k].timer}
      /\ ioPc'[k] = "created" /\ tcp'[k] = "kConnecting"
  BY <1>1 DEF TypeOK
<1>5. /\ queue'[k] \in Seq(Functors)
      /\ \A f : Has(queue'[k], f) <=> Has(queue[k], f) \/ f = "resetChannel"
  <2>1. "resetChannel" \in Functors /\ queue[k] \in Seq(Functors)
    BY ClientType DEF Functors
  <2> QED BY <1>4, <2>1, AppendHas
<1>6. TypeOK'
  <2>1. queue' \in [Clients -> Seq(Functors)] /\ timers' \in [Clients -> SUBSET Attempts]
    BY <1>1, <1>4, <1>5 DEF TypeOK
  <2>2. ioPc' \in [Clients -> {"idle", "created", "published", "closing"}]
        /\ tcp' \in [Clients -> States \cup {"none", "kDisconnecting"}]
    BY <1>1 DEF TypeOK, States
  <2> QED BY <1>1, <1>3, <2>1, <2>2 DEF TypeOK, But, Ctors
<1>7. OthersSame(k)
  BY <1>1, <1>3 DEF OthersSame, But, TypeOK
<1>8. /\ tcp[k] = "none" /\ connection[k] = 0 /\ ~holder[k] /\ ~Has(queue[k], "connectDestroyed")
      /\ ~Has(queue[k], "startInLoop") /\ ~Has(queue'[k], "startInLoop")
  BY <1>1, <1>5 DEF ClientInv, PhaseInv, StartInv
<1>9. InProgress(k) /\ (InProgress(k))'
  BY <1>1, <1>4 DEF InProgress
<1>10. StartInv(k)'
  BY <1>1, <1>8, <1>9 DEF ClientInv, StartInv
<1>11. PhaseInv(k)'
  BY <1>1, <1>3, <1>4, <1>5, <1>8 DEF PhaseInv
<1>12. ChannelInv(k)'
  BY <1>1, <1>3, <1>5, <1>8 DEF ClientInv, ChannelInv, Ahead, Has
<1>13. AnswerInv(k)' /\ SocketInv(k)'
  BY <1>1, <1>4, <1>9 DEF ClientInv, AnswerInv, SocketInv
<1>14. TimerInv(k)'
  <2>1. CASE Has(told[k], "aborted")
    BY <1>1, <2>1 DEF TimerInv
  <2>2. CASE ~Has(told[k], "aborted")
    <3>1. timers[k] \subseteq {attempts[k]} /\ (timers[k] # {} => ctor[k].timer = attempts[k])
      BY <2>2 DEF ClientInv, TimerInv
    <3>2. timers'[k] = {}
      BY <1>4, <3>1
    <3> QED BY <1>8, <3>2 DEF TimerInv, Ahead, Has
  <2> QED BY <2>1, <2>2
<1> QED BY <1>6, <1>7, <1>10, <1>11, <1>12, <1>13, <1>14, OneClient

-----------------------------------------------------------------------------
(* Steps of the loop: TcpClient and its TcpConnection.                     *)

LEMMA PublishConnectionStep ==
  ASSUME IInv, NEW k \in Clients, PublishConnection(k)
  PROVE  IInv'
<1> TypeOK /\ ClientInv(k)
  BY DEF IInv
<1>1. /\ ioPc[k] = "created" /\ ~holder[k]
      /\ connection' = [connection EXCEPT ![k] = attempts[k]]
      /\ ioPc' = [ioPc EXCEPT ![k] = "published"]
      /\ UNCHANGED <<queue, ctor, attempts, timers, answers, dangling, holder, tcp, sockets, starts, told>>
  BY DEF PublishConnection, connectorVars, Current
<1>2. connection'[k] = attempts[k] /\ ioPc'[k] = "published"
  BY <1>1 DEF TypeOK
<1>3. TypeOK'
  <2>1. connection' \in [Clients -> 0..MaxAttempts]
        /\ ioPc' \in [Clients -> {"idle", "created", "published", "closing"}]
    BY <1>1 DEF TypeOK
  <2> QED BY <1>1, <2>1 DEF TypeOK
<1>4. OthersSame(k)
  BY <1>1 DEF OthersSame, TypeOK
<1>5. InProgress(k) /\ (InProgress(k))'
  BY <1>1, <1>2 DEF InProgress
<1>6. StartInv(k)' /\ AnswerInv(k)'
  BY <1>1, <1>5 DEF ClientInv, StartInv, AnswerInv
<1>7. PhaseInv(k)'
  BY <1>1, <1>2 DEF ClientInv, PhaseInv
<1>8. ChannelInv(k)' /\ SocketInv(k)' /\ TimerInv(k)'
  BY <1>1 DEF ClientInv, ChannelInv, SocketInv, TimerInv
<1> QED BY <1>3, <1>4, <1>6, <1>7, <1>8, OneClient

LEMMA EstablishStep ==
  ASSUME IInv, NEW k \in Clients, Establish(k)
  PROVE  IInv'
<1> TypeOK /\ ClientInv(k)
  BY DEF IInv
<1> DEFINE a == attempts[k]
<1>1. /\ ioPc[k] = "published"
      /\ tcp' = [tcp EXCEPT ![k] = "kConnected"]
      /\ ioPc' = [ioPc EXCEPT ![k] = "idle"]
      /\ told' = [told EXCEPT ![k] = Append(@, "up")]
      /\ UNCHANGED <<queue, ctor, attempts, timers, dangling, holder, connection, sockets, starts>>
  BY DEF Establish, Answer
<1>2. answers' = Counted(answers, k, a)
  BY Zenon DEF Establish, Answer, Current, Counted
<1>3. InProgress(k) /\ a \in Attempts /\ a \in Nat
  BY <1>1, ClientType DEF ClientInv, StartInv, InProgress, Attempts
<1>4. /\ answers' \in [Clients -> [Attempts -> Nat]] /\ answers'[k][a] = answers[k][a] + 1
      /\ \A b \in Attempts : b # a => answers'[k][b] = answers[k][b]
      /\ \A j \in Clients : j # k => answers'[j] = answers[j]
  <2>1. answers \in [Clients -> [Attempts -> Nat]] /\ a \in Attempts /\ answers' = Counted(answers, k, a)
    BY <1>2, <1>3, ClientType
  <2> HIDE DEF a
  <2> QED BY <2>1, SetAnswers
<1>5. tcp'[k] = "kConnected" /\ ioPc'[k] = "idle" /\ told'[k] = Append(told[k], "up")
  BY <1>1 DEF TypeOK
<1>6. /\ told'[k] \in Seq({"fail", "timeout", "aborted", "up", "down"})
      /\ (Has(told'[k], "aborted") <=> Has(told[k], "aborted"))
  <2>1. told[k] \in Seq({"fail", "timeout", "aborted", "up", "down"})
    BY ClientType
  <2> QED BY <1>5, <2>1, AppendHas
<1>7. TypeOK'
  <2>1. told' \in [Clients -> Seq({"fail", "timeout", "aborted", "up", "down"})]
    BY <1>1, <1>5, <1>6 DEF TypeOK
  <2>2. ioPc' \in [Clients -> {"idle", "created", "published", "closing"}]
        /\ tcp' \in [Clients -> States \cup {"none", "kDisconnecting"}]
    BY <1>1 DEF TypeOK, States
  <2> QED BY <1>1, <1>4, <2>1, <2>2 DEF TypeOK
<1>8. OthersSame(k)
  BY <1>1, <1>4 DEF OthersSame, TypeOK
<1>9. tcp[k] = "kConnecting" /\ ctor[k].state # "kConnecting" /\ ~holder[k]
  BY <1>1 DEF ClientInv, PhaseInv
<1>10. ~(InProgress(k))'
  BY <1>1, <1>5, <1>9 DEF InProgress
<1>11. StartInv(k)'
  BY <1>1, <1>9, <1>10 DEF ClientInv, StartInv
<1>12. PhaseInv(k)'
  BY <1>1, <1>5, <1>9 DEF ClientInv, PhaseInv
<1>13. AnswerInv(k)'
  <2>1. \A b \in Attempts : answers[k][b] = IF b > a \/ b = a THEN 0 ELSE 1
    BY <1>3 DEF ClientInv, AnswerInv
  <2>2. \A b \in Attempts : b \in Int /\ (b > a \/ b = a \/ b < a)
    BY <1>3, ClientType DEF Attempts
  <2>3. answers'[k][a] = 1
    BY <1>3, <1>4, <2>1
  <2>4. \A b \in Attempts : answers'[k][b] = IF b > a THEN 0 ELSE 1
    <3> HIDE DEF a
    <3> QED BY <1>3, <1>4, <2>1, <2>2, <2>3
  <2> QED BY <1>1, <1>10, <2>4 DEF AnswerInv
<1>14. ChannelInv(k)' /\ SocketInv(k)'
  BY <1>1, <1>5, <1>9 DEF ClientInv, ChannelInv, SocketInv
<1>15. TimerInv(k)'
  BY <1>1, <1>6 DEF ClientInv, TimerInv
<1> QED BY <1>7, <1>8, <1>11, <1>12, <1>13, <1>14, <1>15, OneClient

\* handleClose, for the peer or for a forceCloseInLoop that has left the queue.
LEMMA HandleCloseStep ==
  ASSUME IInv, NEW k \in Clients, ioPc[k] = "idle", tcp[k] \in {"kConnected", "kDisconnecting"},
         NEW rest \in Seq(Functors), HandleClose(k, rest),
         \A g : Has(rest, g) => Has(queue[k], g),
         Has(queue[k], "resetChannel") => Has(rest, "resetChannel"),
         \A g, h : Ahead(queue[k], g, h) => Ahead(rest, g, h)
  PROVE  IInv'
<1> TypeOK /\ ClientInv(k)
  BY DEF IInv
<1>1. /\ tcp' = [tcp EXCEPT ![k] = "kDisconnected"]
      /\ told' = [told EXCEPT ![k] = Append(@, "down")]
      /\ ioPc' = [ioPc EXCEPT ![k] = "closing"]
      /\ queue' = [queue EXCEPT ![k] = rest]
      /\ UNCHANGED <<ctor, attempts, timers, answers, dangling, holder, connection, sockets, starts>>
  BY DEF HandleClose, connectorVars
<1>2. /\ tcp'[k] = "kDisconnected" /\ told'[k] = Append(told[k], "down") /\ ioPc'[k] = "closing"
      /\ queue'[k] = rest
  BY <1>1 DEF TypeOK
<1>3. /\ told'[k] \in Seq({"fail", "timeout", "aborted", "up", "down"})
      /\ (Has(told'[k], "aborted") <=> Has(told[k], "aborted"))
  <2>1. told[k] \in Seq({"fail", "timeout", "aborted", "up", "down"})
    BY ClientType
  <2> QED BY <1>2, <2>1, AppendHas
<1>4. TypeOK'
  <2>1. told' \in [Clients -> Seq({"fail", "timeout", "aborted", "up", "down"})]
    BY <1>1, <1>2, <1>3 DEF TypeOK
  <2>2. ioPc' \in [Clients -> {"idle", "created", "published", "closing"}]
        /\ tcp' \in [Clients -> States \cup {"none", "kDisconnecting"}]
    BY <1>1 DEF TypeOK, States
  <2>3. queue' \in [Clients -> Seq(Functors)]
    BY <1>1 DEF TypeOK
  <2> QED BY <1>1, <2>1, <2>2, <2>3 DEF TypeOK
<1>5. OthersSame(k)
  BY <1>1 DEF OthersSame, TypeOK
<1>6. ctor[k].state # "kConnecting" /\ ~Has(queue[k], "startInLoop") /\ ~Has(queue'[k], "startInLoop")
  BY <1>2 DEF ClientInv, PhaseInv, StartInv
<1>7. (InProgress(k))' <=> InProgress(k)
  BY <1>1, <1>2 DEF InProgress
<1>8. StartInv(k)'
  BY <1>1, <1>6, <1>7 DEF ClientInv, StartInv
<1>9. PhaseInv(k)'
  BY <1>1, <1>2, <1>6 DEF ClientInv, PhaseInv
<1>10. ChannelInv(k)'
  BY <1>1, <1>2 DEF ClientInv, ChannelInv
<1>11. AnswerInv(k)' /\ SocketInv(k)'
  BY <1>1, <1>2, <1>7 DEF ClientInv, AnswerInv, SocketInv
<1>12. TimerInv(k)'
  <2>1. CASE Has(told[k], "aborted")
    BY <1>3, <2>1 DEF TimerInv
  <2>2. CASE ~Has(told[k], "aborted")
    BY <1>1, <1>2, <2>2 DEF ClientInv, TimerInv
  <2> QED BY <2>1, <2>2
<1> QED BY <1>4, <1>5, <1>8, <1>9, <1>10, <1>11, <1>12, OneClient

LEMMA RemoveConnectionStep ==
  ASSUME IInv, NEW k \in Clients, RemoveConnection(k)
  PROVE  IInv'
<1> TypeOK /\ ClientInv(k)
  BY DEF IInv
<1>1. /\ ioPc[k] = "closing" /\ (connection[k] # 0 => ~holder[k])
      /\ connection' = [connection EXCEPT ![k] = 0]
      /\ queue' = [queue EXCEPT ![k] = Append(@, "connectDestroyed")]
      /\ ioPc' = [ioPc EXCEPT ![k] = "idle"]
      /\ UNCHANGED <<ctor, attempts, timers, answers, dangling, holder, tcp, sockets, starts, told>>
  BY DEF RemoveConnection, connectorVars
<1>2. /\ queue'[k] = Append(queue[k], "connectDestroyed") /\ connection'[k] = 0 /\ ioPc'[k] = "idle"
  BY <1>1 DEF TypeOK
<1>3. /\ queue[k] \in Seq(Functors) /\ "connectDestroyed" \in Functors
  BY ClientType DEF Functors
<1>4. TypeOK'
  <2>1. queue' \in [Clients -> Seq(Functors)]
    BY <1>1, <1>3 DEF TypeOK
  <2>2. connection' \in [Clients -> 0..MaxAttempts]
        /\ ioPc' \in [Clients -> {"idle", "created", "published", "closing"}]
    BY <1>1, ClientType DEF TypeOK
  <2> QED BY <1>1, <2>1, <2>2 DEF TypeOK
<1>5. OthersSame(k)
  BY <1>1 DEF OthersSame, TypeOK
<1>6. \A f : f # "connectDestroyed" => (Has(queue'[k], f) <=> Has(queue[k], f))
  BY <1>2, <1>3, AppendHas
<1>7. tcp[k] # "none" /\ ctor[k].state # "kConnecting" /\ ~holder[k] /\ tcp[k] # "kConnecting"
  BY <1>1 DEF ClientInv, PhaseInv
<1>8. (InProgress(k))' <=> InProgress(k)
  BY <1>1, <1>2 DEF InProgress
<1>9. StartInv(k)'
  BY <1>1, <1>6, <1>7, <1>8 DEF ClientInv, StartInv
<1>10. PhaseInv(k)'
  BY <1>1, <1>2, <1>7 DEF PhaseInv
<1>11. ChannelInv(k)'
  <2>1. Ahead(queue'[k], "resetChannel", "startInLoop")
    BY <1>2, <1>3, AppendAhead DEF ClientInv, ChannelInv
  <2> QED BY <1>1, <1>6, <2>1 DEF ClientInv, ChannelInv
<1>12. AnswerInv(k)' /\ SocketInv(k)'
  BY <1>1, <1>8 DEF ClientInv, AnswerInv, SocketInv
<1>13. TimerInv(k)'
  <2>1. Ahead(queue[k], "connTimeOutInLoop", "startInLoop") => Ahead(queue'[k], "connTimeOutInLoop", "startInLoop")
    BY <1>2, <1>3, AppendAhead
  <2> QED BY <1>1, <1>6, <2>1 DEF ClientInv, TimerInv
<1> QED BY <1>4, <1>5, <1>9, <1>10, <1>11, <1>12, <1>13, OneClient

\* The last reference goes, with the socket, or another one is queued.
LEMMA ConnectDestroyedStep ==
  ASSUME IInv, NEW k \in Clients, ConnectDestroyed(k)
  PROVE  IInv'
<1> TypeOK /\ ClientInv(k)
  BY DEF IInv
<1> DEFINE last == Tail(queue[k])
           more == Has(last, "forceCloseInLoop") \/ Has(last, "connectDestroyed")
<1>1. /\ Runs(k, "connectDestroyed")
      /\ queue' = [queue EXCEPT ![k] = Tail(@)]
      /\ UNCHANGED <<ctor, attempts, timers, answers, dangling, ioPc, holder, connection, starts, told>>
  BY DEF ConnectDestroyed, connectorVars
<1>2. more => UNCHANGED <<sockets, tcp>>
  BY DEF ConnectDestroyed, Has
<1>3. ~more => /\ sockets' = [sockets EXCEPT ![k] = @ \ {attempts[k]}]
               /\ tcp' = [tcp EXCEPT ![k] = "none"]
  BY DEF ConnectDestroyed, Has, Current
<1>4. queue'[k] = last
  BY <1>1 DEF TypeOK
<1>5. /\ ioPc[k] = "idle" /\ Has(queue[k], "connectDestroyed") /\ last \in Seq(Functors)
      /\ \A g : Has(last, g) => Has(queue[k], g)
      /\ \A g : g # "connectDestroyed" => (Has(last, g) <=> Has(queue[k], g))
      /\ \A g, h : Ahead(queue[k], g, h) => Ahead(last, g, h)
  BY <1>1, RestOfQueue
<1> HIDE DEF last
<1>6. TypeOK'
  <2>1. queue' \in [Clients -> Seq(Functors)]
    BY <1>1, <1>5 DEF TypeOK, last
  <2>2. sockets' \in [Clients -> SUBSET Attempts] /\ tcp' \in [Clients -> States \cup {"none", "kDisconnecting"}]
    <3>1. CASE more
      BY <1>2, <3>1 DEF TypeOK
    <3>2. CASE ~more
      <4>1. /\ sockets' = [sockets EXCEPT ![k] = @ \ {attempts[k]}]
            /\ tcp' = [tcp EXCEPT ![k] = "none"]
        BY <1>3, <3>2
      <4> QED BY <4>1 DEF TypeOK
    <3> QED BY <3>1, <3>2
  <2> QED BY <1>1, <2>1, <2>2 DEF TypeOK
<1>7. OthersSame(k)
  BY <1>1, <1>2, <1>3 DEF OthersSame, TypeOK
<1>8. /\ tcp[k] # "none" /\ tcp[k] # "kConnecting" /\ ctor[k].state # "kConnecting"
      /\ connection[k] = 0 /\ ~holder[k] /\ ~Has(queue[k], "startInLoop")
  BY <1>5 DEF ClientInv, PhaseInv, StartInv
<1>9. /\ more => sockets'[k] = sockets[k] /\ tcp'[k] = tcp[k]
      /\ ~more => sockets'[k] = sockets[k] \ {attempts[k]} /\ tcp'[k] = "none"
  BY <1>2, <1>3 DEF TypeOK
<1>10. (InProgress(k))' <=> InProgress(k)
  BY <1>1 DEF InProgress
<1>11. StartInv(k)'
  BY <1>1, <1>4, <1>5, <1>8, <1>10 DEF ClientInv, StartInv
<1>12. PhaseInv(k)'
  BY <1>1, <1>4, <1>5, <1>8, <1>9 DEF PhaseInv
<1>13. ChannelInv(k)'
  BY <1>1, <1>4, <1>5 DEF ClientInv, ChannelInv
<1>14. AnswerInv(k)'
  BY <1>1, <1>10 DEF ClientInv, AnswerInv
<1>15. SocketInv(k)'
  BY <1>1, <1>8, <1>9 DEF ClientInv, SocketInv
<1>16. TimerInv(k)'
  BY <1>1, <1>4, <1>5 DEF ClientInv, TimerInv
<1> QED BY <1>6, <1>7, <1>11, <1>12, <1>13, <1>14, <1>15, <1>16, OneClient

-----------------------------------------------------------------------------
(* Steps that fail an attempt, close a connection or do nothing.           *)

LEMMA StopInLoopStep ==
  ASSUME IInv, NEW k \in Clients, StopInLoop(k)
  PROVE  IInv'
<1> TypeOK
  BY DEF IInv
<1>1. Runs(k, "stopInLoop") /\ timers' = [timers EXCEPT ![k] = timers[k]] /\ timers[k] \in SUBSET Attempts
  BY DEF StopInLoop, TypeOK
<1>2. CASE ctor[k].state = "kConnecting"
  <2>1. Fails(k, "aborted", Tail(queue[k]))
    BY <1>2 DEF StopInLoop
  <2>2. Tail(queue[k]) \in Seq(Functors) /\ \A g : Has(Tail(queue[k]), g) => Has(queue[k], g)
    BY <1>1, RestOfQueue
  <2> QED BY <1>1, <1>2, <2>1, <2>2, FailsStep
<1>3. CASE ctor[k].state # "kConnecting"
  <2>1. /\ queue' = [queue EXCEPT ![k] = Tail(@)]
        /\ UNCHANGED <<ctor, attempts, answers, dangling, ioPc, holder, connection, tcp, sockets, starts, told>>
    BY <1>3 DEF StopInLoop, clientVars
  <2> QED BY <1>1, <2>1, IdleFunctorStep
<1> QED BY <1>2, <1>3

LEMMA ConnTimeOutInLoopStep ==
  ASSUME IInv, NEW k \in Clients, ConnTimeOutInLoop(k)
  PROVE  IInv'
<1> TypeOK
  BY DEF IInv
<1> DEFINE T == timers[k] \ {ctor[k].timer}
<1>1. Runs(k, "connTimeOutInLoop") /\ timers' = [timers EXCEPT ![k] = T] /\ T \in SUBSET Attempts
      /\ T \subseteq timers[k]
  BY DEF ConnTimeOutInLoop, Cancelled, TypeOK
<1>2. CASE Abortable(k)
  <2>1. Fails(k, "timeout", Tail(queue[k])) /\ ctor[k].state = "kConnecting"
    BY <1>2 DEF ConnTimeOutInLoop, Abortable
  <2>2. Tail(queue[k]) \in Seq(Functors) /\ \A g : Has(Tail(queue[k]), g) => Has(queue[k], g)
    BY <1>1, RestOfQueue
  <2> QED BY <1>1, <2>1, <2>2, FailsStep
<1>3. CASE ~Abortable(k)
  <2>1. /\ queue' = [queue EXCEPT ![k] = Tail(@)]
        /\ UNCHANGED <<ctor, attempts, answers, dangling, ioPc, holder, connection, tcp, sockets, starts, told>>
    BY <1>3 DEF ConnTimeOutInLoop, clientVars
  <2> HIDE DEF T
  <2> QED BY <1>1, <2>1, IdleFunctorStep
<1> QED BY <1>2, <1>3

LEMMA HandleWriteFailsStep ==
  ASSUME IInv, NEW k \in Clients, HandleWriteFails(k)
  PROVE  IInv'
<1> TypeOK
  BY DEF IInv
<1> DEFINE T == timers[k] \ {ctor[k].timer}
<1>1. /\ ctor[k].state = "kConnecting" /\ timers' = [timers EXCEPT ![k] = T] /\ T \in SUBSET Attempts
      /\ T \subseteq timers[k] /\ queue[k] \in Seq(Functors)
  BY DEF HandleWriteFails, Cancelled, TypeOK
<1>2. CASE Fails(k, "fail", queue[k])
  BY <1>1, <1>2, FailsStep
<1>3. CASE Fails(k, "aborted", queue[k])
  BY <1>1, <1>3, FailsStep
<1> QED BY <1>2, <1>3 DEF HandleWriteFails

LEMMA PeerClosesStep ==
  ASSUME IInv, NEW k \in Clients, PeerCloses(k)
  PROVE  IInv'
<1>1. queue[k] \in Seq(Functors)
  BY DEF IInv, TypeOK
<1>2. ioPc[k] = "idle" /\ tcp[k] \in {"kConnected", "kDisconnecting"} /\ HandleClose(k, queue[k])
  BY DEF PeerCloses
<1> QED BY <1>1, <1>2, HandleCloseStep

LEMMA ForceCloseInLoopStep ==
  ASSUME IInv, NEW k \in Clients, ForceCloseInLoop(k)
  PROVE  IInv'
<1> TypeOK
  BY DEF IInv
<1>1. Runs(k, "forceCloseInLoop")
  BY DEF ForceCloseInLoop
<1>2. CASE tcp[k] \in {"kConnected", "kDisconnecting"}
  <2>1. HandleClose(k, Tail(queue[k]))
    BY <1>2 DEF ForceCloseInLoop
  <2>2. /\ ioPc[k] = "idle" /\ Tail(queue[k]) \in Seq(Functors)
        /\ \A g : Has(Tail(queue[k]), g) => Has(queue[k], g)
        /\ Has(queue[k], "resetChannel") => Has(Tail(queue[k]), "resetChannel")
        /\ \A g, h : Ahead(queue[k], g, h) => Ahead(Tail(queue[k]), g, h)
    BY <1>1, RestOfQueue
  <2> QED BY <1>2, <2>1, <2>2, HandleCloseStep
<1>3. CASE tcp[k] \notin {"kConnected", "kDisconnecting"}
  <2>1. /\ queue' = [queue EXCEPT ![k] = Tail(@)]
        /\ UNCHANGED <<ctor, attempts, answers, dangling, ioPc, holder, connection, tcp, sockets, starts, told>>
    BY <1>3 DEF ForceCloseInLoop, connectorVars, clientVars
  <2>2. timers' = [timers EXCEPT ![k] = timers[k]] /\ timers[k] \in SUBSET Attempts
    BY <1>3 DEF ForceCloseInLoop, connectorVars, TypeOK
  <2> QED BY <1>1, <2>1, <2>2, IdleFunctorStep
<1> QED BY <1>2, <1>3

-----------------------------------------------------------------------------
(* The invariant holds.                                                    *)

LEMMA InvInit == Init => IInv
<1> SUFFICES ASSUME Init PROVE IInv
  OBVIOUS
<1>1. TypeOK
  BY ConnectorConstants DEF Init, ConnInit, TypeOK, States
<1>2. ASSUME NEW k \in Clients PROVE ClientInv(k)
  <2>1. /\ queue[k] = <<>> /\ ctor[k].state = "kDisconnected" /\ ctor[k].channel = 0 /\ ~ctor[k].registered
        /\ attempts[k] = 0 /\ starts[k] = 0 /\ timers[k] = {} /\ sockets[k] = {} /\ ioPc[k] = "idle"
        /\ ~holder[k] /\ connection[k] = 0 /\ tcp[k] = "none"
        /\ answers[k] = [a \in Attempts |-> 0] /\ ~dangling[k]
    BY DEF Init, ConnInit
  <2>2. \A f : ~Has(queue[k], f)
    BY <2>1 DEF Has
  <2>3. \A f, g : Ahead(queue[k], f, g)
    BY <2>2 DEF Has, Ahead
  <2>4. \A a \in Attempts : a > 0
    BY ConnectorConstants DEF Attempts
  <2>5. AnswerInv(k)
    BY <2>1, <2>4 DEF AnswerInv
  <2>6. StartInv(k) /\ PhaseInv(k) /\ ChannelInv(k)
    BY <2>1, <2>2, <2>3 DEF StartInv, PhaseInv, ChannelInv, InProgress
  <2>7. SocketInv(k) /\ TimerInv(k)
    BY <2>1, <2>2, <2>3 DEF SocketInv, TimerInv
  <2> QED BY <2>5, <2>6, <2>7 DEF ClientInv
<1> QED BY <1>1, <1>2 DEF IInv

\* The steps of the loop thread, of its timers and of the network keep IInv,
\* whatever other threads do between them.
LEMMA LoopKeeps ==
  ASSUME IInv, NEW k \in Clients, LoopStep(k) \/ TimerStep(k) \/ NetworkStep(k)
  PROVE  IInv'
<1>1. CASE ConnectFailsAtOnce(k) BY <1>1, ConnectFailsAtOnceStep
<1>2. CASE Connecting(k) BY <1>2, ConnectingStep
<1>3. CASE DoNotConnect(k) BY <1>3, DoNotConnectStep
<1>4. CASE StopInLoop(k) BY <1>4, StopInLoopStep
<1>5. CASE ResetChannel(k) BY <1>5, ResetChannelStep
<1>6. CASE ConnTimeOutInLoop(k) BY <1>6, ConnTimeOutInLoopStep
<1>7. CASE PublishConnection(k) BY <1>7, PublishConnectionStep
<1>8. CASE Establish(k) BY <1>8, EstablishStep
<1>9. CASE RemoveConnection(k) BY <1>9, RemoveConnectionStep
<1>10. CASE ForceCloseInLoop(k) BY <1>10, ForceCloseInLoopStep
<1>11. CASE ConnectDestroyed(k) BY <1>11, ConnectDestroyedStep
<1>12. CASE TimerStep(k)
  BY <1>12, ConnTimeOutStep DEF TimerStep
<1>13. CASE NetworkStep(k)
  BY <1>13, HandleWriteConnectedStep, HandleWriteFailsStep, PeerClosesStep DEF NetworkStep
<1> QED BY <1>1, <1>2, <1>3, <1>4, <1>5, <1>6, <1>7, <1>8, <1>9, <1>10, <1>11, <1>12, <1>13 DEF LoopStep

LEMMA SilenceKeeps ==
  ASSUME IInv, UNCHANGED connVars
  PROVE  IInv'
<1>1. UNCHANGED <<queue, ctor, attempts, timers, answers, dangling, ioPc, holder, connection, tcp, sockets,
                  starts, told>>
  BY DEF connVars, connectorVars, clientVars
<1>2. TypeOK'
  BY <1>1 DEF IInv, TypeOK
<1>3. ASSUME NEW k \in Clients PROVE ClientInv(k)'
  <2>1. ClientInv(k) /\ ((InProgress(k))' <=> InProgress(k))
    BY <1>1 DEF IInv, InProgress
  <2> QED BY <1>1, <2>1 DEF ClientInv, StartInv, PhaseInv, ChannelInv, AnswerInv, SocketInv, TimerInv
<1> QED BY <1>2, <1>3 DEF IInv

LEMMA InvStep ==
  ASSUME ~Overlap, IInv, [Next]_connVars
  PROVE  IInv'
<1>1. ASSUME NEW k \in Clients, UserStep(k) PROVE IInv'
  BY <1>1, StartStep, StopStep, DisconnectStep, DisconnectSetsStateStep DEF UserStep
<1> QED BY <1>1, LoopKeeps, SilenceKeeps DEF Next

\* The parts of IInv hold of a user who waits for the end of a connection
\* before the next start().
THEOREM Invariant == ASSUME ~Overlap PROVE Spec => []IInv
<1>1. Init => IInv
  BY InvInit
<1>2. IInv /\ [Next]_connVars => IInv'
  BY InvStep
<1> QED BY <1>1, <1>2, PTL DEF Spec

\* Type correctness: the Connector's members, the functors queued and the
\* histories stay in their types.
THEOREM TypeCorrect == ASSUME ~Overlap PROVE Spec => []TypeOK
<1>1. IInv => TypeOK
  BY DEF IInv
<1> QED BY <1>1, Invariant, PTL

\* What the invariant says of the answers and of the descriptors.
LEMMA AnswerFacts == IInv => AnsweredOnce
<1> SUFFICES ASSUME IInv, NEW k \in Clients, NEW a \in 1..attempts[k]
             PROVE  answers[k][a] = IF a = Current(k) /\ (ctor[k].state = "kConnecting" \/ ioPc[k] \in {"created", "published"}) THEN 0 ELSE 1
  BY DEF AnsweredOnce
<1>1. a \in Attempts /\ ~(a > attempts[k])
  BY ClientType DEF IInv, Attempts
<1> QED BY <1>1 DEF IInv, ClientInv, AnswerInv, InProgress, Current

LEMMA SocketFacts == IInv => NoDescriptorLost
BY DEF IInv, ClientInv, SocketInv, NoDescriptorLost, Current

\* However handleWrite, handleError, handleConnTimeOut and stopInLoop race,
\* newConnectionCallback_ is called once for each attempt.
THEOREM AttemptsAnsweredOnce == ASSUME ~Overlap PROVE Spec => []AnsweredOnce
BY AnswerFacts, Invariant, PTL

\* The descriptor of connecting() is closed or belongs to the TcpConnection;
\* there is never a second one.
THEOREM DescriptorsKept == ASSUME ~Overlap PROVE Spec => []NoDescriptorLost
BY SocketFacts, Invariant, PTL

-----------------------------------------------------------------------------
(* Action properties.                                                      *)

\* Only startInLoop begins an attempt.
LEMMA OnlyStartBegins ==
  ASSUME TypeOK, Next, NEW k \in Clients, attempts'[k] # attempts[k]
  PROVE  Runs(k, "startInLoop")
<1>1. PICK j \in Clients : LoopStep(j) \/ TimerStep(j) \/ NetworkStep(j) \/ UserStep(j)
  BY DEF Next
<1>2. attempts' # attempts
  OBVIOUS
<1>3. ~TimerStep(j)
  BY <1>2 DEF TimerStep, ConnTimeOut
<1>4. ~NetworkStep(j)
  BY <1>2 DEF NetworkStep, HandleWriteConnected, HandleWriteFails, Fails, PeerCloses, HandleClose, connectorVars
<1>5. ~UserStep(j)
  BY <1>2 DEF UserStep, Start, Stop, Disconnect, DisconnectSetsState, connectorVars
<1>6. ~DoNotConnect(j) /\ ~StopInLoop(j) /\ ~ResetChannel(j) /\ ~ConnTimeOutInLoop(j)
  BY <1>2 DEF DoNotConnect, StopInLoop, ResetChannel, ConnTimeOutInLoop, Fails, connectorVars
<1>7. ~PublishConnection(j) /\ ~Establish(j) /\ ~RemoveConnection(j) /\ ~ForceCloseInLoop(j) /\ ~ConnectDestroyed(j)
  BY <1>2 DEF PublishConnection, Establish, RemoveConnection, ForceCloseInLoop, ConnectDestroyed, HandleClose,
              connectorVars
<1>8. ConnectFailsAtOnce(j) \/ Connecting(j)
  BY <1>1, <1>3, <1>4, <1>5, <1>6, <1>7 DEF LoopStep
<1>9. Runs(j, "startInLoop") /\ attempts' = [attempts EXCEPT ![j] = attempts[j] + 1]
  BY <1>8 DEF ConnectFailsAtOnce, Connecting
<1>10. j = k
  BY <1>9 DEF TypeOK
<1> QED BY <1>9, <1>10

\* assert(!channel_) in connecting() never fails, and resetChannel and
\* connecting() destroy no Channel that the poller still knows.
THEOREM ChannelGoneInTime == ASSUME ~Overlap PROVE Spec => ChannelIsFree
<1> DEFINE Free == \A k \in Clients : attempts'[k] > attempts[k] /\ ctor'[k].registered => ctor[k].channel = 0
           Alive == \A k \in Clients : ~dangling[k]
<1>1. IInv => Alive
  BY DEF IInv, ClientInv, ChannelInv
<1>2. IInv /\ [Next]_connVars => [Free]_connVars
  <2> SUFFICES ASSUME IInv, Next PROVE Free
    OBVIOUS
  <2> SUFFICES ASSUME NEW k \in Clients, attempts'[k] > attempts[k] PROVE ctor[k].channel = 0
    OBVIOUS
  <2>1. attempts'[k] # attempts[k]
    BY ClientType DEF IInv
  <2>2. Runs(k, "startInLoop")
    BY <2>1, OnlyStartBegins DEF IInv
  <2> QED BY <2>2, Begins
<1>3. Spec => []Alive
  BY <1>1, Invariant, PTL
<1>4. Spec => [][Free]_connVars
  BY <1>2, Invariant, PTL DEF Spec
<1> QED BY <1>3, <1>4 DEF ChannelIsFree

\* The user of client k is told of no timeout.
NoTimeoutTold(k) == Len(told'[k]) > Len(told[k]) => told'[k][Len(told'[k])] # "timeout"

Texts == {"fail", "timeout", "aborted", "up", "down"}

LEMMA OtherTold ==
  ASSUME TypeOK, NEW j \in Clients, NEW k \in Clients, NEW x \in Texts, x # "timeout",
         told' = [told EXCEPT ![j] = Append(told[j], x)]
  PROVE  NoTimeoutTold(k)
<1>1. told[j] \in Seq(Texts) /\ told[k] \in Seq(Texts) /\ told'[j] = Append(told[j], x)
  BY DEF TypeOK, Texts
<1>2. CASE k = j
  <2>1. told'[k] = Append(told[k], x) /\ told[k] \in Seq(Texts)
    BY <1>1, <1>2
  <2>2. Len(told'[k]) = Len(told[k]) + 1 /\ Append(told[k], x)[Len(told[k]) + 1] = x
    BY <2>1, AppendProperties
  <2> QED BY <2>1, <2>2 DEF NoTimeoutTold
<1>3. CASE k # j
  <2>1. told'[k] = told[k] /\ Len(told[k]) \in Nat
    BY <1>1, <1>3 DEF TypeOK
  <2> QED BY <2>1 DEF NoTimeoutTold
<1> QED BY <1>2, <1>3

LEMMA NothingTold ==
  ASSUME TypeOK, NEW k \in Clients, told' = told
  PROVE  NoTimeoutTold(k)
<1>1. told[k] \in Seq(Texts)
  BY DEF TypeOK, Texts
<1>2. Len(told[k]) \in Nat
  BY <1>1
<1> QED BY <1>2 DEF NoTimeoutTold

\* Only handleConnTimeOutInLoop tells of a timeout.
LEMMA OnlyTimeoutTells ==
  ASSUME TypeOK, Next, NEW k \in Clients, ~NoTimeoutTold(k)
  PROVE  Runs(k, "connTimeOutInLoop")
<1>1. PICK j \in Clients : LoopStep(j) \/ TimerStep(j) \/ NetworkStep(j) \/ UserStep(j)
  BY DEF Next
<1>2. told' # told
  BY NothingTold
<1>3. \A x \in Texts \ {"timeout"} : told' # [told EXCEPT ![j] = Append(told[j], x)]
  BY OtherTold
<1>4. /\ told' # [told EXCEPT ![j] = Append(told[j], "fail")]
      /\ told' # [told EXCEPT ![j] = Append(told[j], "aborted")]
      /\ told' # [told EXCEPT ![j] = Append(told[j], "up")]
      /\ told' # [told EXCEPT ![j] = Append(told[j], "down")]
  BY <1>3 DEF Texts
<1>5. ~TimerStep(j)
  BY <1>2 DEF TimerStep, ConnTimeOut
<1>6. ~NetworkStep(j)
  BY <1>2, <1>4 DEF NetworkStep, HandleWriteConnected, HandleWriteFails, Fails, Answer, PeerCloses, HandleClose
<1>7. ~UserStep(j)
  BY <1>2 DEF UserStep, Start, Stop, Disconnect, DisconnectSetsState
<1>8. ~ConnectFailsAtOnce(j) /\ ~Connecting(j) /\ ~DoNotConnect(j) /\ ~StopInLoop(j) /\ ~ResetChannel(j)
  BY <1>2, <1>4 DEF ConnectFailsAtOnce, Connecting, DoNotConnect, StopInLoop, ResetChannel, Fails, Answer
<1>9. ~PublishConnection(j) /\ ~Establish(j) /\ ~RemoveConnection(j) /\ ~ForceCloseInLoop(j) /\ ~ConnectDestroyed(j)
  BY <1>2, <1>4 DEF PublishConnection, Establish, RemoveConnection, ForceCloseInLoop, ConnectDestroyed, HandleClose,
                    Answer
<1>10. ConnTimeOutInLoop(j)
  BY <1>1, <1>5, <1>6, <1>7, <1>8, <1>9 DEF LoopStep
<1>11. Runs(j, "connTimeOutInLoop") /\ told' = [told EXCEPT ![j] = Append(told[j], "timeout")]
  BY <1>2, <1>10 DEF ConnTimeOutInLoop, Fails, Answer
<1>12. j = k
  <2>1. SUFFICES ASSUME j # k PROVE FALSE
    OBVIOUS
  <2>2. told'[k] = told[k] /\ told[k] \in Seq(Texts)
    BY <1>11, <2>1 DEF TypeOK, Texts
  <2>3. Len(told[k]) \in Nat
    BY <2>2
  <2> QED BY <2>2, <2>3 DEF NoTimeoutTold
<1> QED BY <1>11, <1>12

\* Unless stop() ended an earlier attempt and left its timer running, an
\* attempt that handleConnTimeOutInLoop ends is the one whose timer expired.
THEOREM TimeoutsOfTheirAttempt == ASSUME ~Overlap PROVE Spec => TimeoutIsOwn
<1> DEFINE Own == \A k \in Clients :
                     /\ Len(told'[k]) > Len(told[k]) /\ told'[k][Len(told'[k])] = "timeout"
                     => \/ Current(k) \notin timers[k]
                        \/ \E i \in DOMAIN told[k] : told[k][i] = "aborted"
<1>1. IInv /\ [Next]_connVars => [Own]_connVars
  <2> SUFFICES ASSUME IInv, Next PROVE Own
    OBVIOUS
  <2> SUFFICES ASSUME NEW k \in Clients, ~NoTimeoutTold(k)
               PROVE  Current(k) \notin timers[k] \/ Has(told[k], "aborted")
    BY DEF NoTimeoutTold, Has
  <2>1. TypeOK /\ ClientInv(k)
    BY DEF IInv
  <2>2. Runs(k, "connTimeOutInLoop")
    BY <2>1, OnlyTimeoutTells
  <2>3. Has(queue[k], "connTimeOutInLoop")
    BY <2>1, <2>2, RestOfQueue
  <2> QED BY <2>1, <2>3 DEF ClientInv, TimerInv
<1> QED BY <1>1, Invariant, PTL DEF Spec, TimeoutIsOwn
=============================================================================
