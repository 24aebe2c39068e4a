-------------------------- MODULE TcpServerProofs ---------------------------
(***************************************************************************)
(* Proofs about TcpServer for any number of io loops, users, connections,  *)
(* starts and stops: type correctness, that the callbacks of a connection  *)
(* come in pairs, that an open connection keeps its io loop, that a        *)
(* stopped server has no connection left, and that every io loop gets an   *)
(* idle timer.                                                             *)
(***************************************************************************)
EXTENDS TcpServer, SequenceTheorems, FiniteSetTheorems, WellFoundedInduction, TLAPS

\* The functors op in a queue.
Count(q, op) == Cardinality({i \in DOMAIN q : q[i].op = op})

-----------------------------------------------------------------------------
(* The operators of the model.                                             *)

LEMMA Products ==
  ASSUME NEW n \in Nat, NEW a \in Nat, NEW b \in Nat
  PROVE  /\ n * a \in Nat
         /\ a <= b => n * a <= n * b
         /\ n * (a + 1) = n * a + n
<1>1. n * a \in Nat /\ n * (a + 1) = n * a + n
  OBVIOUS
<1>2. ASSUME a <= b PROVE n * a <= n * b
  <2>1. PICK d \in Nat : b = a + d
    BY <1>2
  <2>2. n * b = n * a + n * d /\ n * d \in Nat /\ n * a \in Nat
    BY <2>1
  <2> QED BY <2>2
<1> QED BY <1>1, <1>2

\* The key that comes first in a std::map.
LEMMA MinFacts ==
  ASSUME NEW S, S \subseteq Nat, S # {}
  PROVE  Min(S) \in S
<1> DEFINE R == OpToRel(<, Nat)
<1>1. IsWellFoundedOn(R, Nat)
  BY NatLessThanWellFounded
<1>2. \A x, y \in Nat : y < x => <<y, x>> \in R
  BY DEF OpToRel
<1> HIDE DEF R
<1>3. PICK x \in S : \A y \in S : ~(<<y, x>> \in R)
  BY <1>1, WFMin
<1>4. \A y \in S : y \in Nat /\ ~(y < x) /\ x \in Nat
  BY <1>2, <1>3
<1>5. \A y \in S : x <= y
  BY <1>4
<1> QED BY <1>5 DEF Min

LEMMA CountType ==
  ASSUME NEW S, NEW q \in Seq(S), NEW op
  PROVE  /\ IsFiniteSet({i \in DOMAIN q : q[i].op = op})
         /\ Count(q, op) \in Nat
         /\ Count(q, op) = 0 <=> \A i \in DOMAIN q : q[i].op # op
<1> DEFINE C == {i \in DOMAIN q : q[i].op = op}
<1>1. IsFiniteSet(1..Len(q)) /\ DOMAIN q = 1..Len(q)
  BY FS_Interval
<1>2. IsFiniteSet(C)
  BY <1>1, FS_Subset
<1>3. Cardinality(C) \in Nat /\ (Cardinality(C) = 0 <=> C = {})
  BY <1>2, FS_CardinalityType, FS_EmptySet
<1> QED BY <1>2, <1>3 DEF Count

LEMMA CountEmpty ==
  ASSUME NEW op
  PROVE  Count(<<>>, op) = 0
<1>1. {i \in DOMAIN <<>> : <<>>[i].op = op} = {}
  OBVIOUS
<1> QED BY <1>1, FS_EmptySet DEF Count

LEMMA CountAppend ==
  ASSUME NEW S, NEW q \in Seq(S), NEW x \in S, NEW op
  PROVE  Count(Append(q, x), op) = IF x.op = op THEN Count(q, op) + 1 ELSE Count(q, op)
<1> DEFINE C == {i \in DOMAIN q : q[i].op = op}
           r == Append(q, x)
           D == {i \in DOMAIN r : r[i].op = op}
           n == Len(q)
<1>1. /\ n \in Nat /\ DOMAIN r = DOMAIN q \cup {n + 1} /\ n + 1 \notin DOMAIN q
      /\ r[n + 1] = x /\ \A i \in DOMAIN q : r[i] = q[i]
  OBVIOUS
<1>2. IsFiniteSet(C)
  BY CountType
<1> HIDE DEF n, r
<1>3. CASE x.op = op
  <2>1. D = C \cup {n + 1} /\ n + 1 \notin C
    BY <1>1, <1>3
  <2>2. Cardinality(D) = Cardinality(C) + 1
    BY <1>2, <2>1, FS_AddElement
  <2> QED BY <1>3, <2>2 DEF Count, r
<1>4. CASE x.op # op
  <2>1. D = C
    BY <1>1, <1>4
  <2> QED BY <1>4, <2>1 DEF Count, r
<1> QED BY <1>3, <1>4

LEMMA CountTail ==
  ASSUME NEW S, NEW q \in Seq(S), q # <<>>, NEW op
  PROVE  Count(q, op) = IF Head(q).op = op THEN Count(Tail(q), op) + 1 ELSE Count(Tail(q), op)
<1> DEFINE C == {i \in DOMAIN q : q[i].op = op}
           r == Tail(q)
           D == {i \in DOMAIN r : r[i].op = op}
           E == {i \in C : i # 1}
           f == [i \in D |-> i + 1]
<1>1. /\ r \in Seq(S) /\ Head(q) = q[1] /\ 1 \in DOMAIN q
      /\ \A i \in DOMAIN r : i \in Nat /\ i # 0 /\ i + 1 \in DOMAIN q /\ r[i] = q[i + 1]
      /\ \A i \in DOMAIN q : i \in Nat /\ (i # 1 => i - 1 \in DOMAIN r)
  OBVIOUS
<1> HIDE DEF r
<1>2. IsFiniteSet(C) /\ IsFiniteSet(D)
  <2>1. IsFiniteSet(C)
    BY CountType
  <2>2. r \in Seq(S)
    BY <1>1
  <2>3. IsFiniteSet(D)
    BY <2>2, CountType
  <2> QED BY <2>1, <2>3
<1>3. f \in Bijection(D, E)
  <2>1. \A i \in D : i + 1 \in E
    BY <1>1
  <2>2. \A i, j \in D : i + 1 = j + 1 => i = j
    BY <1>1
  <2>3. ASSUME NEW e \in E PROVE \E i \in D : i + 1 = e
    <3>1. e - 1 \in DOMAIN r /\ (e - 1) + 1 = e
      BY <1>1
    <3>2. r[e - 1] = q[e]
      BY <1>1, <3>1
    <3> QED BY <3>1, <3>2
  <2> QED BY <2>1, <2>2, <2>3 DEF Bijection, Injection, Surjection, IsInjective
<1>4. Cardinality(E) = Cardinality(D)
  <2>1. ExistsBijection(D, E)
    BY <1>3 DEF ExistsBijection
  <2> QED BY <1>2, <2>1, FS_Bijection
<1>5. CASE Head(q).op = op
  <2>1. C = E \cup {1} /\ 1 \notin E
    BY <1>1, <1>5
  <2>2. IsFiniteSet(E)
    BY <1>2, FS_Subset
  <2>3. Cardinality(C) = Cardinality(E) + 1
    BY <2>1, <2>2, FS_AddElement
  <2> QED BY <1>4, <1>5, <2>3 DEF Count, r
<1>6. CASE Head(q).op # op
  <2>1. C = E
    BY <1>1, <1>6
  <2> QED BY <1>4, <1>6, <2>1 DEF Count, r
<1> QED BY <1>5, <1>6

-----------------------------------------------------------------------------
(* The inductive invariant.                                                *)

\* The pool exists from start() to the end of stopInLoop, complete unless it is
\* being started, and the Acceptor listens in between only.
PoolInv ==
    /\ started = 1 <=> pool
    /\ listening => pool /\ basePc = Idle
    /\ ~pool => loops_ = <<>> /\ threads_ = <<>>
    /\ basePc.at = "startLoop" =>
          pool /\ Len(threads_) = basePc.i /\ Len(loops_) = basePc.i - 1 /\ next_ = 0
    /\ basePc.at # "startLoop" /\ pool => Len(threads_) = NumThreads /\ Len(loops_) = NumThreads
    /\ basePc.at \in {"destruct", "join"} => pool
    /\ basePc.at = "crashed" => ~pool

\* The base thread has not yet begun to destroy the pool.
Kept == basePc.at \in {"idle", "startLoop", "next", "close"}

\* loops_ are the loops of threads_, and they run until the pool is destroyed.
LoopInv ==
    /\ \A i \in DOMAIN loops_ : i \in DOMAIN threads_ /\ loops_[i] = threads_[i]
    /\ \A i \in DOMAIN loops_ : loop[loops_[i]].at # "init"
    /\ \A i \in DOMAIN threads_ : loop[threads_[i]].at # "none"
    /\ Kept => \A i \in DOMAIN threads_ : /\ ~loop[threads_[i]].quit
                                          /\ loop[threads_[i]].at \in {"init", "published", "looping"}
    /\ \A l \in Loops : loop[l].at = "none" => ~loop[l].quit

\* Threads that the start() functor in progress still has to create.
ToSpawn == IF basePc.at = "startLoop" THEN NumThreads - basePc.i ELSE 0

\* Threads are created for calls of start() only, so there is a loop for each.
SpawnInv ==
    \E n \in Nat :
        /\ {l \in Loops : loop[l].at # "none"} = 1..n
        /\ n + ToSpawn + NumThreads * (Count(baseQueue, "start") + Count(batch, "start"))
              <= NumThreads * calls["start"]

\* Every accepted peer has connected.
PeerInv == nextSockId - 1 + backlog <= calls["connect"] /\ calls["connect"] <= MaxConns

CallInv == calls["start"] <= MaxStarts

\* The connections that are known to exist, and what their callbacks have said.
Born(c) == c < nextSockId
ReportInv ==
    \A c \in Conns :
        /\ Born(c) <=> conn[c].state # "none"
        /\ Born(c) => conn[c].loop \in Loops
        /\ ups[c] = IF conn[c].state \in {"none", "kConnecting"} THEN 0 ELSE 1
        /\ downs[c] = IF conn[c].state = "kDisconnected" THEN 1 ELSE 0
        /\ conn[c].state = "kConnected" => conn[c].registered
        /\ conn[c].state = "kDisconnecting" /\ ~conn[c].registered => c \in halfClosed

\* A close has been reported, or will never be.
Over(c) == conn[c].state = "kDisconnected" \/ (conn[c].state = "kDisconnecting" /\ ~conn[c].registered)

\* Connections leave the map when they are over, and are in it until then; the
\* map is empty before the pool goes.
MapInv ==
    /\ \A c \in Conns : Born(c) /\ c \notin connections => Over(c)
    /\ \A c \in connections : /\ Born(c)
                              /\ \E i \in DOMAIN loops_ : loops_[i] = conn[c].loop
    /\ connections # {} => pool /\ basePc.at \in {"idle", "next", "close"}
    /\ basePc.at = "close" => basePc.c \in connections /\ (connLatch <= 0 => Over(basePc.c))

\* What the functors of the io loops are about: connectEstablished is the first
\* functor of its connection, and stopInLoop waits for the last.
FunctorInv ==
    \A l \in Loops : \A i \in DOMAIN ioQueue[l] :
        ioQueue[l][i].op # "runEvery" =>
            LET c == ioQueue[l][i].c
            IN  /\ Born(c) /\ conn[c].loop = l
                /\ ioQueue[l][i].op = "established" =>
                      /\ conn[c].state = "kConnecting"
                      /\ \A j \in DOMAIN ioQueue[l] :
                            j < i => ioQueue[l][j].op = "runEvery" \/ ioQueue[l][j].c # c
                /\ ioQueue[l][i].op = "destroyed" => conn[c].state = "kDisconnected"
                /\ ioQueue[l][i].op = "destroyedWithLatch" =>
                      /\ basePc = [at |-> "close", c |-> c] /\ connLatch = 1
                      /\ \A j \in DOMAIN ioQueue[l] :
                            ioQueue[l][j].op = "destroyedWithLatch" => j = i

\* A new connection is going to be established.
ConnectingInv ==
    \A c \in Conns : conn[c].state = "kConnecting" =>
        \E i \in DOMAIN ioQueue[conn[c].loop] :
            ioQueue[conn[c].loop][i] = [op |-> "established", c |-> c]

\* removeConnectionInLoop is queued for connections that are down.
RemoveInv ==
    \A q \in {baseQueue, batch} : \A i \in DOMAIN q :
        q[i].op = "remove" => conn[q[i].c].state = "kDisconnected"

-----------------------------------------------------------------------------
(* The idle timers.                                                        *)

HasTimer(l) == idleTimers[l] > 0 \/ \E i \in DOMAIN ioQueue[l] : ioQueue[l][i].op = "runEvery"

\* How many calls of getNextLoop come before the one that returns loop j.
Distance(j) == IF j >= next_ THEN j - next_ ELSE j - next_ + NumThreads

\* The threads of a pool have queued their startTimer before the pool is
\* complete; doPendingFunctors takes them all at once, and no connection is
\* accepted until they have all run, so that together they reach every loop.
IdleInv ==
    /\ basePc.at = "startLoop" =>
          Count(baseQueue, "startTimer") >=
             IF loop[threads_[basePc.i]].at = "init" THEN basePc.i - 1 ELSE basePc.i
    /\ basePc.at = "idle" /\ pool =>
          \/ Count(baseQueue, "startTimer") >= NumThreads
          \/ \A j \in 0..NumThreads - 1 :
                HasTimer(loops_[j + 1]) \/ Distance(j) < Count(batch, "startTimer")

IInv ==
    /\ TypeOK /\ PoolInv /\ LoopInv /\ SpawnInv /\ PeerInv /\ CallInv
    /\ ReportInv /\ MapInv /\ FunctorInv /\ ConnectingInv /\ RemoveInv /\ IdleInv

-----------------------------------------------------------------------------
(* Types.                                                                  *)

LoopType == [at : {"none", "init", "published", "looping", "left", "gone"}, quit : BOOLEAN]
ConnType == [state : {"none", "kConnecting", "kConnected", "kDisconnecting", "kDisconnected"},
             loop : Loops \cup {0}, registered : BOOLEAN]

LEMMA LoopChange ==
  ASSUME loop \in [Loops -> LoopType], NEW l
  PROVE  /\ \A a \in {"none", "init", "published", "looping", "left", "gone"} :
               [loop EXCEPT ![l].at = a] \in [Loops -> LoopType]
         /\ [loop EXCEPT ![l].quit = TRUE] \in [Loops -> LoopType]
BY DEF LoopType

LEMMA ConnChange ==
  ASSUME conn \in [Conns -> ConnType], NEW c \in Conns,
         NEW s \in {"none", "kConnecting", "kConnected", "kDisconnecting", "kDisconnected"}
  PROVE  /\ [conn EXCEPT ![c].state = s] \in [Conns -> ConnType]
         /\ \A r \in BOOLEAN : [conn EXCEPT ![c].state = s, ![c].registered = r] \in [Conns -> ConnType]
         /\ \A r \in BOOLEAN : [conn EXCEPT ![c].registered = r, ![c].state = s] \in [Conns -> ConnType]
BY DEF ConnType

LEMMA BaseOpFacts ==
  ASSUME NEW f \in BaseOps
  PROVE  /\ f.op \in {"start", "stop", "startTimer", "remove"}
         /\ f.op = "remove" => f.c \in Conns
BY DEF BaseOps

LEMMA IoOpFacts ==
  ASSUME NEW f \in IoOps
  PROVE  /\ f.op \in {"runEvery", "established", "destroyed", "destroyedWithLatch"}
         /\ f.op # "runEvery" => f.c \in Conns
BY DEF IoOps

LEMMA QueuedType ==
  ASSUME ioQueue \in [Loops -> Seq(IoOps)], NEW l, NEW f \in IoOps
  PROVE  Queued(l, f) \in [Loops -> Seq(IoOps)]
<1>1. l \in Loops => Append(ioQueue[l], f) \in Seq(IoOps)
  OBVIOUS
<1> QED BY <1>1 DEF Queued

\* The functor that Takes takes out of the batch.
LEMMA TakesFacts ==
  ASSUME batch \in Seq(BaseOps), NEW op, Takes(op)
  PROVE  /\ batch' \in Seq(BaseOps) /\ Head(batch) \in BaseOps /\ Head(batch).op = op
         /\ Head(batch) = batch[1] /\ 1 \in DOMAIN batch
         /\ \A i \in DOMAIN batch' : i + 1 \in DOMAIN batch /\ batch'[i] = batch[i + 1]
         /\ basePc = Idle /\ basePc.at = "idle"
         /\ \A o : Count(batch, o) = IF o = op THEN Count(batch', o) + 1 ELSE Count(batch', o)
<1>1. batch # <<>> /\ batch' = Tail(batch) /\ Head(batch).op = op /\ basePc = Idle
  BY DEF Takes
<1>2. /\ batch' \in Seq(BaseOps) /\ Head(batch) \in BaseOps
      /\ Head(batch) = batch[1] /\ 1 \in DOMAIN batch
      /\ \A i \in DOMAIN batch' : i + 1 \in DOMAIN batch /\ batch'[i] = batch[i + 1]
  BY <1>1
<1>3. ASSUME NEW o
      PROVE  Count(batch, o) = IF o = op THEN Count(batch', o) + 1 ELSE Count(batch', o)
  BY <1>1, CountTail
<1> QED BY <1>1, <1>2, <1>3 DEF Idle

Spawned == {l \in Loops : loop[l].at # "none"}

\* Thread::start uses a loop that was not there before.
LEMMA SpawnFacts ==
  ASSUME loop \in [Loops -> LoopType],
         NEW n \in Nat, Spawned = 1..n, n + 1 \in Loops,
         NEW threads \in Seq(Loops), Spawn(threads)
  PROVE  /\ threads_' = Append(threads, n + 1)
         /\ loop' = [loop EXCEPT ![n + 1].at = "init"]
         /\ loop[n + 1].at = "none"
         /\ threads_' \in Seq(Loops)
         /\ loop' \in [Loops -> LoopType]
<1>1. Cardinality(Spawned) = n
  BY FS_Interval
<1>2. 1 + Cardinality({k \in Loops : loop[k].at # "none"}) = n + 1
  BY <1>1 DEF Spawned
<1>3. /\ threads_' = Append(threads, n + 1)
      /\ loop' = [loop EXCEPT ![n + 1].at = "init"]
  BY <1>2 DEF Spawn
<1>4. n + 1 \notin Spawned
  OBVIOUS
<1>5. loop[n + 1].at = "none"
  BY <1>4 DEF Spawned
<1>6. threads_' \in Seq(Loops)
  BY <1>3
<1>7. loop' \in [Loops -> LoopType]
  BY <1>3, LoopChange
<1> QED BY <1>3, <1>5, <1>6, <1>7

LEMMA ToSpawnType ==
  ASSUME TypeOK
  PROVE  ToSpawn \in Int
<1>1. NumThreads \in Int
  BY TcpServerConstants
<1>2. basePc.at = "startLoop" => basePc.i \in Int
  BY <1>1 DEF TypeOK, Idle, Crashed
<1> QED BY <1>1, <1>2 DEF ToSpawn

\* There is a loop for every thread that start() creates.
LEMMA SpawnRoom ==
  ASSUME TypeOK, SpawnInv, CallInv,
         ToSpawn > 0 \/ (ToSpawn = 0 /\ Count(batch, "start") > 0)
  PROVE  \E n \in Nat :
            /\ Spawned = 1..n /\ n + 1 \in Loops
            /\ n + ToSpawn + NumThreads * (Count(baseQueue, "start") + Count(batch, "start"))
                  <= NumThreads * calls["start"]
<1>1. PICK n \in Nat :
        /\ Spawned = 1..n
        /\ n + ToSpawn + NumThreads * (Count(baseQueue, "start") + Count(batch, "start"))
              <= NumThreads * calls["start"]
  BY DEF SpawnInv, Spawned
<1> DEFINE a == Count(baseQueue, "start") + Count(batch, "start")
<1>2. /\ Count(baseQueue, "start") \in Nat /\ Count(batch, "start") \in Nat
  BY CountType DEF TypeOK
<1>3. /\ a \in Nat /\ calls["start"] \in Nat /\ calls["start"] <= MaxStarts
      /\ MaxStarts \in Nat /\ NumThreads \in Nat /\ NumThreads > 0
      /\ Count(batch, "start") > 0 => 1 <= a
  BY <1>2, TcpServerConstants DEF TypeOK, CallInv
<1>4. ToSpawn \in Int
  BY ToSpawnType
<1> HIDE DEF a
<1>5. /\ NumThreads * calls["start"] <= NumThreads * MaxStarts
      /\ NumThreads * a \in Nat /\ NumThreads * MaxStarts \in Nat
      /\ NumThreads * calls["start"] \in Nat
      /\ 1 <= a => NumThreads * 1 <= NumThreads * a
  BY <1>3, Products
<1>6. NumThreads * 1 = NumThreads
  BY <1>3
<1>7. n + ToSpawn + NumThreads * a <= NumThreads * calls["start"]
  BY <1>1 DEF a
<1>8. n + 1 <= NumThreads * MaxStarts
  <2>1. CASE ToSpawn > 0
    BY <1>4, <1>5, <1>7, <2>1
  <2>2. CASE ToSpawn = 0 /\ Count(batch, "start") > 0
    BY <1>3, <1>5, <1>6, <1>7, <2>2
  <2> QED BY <2>1, <2>2
<1> QED BY <1>1, <1>5, <1>8 DEF Loops

\* TypeOK in four parts, for the steps that disturb only some of them.
BaseType ==
    /\ baseQueue \in Seq(BaseOps) /\ batch \in Seq(BaseOps)
    /\ basePc \in {Idle, Crashed} \cup [at : {"startLoop", "destruct", "join"}, i : 1..NumThreads]
                  \cup [at : {"next"}] \cup [at : {"close"}, c : Conns]
    /\ started \in 0..1 /\ listening \in BOOLEAN /\ latch \in Int
PoolType ==
    /\ pool \in BOOLEAN /\ next_ \in 0..(NumThreads - 1)
    /\ loops_ \in Seq(Loops) /\ threads_ \in Seq(Loops)
    /\ loop \in [Loops -> LoopType] /\ ioQueue \in [Loops -> Seq(IoOps)] /\ idleTimers \in [Loops -> Nat]
ConnsType ==
    /\ connections \subseteq Conns /\ nextSockId \in 1..(MaxConns + 1)
    /\ conn \in [Conns -> ConnType] /\ ups \in [Conns -> Nat] /\ downs \in [Conns -> Nat]
    /\ connLatch \in Int /\ halfClosed \subseteq Conns
EnvType ==
    /\ backlog \in 0..MaxConns /\ waiting \subseteq Users /\ calls \in [{"start", "stop", "connect"} -> Nat]
    /\ lostQuits \subseteq Loops /\ latchOverwritten \in BOOLEAN

LEMMA TypeParts == TypeOK <=> BaseType /\ PoolType /\ ConnsType /\ EnvType
BY DEF TypeOK, BaseType, PoolType, ConnsType, EnvType, LoopType, ConnType

LEMMA TypeStep ==
  ASSUME TypeOK, PoolInv, SpawnInv, CallInv, PeerInv, MapInv, ReportInv, Next
  PROVE  TypeOK'
<1> USE DEF baseVars, serverVars, poolVars, ioVars, connVars, envVars, flags
<1>0. /\ NumThreads \in Nat \ {0} /\ MaxConns \in Nat /\ MaxStarts \in Nat
      /\ Idle.at = "idle" /\ Crashed.at = "crashed"
      /\ loop \in [Loops -> LoopType] /\ conn \in [Conns -> ConnType]
      /\ ups \in [Conns -> Nat] /\ downs \in [Conns -> Nat] /\ idleTimers \in [Loops -> Nat]
      /\ ioQueue \in [Loops -> Seq(IoOps)] /\ threads_ \in Seq(Loops) /\ loops_ \in Seq(Loops)
      /\ latch \in Int /\ connLatch \in Int /\ halfClosed \subseteq Conns
  BY TcpServerConstants DEF Idle, Crashed, TypeOK, LoopType, ConnType
<1>num. NumThreads \in Nat \ {0} /\ MaxConns \in Nat
  BY TcpServerConstants
<1>types. BaseType /\ PoolType /\ ConnsType /\ EnvType
  BY TypeParts
<1>same. /\ UNCHANGED connVars => ConnsType'
         /\ UNCHANGED <<poolVars, ioVars>> => PoolType'
         /\ UNCHANGED <<baseVars, serverVars>> => BaseType'
  <2>1. UNCHANGED connVars => ConnsType'
    BY <1>types, Zenon DEF ConnsType
  <2>2. UNCHANGED <<poolVars, ioVars>> => PoolType'
    BY <1>types, Zenon DEF PoolType
  <2>3. UNCHANGED <<baseVars, serverVars>> => BaseType'
    BY <1>types, Zenon DEF BaseType
  <2> QED BY <2>1, <2>2, <2>3
<1>parts. BaseType' /\ PoolType' /\ ConnsType' /\ EnvType' => TypeOK'
  BY TypeParts, PTL
<1>1. CASE DoPendingFunctors
  BY <1>1 DEF DoPendingFunctors, TypeOK
<1>2. CASE Start
  <2>1. /\ Takes("start") /\ latch' = 1 /\ started' = 1
        /\ UNCHANGED <<baseQueue, listening, ioQueue, idleTimers, connVars, envVars, lostQuits>>
        /\ latchOverwritten' \in BOOLEAN
    <3>1. latchOverwritten' = (latchOverwritten \/ (latch <= 0 /\ waiting # {}))
      BY <1>2 DEF Start
    <3>2. latchOverwritten' \in BOOLEAN
      BY <3>1, Zenon
    <3> QED BY <1>2, <3>2 DEF Start
  <2>2. batch' \in Seq(BaseOps)
    BY <2>1, TakesFacts DEF TypeOK
  <2>5. EnvType'
    BY <1>types, <2>1 DEF EnvType
  <2>3. CASE started = 0
    <3>1. ToSpawn = 0 /\ Count(batch, "start") > 0
      <4>1. basePc.at = "idle" /\ batch' \in Seq(BaseOps) /\ Count(batch, "start") = Count(batch', "start") + 1
        BY <2>1, TakesFacts DEF TypeOK
      <4>2. Count(batch', "start") \in Nat
        BY <4>1, CountType
      <4> QED BY <4>1, <4>2 DEF ToSpawn
    <3>2. PICK n \in Nat : Spawned = 1..n /\ n + 1 \in Loops
      BY <3>1, SpawnRoom
    <3>3. /\ pool' = TRUE /\ loops_' = <<>> /\ next_' = 0
          /\ Spawn(<<>>)
          /\ basePc' = [at |-> "startLoop", i |-> 1]
      BY <1>2, <2>3 DEF Start
    <3>4. /\ threads_' \in Seq(Loops)
          /\ loop' \in [Loops -> LoopType]
      <4>1. <<>> \in Seq(Loops)
        OBVIOUS
      <4> QED BY <1>0, <3>2, <3>3, <4>1, SpawnFacts
    <3>5. 1 \in 1..NumThreads
      BY <1>0
    <3>6. basePc' \in [at : {"startLoop", "destruct", "join"}, i : 1..NumThreads]
      BY <3>3, <3>5
    <3>7. loops_' \in Seq(Loops) /\ next_' \in 0..NumThreads - 1 /\ started' \in 0..1
      BY <1>num, <2>1, <3>3
    <3>8. BaseType'
      BY <1>types, <2>1, <2>2, <3>6, <3>7 DEF BaseType
    <3>9. PoolType'
      BY <1>types, <2>1, <3>3, <3>4, <3>7 DEF PoolType
    <3> QED BY <1>parts, <1>same, <2>1, <2>5, <3>8, <3>9
  <2>4. CASE started # 0
    <3>1. UNCHANGED <<poolVars, loop, basePc>>
      BY <1>2, <2>4 DEF Start
    <3>2. BaseType'
      <4>1. started' \in 0..1 /\ latch' \in Int
        BY <2>1
      <4> QED BY <1>types, <2>1, <2>2, <3>1, <4>1 DEF BaseType
    <3>3. PoolType'
      BY <1>same, <2>1, <3>1
    <3> QED BY <1>parts, <1>same, <2>1, <2>5, <3>2, <3>3
  <2> QED BY <2>3, <2>4
<1>3. ASSUME NEW i \in 1..NumThreads, StartLoop(i) PROVE TypeOK'
  <2>1. /\ basePc = [at |-> "startLoop", i |-> i]
        /\ loops_' = Append(loops_, threads_[i])
        /\ UNCHANGED <<baseQueue, batch, started, latch, pool, next_, ioQueue, idleTimers,
                       connVars, envVars, flags>>
    BY <1>3 DEF StartLoop
  <2>2. basePc.at = "startLoop" /\ basePc.i = i
    BY <2>1
  <2>3. Len(threads_) = i /\ threads_[i] \in Loops
    BY <2>2 DEF PoolInv, TypeOK
  <2>4. loops_' \in Seq(Loops)
    BY <2>1, <2>3 DEF TypeOK
  <2>5. CASE i < NumThreads
    <3>1. ToSpawn > 0
      BY <1>0, <2>2, <2>5 DEF ToSpawn
    <3>2. PICK n \in Nat : Spawned = 1..n /\ n + 1 \in Loops
      BY <3>1, SpawnRoom
    <3>3. Spawn(threads_) /\ basePc' = [basePc EXCEPT !.i = i + 1] /\ UNCHANGED listening
      BY <1>3, <2>5 DEF StartLoop
    <3>4. /\ threads_' \in Seq(Loops)
          /\ loop' \in [Loops -> LoopType]
      BY <1>0, <3>2, <3>3, SpawnFacts
    <3>5. basePc' = [at |-> "startLoop", i |-> i + 1] /\ i + 1 \in 1..NumThreads
      <4>1. basePc' = [at |-> "startLoop", i |-> i + 1]
        BY <2>1, <3>3
      <4> QED BY <1>num, <2>5, <4>1
    <3> QED BY <2>1, <2>4, <3>3, <3>4, <3>5 DEF TypeOK, LoopType
  <2>6. CASE ~(i < NumThreads)
    BY <1>3, <2>1, <2>4, <2>6 DEF StartLoop, TypeOK
  <2> QED BY <2>5, <2>6
<1>4. CASE StartTimer
  <2>1. batch' \in Seq(BaseOps)
    BY <1>4, TakesFacts DEF StartTimer, TypeOK
  <2>2. Queued(loops_[next_ + 1], [op |-> "runEvery"]) \in [Loops -> Seq(IoOps)]
    <3>1. [op |-> "runEvery"] \in IoOps
      BY DEF IoOps
    <3> QED BY <3>1, QueuedType DEF TypeOK
  <2>3. Len(loops_) <= NumThreads /\ Len(loops_) \in Nat
    <3>1. basePc.at = "idle"
      BY <1>4, TakesFacts DEF StartTimer, TypeOK
    <3> QED BY <1>0, <3>1 DEF PoolInv, TypeOK
  <2>4. NextIndex \in 0..NumThreads - 1
    BY <1>0, <2>3 DEF NextIndex, TypeOK
  <2> QED BY <1>4, <2>1, <2>2, <2>4 DEF StartTimer, TypeOK
<1>5. CASE StopInLoop
  <2>1. batch' \in Seq(BaseOps)
    BY <1>5, TakesFacts DEF StopInLoop, TypeOK
  <2>2. basePc' = [at |-> "next"] /\ backlog' = 0 /\ listening' = FALSE
    BY <1>5 DEF StopInLoop
  <2>3. UNCHANGED <<baseQueue, started, latch, poolVars, ioVars, connVars, waiting, calls, flags>>
    BY <1>5 DEF StopInLoop
  <2>4. basePc' \in [at : {"next"}] /\ backlog' \in 0..MaxConns
    BY <1>0, <2>2
  <2> QED BY <2>1, <2>2, <2>3, <2>4 DEF TypeOK
<1>6. CASE RemoveConnectionInLoop
  <2>1. batch' \in Seq(BaseOps) /\ Head(batch).c \in Conns
    BY <1>6, TakesFacts, BaseOpFacts DEF RemoveConnectionInLoop, TypeOK
  <2>2. ASSUME NEW c \in Conns
        PROVE  Queued(conn[c].loop, [op |-> "destroyed", c |-> c]) \in [Loops -> Seq(IoOps)]
    <3>1. [op |-> "destroyed", c |-> c] \in IoOps
      BY DEF IoOps
    <3> QED BY <3>1, QueuedType DEF TypeOK
  <2> QED BY <1>6, <2>1, <2>2 DEF RemoveConnectionInLoop, TypeOK
<1>7. CASE NewConnection
  <2>1. /\ Accepts /\ listening
        /\ backlog > 0 /\ backlog' = backlog - 1
    BY <1>7 DEF NewConnection, Accepts
  <2>2. nextSockId \in Conns /\ nextSockId + 1 \in 1..MaxConns + 1
    <3>1. nextSockId \in Nat \ {0} /\ backlog \in Nat /\ calls["connect"] \in Nat
      BY <1>num DEF TypeOK
    <3> QED BY <1>num, <2>1, <3>1 DEF PeerInv, Conns
  <2>3. pool /\ basePc.at = "idle" /\ Len(loops_) = NumThreads
    BY <1>0, <2>1 DEF PoolInv
  <2>4. loops_[next_ + 1] \in Loops /\ NextIndex \in 0..NumThreads - 1
    <3>1. next_ \in 0..NumThreads - 1 /\ loops_ \in Seq(Loops)
      BY <1>types DEF PoolType
    <3>2. next_ + 1 \in 1..NumThreads
      BY <1>num, <3>1
    <3>3. loops_[next_ + 1] \in Loops
      BY <2>3, <3>1, <3>2
    <3>4. NextIndex \in 0..NumThreads - 1
      BY <1>num, <2>3, <3>1 DEF NextIndex
    <3> QED BY <3>3, <3>4
  <2>5. ASSUME NEW l PROVE Queued(l, [op |-> "established", c |-> nextSockId]) \in [Loops -> Seq(IoOps)]
    <3>1. [op |-> "established", c |-> nextSockId] \in IoOps
      BY <2>2 DEF IoOps
    <3> QED BY <3>1, QueuedType DEF TypeOK
  <2>6. ioQueue' \in [Loops -> Seq(IoOps)]
    BY <1>7, <2>5 DEF NewConnection
  <2>7. conn' \in [Conns -> ConnType]
    BY <1>0, <1>7, <2>2, <2>4 DEF NewConnection, ConnType
  <2>8. backlog' \in 0..MaxConns
    BY <1>0, <2>1 DEF TypeOK
  <2>9. connections' \subseteq Conns /\ nextSockId' \in 1..MaxConns + 1 /\ next_' \in 0..NumThreads - 1
    BY <1>7, <2>2, <2>4 DEF NewConnection, TypeOK
  <2>10. UNCHANGED <<baseVars, serverVars, pool, loops_, threads_, loop, idleTimers, waiting,
                     calls, flags, ups, downs, halfClosed, connLatch>>
    BY <2>1 DEF Accepts
  <2> QED BY <2>6, <2>7, <2>8, <2>9, <2>10 DEF TypeOK, ConnType
<1>8. CASE RefuseConnection
  BY <1>0, <1>8 DEF RefuseConnection, Accepts, TypeOK
<1>9. CASE CloseNext
  <2>1. connections # {} /\ connections \subseteq Conns
    BY <1>9 DEF CloseNext, TypeOK
  <2>2. Min(connections) \in connections
    <3>1. connections \subseteq Nat
      BY <2>1, <1>0 DEF Conns
    <3> QED BY <2>1, <3>1, MinFacts
  <2>3. PICK c \in Conns : c = Min(connections)
    BY <2>1, <2>2
  <2>4. Queued(conn[c].loop, [op |-> "destroyedWithLatch", c |-> c]) \in [Loops -> Seq(IoOps)]
    <3>1. [op |-> "destroyedWithLatch", c |-> c] \in IoOps
      BY DEF IoOps
    <3> QED BY <3>1, QueuedType DEF TypeOK
  <2>5. basePc' \in [at : {"close"}, c : Conns] /\ ioQueue' \in [Loops -> Seq(IoOps)] /\ connLatch' \in Int
    BY <1>9, <2>3, <2>4 DEF CloseNext, NewLatch
  <2>6. UNCHANGED <<baseQueue, batch, serverVars, poolVars, loop, idleTimers, connections,
                    nextSockId, conn, ups, downs, halfClosed, envVars, flags>>
    BY <1>9 DEF CloseNext
  <2> QED BY <2>5, <2>6 DEF TypeOK
<1>10. CASE Closed
  BY <1>10 DEF Closed, TypeOK
<1>11. ASSUME Stopped, UNCHANGED <<baseQueue, batch, listening, next_, ioQueue, idleTimers, connVars,
                                   envVars, flags, loop>>
       PROVE  TypeOK'
  <2>1. /\ loops_' \in Seq(Loops) /\ threads_' \in Seq(Loops) /\ pool' \in BOOLEAN
        /\ started' \in 0..1 /\ latch' \in Int /\ basePc' = Idle
    <3>1. <<>> \in Seq(Loops)
      OBVIOUS
    <3>2. latch' = latch - 1 /\ latch \in Int
      BY <1>0, <1>11 DEF Stopped
    <3>3. latch' \in Int
      BY <3>2
    <3>4. /\ loops_' = <<>> /\ threads_' = <<>> /\ pool' = FALSE /\ started' = 0 /\ basePc' = Idle
      BY <1>11 DEF Stopped
    <3>5. 0 \in 0..1
      OBVIOUS
    <3> QED BY <3>1, <3>3, <3>4, <3>5
  <2> QED BY <1>11, <2>1 DEF TypeOK
<1>12. CASE ResetPool
  <2>1. CASE pool
    <3>1. /\ loop' = [l \in Loops |-> [loop[l] EXCEPT !.quit = @ \/ l \in Range(loops_)]]
          /\ basePc' = [at |-> "destruct", i |-> 1]
          /\ UNCHANGED <<pool, loops_, threads_, started, latch>>
          /\ UNCHANGED <<baseQueue, batch, listening, next_, ioQueue, idleTimers, connVars, envVars,
                         flags>>
      BY <1>12, <2>1 DEF ResetPool
    <3>2. ASSUME NEW l \in Loops
          PROVE  loop'[l] \in LoopType
      <4>1. (loop[l].quit \/ l \in Range(loops_)) \in BOOLEAN
        BY Zenon
      <4>2. loop'[l] = [loop[l] EXCEPT !.quit = (loop[l].quit \/ l \in Range(loops_))]
        BY <3>1
      <4> QED BY <1>0, <4>1, <4>2 DEF LoopType
    <3>3. loop' \in [Loops -> LoopType]
      BY <3>1, <3>2
    <3>4. basePc' \in [at : {"startLoop", "destruct", "join"}, i : 1..NumThreads]
      BY <1>0, <3>1
    <3> QED BY <3>1, <3>3, <3>4 DEF TypeOK, LoopType
  <2>2. CASE ~pool
    BY <1>11, <1>12, <2>2 DEF ResetPool
  <2> QED BY <2>1, <2>2
<1>13. ASSUME NEW i \in 1..NumThreads, DestructThread(i) PROVE TypeOK'
  <2>1. basePc' = [at |-> "join", i |-> i]
    BY <1>13 DEF DestructThread
  <2>2. basePc' \in [at : {"startLoop", "destruct", "join"}, i : 1..NumThreads]
    BY <2>1
  <2>3. loop' \in [Loops -> LoopType]
    BY <1>0, <1>13, LoopChange DEF DestructThread
  <2> QED BY <1>13, <2>2, <2>3 DEF DestructThread, TypeOK, LoopType
<1>14. ASSUME NEW i \in 1..NumThreads, ThreadDestroyed(i) PROVE TypeOK'
  <2>1. CASE i < Len(threads_)
    <3>1. Len(threads_) <= NumThreads /\ Len(threads_) \in Nat
      <4>1. basePc.at \in {"destruct", "join"}
        BY <1>14 DEF ThreadDestroyed
      <4> QED BY <1>0, <4>1 DEF PoolInv
    <3>2. basePc' \in [at : {"startLoop", "destruct", "join"}, i : 1..NumThreads]
      <4>1. i + 1 \in 1..NumThreads
        BY <1>0, <2>1, <3>1
      <4> QED BY <1>14, <2>1, <4>1 DEF ThreadDestroyed
    <3> QED BY <1>14, <2>1, <3>2 DEF ThreadDestroyed, TypeOK
  <2>2. CASE ~(i < Len(threads_))
    BY <1>11, <1>14, <2>2 DEF ThreadDestroyed
  <2> QED BY <2>1, <2>2
<1>15. ASSUME NEW l \in Loops, ThreadInit(l) PROVE TypeOK'
  <2>1. [op |-> "startTimer"] \in BaseOps
    BY DEF BaseOps
  <2>2. baseQueue' \in Seq(BaseOps)
    BY <1>15, <2>1 DEF ThreadInit, TypeOK
  <2>3. loop' \in [Loops -> LoopType]
    BY <1>0, <1>15, LoopChange DEF ThreadInit
  <2> QED BY <1>15, <2>2, <2>3 DEF ThreadInit, TypeOK, LoopType
<1>16. ASSUME NEW l \in Loops, LoopBegin(l) PROVE TypeOK'
  BY <1>16 DEF LoopBegin, TypeOK
<1>17. ASSUME NEW l \in Loops, LoopEnd(l) PROVE TypeOK'
  <2>1. loop' \in [Loops -> LoopType]
    BY <1>0, <1>17, LoopChange DEF LoopEnd
  <2> QED BY <1>17, <2>1 DEF LoopEnd, TypeOK, LoopType
<1>18. ASSUME NEW l \in Loops, ThreadExit(l) PROVE TypeOK'
  <2>1. <<>> \in Seq(IoOps)
    OBVIOUS
  <2>2. loop' \in [Loops -> LoopType] /\ ioQueue' \in [Loops -> Seq(IoOps)]
    BY <1>0, <1>18, <2>1, LoopChange DEF ThreadExit
  <2> QED BY <1>18, <2>2 DEF ThreadExit, TypeOK, LoopType
<1>19. ASSUME NEW l \in Loops, NEW op, Runs(l, op)
       PROVE  /\ ioQueue' \in [Loops -> Seq(IoOps)] /\ Head(ioQueue[l]) \in IoOps
              /\ UNCHANGED <<baseVars, serverVars, poolVars, loop, connections, nextSockId, envVars, flags>>
  BY <1>19 DEF Runs, TypeOK
<1>20. ASSUME NEW l \in Loops, RunEvery(l) PROVE TypeOK'
  <2>1. idleTimers' \in [Loops -> Nat]
    BY <1>0, <1>20 DEF RunEvery
  <2>2. Runs(l, {"runEvery"}) /\ UNCHANGED <<conn, ups, downs, halfClosed, connLatch>>
    BY <1>20 DEF RunEvery
  <2> QED BY <1>19, <2>1, <2>2 DEF TypeOK
<1>21. ASSUME NEW l \in Loops, ConnectEstablished(l) PROVE TypeOK'
  <2>1. PICK c \in Conns : c = Head(ioQueue[l]).c
    BY <1>19, <1>21, IoOpFacts DEF ConnectEstablished, Runs
  <2>2. conn' \in [Conns -> ConnType]
    BY <1>0, <1>21, <2>1, ConnChange DEF ConnectEstablished
  <2>3. ups' \in [Conns -> Nat]
    BY <1>0, <1>21, <2>1 DEF ConnectEstablished
  <2>4. Runs(l, {"established"}) /\ UNCHANGED <<idleTimers, downs, halfClosed, connLatch>>
    BY <1>21 DEF ConnectEstablished
  <2> QED BY <1>19, <2>2, <2>3, <2>4 DEF TypeOK, ConnType
<1>22. ASSUME NEW l \in Loops, ConnectDestroyed(l) PROVE TypeOK'
  <2>1. PICK c \in Conns : c = Head(ioQueue[l]).c
    BY <1>19, <1>22, IoOpFacts DEF ConnectDestroyed, Runs
  <2>2. conn' \in [Conns -> ConnType]
    <3>1. conn[c].state \in {"none", "kConnecting", "kConnected", "kDisconnecting", "kDisconnected"}
      BY <1>0 DEF ConnType
    <3>2. PICK s \in {"none", "kConnecting", "kConnected", "kDisconnecting", "kDisconnected"} :
             s = IF ReportsClose(c) THEN "kDisconnected" ELSE conn[c].state
      BY <3>1
    <3>3. conn' = [conn EXCEPT ![c].registered = FALSE, ![c].state = s]
      BY <1>0, <1>22, <2>1, <3>2 DEF ConnectDestroyed
    <3> QED BY <1>0, <3>3, ConnChange
  <2>3. downs' \in [Conns -> Nat]
    BY <1>0, <1>22, <2>1 DEF ConnectDestroyed
  <2>4. halfClosed' \subseteq Conns /\ connLatch' \in Int
    BY <1>0, <1>22, <2>1 DEF ConnectDestroyed
  <2>5. Runs(l, {"destroyed", "destroyedWithLatch"}) /\ UNCHANGED <<idleTimers, ups>>
    BY <1>22 DEF ConnectDestroyed
  <2> QED BY <1>19, <2>2, <2>3, <2>4, <2>5 DEF TypeOK, ConnType
<1>23. ASSUME NEW c \in Conns, HandleClose(c) PROVE TypeOK'
  <2>1. [op |-> "remove", c |-> c] \in BaseOps
    BY DEF BaseOps
  <2>2. baseQueue' \in Seq(BaseOps)
    BY <1>23, <2>1 DEF HandleClose, TypeOK
  <2>3. conn' \in [Conns -> ConnType]
    BY <1>0, <1>23, ConnChange DEF HandleClose
  <2>4. downs' \in [Conns -> Nat]
    BY <1>0, <1>23 DEF HandleClose
  <2>5. UNCHANGED <<batch, basePc, serverVars, poolVars, ioVars, connections, nextSockId, ups,
                    halfClosed, connLatch, envVars, flags>>
    BY <1>23 DEF HandleClose
  <2> QED BY <2>2, <2>3, <2>4, <2>5 DEF TypeOK, ConnType
<1>24. ASSUME NEW c \in Conns, Shutdown(c) PROVE TypeOK'
  BY <1>24 DEF Shutdown, TypeOK
<1>25. ASSUME NEW op \in {"start", "stop"}, baseQueue' = Append(baseQueue, [op |-> op])
       PROVE  baseQueue' \in Seq(BaseOps)
  <2>1. [op |-> op] \in BaseOps
    BY DEF BaseOps
  <2> QED BY <1>25, <2>1 DEF TypeOK
<1>26. CASE CallStart
  <2>1. baseQueue' \in Seq(BaseOps)
    BY <1>25, <1>26 DEF CallStart
  <2>2. UNCHANGED <<batch, basePc, serverVars>>
    BY <1>26 DEF CallStart
  <2>3. BaseType'
    BY <1>types, <2>1, <2>2 DEF BaseType
  <2>4. EnvType'
    BY <1>types, <1>26 DEF CallStart, EnvType
  <2> QED BY <1>parts, <1>same, <1>26, <2>3, <2>4 DEF CallStart
<1>27. ASSUME NEW u \in Users, CallStop(u) PROVE TypeOK'
  <2>1. baseQueue' \in Seq(BaseOps)
    BY <1>25, <1>27 DEF CallStop
  <2>2. UNCHANGED <<batch, basePc, serverVars>>
    BY <1>27 DEF CallStop
  <2>3. BaseType'
    BY <1>types, <2>1, <2>2 DEF BaseType
  <2>4. EnvType'
    BY <1>types, <1>27 DEF CallStop, EnvType
  <2> QED BY <1>parts, <1>same, <1>27, <2>3, <2>4 DEF CallStop
<1>28. ASSUME NEW u \in Users, ReturnFromStop(u) PROVE TypeOK'
  BY <1>28 DEF ReturnFromStop, TypeOK
<1>29. CASE PeerConnects
  <2>1. backlog + 1 \in 0..MaxConns
    BY <1>0, <1>29 DEF PeerConnects, PeerInv, TypeOK
  <2>2. EnvType'
    BY <1>types, <1>29, <2>1 DEF PeerConnects, EnvType
  <2> QED BY <1>parts, <1>same, <1>29, <2>2 DEF PeerConnects
<1> QED
  BY <1>1, <1>2, <1>3, <1>4, <1>5, <1>6, <1>7, <1>8, <1>9, <1>10, <1>12, <1>13, <1>14, <1>15,
     <1>16, <1>17, <1>18, <1>20, <1>21, <1>22, <1>23, <1>24, <1>26, <1>27, <1>28, <1>29
  DEF Next, BaseStep, IoStep, Env

-----------------------------------------------------------------------------
(* The pool.                                                               *)

\* The steps that leave the pool and the place of the base thread alone.
PoolSame == UNCHANGED <<started, listening, basePc, pool, loops_, threads_>>

\* The steps that change them.
PoolChange ==
    \/ Start /\ started = 0
    \/ \E i \in 1..NumThreads : StartLoop(i) \/ DestructThread(i) \/ ThreadDestroyed(i)
    \/ StartTimer /\ ~pool
    \/ StopInLoop \/ CloseNext \/ Closed \/ ResetPool

LEMMA PoolCases ==
  ASSUME TypeOK, PoolInv, Next
  PROVE  PoolSame \/ PoolChange
<1> USE DEF baseVars, serverVars, poolVars, ioVars, connVars, envVars, flags
<1>1. CASE Start /\ started # 0
  <2>1. started = 1
    BY <1>1 DEF TypeOK
  <2> QED BY <1>1, <2>1 DEF Start, PoolSame
<1>2. CASE StartTimer /\ pool
  BY <1>2 DEF StartTimer, PoolSame
<1>3. CASE DoPendingFunctors \/ RemoveConnectionInLoop \/ NewConnection \/ RefuseConnection
  BY <1>3 DEF DoPendingFunctors, RemoveConnectionInLoop, NewConnection, RefuseConnection, Accepts, PoolSame
<1>4. ASSUME NEW l \in Loops, IoStep(l) PROVE PoolSame
  BY <1>4 DEF IoStep, ThreadInit, LoopBegin, LoopEnd, ThreadExit, RunEvery, ConnectEstablished,
              ConnectDestroyed, Runs, PoolSame
<1>5. ASSUME NEW u \in Users, ReturnFromStop(u) PROVE PoolSame
  BY <1>5 DEF ReturnFromStop, PoolSame
<1>6. CASE Env
  BY <1>6 DEF Env, CallStart, CallStop, HandleClose, Shutdown, PeerConnects, PoolSame
<1> QED
  BY <1>1, <1>2, <1>3, <1>4, <1>5, <1>6 DEF Next, BaseStep, PoolChange

\* next_ moves only when the base thread is between two functors.
LEMMA NextSame ==
  ASSUME TypeOK, Next, basePc.at = "startLoop"
  PROVE  next_' = next_
<1> USE DEF baseVars, serverVars, poolVars, ioVars, connVars, envVars, flags
<1>1. ASSUME NEW l \in Loops, IoStep(l) PROVE next_' = next_
  BY <1>1 DEF IoStep, ThreadInit, LoopBegin, LoopEnd, ThreadExit, RunEvery, ConnectEstablished,
              ConnectDestroyed, Runs
<1>2. CASE Env
  BY <1>2 DEF Env, CallStart, CallStop, HandleClose, Shutdown, PeerConnects
<1>3. basePc # Idle /\ basePc # [at |-> "next"]
  BY DEF Idle
<1>4. CASE BaseStep
  BY <1>3, <1>4 DEF BaseStep, DoPendingFunctors, Start, StartTimer, StopInLoop, RemoveConnectionInLoop,
              NewConnection, RefuseConnection, Accepts, Takes, CloseNext, Closed, ResetPool, StartLoop,
              DestructThread, ThreadDestroyed
<1> QED BY <1>1, <1>2, <1>4 DEF Next, ReturnFromStop

LEMMA PoolStep ==
  ASSUME TypeOK, TypeOK', PoolInv, SpawnInv, CallInv, Next
  PROVE  PoolInv'
<1> USE DEF serverVars, poolVars
<1>0. /\ NumThreads \in Nat \ {0} /\ Idle.at = "idle" /\ Crashed.at = "crashed"
      /\ threads_ \in Seq(Loops) /\ loops_ \in Seq(Loops)
  BY TcpServerConstants DEF Idle, Crashed, TypeOK
<1>1. CASE PoolSame
  <2>1. basePc.at = "startLoop" => next_' = next_
    BY NextSame
  <2> QED BY <1>1, <2>1 DEF PoolSame, PoolInv
<1>2. CASE Start /\ started = 0
  <2>1. /\ pool' = TRUE /\ loops_' = <<>> /\ next_' = 0 /\ Spawn(<<>>) /\ started' = 1
        /\ basePc' = [at |-> "startLoop", i |-> 1] /\ listening' = listening
    BY <1>2 DEF Start
  <2>2. ~listening
    BY <1>2 DEF PoolInv
  <2>3. Len(threads_') = 1 /\ Len(loops_') = 0
    BY <2>1 DEF Spawn
  <2> QED BY <2>1, <2>2, <2>3 DEF PoolInv
<1>3. ASSUME NEW i \in 1..NumThreads, StartLoop(i) PROVE PoolInv'
  <2>1. /\ basePc = [at |-> "startLoop", i |-> i] /\ basePc.at = "startLoop" /\ basePc.i = i
        /\ loops_' = Append(loops_, threads_[i])
        /\ UNCHANGED <<started, pool, next_>>
    BY <1>3 DEF StartLoop
  <2>2. pool /\ Len(threads_) = i /\ Len(loops_) = i - 1 /\ next_ = 0 /\ ~listening
    BY <2>1 DEF PoolInv, Idle
  <2>3. Len(loops_') = i
    <3>1. Len(loops_') = Len(loops_) + 1
      BY <1>0, <2>1
    <3> QED BY <1>0, <2>2, <3>1
  <2>4. CASE i < NumThreads
    <3>1. Spawn(threads_) /\ basePc' = [basePc EXCEPT !.i = i + 1] /\ UNCHANGED listening
      BY <1>3, <2>4 DEF StartLoop
    <3>2. basePc' = [at |-> "startLoop", i |-> i + 1]
      BY <2>1, <3>1
    <3>3. Len(threads_') = i + 1
      BY <1>0, <2>2, <3>1 DEF Spawn
    <3>4. basePc'.at = "startLoop" /\ basePc'.i = i + 1 /\ (i + 1) - 1 = i
      BY <3>2
    <3> QED BY <2>1, <2>2, <2>3, <3>1, <3>3, <3>4 DEF PoolInv
  <2>5. CASE ~(i < NumThreads)
    <3>1. basePc' = Idle /\ threads_' = threads_ /\ i = NumThreads
      BY <1>0, <1>3, <2>5 DEF StartLoop
    <3> QED BY <1>0, <2>1, <2>2, <2>3, <3>1 DEF PoolInv
  <2> QED BY <2>4, <2>5
<1>4. CASE StartTimer /\ ~pool
  <2>1. basePc' = Crashed /\ UNCHANGED <<serverVars, pool, loops_, threads_>>
    BY <1>4 DEF StartTimer
  <2>2. ~listening
    BY <1>4 DEF PoolInv
  <2> QED BY <1>0, <1>4, <2>1, <2>2 DEF PoolInv
<1>5. CASE StopInLoop
  <2>1. basePc' = [at |-> "next"] /\ listening' = FALSE /\ UNCHANGED <<started, poolVars>> /\ basePc = Idle
    BY <1>5 DEF StopInLoop, Takes
  <2> QED BY <1>0, <2>1 DEF PoolInv
<1>6. CASE CloseNext \/ Closed
  <2>1. basePc.at \in {"next", "close"} /\ basePc'.at \in {"next", "close"} /\ UNCHANGED <<serverVars, poolVars>>
    BY <1>6 DEF CloseNext, Closed
  <2>2. ~listening
    BY <1>0, <2>1 DEF PoolInv
  <2> QED BY <2>1, <2>2 DEF PoolInv
<1>7. ASSUME Stopped, UNCHANGED listening, basePc # Idle PROVE PoolInv'
  <2>1. ~listening
    BY <1>7 DEF PoolInv
  <2>2. pool' = FALSE /\ loops_' = <<>> /\ threads_' = <<>> /\ started' = 0 /\ basePc' = Idle
    BY <1>7 DEF Stopped
  <2> QED BY <1>0, <1>7, <2>1, <2>2 DEF PoolInv
<1>8. CASE ResetPool
  <2>1. basePc = [at |-> "next"] /\ basePc # Idle /\ UNCHANGED listening
    BY <1>8 DEF ResetPool, Idle
  <2>2. CASE pool
    <3>1. basePc' = [at |-> "destruct", i |-> 1] /\ UNCHANGED <<pool, loops_, threads_, started>>
      BY <1>8, <2>2 DEF ResetPool
    <3>2. basePc'.at = "destruct" /\ basePc.at = "next"
      BY <2>1, <3>1
    <3> QED BY <2>1, <2>2, <3>1, <3>2 DEF PoolInv
  <2>3. CASE ~pool
    BY <1>7, <1>8, <2>1, <2>3 DEF ResetPool
  <2> QED BY <2>2, <2>3
<1>9. ASSUME NEW i \in 1..NumThreads, DestructThread(i) PROVE PoolInv'
  <2>1. basePc.at = "destruct" /\ basePc'.at = "join" /\ UNCHANGED <<serverVars, poolVars>>
    BY <1>9 DEF DestructThread
  <2> QED BY <1>0, <2>1 DEF PoolInv
<1>10. ASSUME NEW i \in 1..NumThreads, ThreadDestroyed(i) PROVE PoolInv'
  <2>1. basePc.at \in {"destruct", "join"} /\ UNCHANGED listening
    BY <1>10 DEF ThreadDestroyed
  <2>2. CASE i < Len(threads_)
    <3>1. basePc'.at = "destruct" /\ UNCHANGED <<pool, loops_, threads_, started>>
      BY <1>10, <2>2 DEF ThreadDestroyed
    <3> QED BY <1>0, <2>1, <3>1 DEF PoolInv
  <2>3. CASE ~(i < Len(threads_))
    BY <1>0, <1>7, <1>10, <2>1, <2>3 DEF ThreadDestroyed
  <2> QED BY <2>2, <2>3
<1> QED
  BY <1>1, <1>2, <1>3, <1>4, <1>5, <1>6, <1>8, <1>9, <1>10, PoolCases DEF PoolChange

-----------------------------------------------------------------------------
(* The io threads.                                                         *)

\* The only ways in which the life of a loop goes on.
LoopMoves ==
    \A l \in Loops :
        \/ loop'[l] = loop[l]
        \/ ThreadInit(l) /\ loop[l].at = "init" /\ loop'[l] = [loop[l] EXCEPT !.at = "published"]
        \/ loop[l].at = "published" /\ loop'[l] = [at |-> "looping", quit |-> FALSE]
        \/ loop[l].at = "looping" /\ loop[l].quit /\ loop'[l] = [loop[l] EXCEPT !.at = "left"]
        \/ loop[l].at = "left" /\ loop'[l] = [loop[l] EXCEPT !.at = "gone"]

LEMMA IoThreadSteps ==
  ASSUME TypeOK, NEW l \in Loops, IoStep(l)
  PROVE  LoopMoves
<1> USE DEF ioVars
<1>0. loop \in [Loops -> LoopType]
  BY DEF TypeOK, LoopType
<1>1. CASE ThreadInit(l)
  BY <1>0, <1>1 DEF ThreadInit, LoopMoves
<1>2. CASE LoopBegin(l)
  BY <1>0, <1>2 DEF LoopBegin, LoopMoves
<1>3. CASE LoopEnd(l)
  BY <1>0, <1>3 DEF LoopEnd, LoopMoves
<1>4. CASE ThreadExit(l)
  BY <1>0, <1>4 DEF ThreadExit, LoopMoves
<1>5. CASE RunEvery(l) \/ ConnectEstablished(l) \/ ConnectDestroyed(l)
  BY <1>5 DEF RunEvery, ConnectEstablished, ConnectDestroyed, Runs, LoopMoves
<1> QED BY <1>1, <1>2, <1>3, <1>4, <1>5 DEF IoStep

\* The steps that leave the pool alone change a loop as its thread does.
LEMMA LoopsOfPoolSame ==
  ASSUME TypeOK, Next, PoolSame
  PROVE  LoopMoves
<1> USE DEF baseVars, serverVars, poolVars, ioVars, connVars, envVars, flags
<1>1. CASE loop' = loop
  BY <1>1 DEF LoopMoves
<1>2. CASE \E l \in Loops : IoStep(l)
  BY <1>2, IoThreadSteps
<1>3. CASE Env \/ \E u \in Users : ReturnFromStop(u)
  BY <1>1, <1>3 DEF Env, CallStart, CallStop, HandleClose, Shutdown, PeerConnects, ReturnFromStop
<1>4. CASE DoPendingFunctors \/ StartTimer \/ RemoveConnectionInLoop \/ NewConnection \/ RefuseConnection
            \/ StopInLoop \/ CloseNext \/ Closed
  BY <1>1, <1>4 DEF DoPendingFunctors, StartTimer, RemoveConnectionInLoop, NewConnection,
                    RefuseConnection, Accepts, StopInLoop, CloseNext, Closed
<1>5. CASE Start
  <2>1. CASE started = 0
    <3>1. started' = 1
      BY <1>5 DEF Start
    <3> QED BY <2>1, <3>1 DEF PoolSame
  <2>2. CASE started # 0
    BY <1>1, <1>5, <2>2 DEF Start
  <2> QED BY <2>1, <2>2
<1>6. CASE ResetPool
  <2>1. basePc = [at |-> "next"] /\ basePc' = basePc
    BY <1>6 DEF ResetPool, PoolSame
  <2>2. basePc'.at # "next"
    BY <1>6 DEF ResetPool, Stopped, Idle
  <2> QED BY <2>1, <2>2
<1>7. ASSUME NEW i \in 1..NumThreads, StartLoop(i) \/ DestructThread(i) \/ ThreadDestroyed(i)
      PROVE  LoopMoves
  <2>1. CASE StartLoop(i)
    <3>1. loops_' = Append(loops_, threads_[i]) /\ loops_' = loops_
      BY <2>1 DEF StartLoop, PoolSame
    <3>2. loops_ \in Seq(Loops)
      BY DEF TypeOK
    <3>3. Len(Append(loops_, threads_[i])) = Len(loops_) + 1 /\ Len(loops_) \in Nat
      BY <3>2
    <3> QED BY <3>1, <3>3
  <2>2. CASE DestructThread(i)
    <3>1. basePc = [at |-> "destruct", i |-> i] /\ basePc' = basePc /\ basePc' = [basePc EXCEPT !.at = "join"]
      BY <2>2 DEF DestructThread, PoolSame
    <3>2. basePc'.at = "join" /\ basePc.at = "destruct"
      BY <3>1
    <3> QED BY <3>1, <3>2
  <2>3. CASE ThreadDestroyed(i)
    BY <1>1, <2>3 DEF ThreadDestroyed
  <2> QED BY <1>7, <2>1, <2>2, <2>3
<1> QED BY <1>2, <1>3, <1>4, <1>5, <1>6, <1>7 DEF Next, BaseStep

LEMMA LoopInvStep ==
  ASSUME TypeOK, TypeOK', PoolInv, LoopInv, SpawnInv, CallInv, Next
  PROVE  LoopInv'
<1> USE DEF serverVars, poolVars, ioVars
<1>0. /\ NumThreads \in Nat \ {0} /\ Idle.at = "idle" /\ Crashed.at = "crashed"
      /\ threads_ \in Seq(Loops) /\ loops_ \in Seq(Loops)
      /\ loop \in [Loops -> LoopType] /\ loop' \in [Loops -> LoopType]
      /\ \A i \in DOMAIN threads_ : threads_[i] \in Loops
      /\ \A i \in DOMAIN loops_ : loops_[i] \in Loops
  <2>1. /\ threads_ \in Seq(Loops) /\ loops_ \in Seq(Loops)
        /\ loop \in [Loops -> LoopType] /\ loop' \in [Loops -> LoopType]
    BY DEF TypeOK, LoopType
  <2>2. NumThreads \in Nat \ {0} /\ Idle.at = "idle" /\ Crashed.at = "crashed"
    BY TcpServerConstants DEF Idle, Crashed
  <2> QED BY <2>1, <2>2
<1>1. CASE PoolSame
  <2>1. UNCHANGED <<threads_, loops_, Kept>>
    BY <1>1 DEF PoolSame, Kept
  <2>2. ASSUME NEW l \in Loops
        PROVE  /\ loop'[l].at = "none" => ~loop'[l].quit
               /\ loop[l].at # "none" => loop'[l].at # "none"
               /\ loop[l].at \notin {"none", "init"} => loop'[l].at \notin {"none", "init"}
               /\ ~loop[l].quit /\ loop[l].at \in {"init", "published", "looping"} =>
                     ~loop'[l].quit /\ loop'[l].at \in {"init", "published", "looping"}
    <3>1. loop[l] \in LoopType
      BY <1>0
    <3>2. LoopMoves /\ (loop[l].at = "none" => ~loop[l].quit)
      BY <1>1, LoopsOfPoolSame DEF LoopInv
    <3>3. ASSUME NEW a \in {"init", "published", "left", "gone"}, loop'[l] = [loop[l] EXCEPT !.at = a]
          PROVE  loop'[l].at = a /\ loop'[l].quit = loop[l].quit
      BY <3>1, <3>3 DEF LoopType
    <3>4. ASSUME loop'[l] = [at |-> "looping", quit |-> FALSE]
          PROVE  loop'[l].at = "looping" /\ ~loop'[l].quit
      BY <3>4
    <3> QED BY <3>2, <3>3, <3>4 DEF LoopMoves
  <2> QED BY <1>0, <2>1, <2>2 DEF LoopInv
<1>2. ASSUME NEW n \in Nat, n + 1 \in Loops, loop[n + 1].at = "none",
             loop' = [loop EXCEPT ![n + 1].at = "init"]
      PROVE  /\ ~loop'[n + 1].quit /\ loop'[n + 1].at = "init"
             /\ \A l \in Loops : l # n + 1 => loop'[l] = loop[l]
             /\ \A l \in Loops : loop'[l].at = "none" => ~loop'[l].quit
  <2>1. loop'[n + 1].quit = loop[n + 1].quit /\ loop'[n + 1].at = "init"
    BY <1>0, <1>2 DEF LoopType
  <2>2. \A l \in Loops : l # n + 1 => loop'[l] = loop[l]
    BY <1>0, <1>2
  <2> QED BY <1>2, <2>1, <2>2 DEF LoopInv
<1>3. CASE Start /\ started = 0
  <2>1. loops_' = <<>> /\ Spawn(<<>>) /\ Takes("start")
    BY <1>3 DEF Start
  <2>2. ToSpawn = 0 /\ Count(batch, "start") > 0
    <3>1. basePc.at = "idle" /\ batch' \in Seq(BaseOps) /\ Count(batch, "start") = Count(batch', "start") + 1
      BY <2>1, TakesFacts DEF TypeOK
    <3>2. Count(batch', "start") \in Nat
      BY <3>1, CountType
    <3> QED BY <3>1, <3>2 DEF ToSpawn
  <2>3. PICK n \in Nat : Spawned = 1..n /\ n + 1 \in Loops
    BY <2>2, SpawnRoom
  <2>4. <<>> \in Seq(Loops)
    OBVIOUS
  <2>5. /\ threads_' = Append(<<>>, n + 1) /\ loop[n + 1].at = "none"
        /\ loop' = [loop EXCEPT ![n + 1].at = "init"]
    BY <1>0, <2>1, <2>3, <2>4, SpawnFacts
  <2>6. DOMAIN threads_' = {1} /\ threads_'[1] = n + 1
    BY <2>5
  <2>7. DOMAIN loops_' = {}
    BY <2>1
  <2>8. /\ ~loop'[n + 1].quit /\ loop'[n + 1].at = "init"
        /\ \A l \in Loops : loop'[l].at = "none" => ~loop'[l].quit
    BY <1>2, <2>3, <2>5
  <2> QED BY <2>6, <2>7, <2>8 DEF LoopInv
<1>4. ASSUME NEW i \in 1..NumThreads, StartLoop(i) PROVE LoopInv'
  <2>1. /\ basePc = [at |-> "startLoop", i |-> i] /\ basePc.at = "startLoop" /\ basePc.i = i
        /\ loops_' = Append(loops_, threads_[i])
        /\ loop[threads_[i]].at \in {"published", "looping"}
    BY <1>4 DEF StartLoop
  <2>2. Len(threads_) = i /\ Len(loops_) = i - 1
    BY <2>1 DEF PoolInv
  <2>3. Kept
    BY <2>1 DEF Kept
  <2>4. /\ i \in DOMAIN threads_ /\ threads_[i] \in Loops
        /\ DOMAIN loops_' = DOMAIN loops_ \cup {i} /\ loops_'[i] = threads_[i]
        /\ \A j \in DOMAIN loops_ : loops_'[j] = loops_[j]
    BY <1>0, <2>1, <2>2
  <2>5. CASE i < NumThreads
    <3>1. Spawn(threads_)
      BY <1>4, <2>5 DEF StartLoop
    <3>2. ToSpawn > 0
      BY <1>0, <2>1, <2>5 DEF ToSpawn
    <3>3. PICK n \in Nat : Spawned = 1..n /\ n + 1 \in Loops
      BY <3>2, SpawnRoom
    <3>4. /\ threads_' = Append(threads_, n + 1) /\ loop[n + 1].at = "none"
          /\ loop' = [loop EXCEPT ![n + 1].at = "init"]
      BY <1>0, <3>1, <3>3, SpawnFacts
    <3>5. /\ DOMAIN threads_' = DOMAIN threads_ \cup {i + 1} /\ threads_'[i + 1] = n + 1
          /\ \A j \in DOMAIN threads_ : threads_'[j] = threads_[j]
      BY <1>0, <2>2, <3>3, <3>4
    <3>6. \A j \in DOMAIN threads_ : threads_[j] # n + 1
      BY <3>4 DEF LoopInv
    <3>7. /\ ~loop'[n + 1].quit /\ loop'[n + 1].at = "init"
          /\ \A l \in Loops : l # n + 1 => loop'[l] = loop[l]
          /\ \A l \in Loops : loop'[l].at = "none" => ~loop'[l].quit
      BY <1>2, <3>3, <3>4
    <3>8. \A j \in DOMAIN threads_ : threads_'[j] = threads_[j] /\ loop'[threads_[j]] = loop[threads_[j]]
      BY <1>0, <3>5, <3>6, <3>7
    <3>9. \A j \in DOMAIN loops_' : j \in DOMAIN threads_ /\ loops_'[j] = threads_[j]
      BY <2>4 DEF LoopInv
    <3>10. \A j \in DOMAIN loops_' : loop[threads_[j]].at # "init"
      BY <2>1, <2>4 DEF LoopInv
    <3> QED BY <2>3, <3>5, <3>7, <3>8, <3>9, <3>10 DEF LoopInv
  <2>6. CASE ~(i < NumThreads)
    <3>1. UNCHANGED <<threads_, loop>>
      BY <1>4, <2>6 DEF StartLoop
    <3> QED BY <2>1, <2>3, <2>4, <3>1 DEF LoopInv
  <2> QED BY <2>5, <2>6
<1>5. CASE \/ StartTimer /\ ~pool
           \/ StopInLoop \/ CloseNext \/ Closed
  <2>1. UNCHANGED <<threads_, loops_, loop>> /\ basePc.at \in {"idle", "next", "close"}
    BY <1>0, <1>5 DEF StartTimer, StopInLoop, CloseNext, Closed, Takes
  <2>2. Kept
    BY <2>1 DEF Kept
  <2> QED BY <2>1, <2>2 DEF LoopInv
<1>6. ASSUME Stopped, UNCHANGED loop PROVE LoopInv'
  <2>1. DOMAIN loops_' = {} /\ DOMAIN threads_' = {}
    BY <1>6 DEF Stopped
  <2> QED BY <1>6, <2>1 DEF LoopInv
<1>7. CASE ResetPool
  <2>1. CASE pool
    <3>1. /\ basePc' = [at |-> "destruct", i |-> 1] /\ UNCHANGED <<loops_, threads_>>
          /\ loop' = [l \in Loops |-> [loop[l] EXCEPT !.quit = @ \/ l \in Range(loops_)]]
      BY <1>7, <2>1 DEF ResetPool
    <3>2. ~Kept'
      BY <3>1 DEF Kept
    <3>3. ASSUME NEW l \in Loops
          PROVE  loop'[l].at = loop[l].at /\ (loop[l].at = "none" => loop'[l].quit = loop[l].quit)
      <4>1. loop'[l] = [loop[l] EXCEPT !.quit = @ \/ l \in Range(loops_)] /\ loop[l] \in LoopType
        BY <1>0, <3>1
      <4>2. loop'[l].at = loop[l].at
        BY <4>1 DEF LoopType
      <4>3. CASE loop[l].at = "none"
        <5>1. l \notin Range(loops_)
          BY <4>3 DEF LoopInv, Range
        <5>2. loop'[l] = loop[l]
          <6>1. loop[l].quit \in BOOLEAN
            BY <4>1 DEF LoopType
          <6>2. (loop[l].quit \/ l \in Range(loops_)) = loop[l].quit
            BY <5>1, <6>1
          <6> QED BY <4>1, <6>2 DEF LoopType
        <5> QED BY <5>2
      <4> QED BY <4>2, <4>3
    <3>4. \A l \in Loops : loop'[l].at = "none" => ~loop'[l].quit
      BY <3>3 DEF LoopInv
    <3>5. \A i \in DOMAIN threads_ : loop'[threads_[i]].at = loop[threads_[i]].at
      BY <1>0, <3>3
    <3>6. \A i \in DOMAIN loops_ : loop'[loops_[i]].at = loop[loops_[i]].at
      BY <1>0, <3>3
    <3> QED BY <3>1, <3>2, <3>4, <3>5, <3>6 DEF LoopInv
  <2>2. CASE ~pool
    BY <1>6, <1>7, <2>2 DEF ResetPool
  <2> QED BY <2>1, <2>2
<1>8. ASSUME NEW i \in 1..NumThreads, DestructThread(i) PROVE LoopInv'
  <2>1. /\ basePc.at = "destruct" /\ basePc'.at = "join" /\ UNCHANGED <<loops_, threads_>>
        /\ loop' = [loop EXCEPT ![threads_[i]].quit = TRUE]
    BY <1>8 DEF DestructThread
  <2>2. ~Kept'
    BY <2>1 DEF Kept
  <2>3. i \in DOMAIN threads_
    BY <1>0, <2>1 DEF PoolInv
  <2>4. \A l \in Loops : loop'[l].at = loop[l].at /\ (l # threads_[i] => loop'[l] = loop[l])
    BY <1>0, <2>1 DEF LoopType
  <2> QED BY <1>0, <2>1, <2>2, <2>3, <2>4 DEF LoopInv
<1>9. ASSUME NEW i \in 1..NumThreads, ThreadDestroyed(i) PROVE LoopInv'
  <2>1. basePc.at \in {"destruct", "join"} /\ UNCHANGED loop
    BY <1>9 DEF ThreadDestroyed
  <2>2. CASE i < Len(threads_)
    <3>1. basePc'.at = "destruct" /\ UNCHANGED <<loops_, threads_>>
      BY <1>9, <2>2 DEF ThreadDestroyed
    <3>2. ~Kept'
      BY <3>1 DEF Kept
    <3> QED BY <2>1, <3>1, <3>2 DEF LoopInv
  <2>3. CASE ~(i < Len(threads_))
    BY <1>6, <1>9, <2>1, <2>3 DEF ThreadDestroyed
  <2> QED BY <2>2, <2>3
<1> QED
  BY <1>1, <1>3, <1>4, <1>5, <1>7, <1>8, <1>9, PoolCases DEF PoolChange

-----------------------------------------------------------------------------
(* The functors of the base loop.                                          *)

LEMMA QueueCases ==
  ASSUME TypeOK, Next
  PROVE  \/ DoPendingFunctors
         \/ Start \/ StartTimer \/ StopInLoop \/ RemoveConnectionInLoop
         \/ \E l \in Loops : ThreadInit(l)
         \/ \E c \in Conns : HandleClose(c)
         \/ CallStart
         \/ \E u \in Users : CallStop(u)
         \/ UNCHANGED <<baseQueue, batch>>
<1> USE DEF baseVars, serverVars, poolVars, ioVars, connVars, envVars, flags
<1>1. CASE NewConnection \/ RefuseConnection \/ CloseNext \/ Closed \/ ResetPool
  BY <1>1 DEF NewConnection, RefuseConnection, Accepts, CloseNext, Closed, ResetPool
<1>2. ASSUME NEW i \in 1..NumThreads, StartLoop(i) \/ DestructThread(i) \/ ThreadDestroyed(i)
      PROVE  UNCHANGED <<baseQueue, batch>>
  BY <1>2 DEF StartLoop, DestructThread, ThreadDestroyed
<1>3. ASSUME NEW l \in Loops, LoopBegin(l) \/ LoopEnd(l) \/ ThreadExit(l) \/ RunEvery(l)
                              \/ ConnectEstablished(l) \/ ConnectDestroyed(l)
      PROVE  UNCHANGED <<baseQueue, batch>>
  BY <1>3 DEF LoopBegin, LoopEnd, ThreadExit, RunEvery, ConnectEstablished, ConnectDestroyed, Runs
<1>4. ASSUME NEW u \in Users, ReturnFromStop(u) PROVE UNCHANGED <<baseQueue, batch>>
  BY <1>4 DEF ReturnFromStop
<1>5. ASSUME NEW c \in Conns, Shutdown(c) PROVE UNCHANGED <<baseQueue, batch>>
  BY <1>5 DEF Shutdown
<1>6. CASE PeerConnects
  BY <1>6 DEF PeerConnects
<1> QED BY <1>1, <1>2, <1>3, <1>4, <1>5, <1>6 DEF Next, BaseStep, IoStep, Env

\* A functor is queued in the base loop.
LEMMA CountsAfterAppend ==
  ASSUME TypeOK, NEW f \in BaseOps, baseQueue' = Append(baseQueue, f), batch' = batch, NEW op
  PROVE  /\ Count(baseQueue', op) = IF f.op = op THEN Count(baseQueue, op) + 1 ELSE Count(baseQueue, op)
         /\ Count(batch', op) = Count(batch, op)
BY CountAppend DEF TypeOK

\* The functors of one kind, counted over a step.
LEMMA CountsStep ==
  ASSUME TypeOK, TypeOK', Next, NEW op \in {"start", "startTimer"}
  PROVE  /\ Count(baseQueue, op) \in Nat /\ Count(batch, op) \in Nat
         /\ Count(baseQueue', op) \in Nat /\ Count(batch', op) \in Nat
         /\ \/ /\ DoPendingFunctors
               /\ Count(batch, op) = 0 /\ Count(baseQueue', op) = 0
               /\ Count(batch', op) = Count(baseQueue, op)
            \/ /\ (op = "start" /\ Start) \/ (op = "startTimer" /\ StartTimer)
               /\ Count(baseQueue', op) = Count(baseQueue, op)
               /\ Count(batch, op) = Count(batch', op) + 1
            \/ /\ (op = "start" /\ CallStart) \/ (op = "startTimer" /\ \E l \in Loops : ThreadInit(l))
               /\ Count(baseQueue', op) = Count(baseQueue, op) + 1
               /\ Count(batch', op) = Count(batch, op)
            \/ /\ Count(baseQueue', op) = Count(baseQueue, op)
               /\ Count(batch', op) = Count(batch, op)
<1>0. /\ Count(baseQueue, op) \in Nat /\ Count(batch, op) \in Nat
      /\ Count(baseQueue', op) \in Nat /\ Count(batch', op) \in Nat
  <2>1. baseQueue \in Seq(BaseOps) /\ batch \in Seq(BaseOps)
    BY DEF TypeOK
  <2>2. baseQueue' \in Seq(BaseOps) /\ batch' \in Seq(BaseOps)
    BY DEF TypeOK
  <2>3. Count(baseQueue, op) \in Nat /\ Count(batch, op) \in Nat
    BY <2>1, CountType
  <2> QED BY <2>2, <2>3, CountType
<1> DEFINE Same == Count(baseQueue', op) = Count(baseQueue, op) /\ Count(batch', op) = Count(batch, op)
<1>1. CASE DoPendingFunctors
  <2>1. batch = <<>> /\ basePc = Idle /\ batch' = baseQueue /\ baseQueue' = <<>>
    BY <1>1 DEF DoPendingFunctors
  <2> QED BY <1>0, <1>1, <2>1, CountEmpty
<1>2. ASSUME NEW o \in {"start", "startTimer", "stop", "remove"}, Takes(o), baseQueue' = baseQueue
      PROVE  /\ Count(baseQueue', op) = Count(baseQueue, op)
             /\ Count(batch, op) = IF o = op THEN Count(batch', op) + 1 ELSE Count(batch', op)
  BY <1>2, TakesFacts DEF TypeOK
<1>3. CASE Start
  <2>1. Takes("start") /\ baseQueue' = baseQueue
    BY <1>3 DEF Start
  <2>2. /\ Count(baseQueue', op) = Count(baseQueue, op)
        /\ Count(batch, op) = IF "start" = op THEN Count(batch', op) + 1 ELSE Count(batch', op)
    BY <1>2, <2>1
  <2> QED BY <1>0, <1>3, <2>2
<1>4. CASE StartTimer
  <2>1. Takes("startTimer") /\ baseQueue' = baseQueue
    BY <1>4 DEF StartTimer
  <2>2. /\ Count(baseQueue', op) = Count(baseQueue, op)
        /\ Count(batch, op) = IF "startTimer" = op THEN Count(batch', op) + 1 ELSE Count(batch', op)
    BY <1>2, <2>1
  <2> QED BY <1>0, <1>4, <2>2
<1>5. CASE StopInLoop \/ RemoveConnectionInLoop
  <2>1. Same
    BY <1>2, <1>5 DEF StopInLoop, RemoveConnectionInLoop
  <2> QED BY <1>0, <2>1
<1>6. ASSUME NEW l \in Loops, ThreadInit(l) PROVE
         /\ op = "startTimer" => Count(baseQueue', op) = Count(baseQueue, op) + 1
                                 /\ Count(batch', op) = Count(batch, op)
         /\ op = "start" => Same
  <2>1. [op |-> "startTimer"] \in BaseOps
    BY DEF BaseOps
  <2> QED BY <1>6, <2>1, CountsAfterAppend DEF ThreadInit
<1>7. ASSUME NEW c \in Conns, HandleClose(c) PROVE Same
  <2>1. [op |-> "remove", c |-> c] \in BaseOps
    BY DEF BaseOps
  <2> QED BY <1>7, <2>1, CountsAfterAppend DEF HandleClose
<1>8. CASE CallStart
  <2>1. [op |-> "start"] \in BaseOps
    BY DEF BaseOps
  <2>2. /\ op = "start" => Count(baseQueue', op) = Count(baseQueue, op) + 1
                                 /\ Count(batch', op) = Count(batch, op)
        /\ op = "startTimer" => Same
    BY <1>8, <2>1, CountsAfterAppend DEF CallStart
  <2> QED BY <1>0, <1>8, <2>2
<1>9. ASSUME NEW u \in Users, CallStop(u) PROVE Same
  <2>1. [op |-> "stop"] \in BaseOps
    BY DEF BaseOps
  <2> QED BY <1>9, <2>1, CountsAfterAppend DEF CallStop
<1>10. ASSUME UNCHANGED <<baseQueue, batch>> PROVE Same
  BY <1>10
<1> QED BY <1>0, <1>1, <1>3, <1>4, <1>5, <1>6, <1>7, <1>8, <1>9, <1>10, QueueCases

\* calls["start"] counts the calls of start().
LEMMA StartCalls ==
  ASSUME TypeOK, Next
  PROVE  /\ calls["start"] \in Nat /\ calls'["start"] \in Nat
         /\ \/ CallStart /\ calls'["start"] = calls["start"] + 1
            \/ ~CallStart /\ calls'["start"] = calls["start"]
<1> USE DEF baseVars, serverVars, poolVars, ioVars, connVars, envVars, flags
<1>0. calls \in [{"start", "stop", "connect"} -> Nat]
  BY DEF TypeOK
<1>1. CASE CallStart
  BY <1>0, <1>1 DEF CallStart
<1>2. ASSUME PeerConnects PROVE calls'["start"] = calls["start"]
  BY <1>0, <1>2 DEF PeerConnects
<1>3. ASSUME NEW u \in Users, CallStop(u) PROVE calls'["start"] = calls["start"]
  BY <1>0, <1>3 DEF CallStop
<1>4. ASSUME BaseStep PROVE calls' = calls
  BY <1>4 DEF BaseStep, DoPendingFunctors, Start, StartTimer, StopInLoop, RemoveConnectionInLoop,
              NewConnection, RefuseConnection, Accepts, CloseNext, Closed, ResetPool, StartLoop,
              DestructThread, ThreadDestroyed
<1>5. ASSUME NEW l \in Loops, IoStep(l) PROVE calls' = calls
  BY <1>5 DEF IoStep, ThreadInit, LoopBegin, LoopEnd, ThreadExit, RunEvery, ConnectEstablished,
              ConnectDestroyed, Runs
<1>6. ASSUME NEW u \in Users, ReturnFromStop(u) PROVE calls' = calls
  BY <1>6 DEF ReturnFromStop
<1>7. ASSUME NEW c \in Conns, HandleClose(c) \/ Shutdown(c) PROVE calls' = calls
  BY <1>7 DEF HandleClose, Shutdown
<1>8. CallStart \/ calls'["start"] = calls["start"]
  BY <1>2, <1>3, <1>4, <1>5, <1>6, <1>7 DEF Next, Env
<1>9. calls["start"] \in Nat
  BY <1>0
<1> QED BY <1>1, <1>8, <1>9

LEMMA SpawnStep ==
  ASSUME TypeOK, TypeOK', PoolInv, SpawnInv, CallInv, Next
  PROVE  SpawnInv'
<1> USE DEF serverVars, poolVars, ioVars
<1> DEFINE N == NumThreads
           s == Count(baseQueue, "start") + Count(batch, "start")
           t == Count(baseQueue', "start") + Count(batch', "start")
           k == calls["start"]
           m == calls'["start"]
<1>1. PICK n \in Nat : Spawned = 1..n /\ n + ToSpawn + N * s <= N * k
  BY DEF SpawnInv, Spawned
<1>2. /\ loop \in [Loops -> LoopType] /\ loop' \in [Loops -> LoopType]
      /\ threads_ \in Seq(Loops)
  BY DEF TypeOK, LoopType
<1>num. N \in Nat /\ N > 0
  BY TcpServerConstants
<1>3. /\ Count(baseQueue, "start") \in Nat /\ Count(batch, "start") \in Nat
      /\ Count(baseQueue', "start") \in Nat /\ Count(batch', "start") \in Nat
      /\ t <= s \/ (t = s + 1 /\ CallStart)
  BY CountsStep
<1>4. s \in Nat /\ t \in Nat /\ k \in Nat /\ m \in Nat /\ k <= m /\ (CallStart => m = k + 1)
  BY <1>3, StartCalls
<1>5. ToSpawn \in Int
  BY ToSpawnType
<1> HIDE DEF N, s, t, k, m
<1>6. N * s \in Nat /\ N * t \in Nat /\ N * k \in Nat /\ N * m \in Nat /\ N * k <= N * m
  BY <1>num, <1>4, Products
<1>7. N * t <= N * s \/ (N * t = N * s + N /\ N * m = N * k + N)
  <2>1. CASE t <= s
    BY <1>num, <1>4, <2>1, Products
  <2>2. CASE t = s + 1 /\ CallStart
    <3>1. N * (s + 1) = N * s + N /\ N * (k + 1) = N * k + N
      BY <1>num, <1>4, Products
    <3> QED BY <1>4, <2>2, <3>1
  <2> QED BY <1>3, <2>1, <2>2 DEF s, t
<1>8. \A x \in Int : n + x + N * s <= N * k => n + x + N * t <= N * m
  BY <1>num, <1>6, <1>7
<1>9. ASSUME Spawned' = Spawned, ToSpawn' = ToSpawn \/ (ToSpawn' = 0 /\ ToSpawn >= 0)
      PROVE  SpawnInv'
  <2>1. n + ToSpawn' + N * s <= N * k /\ ToSpawn' \in Int
    BY <1>1, <1>5, <1>6, <1>9
  <2>2. n + ToSpawn' + N * t <= N * m
    BY <1>8, <2>1
  <2> QED BY <1>1, <1>9, <2>2 DEF SpawnInv, Spawned, N, t, m
<1>10. ASSUME loop' = [loop EXCEPT ![n + 1].at = "init"], n + 1 \in Loops,
              ToSpawn' \in Int, (n + 1) + ToSpawn' + N * t <= N * m
       PROVE  SpawnInv'
  <2>1. \A l \in Loops : loop'[l].at # "none" <=> l = n + 1 \/ loop[l].at # "none"
    BY <1>2, <1>10 DEF LoopType
  <2>2. Spawned' = Spawned \cup {n + 1}
    BY <1>10, <2>1 DEF Spawned
  <2>3. Spawned' = 1..(n + 1)
    BY <1>1, <2>2
  <2> QED BY <1>10, <2>3 DEF SpawnInv, Spawned, N, t, m
<1>11. CASE PoolSame
  <2>1. ToSpawn' = ToSpawn
    BY <1>11 DEF PoolSame, ToSpawn
  <2>2. \A l \in Loops : loop'[l].at # "none" <=> loop[l].at # "none"
    <3>1. LoopMoves
      BY <1>11, LoopsOfPoolSame
    <3>2. ASSUME NEW l \in Loops,
                 NEW a \in {"published", "left", "gone"}, loop'[l] = [loop[l] EXCEPT !.at = a]
          PROVE  loop'[l].at # "none"
      BY <1>2, <3>2 DEF LoopType
    <3>3. ASSUME NEW l \in Loops, loop'[l] = [at |-> "looping", quit |-> FALSE]
          PROVE  loop'[l].at # "none"
      BY <3>3
    <3> QED BY <3>1, <3>2, <3>3 DEF LoopMoves
  <2> QED BY <1>9, <2>1, <2>2 DEF Spawned
<1>12. CASE Start /\ started = 0
  <2>1. /\ Takes("start") /\ Spawn(<<>>) /\ baseQueue' = baseQueue
        /\ basePc' = [at |-> "startLoop", i |-> 1]
    BY <1>12 DEF Start
  <2>2. /\ basePc.at = "idle" /\ Count(batch, "start") = Count(batch', "start") + 1
    BY <2>1, TakesFacts DEF TypeOK
  <2>3. ToSpawn = 0 /\ Count(batch, "start") > 0 /\ s = t + 1
    BY <1>3, <2>1, <2>2 DEF ToSpawn, s, t
  <2>4. PICK r \in Nat : Spawned = 1..r /\ r + 1 \in Loops
    BY <2>3, SpawnRoom
  <2>5. r = n
    <3>1. 1..r = 1..n
      BY <1>1, <2>4
    <3> QED BY <3>1
  <2>6. <<>> \in Seq(Loops)
    OBVIOUS
  <2>7. loop' = [loop EXCEPT ![n + 1].at = "init"]
    BY <1>2, <2>1, <2>4, <2>5, <2>6, SpawnFacts
  <2>8. ToSpawn' = N - 1
    BY <2>1 DEF ToSpawn, N
  <2>9. N * s = N * t + N
    BY <1>num, <1>4, <2>3, Products
  <2>10. ToSpawn' \in Int /\ (n + 1) + ToSpawn' + N * t <= N * m
    BY <1>num, <1>1, <1>6, <2>3, <2>8, <2>9
  <2> QED BY <1>10, <2>4, <2>5, <2>7, <2>10
<1>13. ASSUME NEW i \in 1..NumThreads, StartLoop(i) PROVE SpawnInv'
  <2>1. basePc = [at |-> "startLoop", i |-> i] /\ ToSpawn = N - i
    BY <1>13 DEF StartLoop, ToSpawn, N
  <2>num. i \in Nat /\ i <= N
    BY <1>num DEF N
  <2>2. CASE i < NumThreads
    <3>1. Spawn(threads_) /\ basePc' = [basePc EXCEPT !.i = i + 1]
      BY <1>13, <2>2 DEF StartLoop
    <3>2. ToSpawn' = N - (i + 1) /\ ToSpawn > 0
      <4>1. basePc' = [at |-> "startLoop", i |-> i + 1]
        BY <2>1, <3>1
      <4>2. ToSpawn' = N - (i + 1)
        BY <4>1 DEF ToSpawn, N
      <4>3. i < N
        BY <2>2 DEF N
      <4> QED BY <1>num, <2>num, <2>1, <4>2, <4>3
    <3>3. PICK r \in Nat : Spawned = 1..r /\ r + 1 \in Loops
      BY <3>2, SpawnRoom
    <3>4. r = n
      <4>1. 1..r = 1..n
        BY <1>1, <3>3
      <4> QED BY <4>1
    <3>5. loop' = [loop EXCEPT ![n + 1].at = "init"]
      BY <1>2, <3>1, <3>3, <3>4, SpawnFacts
    <3>6. n + ToSpawn + N * t <= N * m
      BY <1>1, <1>5, <1>8
    <3>7. ToSpawn' \in Int /\ (n + 1) + ToSpawn' + N * t <= N * m
      BY <1>num, <1>6, <2>1, <2>num, <3>2, <3>6
    <3> QED BY <1>10, <3>3, <3>4, <3>5, <3>7
  <2>3. CASE ~(i < NumThreads)
    <3>1. loop' = loop /\ basePc' = Idle
      BY <1>13, <2>3 DEF StartLoop
    <3>2. ToSpawn' = 0 /\ ToSpawn >= 0
      BY <1>num, <2>num, <2>1, <3>1 DEF ToSpawn, Idle
    <3>3. Spawned' = Spawned
      BY <3>1 DEF Spawned
    <3> QED BY <1>9, <3>2, <3>3
  <2> QED BY <2>2, <2>3
<1>14. CASE \/ StartTimer /\ ~pool
            \/ StopInLoop \/ CloseNext \/ Closed \/ ResetPool
            \/ \E i \in 1..NumThreads : DestructThread(i) \/ ThreadDestroyed(i)
  <2>1. basePc.at # "startLoop" /\ basePc'.at # "startLoop"
    <3>1. CASE (StartTimer /\ ~pool) \/ StopInLoop \/ CloseNext \/ Closed
      BY <3>1 DEF StartTimer, StopInLoop, CloseNext, Closed, Takes, Idle, Crashed
    <3>2. CASE ResetPool
      BY <3>2 DEF ResetPool, Stopped, Idle
    <3>3. ASSUME NEW i \in 1..NumThreads, DestructThread(i)
          PROVE  basePc.at # "startLoop" /\ basePc'.at # "startLoop"
      BY <3>3 DEF DestructThread
    <3>4. ASSUME NEW i \in 1..NumThreads, ThreadDestroyed(i)
          PROVE  basePc.at # "startLoop" /\ basePc'.at # "startLoop"
      BY <3>4 DEF ThreadDestroyed, Stopped, Idle
    <3> QED BY <1>14, <3>1, <3>2, <3>3, <3>4
  <2>2. \A l \in Loops : loop'[l].at = loop[l].at
    <3>1. CASE ResetPool
      <4>1. CASE pool
        <5>1. loop' = [l \in Loops |-> [loop[l] EXCEPT !.quit = @ \/ l \in Range(loops_)]]
          BY <3>1, <4>1 DEF ResetPool
        <5> QED BY <1>2, <5>1 DEF LoopType
      <4>2. CASE ~pool
        BY <3>1, <4>2 DEF ResetPool
      <4> QED BY <4>1, <4>2
    <3>2. ASSUME NEW i \in 1..NumThreads, DestructThread(i) PROVE \A l \in Loops : loop'[l].at = loop[l].at
      BY <1>2, <3>2 DEF DestructThread, LoopType
    <3>3. CASE \/ StartTimer \/ StopInLoop \/ CloseNext \/ Closed
               \/ \E i \in 1..NumThreads : ThreadDestroyed(i)
      BY <3>3 DEF StartTimer, StopInLoop, CloseNext, Closed, ThreadDestroyed
    <3> QED BY <1>14, <3>1, <3>2, <3>3
  <2>3. Spawned' = Spawned
    BY <2>2 DEF Spawned
  <2> QED BY <1>9, <2>1, <2>3 DEF ToSpawn
<1> QED BY <1>11, <1>12, <1>13, <1>14, PoolCases DEF PoolChange

LEMMA CallStep ==
  ASSUME TypeOK, CallInv, Next
  PROVE  CallInv'
<1>1. CallStart => calls["start"] < MaxStarts
  BY DEF CallStart
<1>2. MaxStarts \in Nat
  BY TcpServerConstants
<1> QED BY <1>1, <1>2, StartCalls DEF CallInv

-----------------------------------------------------------------------------
(* Connections.                                                            *)

\* The steps that concern connections.
LEMMA ConnCases ==
  ASSUME TypeOK, Next
  PROVE  \/ NewConnection \/ RemoveConnectionInLoop \/ CloseNext \/ Closed
         \/ \E l \in Loops : ConnectEstablished(l) \/ ConnectDestroyed(l)
         \/ \E c \in Conns : HandleClose(c) \/ Shutdown(c)
         \/ UNCHANGED connVars
<1> USE DEF connVars
<1>1. CASE DoPendingFunctors \/ Start \/ StartTimer \/ StopInLoop \/ RefuseConnection \/ ResetPool
  BY <1>1 DEF DoPendingFunctors, Start, StartTimer, StopInLoop, RefuseConnection, Accepts, ResetPool
<1>2. ASSUME NEW i \in 1..NumThreads, StartLoop(i) \/ DestructThread(i) \/ ThreadDestroyed(i)
      PROVE  UNCHANGED connVars
  BY <1>2 DEF StartLoop, DestructThread, ThreadDestroyed
<1>3. ASSUME NEW l \in Loops, ThreadInit(l) \/ LoopBegin(l) \/ LoopEnd(l) \/ ThreadExit(l) \/ RunEvery(l)
      PROVE  UNCHANGED connVars
  BY <1>3 DEF ThreadInit, LoopBegin, LoopEnd, ThreadExit, RunEvery, Runs
<1>4. ASSUME NEW u \in Users, ReturnFromStop(u) \/ CallStop(u) PROVE UNCHANGED connVars
  BY <1>4 DEF ReturnFromStop, CallStop
<1>5. CASE CallStart \/ PeerConnects
  BY <1>5 DEF CallStart, PeerConnects
<1> QED BY <1>1, <1>2, <1>3, <1>4, <1>5 DEF Next, BaseStep, IoStep, Env

\* The steps of peers, and of the Acceptor that meets them.
LEMMA BacklogCases ==
  ASSUME TypeOK, Next
  PROVE  \/ NewConnection \/ RefuseConnection \/ StopInLoop \/ PeerConnects
         \/ UNCHANGED <<nextSockId, backlog>> /\ calls'["connect"] = calls["connect"]
<1> USE DEF baseVars, serverVars, poolVars, ioVars, connVars, envVars, flags
<1>0. calls \in [{"start", "stop", "connect"} -> Nat]
  BY DEF TypeOK
<1>1. CASE DoPendingFunctors \/ Start \/ StartTimer \/ RemoveConnectionInLoop \/ CloseNext \/ Closed \/ ResetPool
  BY <1>1 DEF DoPendingFunctors, Start, StartTimer, RemoveConnectionInLoop, CloseNext, Closed, ResetPool
<1>2. ASSUME NEW i \in 1..NumThreads, StartLoop(i) \/ DestructThread(i) \/ ThreadDestroyed(i)
      PROVE  UNCHANGED <<nextSockId, backlog, calls>>
  BY <1>2 DEF StartLoop, DestructThread, ThreadDestroyed
<1>3. ASSUME NEW l \in Loops, IoStep(l) PROVE UNCHANGED <<nextSockId, backlog, calls>>
  BY <1>3 DEF IoStep, ThreadInit, LoopBegin, LoopEnd, ThreadExit, RunEvery, ConnectEstablished,
              ConnectDestroyed, Runs
<1>4. ASSUME NEW u \in Users, ReturnFromStop(u) PROVE UNCHANGED <<nextSockId, backlog, calls>>
  BY <1>4 DEF ReturnFromStop
<1>5. ASSUME NEW u \in Users, CallStop(u)
      PROVE  UNCHANGED <<nextSockId, backlog>> /\ calls'["connect"] = calls["connect"]
  BY <1>0, <1>5 DEF CallStop
<1>6. CASE CallStart
  BY <1>0, <1>6 DEF CallStart
<1>7. ASSUME NEW c \in Conns, HandleClose(c) \/ Shutdown(c) PROVE UNCHANGED <<nextSockId, backlog, calls>>
  BY <1>7 DEF HandleClose, Shutdown
<1> QED BY <1>1, <1>2, <1>3, <1>4, <1>5, <1>6, <1>7 DEF Next, BaseStep, Env

LEMMA PeerStep ==
  ASSUME TypeOK, PeerInv, Next
  PROVE  PeerInv'
<1> USE DEF baseVars, serverVars, poolVars, ioVars, connVars, envVars, flags
<1>1. /\ nextSockId \in Int /\ backlog \in Int /\ calls["connect"] \in Nat /\ MaxConns \in Nat
      /\ 1 <= nextSockId /\ 0 <= backlog
  BY TcpServerConstants DEF TypeOK
<1>2. CASE NewConnection
  <2>1. nextSockId' = nextSockId + 1 /\ backlog' = backlog - 1 /\ calls' = calls
    BY <1>2 DEF NewConnection, Accepts
  <2> QED BY <1>1, <2>1 DEF PeerInv
<1>3. CASE RefuseConnection
  <2>1. nextSockId' = nextSockId /\ backlog' = backlog - 1 /\ calls' = calls
    BY <1>3 DEF RefuseConnection, Accepts
  <2> QED BY <1>1, <2>1 DEF PeerInv
<1>4. CASE StopInLoop
  <2>1. nextSockId' = nextSockId /\ backlog' = 0 /\ calls' = calls
    BY <1>4 DEF StopInLoop
  <2> QED BY <1>1, <2>1 DEF PeerInv
<1>5. CASE PeerConnects
  <2>1. calls \in [{"start", "stop", "connect"} -> Nat]
    BY DEF TypeOK
  <2>2. /\ nextSockId' = nextSockId /\ backlog' = backlog + 1 /\ calls["connect"] < MaxConns
        /\ calls'["connect"] = calls["connect"] + 1
    BY <1>5, <2>1 DEF PeerConnects
  <2> QED BY <1>1, <2>2 DEF PeerInv
<1> QED BY <1>2, <1>3, <1>4, <1>5, BacklogCases DEF PeerInv

\* The functor that Runs takes out of a queue.
LEMMA RunsFacts ==
  ASSUME TypeOK, NEW l \in Loops, NEW ops, Runs(l, ops)
  PROVE  LET f == Head(ioQueue[l])
         IN  /\ f \in IoOps /\ f.op \in ops /\ f = ioQueue[l][1] /\ 1 \in DOMAIN ioQueue[l]
             /\ \A i \in DOMAIN ioQueue'[l] :
                   /\ i \in Nat /\ i # 0 /\ i + 1 \in DOMAIN ioQueue[l]
                   /\ ioQueue'[l][i] = ioQueue[l][i + 1]
             /\ \A i \in DOMAIN ioQueue[l] :
                   i # 1 => i - 1 \in DOMAIN ioQueue'[l] /\ ioQueue'[l][i - 1] = ioQueue[l][i]
             /\ \A k \in Loops : k # l => ioQueue'[k] = ioQueue[k]
<1>1. /\ ioQueue[l] # <<>> /\ Head(ioQueue[l]).op \in ops
      /\ ioQueue' = [ioQueue EXCEPT ![l] = Tail(@)]
  BY DEF Runs
<1>2. ioQueue \in [Loops -> Seq(IoOps)]
  BY DEF TypeOK
<1>3. PICK q \in Seq(IoOps) : q = ioQueue[l]
  BY <1>2
<1>4. q # <<>> /\ ioQueue'[l] = Tail(q) /\ \A k \in Loops : k # l => ioQueue'[k] = ioQueue[k]
  BY <1>1, <1>2, <1>3
<1>5. /\ Head(q) \in IoOps /\ Head(q) = q[1] /\ 1 \in DOMAIN q
      /\ \A i \in DOMAIN Tail(q) : i \in Nat /\ i # 0 /\ i + 1 \in DOMAIN q /\ Tail(q)[i] = q[i + 1]
      /\ \A i \in DOMAIN q : i # 1 => i - 1 \in DOMAIN Tail(q) /\ Tail(q)[i - 1] = q[i]
  BY <1>4
<1> QED BY <1>1, <1>3, <1>4, <1>5

\* What a step may do to a connection.
Stays(c) == conn'[c] = conn[c] /\ ups'[c] = ups[c] /\ downs'[c] = downs[c]
Appears(c) ==
    /\ c = nextSockId /\ NewConnection
    /\ conn'[c].state = "kConnecting" /\ conn'[c].loop = loops_[next_ + 1]
    /\ ups'[c] = ups[c] /\ downs'[c] = downs[c]
GoesUp(c) ==
    /\ conn[c].state = "kConnecting" /\ conn'[c].state = "kConnected" /\ conn'[c].registered
    /\ conn'[c].loop = conn[c].loop
    /\ ups'[c] = ups[c] + 1 /\ downs'[c] = downs[c]
GoesDown(c) ==
    /\ conn[c].state \in {"kConnected", "kDisconnecting"} /\ conn'[c].state = "kDisconnected"
    /\ conn'[c].loop = conn[c].loop
    /\ ups'[c] = ups[c] /\ downs'[c] = downs[c] + 1
LosesChannel(c) ==
    /\ conn[c].state \in {"kDisconnecting", "kDisconnected"}
    /\ conn'[c].state = conn[c].state /\ ~conn'[c].registered
    /\ conn'[c].loop = conn[c].loop
    /\ conn[c].state = "kDisconnecting" => c \in halfClosed'
    /\ ups'[c] = ups[c] /\ downs'[c] = downs[c]
ShutsDown(c) ==
    /\ conn[c].state = "kConnected" /\ conn'[c].state = "kDisconnecting"
    /\ conn'[c].loop = conn[c].loop /\ conn'[c].registered = conn[c].registered
    /\ ups'[c] = ups[c] /\ downs'[c] = downs[c]
ConnMove(c) ==
    \/ Stays(c) \/ Appears(c) \/ GoesUp(c) \/ GoesDown(c) \/ LosesChannel(c) \/ ShutsDown(c)

\* The connection of a functor at the head of a queue is in the expected state.
LEMMA HeadConn ==
  ASSUME TypeOK, ReportInv, FunctorInv, ConnectingInv, NEW l \in Loops, NEW ops,
         ops \subseteq {"established", "destroyed", "destroyedWithLatch"}, Runs(l, ops)
  PROVE  LET f == Head(ioQueue[l])
         IN  /\ f.c \in Conns /\ conn[f.c].loop = l /\ Born(f.c)
             /\ f.op = "established" => conn[f.c].state = "kConnecting"
             /\ f.op # "established" =>
                  conn[f.c].state \in {"kConnected", "kDisconnecting", "kDisconnected"}
             /\ f.op = "destroyedWithLatch" =>
                  basePc = [at |-> "close", c |-> f.c] /\ connLatch = 1
<1> DEFINE f == Head(ioQueue[l])
<1>1. f \in IoOps /\ f.op \in ops /\ f = ioQueue[l][1] /\ 1 \in DOMAIN ioQueue[l]
  BY RunsFacts
<1> HIDE DEF f
<1>2. f.op # "runEvery" /\ f.c \in Conns
  BY <1>1, IoOpFacts
<1>3. /\ Born(f.c) /\ conn[f.c].loop = l
      /\ f.op = "established" => conn[f.c].state = "kConnecting"
      /\ f.op = "destroyedWithLatch" => basePc = [at |-> "close", c |-> f.c] /\ connLatch = 1
  BY <1>1, <1>2 DEF FunctorInv
<1>4. ASSUME f.op # "established", conn[f.c].state = "kConnecting" PROVE FALSE
  <2>1. PICK i \in DOMAIN ioQueue[l] : ioQueue[l][i] = [op |-> "established", c |-> f.c]
    BY <1>2, <1>3, <1>4 DEF ConnectingInv
  <2>2. i # 1
    BY <1>1, <1>4, <2>1
  <2>3. ioQueue[l] \in Seq(IoOps)
    BY DEF TypeOK
  <2>4. 1 < i
    BY <2>1, <2>2, <2>3
  <2>5. /\ ioQueue[l][i].op = "established" /\ ioQueue[l][i].c = f.c
    BY <2>1
  <2>6. ioQueue[l][1].op = "runEvery" \/ ioQueue[l][1].c # f.c
    BY <1>1, <2>4, <2>5 DEF FunctorInv
  <2> QED BY <1>1, <1>2, <2>6
<1>5. conn[f.c].state \in {"none", "kConnecting", "kConnected", "kDisconnecting", "kDisconnected"}
  BY <1>2 DEF TypeOK
<1>6. conn[f.c].state # "none"
  BY <1>2, <1>3 DEF ReportInv
<1> QED BY <1>2, <1>3, <1>4, <1>5, <1>6 DEF f

LEMMA ConnMoves ==
  ASSUME TypeOK, ReportInv, FunctorInv, ConnectingInv, Next
  PROVE  /\ \A c \in Conns : ConnMove(c)
         /\ halfClosed \subseteq halfClosed'
         /\ (NewConnection /\ nextSockId' = nextSockId + 1) \/ nextSockId' = nextSockId
<1> USE DEF connVars
<1>0. conn \in [Conns -> ConnType] /\ ups \in [Conns -> Nat] /\ downs \in [Conns -> Nat]
  BY DEF TypeOK, ConnType
<1>1. CASE NewConnection
  <2>1. /\ nextSockId' = nextSockId + 1 /\ UNCHANGED <<ups, downs, halfClosed>>
        /\ conn' = [conn EXCEPT ![nextSockId] =
                     [state |-> "kConnecting", loop |-> loops_[next_ + 1], registered |-> FALSE]]
    BY <1>1 DEF NewConnection, Accepts
  <2>2. ASSUME NEW c \in Conns, c # nextSockId PROVE Stays(c)
    BY <1>0, <2>1, <2>2 DEF Stays
  <2>3. ASSUME NEW c \in Conns, c = nextSockId PROVE Appears(c)
    BY <1>0, <1>1, <2>1, <2>3 DEF Appears
  <2> QED BY <1>1, <2>1, <2>2, <2>3 DEF ConnMove
<1>2. CASE RemoveConnectionInLoop \/ CloseNext \/ Closed
  <2>1. UNCHANGED <<conn, ups, downs, halfClosed, nextSockId>>
    BY <1>2 DEF RemoveConnectionInLoop, CloseNext, Closed
  <2> QED BY <2>1 DEF ConnMove, Stays
<1>3. ASSUME NEW l \in Loops, ConnectEstablished(l)
      PROVE  (\A c \in Conns : ConnMove(c)) /\ UNCHANGED <<halfClosed, nextSockId>>
  <2> DEFINE d == Head(ioQueue[l]).c
  <2>1. Runs(l, {"established"}) /\ UNCHANGED <<halfClosed, nextSockId, downs>>
    BY <1>3 DEF ConnectEstablished, Runs
  <2>2. d \in Conns /\ conn[d].state = "kConnecting"
    <3>1. Head(ioQueue[l]).op = "established"
      BY <2>1, RunsFacts
    <3> QED BY <2>1, <3>1, HeadConn
  <2>3. /\ conn' = [conn EXCEPT ![d].state = "kConnected", ![d].registered = TRUE]
        /\ ups' = [ups EXCEPT ![d] = @ + 1]
    BY <1>3 DEF ConnectEstablished
  <2> HIDE DEF d
  <2>4. ASSUME NEW c \in Conns, c # d PROVE Stays(c)
    BY <1>0, <2>1, <2>2, <2>3, <2>4 DEF Stays
  <2>5. GoesUp(d)
    BY <1>0, <2>1, <2>2, <2>3 DEF GoesUp, ConnType
  <2> QED BY <2>1, <2>4, <2>5 DEF ConnMove
<1>4. ASSUME NEW l \in Loops, ConnectDestroyed(l)
      PROVE  (\A c \in Conns : ConnMove(c)) /\ halfClosed \subseteq halfClosed' /\ nextSockId' = nextSockId
  <2> DEFINE d == Head(ioQueue[l]).c
  <2>1. Runs(l, {"destroyed", "destroyedWithLatch"}) /\ UNCHANGED <<nextSockId, ups>>
    BY <1>4 DEF ConnectDestroyed, Runs
  <2>2. d \in Conns /\ conn[d].state \in {"kConnected", "kDisconnecting", "kDisconnected"}
    <3>1. Head(ioQueue[l]).op # "established"
      BY <2>1, RunsFacts
    <3> QED BY <2>1, <3>1, HeadConn
  <2>3. /\ conn' = [conn EXCEPT ![d].registered = FALSE,
                              ![d].state = IF ReportsClose(d) THEN "kDisconnected" ELSE @]
        /\ downs' = [downs EXCEPT ![d] = IF ReportsClose(d) THEN @ + 1 ELSE @]
        /\ halfClosed' = IF conn[d].state = "kDisconnecting" THEN halfClosed \cup {d} ELSE halfClosed
    BY <1>4 DEF ConnectDestroyed
  <2> HIDE DEF d
  <2>4. ASSUME NEW c \in Conns, c # d PROVE Stays(c)
    BY <1>0, <2>1, <2>2, <2>3, <2>4 DEF Stays
  <2>5. CASE conn[d].state = "kConnected"
    <3>1. conn' = [conn EXCEPT ![d].registered = FALSE, ![d].state = "kDisconnected"]
      BY <2>3, <2>5 DEF ReportsClose
    <3>2. downs' = [downs EXCEPT ![d] = @ + 1]
      BY <2>3, <2>5 DEF ReportsClose
    <3>3. GoesDown(d)
      BY <1>0, <2>1, <2>2, <2>5, <3>1, <3>2 DEF GoesDown, ConnType
    <3> QED BY <2>1, <2>3, <2>4, <3>3 DEF ConnMove
  <2>6. CASE conn[d].state # "kConnected"
    <3>1. conn' = [conn EXCEPT ![d].registered = FALSE, ![d].state = conn[d].state]
      BY <1>0, <2>2, <2>3, <2>6 DEF ReportsClose, ConnType
    <3>2. downs' = [downs EXCEPT ![d] = downs[d]]
      BY <1>0, <2>3, <2>6 DEF ReportsClose
    <3>3. LosesChannel(d)
      <4>1. conn'[d].state = conn[d].state /\ conn'[d].loop = conn[d].loop /\ ~conn'[d].registered
        BY <1>0, <2>2, <3>1 DEF ConnType
      <4>2. ups'[d] = ups[d] /\ downs'[d] = downs[d]
        BY <1>0, <2>1, <2>2, <3>2
      <4>3. conn[d].state = "kDisconnecting" => d \in halfClosed'
        BY <2>3
      <4>4. conn[d].state \in {"kDisconnecting", "kDisconnected"}
        BY <2>2, <2>6
      <4> QED BY <4>1, <4>2, <4>3, <4>4 DEF LosesChannel
    <3> QED BY <2>1, <2>3, <2>4, <3>3 DEF ConnMove
  <2> QED BY <2>5, <2>6
<1>5. ASSUME NEW d \in Conns, HandleClose(d)
      PROVE  (\A c \in Conns : ConnMove(c)) /\ UNCHANGED <<halfClosed, nextSockId>>
  <2>1. /\ UNCHANGED <<halfClosed, nextSockId, ups>> /\ conn[d].state \in {"kConnected", "kDisconnecting"}
        /\ conn' = [conn EXCEPT ![d].state = "kDisconnected"] /\ downs' = [downs EXCEPT ![d] = @ + 1]
    BY <1>5 DEF HandleClose
  <2>2. ASSUME NEW c \in Conns, c # d PROVE Stays(c)
    BY <1>0, <2>1, <2>2 DEF Stays
  <2>3. GoesDown(d)
    BY <1>0, <2>1 DEF GoesDown, ConnType
  <2> QED BY <2>1, <2>2, <2>3 DEF ConnMove
<1>6. ASSUME NEW d \in Conns, Shutdown(d)
      PROVE  (\A c \in Conns : ConnMove(c)) /\ UNCHANGED <<halfClosed, nextSockId>>
  <2>1. /\ UNCHANGED <<halfClosed, nextSockId, ups, downs>> /\ conn[d].state = "kConnected"
        /\ conn' = [conn EXCEPT ![d].state = "kDisconnecting"]
    BY <1>6 DEF Shutdown
  <2>2. ASSUME NEW c \in Conns, c # d PROVE Stays(c)
    BY <1>0, <2>1, <2>2 DEF Stays
  <2>3. ShutsDown(d)
    BY <1>0, <2>1 DEF ShutsDown, ConnType
  <2> QED BY <2>1, <2>2, <2>3 DEF ConnMove
<1>7. CASE UNCHANGED connVars
  BY <1>7 DEF ConnMove, Stays
<1> QED BY <1>1, <1>2, <1>3, <1>4, <1>5, <1>6, <1>7, ConnCases

LEMMA ReportStep ==
  ASSUME TypeOK, TypeOK', PoolInv, ReportInv, FunctorInv, ConnectingInv, Next
  PROVE  ReportInv'
<1>1. /\ \A c \in Conns : ConnMove(c)
      /\ halfClosed \subseteq halfClosed'
      /\ (NewConnection /\ nextSockId' = nextSockId + 1) \/ nextSockId' = nextSockId
  BY ConnMoves
<1>2. nextSockId \in Int /\ \A c \in Conns : c \in Int
  BY TcpServerConstants DEF TypeOK, Conns
<1> SUFFICES ASSUME NEW c \in Conns
             PROVE  /\ Born(c)' <=> conn'[c].state # "none"
                    /\ Born(c)' => conn'[c].loop \in Loops
                    /\ ups'[c] = IF conn'[c].state \in {"none", "kConnecting"} THEN 0 ELSE 1
                    /\ downs'[c] = IF conn'[c].state = "kDisconnected" THEN 1 ELSE 0
                    /\ conn'[c].state = "kConnected" => conn'[c].registered
                    /\ conn'[c].state = "kDisconnecting" /\ ~conn'[c].registered => c \in halfClosed'
  BY DEF ReportInv
<1>3. /\ Born(c) <=> conn[c].state # "none"
      /\ Born(c) => conn[c].loop \in Loops
      /\ ups[c] = IF conn[c].state \in {"none", "kConnecting"} THEN 0 ELSE 1
      /\ downs[c] = IF conn[c].state = "kDisconnected" THEN 1 ELSE 0
      /\ conn[c].state = "kConnected" => conn[c].registered
      /\ conn[c].state = "kDisconnecting" /\ ~conn[c].registered => c \in halfClosed
  BY DEF ReportInv
<1>4. /\ Born(c) => Born(c)'
      /\ Born(c)' => Born(c) \/ (c = nextSockId /\ NewConnection)
  BY <1>1, <1>2 DEF Born
<1>5. CASE Stays(c)
  <2>1. ASSUME c = nextSockId, NewConnection PROVE FALSE
    <3>1. conn'[c].state = "kConnecting"
      <4>1. conn' = [conn EXCEPT ![nextSockId] =
                       [state |-> "kConnecting", loop |-> loops_[next_ + 1], registered |-> FALSE]]
        BY <2>1 DEF NewConnection
      <4>2. conn \in [Conns -> ConnType]
        BY DEF TypeOK, ConnType
      <4> QED BY <2>1, <4>1, <4>2
    <3>2. conn[c].state = "none"
      BY <1>2, <1>3, <2>1 DEF Born
    <3> QED BY <1>5, <3>1, <3>2 DEF Stays
  <2> QED BY <1>1, <1>3, <1>4, <1>5, <2>1 DEF Stays
<1>6. CASE Appears(c)
  <2>1. conn[c].state = "none"
    BY <1>2, <1>3, <1>6 DEF Appears, Born
  <2>2. Born(c)'
    <3>1. nextSockId' = nextSockId + 1
      BY <1>6 DEF Appears, NewConnection
    <3> QED BY <1>2, <1>6, <3>1 DEF Appears, Born
  <2>3. conn'[c].loop \in Loops
    <3>1. pool /\ basePc = Idle
      BY <1>6 DEF Appears, NewConnection, Accepts, PoolInv
    <3>2. Len(loops_) = NumThreads
      BY <3>1 DEF PoolInv, Idle
    <3>3. next_ \in 0..(NumThreads - 1) /\ loops_ \in Seq(Loops)
      BY DEF TypeOK
    <3>4. NumThreads \in Nat
      BY TcpServerConstants
    <3>5. loops_[next_ + 1] \in Loops
      BY <3>2, <3>3, <3>4
    <3> QED BY <1>6, <3>5 DEF Appears
  <2> QED BY <1>3, <1>6, <2>1, <2>2, <2>3 DEF Appears
<1>7. CASE GoesUp(c)
  BY <1>3, <1>4, <1>7 DEF GoesUp
<1>8. CASE GoesDown(c)
  BY <1>3, <1>4, <1>8 DEF GoesDown
<1>9. CASE LosesChannel(c)
  BY <1>3, <1>4, <1>9 DEF LosesChannel
<1>10. CASE ShutsDown(c)
  BY <1>1, <1>3, <1>4, <1>10 DEF ShutsDown
<1> QED BY <1>1, <1>5, <1>6, <1>7, <1>8, <1>9, <1>10 DEF ConnMove

\* A connection that is over stays so.
LEMMA OverStays ==
  ASSUME TypeOK, ReportInv, NEW c \in Conns, ConnMove(c)
  PROVE  /\ Over(c) => Over(c)'
         /\ conn[c].state = "kDisconnected" => conn'[c].state = "kDisconnected"
         /\ Born(c) => conn'[c].loop = conn[c].loop
<1>1. nextSockId \in Int
  BY DEF TypeOK
<1>2. Appears(c) => conn[c].state = "none" /\ ~Born(c)
  BY <1>1 DEF Appears, ReportInv, Born
<1> QED BY <1>2 DEF ConnMove, Stays, GoesUp, GoesDown, LosesChannel, ShutsDown, Over

LEMMA RemoveStep ==
  ASSUME TypeOK, ReportInv, FunctorInv, ConnectingInv, RemoveInv, Next
  PROVE  RemoveInv'
<1>1. \A c \in Conns : conn[c].state = "kDisconnected" => conn'[c].state = "kDisconnected"
  BY ConnMoves, OverStays
<1>2. baseQueue \in Seq(BaseOps) /\ batch \in Seq(BaseOps)
  BY DEF TypeOK
<1> DEFINE Down(q) == \A i \in DOMAIN q : q[i].op = "remove" => conn[q[i].c].state = "kDisconnected"
           DownNext(q) == \A i \in DOMAIN q : q[i].op = "remove" => conn'[q[i].c].state = "kDisconnected"
<1>3. ASSUME NEW q \in Seq(BaseOps), Down(q) PROVE DownNext(q)
  <2>1. \A i \in DOMAIN q : q[i] \in BaseOps
    OBVIOUS
  <2>2. \A i \in DOMAIN q : q[i].op = "remove" => q[i].c \in Conns
    BY <2>1, BaseOpFacts
  <2> QED BY <1>1, <1>3, <2>2
<1>4. Down(baseQueue) /\ Down(batch)
  BY DEF RemoveInv
<1>5. DownNext(baseQueue) /\ DownNext(batch)
  BY <1>2, <1>3, <1>4
<1>6. ASSUME DownNext(baseQueue'), DownNext(batch') PROVE RemoveInv'
  BY <1>6 DEF RemoveInv
<1>7. ASSUME NEW f \in BaseOps, baseQueue' = Append(baseQueue, f),
             f.op = "remove" => conn'[f.c].state = "kDisconnected"
      PROVE  DownNext(baseQueue')
  <2>1. \A i \in DOMAIN Append(baseQueue, f) :
          Append(baseQueue, f)[i] = f \/ (i \in DOMAIN baseQueue /\ Append(baseQueue, f)[i] = baseQueue[i])
    BY <1>2
  <2> HIDE DEF Down
  <2> QED BY <1>5, <1>7, <2>1
<1>8. ASSUME NEW op, Takes(op) PROVE DownNext(batch')
  <2>1. \A i \in DOMAIN batch' : i + 1 \in DOMAIN batch /\ batch'[i] = batch[i + 1]
    BY <1>2, <1>8, TakesFacts
  <2> QED BY <1>5, <2>1
<1>9. DownNext(<<>>)
  OBVIOUS
<1> HIDE DEF Down, DownNext
<1>10. CASE DoPendingFunctors
  BY <1>5, <1>6, <1>9, <1>10 DEF DoPendingFunctors
<1>11. CASE Start \/ StartTimer \/ StopInLoop \/ RemoveConnectionInLoop
  <2>1. baseQueue' = baseQueue /\ \E op \in {"start", "startTimer", "stop", "remove"} : Takes(op)
    BY <1>11 DEF Start, StartTimer, StopInLoop, RemoveConnectionInLoop
  <2> QED BY <1>5, <1>6, <1>8, <2>1
<1>12. ASSUME NEW l \in Loops, ThreadInit(l) PROVE RemoveInv'
  <2>1. [op |-> "startTimer"] \in BaseOps
    BY DEF BaseOps
  <2> QED BY <1>5, <1>6, <1>7, <1>12, <2>1 DEF ThreadInit
<1>13. ASSUME NEW c \in Conns, HandleClose(c) PROVE RemoveInv'
  <2>1. [op |-> "remove", c |-> c] \in BaseOps
    BY DEF BaseOps
  <2>2. conn'[c].state = "kDisconnected"
    <3>1. conn \in [Conns -> ConnType]
      BY DEF TypeOK, ConnType
    <3> QED BY <1>13, <3>1 DEF HandleClose, ConnType
  <2> QED BY <1>5, <1>6, <1>7, <1>13, <2>1, <2>2 DEF HandleClose
<1>14. CASE CallStart
  <2>1. [op |-> "start"] \in BaseOps
    BY DEF BaseOps
  <2> QED BY <1>5, <1>6, <1>7, <1>14, <2>1 DEF CallStart
<1>15. ASSUME NEW u \in Users, CallStop(u) PROVE RemoveInv'
  <2>1. [op |-> "stop"] \in BaseOps
    BY DEF BaseOps
  <2> QED BY <1>5, <1>6, <1>7, <1>15, <2>1 DEF CallStop
<1>16. CASE UNCHANGED <<baseQueue, batch>>
  BY <1>5, <1>6, <1>16
<1> QED BY <1>10, <1>11, <1>12, <1>13, <1>14, <1>15, <1>16, QueueCases

\* getNextLoop finds a loop.
LEMMA NextLoop ==
  ASSUME TypeOK, PoolInv, pool, basePc.at # "startLoop"
  PROVE  /\ next_ + 1 \in DOMAIN loops_ /\ loops_[next_ + 1] \in Loops
         /\ Len(loops_) = NumThreads /\ DOMAIN loops_ = 1..NumThreads
<1>1. Len(loops_) = NumThreads
  BY DEF PoolInv
<1>2. next_ \in 0..(NumThreads - 1) /\ loops_ \in Seq(Loops)
  BY DEF TypeOK
<1>3. NumThreads \in Nat
  BY TcpServerConstants
<1> QED BY <1>1, <1>2, <1>3

\* The connections of the map have loops of the pool.
Placed == \A c \in connections : Born(c) /\ \E i \in DOMAIN loops_ : loops_[i] = conn[c].loop

\* The latch of a connection goes up when stopInLoop gets to it, and down when
\* connectDestroyedWithLatch runs.
LEMMA LatchCases ==
  ASSUME TypeOK, Next
  PROVE  connLatch' = connLatch \/ CloseNext
         \/ \E l \in Loops : ConnectDestroyed(l) /\ Head(ioQueue[l]).op = "destroyedWithLatch"
<1>1. ASSUME NEW l \in Loops, ConnectDestroyed(l)
      PROVE  connLatch' = connLatch \/ Head(ioQueue[l]).op = "destroyedWithLatch"
  BY <1>1 DEF ConnectDestroyed, CountsDown
<1>2. ASSUME NEW l \in Loops, ConnectEstablished(l) PROVE connLatch' = connLatch
  BY <1>2 DEF ConnectEstablished
<1>3. ASSUME NEW c \in Conns, HandleClose(c) \/ Shutdown(c) PROVE connLatch' = connLatch
  BY <1>3 DEF HandleClose, Shutdown
<1>4. NewConnection \/ RemoveConnectionInLoop \/ Closed => connLatch' = connLatch
  BY DEF NewConnection, Accepts, RemoveConnectionInLoop, Closed
<1>5. UNCHANGED connVars => connLatch' = connLatch
  BY DEF connVars
<1> QED BY <1>1, <1>2, <1>3, <1>4, <1>5, ConnCases

LEMMA MapStep ==
  ASSUME TypeOK, TypeOK', PoolInv, ReportInv, MapInv, FunctorInv, ConnectingInv, RemoveInv, Next
  PROVE  MapInv'
<1> USE DEF baseVars, serverVars, poolVars, ioVars, connVars, envVars, flags
<1>0. /\ Idle.at = "idle" /\ Crashed.at = "crashed" /\ connections \subseteq Conns
      /\ nextSockId \in Int /\ \A c \in Conns : c \in Int
  BY TcpServerConstants DEF Idle, Crashed, TypeOK, Conns
<1>1. /\ \A c \in Conns : ConnMove(c)
      /\ (NewConnection /\ nextSockId' = nextSockId + 1) \/ nextSockId' = nextSockId
  BY ConnMoves
<1>2. \A c \in Conns : /\ Over(c) => Over(c)'
                       /\ Born(c) => conn'[c].loop = conn[c].loop
                       /\ Born(c) => Born(c)'
                       /\ Born(c)' => Born(c) \/ (c = nextSockId /\ NewConnection)
  BY <1>0, <1>1, OverStays DEF Born
<1>3. \/ connections' = connections \/ NewConnection \/ RemoveConnectionInLoop \/ Closed
  <2>1. ASSUME NEW l \in Loops, ConnectEstablished(l) \/ ConnectDestroyed(l) PROVE connections' = connections
    BY <2>1 DEF ConnectEstablished, ConnectDestroyed, Runs
  <2>2. ASSUME NEW c \in Conns, HandleClose(c) \/ Shutdown(c) PROVE connections' = connections
    BY <2>2 DEF HandleClose, Shutdown
  <2>3. CloseNext => connections' = connections
    BY DEF CloseNext
  <2> QED BY <2>1, <2>2, <2>3, ConnCases
<1>4. \A c \in Conns : Born(c)' /\ c \notin connections' => Over(c)'
  <2>1. CASE connections' = connections
    <3>1. ASSUME NewConnection PROVE FALSE
      <4>1. nextSockId \notin connections
        BY <1>0 DEF MapInv, Born
      <4> QED BY <2>1, <3>1, <4>1 DEF NewConnection
    <3> QED BY <1>2, <2>1, <3>1 DEF MapInv
  <2>2. CASE NewConnection
    <3>1. connections' = connections \cup {nextSockId}
      BY <2>2 DEF NewConnection
    <3> QED BY <1>2, <3>1 DEF MapInv
  <2>3. CASE RemoveConnectionInLoop
    <3> DEFINE d == Head(batch).c
    <3>1. Takes("remove") /\ connections' = connections \ {d} /\ nextSockId' = nextSockId
      BY <2>3 DEF RemoveConnectionInLoop
    <3>2. batch[1].op = "remove" /\ d = batch[1].c /\ 1 \in DOMAIN batch
      BY <3>1, TakesFacts DEF TypeOK
    <3> HIDE DEF d
    <3>3. conn[d].state = "kDisconnected"
      BY <3>2 DEF RemoveInv
    <3>4. Over(d)
      BY <3>3 DEF Over
    <3>5. \A c \in Conns : Born(c)' => Born(c)
      BY <3>1 DEF Born
    <3>6. ASSUME NEW c \in Conns, Born(c), c \notin connections' PROVE Over(c)
      <4>1. c \notin connections \/ c = d
        BY <3>1, <3>6
      <4>2. CASE c \notin connections
        BY <3>6, <4>2 DEF MapInv
      <4>3. CASE c = d
        BY <3>3, <4>3 DEF Over
      <4> QED BY <4>1, <4>2, <4>3
    <3> QED BY <1>2, <3>5, <3>6
  <2>4. CASE Closed
    <3>1. /\ basePc.at = "close" /\ connLatch <= 0 /\ connections' = connections \ {basePc.c}
          /\ nextSockId' = nextSockId
      BY <2>4 DEF Closed
    <3>2. PICK d : d = basePc.c
      OBVIOUS
    <3>3. Over(d)
      BY <3>1, <3>2 DEF MapInv
    <3>4. \A c \in Conns : Born(c)' => Born(c)
      BY <3>1 DEF Born
    <3>5. ASSUME NEW c \in Conns, Born(c), c \notin connections' PROVE Over(c)
      <4>1. c \notin connections \/ c = d
        BY <3>1, <3>2, <3>5
      <4> QED BY <3>3, <3>5, <4>1 DEF MapInv
    <3> QED BY <1>2, <3>4, <3>5
  <2> QED BY <1>3, <2>1, <2>2, <2>3, <2>4
<1>5. ASSUME connections' \subseteq connections, connections' = {} \/ loops_' = loops_ PROVE Placed'
  <2>1. \A c \in connections : Born(c)' /\ conn'[c].loop = conn[c].loop
    BY <1>0, <1>2 DEF MapInv
  <2> QED BY <1>5, <2>1 DEF MapInv, Placed
<1>6. ASSUME Placed',
             connections' # {} => pool' /\ basePc'.at \in {"idle", "next", "close"},
             basePc'.at = "close" => basePc'.c \in connections' /\ (connLatch' <= 0 => Over(basePc.c)')
      PROVE  MapInv'
  BY <1>4, <1>6 DEF MapInv, Placed
<1>7. CASE PoolSame
  <2>1. UNCHANGED <<basePc, pool, loops_>>
    BY <1>7 DEF PoolSame
  <2>2. CASE NewConnection
    <3>1. /\ connections' = connections \cup {nextSockId} /\ pool /\ basePc = Idle
          /\ nextSockId' = nextSockId + 1
      BY <2>2 DEF NewConnection, Accepts, PoolInv
    <3>2. next_ + 1 \in DOMAIN loops_
      BY <1>0, <3>1, NextLoop
    <3>3. nextSockId \in Conns
      BY <3>1 DEF TypeOK
    <3>4. conn'[nextSockId].loop = loops_[next_ + 1]
      <4>1. conn \in [Conns -> ConnType]
        BY DEF TypeOK, ConnType
      <4> QED BY <2>2, <3>3, <4>1 DEF NewConnection
    <3>5. ASSUME NEW c \in connections' PROVE Born(c)' /\ \E i \in DOMAIN loops_ : loops_[i] = conn'[c].loop
      <4>1. CASE c \in connections
        BY <1>0, <1>2, <4>1 DEF MapInv
      <4>2. CASE c = nextSockId
        BY <1>0, <3>1, <3>2, <3>4, <4>2 DEF Born
      <4> QED BY <3>1, <4>1, <4>2
    <3>6. Placed'
      BY <2>1, <3>5 DEF Placed
    <3> QED BY <1>0, <1>6, <2>1, <3>1, <3>6
  <2>3. CASE ~NewConnection
    <3>1. Placed' /\ connections' \subseteq connections
      <4>1. connections' \subseteq connections
        BY <1>3, <2>3 DEF RemoveConnectionInLoop, Closed
      <4> QED BY <1>5, <2>1, <4>1
    <3>2. ASSUME basePc.at = "close"
          PROVE  basePc.c \in connections' /\ (connLatch' <= 0 => Over(basePc.c)')
      <4>1. connections' = connections
        <5>1. ~RemoveConnectionInLoop
          BY <1>0, <3>2 DEF RemoveConnectionInLoop, Takes
        <5>2. Closed => basePc'.at = "next"
          BY DEF Closed
        <5> QED BY <1>3, <2>1, <2>3, <3>2, <5>1, <5>2
      <4>2. PICK d : d = basePc.c
        OBVIOUS
      <4>3. d \in connections /\ d \in Conns /\ (connLatch <= 0 => Over(d))
        BY <1>0, <3>2, <4>2 DEF MapInv
      <4>4. connLatch' <= 0 => Over(d)'
        <5>1. CASE connLatch' = connLatch
          BY <1>2, <4>3, <5>1
        <5>2. ASSUME NEW l \in Loops, ConnectDestroyed(l), Head(ioQueue[l]).op = "destroyedWithLatch"
              PROVE  Over(d)'
          <6>1. Runs(l, {"destroyed", "destroyedWithLatch"})
            BY <5>2 DEF ConnectDestroyed
          <6>2. /\ basePc = [at |-> "close", c |-> Head(ioQueue[l]).c]
                /\ conn[Head(ioQueue[l]).c].state \in {"kConnected", "kDisconnecting", "kDisconnected"}
            BY <5>2, <6>1, HeadConn
          <6>3. d = Head(ioQueue[l]).c /\ conn[d].state \in {"kConnected", "kDisconnecting", "kDisconnected"}
            BY <4>2, <6>2
          <6>4. conn' = [conn EXCEPT ![d].registered = FALSE,
                              ![d].state = IF ReportsClose(d) THEN "kDisconnected" ELSE @]
            BY <5>2, <6>3 DEF ConnectDestroyed
          <6>5. conn \in [Conns -> ConnType]
            BY DEF TypeOK, ConnType
          <6>6. ~conn'[d].registered
            BY <4>3, <6>4, <6>5 DEF ConnType
          <6>7. conn'[d].state \in {"kDisconnecting", "kDisconnected"}
            BY <4>3, <6>3, <6>4, <6>5 DEF ConnType, ReportsClose
          <6> QED BY <6>6, <6>7 DEF Over
        <5>3. connLatch' = connLatch \/ CloseNext
              \/ \E l \in Loops : ConnectDestroyed(l) /\ Head(ioQueue[l]).op = "destroyedWithLatch"
          BY LatchCases
        <5>4. ~CloseNext
          <6>1. CloseNext => basePc.at = "next"
            BY DEF CloseNext
          <6> QED BY <3>2, <6>1
        <5> QED BY <5>1, <5>2, <5>3, <5>4
      <4> QED BY <2>1, <4>1, <4>2, <4>3, <4>4
    <3>3. connections' # {} => pool /\ basePc.at \in {"idle", "next", "close"}
      BY <3>1 DEF MapInv
    <3> QED BY <1>6, <2>1, <3>1, <3>2, <3>3
  <2> QED BY <2>2, <2>3
<1>8. ASSUME connections' = {}, basePc'.at # "close" PROVE MapInv'
  BY <1>5, <1>6, <1>8
<1>9. CASE Start /\ started = 0
  <2>1. connections' = connections /\ basePc'.at = "startLoop" /\ ~pool
    BY <1>9 DEF Start, PoolInv
  <2> QED BY <1>8, <2>1 DEF MapInv
<1>10. ASSUME NEW i \in 1..NumThreads, StartLoop(i) PROVE MapInv'
  <2>1. connections' = connections /\ basePc.at = "startLoop"
    BY <1>10 DEF StartLoop
  <2>2. basePc'.at # "close"
    <3>1. basePc = [at |-> "startLoop", i |-> i]
      BY <1>10 DEF StartLoop
    <3>2. basePc' = [basePc EXCEPT !.i = i + 1] \/ basePc' = Idle
      BY <1>10 DEF StartLoop
    <3> QED BY <1>0, <3>1, <3>2
  <2> QED BY <1>8, <2>1, <2>2 DEF MapInv
<1>11. CASE StartTimer /\ ~pool
  <2>1. connections' = connections /\ basePc' = Crashed
    BY <1>11 DEF StartTimer
  <2> QED BY <1>0, <1>8, <1>11, <2>1 DEF MapInv
<1>12. CASE StopInLoop
  <2>1. /\ UNCHANGED <<connections, pool, loops_>> /\ basePc'.at = "next" /\ basePc.at = "idle"
    BY <1>0, <1>12 DEF StopInLoop, Takes
  <2>2. Placed'
    BY <1>5, <2>1
  <2> QED BY <1>6, <2>1, <2>2 DEF MapInv
<1>13. CASE CloseNext
  <2>1. /\ UNCHANGED <<connections, pool, loops_>> /\ basePc' = [at |-> "close", c |-> Min(connections)]
        /\ connLatch' = 1 /\ connections # {}
    BY <1>13 DEF CloseNext, NewLatch
  <2>2. Placed'
    BY <1>5, <2>1
  <2>3. basePc'.c \in connections
    <3>1. connections \subseteq Nat
      BY <1>0, TcpServerConstants DEF Conns
    <3> QED BY <2>1, <3>1, MinFacts
  <2>4. pool
    BY <2>1 DEF MapInv
  <2> QED BY <1>6, <2>1, <2>2, <2>3, <2>4
<1>14. CASE Closed
  <2>1. /\ UNCHANGED <<pool, loops_>> /\ basePc'.at = "next" /\ connections' \subseteq connections
    BY <1>14 DEF Closed
  <2>2. Placed'
    BY <1>5, <2>1
  <2> QED BY <1>6, <2>1, <2>2 DEF MapInv
<1>15. CASE ResetPool
  <2>1. connections' = {} /\ basePc'.at # "close"
    BY <1>0, <1>15 DEF ResetPool, Stopped
  <2> QED BY <1>8, <2>1
<1>16. ASSUME NEW i \in 1..NumThreads, DestructThread(i) \/ ThreadDestroyed(i) PROVE MapInv'
  <2>1. basePc.at \in {"destruct", "join"} /\ connections' = connections
    BY <1>16 DEF DestructThread, ThreadDestroyed
  <2>2. CASE DestructThread(i)
    <3>1. basePc'.at = "join"
      BY <2>2 DEF DestructThread
    <3> QED BY <1>8, <2>1, <3>1 DEF MapInv
  <2>3. CASE ThreadDestroyed(i)
    <3>1. basePc'.at # "close"
      BY <1>0, <2>3 DEF ThreadDestroyed, Stopped
    <3> QED BY <1>8, <2>1, <3>1 DEF MapInv
  <2> QED BY <1>16, <2>2, <2>3
<1> QED
  BY <1>7, <1>9, <1>10, <1>11, <1>12, <1>13, <1>14, <1>15, <1>16, PoolCases DEF PoolChange

-----------------------------------------------------------------------------
(* The functors of the io loops.                                           *)

\* A functor that the base thread queues in loop l.
NewFunctor(l, f) ==
    \/ StartTimer /\ pool /\ l = loops_[next_ + 1] /\ f = [op |-> "runEvery"]
    \/ NewConnection /\ l = loops_[next_ + 1] /\ f = [op |-> "established", c |-> nextSockId]
    \/ RemoveConnectionInLoop /\ l = conn[f.c].loop /\ f = [op |-> "destroyed", c |-> Head(batch).c]
    \/ /\ CloseNext /\ l = conn[f.c].loop
       /\ f = [op |-> "destroyedWithLatch", c |-> Min(connections)]

\* What a step may do to the queue of loop l.
QueueMove(l) ==
    \/ ioQueue'[l] = ioQueue[l]
    \/ \E f \in IoOps : NewFunctor(l, f) /\ ioQueue'[l] = Append(ioQueue[l], f)
    \/ RunEvery(l) \/ ConnectEstablished(l) \/ ConnectDestroyed(l)
    \/ loop[l].at = "left" /\ ioQueue'[l] = <<>>

LEMMA QueueMoves ==
  ASSUME TypeOK, PeerInv, Next, NEW l \in Loops
  PROVE  QueueMove(l)
<1> USE DEF ioVars
<1>0. ioQueue \in [Loops -> Seq(IoOps)]
  BY DEF TypeOK
<1>1. ASSUME NEW m, NEW f \in IoOps, ioQueue' = Queued(m, f), l = m => NewFunctor(l, f) PROVE QueueMove(l)
  <2>1. ioQueue'[l] = ioQueue[l] \/ (l = m /\ ioQueue'[l] = Append(ioQueue[l], f))
    BY <1>0, <1>1 DEF Queued
  <2> QED BY <1>1, <2>1 DEF QueueMove
<1>2. CASE ioQueue' = ioQueue
  BY <1>2 DEF QueueMove
<1>3. CASE StartTimer
  <2>1. CASE pool
    <3>1. [op |-> "runEvery"] \in IoOps
      BY DEF IoOps
    <3>2. ioQueue' = Queued(loops_[next_ + 1], [op |-> "runEvery"])
      BY <1>3, <2>1 DEF StartTimer
    <3> QED BY <1>1, <1>3, <2>1, <3>1, <3>2 DEF NewFunctor
  <2>2. CASE ~pool
    BY <1>2, <1>3, <2>2 DEF StartTimer
  <2> QED BY <2>1, <2>2
<1>4. CASE NewConnection
  <2>1. nextSockId \in Conns
    <3>1. backlog > 0
      BY <1>4 DEF NewConnection, Accepts
    <3>2. nextSockId \in Int /\ 1 <= nextSockId /\ backlog \in Int /\ MaxConns \in Int
      BY TcpServerConstants DEF TypeOK
    <3>3. calls["connect"] \in Int
      BY DEF TypeOK
    <3>4. nextSockId <= MaxConns
      BY <3>1, <3>2, <3>3 DEF PeerInv
    <3> QED BY <3>2, <3>4 DEF Conns
  <2>2. [op |-> "established", c |-> nextSockId] \in IoOps
    BY <2>1 DEF IoOps
  <2>3. ioQueue' = Queued(loops_[next_ + 1], [op |-> "established", c |-> nextSockId])
    BY <1>4 DEF NewConnection
  <2> QED BY <1>1, <1>4, <2>2, <2>3 DEF NewFunctor
<1>5. CASE RemoveConnectionInLoop
  <2> DEFINE d == Head(batch).c
  <2>1. Takes("remove") /\ ioQueue' = Queued(conn[d].loop, [op |-> "destroyed", c |-> d])
    BY <1>5 DEF RemoveConnectionInLoop
  <2>2. d \in Conns
    <3>1. Head(batch) \in BaseOps /\ Head(batch).op = "remove"
      BY <2>1, TakesFacts DEF TypeOK
    <3> QED BY <3>1, BaseOpFacts
  <2>3. [op |-> "destroyed", c |-> d] \in IoOps
    BY <2>2 DEF IoOps
  <2> QED BY <1>1, <1>5, <2>1, <2>3 DEF NewFunctor
<1>6. CASE CloseNext
  <2> DEFINE d == Min(connections)
  <2>1. connections # {} /\ ioQueue' = Queued(conn[d].loop, [op |-> "destroyedWithLatch", c |-> d])
    BY <1>6 DEF CloseNext
  <2>2. connections \subseteq Conns /\ connections \subseteq Nat
    BY TcpServerConstants DEF TypeOK, Conns
  <2>3. d \in Conns
    BY <2>1, <2>2, MinFacts
  <2> HIDE DEF d
  <2>4. [op |-> "destroyedWithLatch", c |-> d] \in IoOps
    BY <2>3 DEF IoOps
  <2> QED BY <1>1, <1>6, <2>1, <2>4 DEF NewFunctor, d
<1>7. ASSUME NEW k \in Loops, RunEvery(k) \/ ConnectEstablished(k) \/ ConnectDestroyed(k)
      PROVE  QueueMove(l)
  <2>1. PICK ops : Runs(k, ops)
    BY <1>7 DEF RunEvery, ConnectEstablished, ConnectDestroyed
  <2>2. k # l => ioQueue'[l] = ioQueue[l]
    BY <2>1, RunsFacts
  <2> QED BY <1>7, <2>2 DEF QueueMove
<1>8. ASSUME NEW k \in Loops, ThreadExit(k) PROVE QueueMove(l)
  BY <1>0, <1>8 DEF ThreadExit, QueueMove
<1>9. ASSUME NEW k \in Loops, IoStep(k) PROVE QueueMove(l)
  <2>1. CASE ThreadInit(k) \/ LoopBegin(k) \/ LoopEnd(k)
    BY <1>2, <2>1 DEF ThreadInit, LoopBegin, LoopEnd
  <2>2. CASE RunEvery(k) \/ ConnectEstablished(k) \/ ConnectDestroyed(k)
    BY <1>7, <2>2
  <2> QED BY <1>8, <1>9, <2>1, <2>2 DEF IoStep
<1>10. CASE Env \/ \E u \in Users : ReturnFromStop(u)
  BY <1>2, <1>10 DEF Env, CallStart, CallStop, HandleClose, Shutdown, PeerConnects, ReturnFromStop
<1>11. CASE DoPendingFunctors \/ Start \/ StopInLoop \/ RefuseConnection \/ Closed \/ ResetPool
  BY <1>2, <1>11 DEF DoPendingFunctors, Start, StopInLoop, RefuseConnection, Closed, ResetPool
<1>12. ASSUME NEW i \in 1..NumThreads, StartLoop(i) \/ DestructThread(i) \/ ThreadDestroyed(i)
       PROVE  ioQueue' = ioQueue
  BY <1>12 DEF StartLoop, DestructThread, ThreadDestroyed
<1> QED
  BY <1>2, <1>3, <1>4, <1>5, <1>6, <1>9, <1>10, <1>11, <1>12 DEF Next, BaseStep

\* A connection leaves kConnecting in connectEstablished only.
LEMMA ConnectingStays ==
  ASSUME TypeOK, ReportInv, FunctorInv, ConnectingInv, Next,
         NEW c \in Conns, conn[c].state = "kConnecting"
  PROVE  \/ conn'[c].state = "kConnecting"
         \/ \E l \in Loops : ConnectEstablished(l) /\ Head(ioQueue[l]).c = c
<1> USE DEF connVars
<1>0. conn \in [Conns -> ConnType]
  BY DEF TypeOK, ConnType
<1>1. CASE NewConnection
  BY <1>0, <1>1 DEF NewConnection
<1>2. CASE RemoveConnectionInLoop \/ CloseNext \/ Closed \/ UNCHANGED connVars
  BY <1>2 DEF RemoveConnectionInLoop, CloseNext, Closed
<1>3. ASSUME NEW l \in Loops, ConnectEstablished(l), Head(ioQueue[l]).c # c
      PROVE  conn'[c].state = "kConnecting"
  <2>1. PICK d : d = Head(ioQueue[l]).c
    OBVIOUS
  <2>2. conn' = [conn EXCEPT ![d].state = "kConnected", ![d].registered = TRUE]
    BY <1>3, <2>1 DEF ConnectEstablished
  <2> QED BY <1>0, <1>3, <2>1, <2>2
<1>4. ASSUME NEW l \in Loops, ConnectDestroyed(l) PROVE conn'[c].state = "kConnecting"
  <2>1. PICK d : d = Head(ioQueue[l]).c
    OBVIOUS
  <2>2. Runs(l, {"destroyed", "destroyedWithLatch"})
    BY <1>4 DEF ConnectDestroyed
  <2>3. Head(ioQueue[l]).op # "established"
    BY <2>2, RunsFacts
  <2>4. conn[d].state # "kConnecting"
    BY <2>1, <2>2, <2>3, HeadConn
  <2>5. conn' = [conn EXCEPT ![d].registered = FALSE,
                              ![d].state = IF ReportsClose(d) THEN "kDisconnected" ELSE @]
    BY <1>4, <2>1 DEF ConnectDestroyed
  <2> QED BY <1>0, <2>4, <2>5
<1>5. ASSUME NEW d \in Conns, HandleClose(d) PROVE conn'[c].state = "kConnecting"
  BY <1>0, <1>5 DEF HandleClose
<1>6. ASSUME NEW d \in Conns, Shutdown(d) PROVE conn'[c].state = "kConnecting"
  BY <1>0, <1>6 DEF Shutdown
<1> QED BY <1>1, <1>2, <1>3, <1>4, <1>5, <1>6, ConnCases

\* stopInLoop waits for connectDestroyedWithLatch.
LEMMA CloseStays ==
  ASSUME TypeOK, PoolInv, Next, basePc.at = "close", connLatch = 1
  PROVE  \/ UNCHANGED <<basePc, connLatch>>
         \/ \E l \in Loops : ConnectDestroyed(l) /\ Head(ioQueue[l]).op = "destroyedWithLatch"
<1>1. ~CloseNext /\ ~Closed
  <2>1. CloseNext => basePc.at = "next"
    BY DEF CloseNext
  <2>2. Closed => connLatch <= 0
    BY DEF Closed
  <2> QED BY <2>1, <2>2
<1>2. basePc' = basePc
  <2>1. PoolSame => basePc' = basePc
    BY DEF PoolSame
  <2>2. Start \/ StartTimer \/ StopInLoop => basePc.at = "idle"
    BY DEF Start, StartTimer, StopInLoop, Takes, Idle
  <2>3. ResetPool => basePc.at = "next"
    BY DEF ResetPool
  <2>4. ASSUME NEW i \in 1..NumThreads, StartLoop(i) \/ DestructThread(i) \/ ThreadDestroyed(i)
        PROVE  basePc.at # "close"
    BY <2>4 DEF StartLoop, DestructThread, ThreadDestroyed
  <2> QED BY <1>1, <2>1, <2>2, <2>3, <2>4, PoolCases DEF PoolChange
<1> QED BY <1>1, <1>2, LatchCases

\* The conjunct of FunctorInv for one functor.
FunctorOK(l, i) ==
    ioQueue[l][i].op # "runEvery" =>
        LET c == ioQueue[l][i].c
        IN  /\ Born(c) /\ conn[c].loop = l
            /\ ioQueue[l][i].op = "established" =>
                  /\ conn[c].state = "kConnecting"
                  /\ \A j \in DOMAIN ioQueue[l] :
                        j < i => ioQueue[l][j].op = "runEvery" \/ ioQueue[l][j].c # c
            /\ ioQueue[l][i].op = "destroyed" => conn[c].state = "kDisconnected"
            /\ ioQueue[l][i].op = "destroyedWithLatch" =>
                  /\ basePc = [at |-> "close", c |-> c] /\ connLatch = 1
                  /\ \A j \in DOMAIN ioQueue[l] :
                        ioQueue[l][j].op = "destroyedWithLatch" => j = i

\* A functor that stays in its queue, d places further on.
LEMMA FunctorKept ==
  ASSUME TypeOK, PoolInv, ReportInv, FunctorInv, ConnectingInv, Next,
         NEW l \in Loops, NEW i \in Nat, NEW d \in {0, 1}, i \in DOMAIN ioQueue'[l],
         i + d \in DOMAIN ioQueue[l], ioQueue'[l][i] = ioQueue[l][i + d],
         \A j \in DOMAIN ioQueue'[l] :
            \/ j < i
            \/ ioQueue'[l][i].op = "destroyedWithLatch" /\ ioQueue'[l][j].op = "destroyedWithLatch"
            => j \in Nat /\ j + d \in DOMAIN ioQueue[l] /\ ioQueue'[l][j] = ioQueue[l][j + d],
         i + d = 1 => ~ConnectEstablished(l) /\ ~ConnectDestroyed(l)
  PROVE  FunctorOK(l, i)'
<1>1. PICK f \in IoOps : f = ioQueue[l][i + d]
  <2>1. ioQueue[l] \in Seq(IoOps)
    BY DEF TypeOK
  <2> QED BY <2>1
<1>2. ioQueue'[l][i] = f /\ ioQueue[l][i + d] = f
  BY <1>1
<1>3. CASE f.op = "runEvery"
  BY <1>2, <1>3 DEF FunctorOK
<1>4. CASE f.op # "runEvery"
  <2>1. PICK c \in Conns : c = f.c
    BY <1>4, IoOpFacts
  <2>2. /\ Born(c) /\ conn[c].loop = l
        /\ f.op = "established" =>
              /\ conn[c].state = "kConnecting"
              /\ \A j \in DOMAIN ioQueue[l] :
                    j < i + d => ioQueue[l][j].op = "runEvery" \/ ioQueue[l][j].c # c
        /\ f.op = "destroyed" => conn[c].state = "kDisconnected"
        /\ f.op = "destroyedWithLatch" =>
              /\ basePc = [at |-> "close", c |-> c] /\ connLatch = 1
              /\ \A j \in DOMAIN ioQueue[l] :
                    ioQueue[l][j].op = "destroyedWithLatch" => j = i + d
    BY <1>2, <1>4, <2>1 DEF FunctorInv
  <2>3. ConnMove(c) /\ (nextSockId' = nextSockId \/ nextSockId' = nextSockId + 1)
    BY ConnMoves
  <2>4. Born(c)' /\ conn'[c].loop = l
    <3>1. nextSockId \in Int /\ c \in Int
      BY TcpServerConstants DEF TypeOK, Conns
    <3> QED BY <2>2, <2>3, <3>1, OverStays DEF Born
  <2>5. f.op = "destroyed" => conn'[c].state = "kDisconnected"
    BY <2>2, <2>3, OverStays
  <2>6. ASSUME f.op = "established"
        PROVE  /\ conn'[c].state = "kConnecting"
               /\ \A j \in DOMAIN ioQueue'[l] :
                    j < i => ioQueue'[l][j].op = "runEvery" \/ ioQueue'[l][j].c # c
    <3>1. ASSUME NEW k \in Loops, ConnectEstablished(k), Head(ioQueue[k]).c = c PROVE FALSE
      <4>1. Runs(k, {"established"})
        BY <3>1 DEF ConnectEstablished
      <4>2. k = l
        BY <2>2, <3>1, <4>1, HeadConn
      <4>3. /\ Head(ioQueue[l]) = ioQueue[l][1] /\ 1 \in DOMAIN ioQueue[l]
            /\ Head(ioQueue[l]).op = "established"
        BY <4>1, <4>2, RunsFacts
      <4>4. 1 < i + d
        <5>1. i + d # 1
          BY <3>1, <4>2
        <5>2. i + d \in Nat /\ i + d # 0
          <6>1. ioQueue[l] \in Seq(IoOps)
            BY DEF TypeOK
          <6> QED BY <6>1
        <5> QED BY <5>1, <5>2
      <4> QED BY <2>2, <2>6, <3>1, <4>2, <4>3, <4>4
    <3>2. conn'[c].state = "kConnecting"
      BY <2>2, <2>6, <3>1, ConnectingStays
    <3>3. ASSUME NEW j \in DOMAIN ioQueue'[l], j < i
          PROVE  ioQueue'[l][j].op = "runEvery" \/ ioQueue'[l][j].c # c
      <4>1. j \in Nat /\ j + d \in DOMAIN ioQueue[l] /\ ioQueue'[l][j] = ioQueue[l][j + d]
        BY <3>3
      <4>2. j + d < i + d
        BY <3>3, <4>1
      <4> QED BY <2>2, <2>6, <4>1, <4>2
    <3> QED BY <3>2, <3>3
  <2>7. ASSUME f.op = "destroyedWithLatch"
        PROVE  /\ basePc' = [at |-> "close", c |-> c] /\ connLatch' = 1
               /\ \A j \in DOMAIN ioQueue'[l] :
                    ioQueue'[l][j].op = "destroyedWithLatch" => j = i
    <3>1. basePc = [at |-> "close", c |-> c] /\ basePc.at = "close" /\ connLatch = 1
      BY <2>2, <2>7
    <3>2. ASSUME NEW k \in Loops, ConnectDestroyed(k), Head(ioQueue[k]).op = "destroyedWithLatch"
          PROVE  FALSE
      <4>1. Runs(k, {"destroyed", "destroyedWithLatch"})
        BY <3>2 DEF ConnectDestroyed
      <4>2. /\ conn[Head(ioQueue[k]).c].loop = k
            /\ basePc = [at |-> "close", c |-> Head(ioQueue[k]).c]
        BY <3>2, <4>1, HeadConn
      <4>3. Head(ioQueue[k]).c = c
        BY <3>1, <4>2
      <4>4. k = l
        BY <2>2, <4>2, <4>3
      <4>5. Head(ioQueue[l]) = ioQueue[l][1] /\ 1 \in DOMAIN ioQueue[l]
        BY <4>1, <4>4, RunsFacts
      <4>6. 1 = i + d
        BY <2>2, <2>7, <3>2, <4>4, <4>5
      <4> QED BY <3>2, <4>4, <4>6
    <3>3. basePc' = basePc /\ connLatch' = connLatch
      BY <3>1, <3>2, CloseStays
    <3>4. ASSUME NEW j \in DOMAIN ioQueue'[l], ioQueue'[l][j].op = "destroyedWithLatch" PROVE j = i
      <4>1. j \in Nat /\ j + d \in DOMAIN ioQueue[l] /\ ioQueue'[l][j] = ioQueue[l][j + d]
        BY <1>2, <2>7, <3>4
      <4>2. j + d = i + d
        BY <2>2, <2>7, <3>4, <4>1
      <4> QED BY <4>1, <4>2
    <3> QED BY <3>1, <3>3, <3>4
  <2> QED BY <1>2, <2>1, <2>4, <2>5, <2>6, <2>7 DEF FunctorOK
<1> QED BY <1>3, <1>4

\* A functor that has just been queued.
LEMMA FunctorNew ==
  ASSUME TypeOK, TypeOK', PoolInv, PeerInv, ReportInv, MapInv, FunctorInv, ConnectingInv, RemoveInv, Next,
         NEW l \in Loops, NEW f \in IoOps, NewFunctor(l, f), ioQueue'[l] = Append(ioQueue[l], f),
         NEW i \in Nat, i \in DOMAIN ioQueue'[l], i \notin DOMAIN ioQueue[l]
  PROVE  FunctorOK(l, i)'
<1>0. ioQueue[l] \in Seq(IoOps) /\ nextSockId \in Int /\ conn \in [Conns -> ConnType]
  BY DEF TypeOK, ConnType
<1>1. ioQueue'[l][i] = f
  BY <1>0
<1>2. \A j \in DOMAIN ioQueue'[l] : j # i => j \in DOMAIN ioQueue[l] /\ ioQueue'[l][j] = ioQueue[l][j]
  BY <1>0
<1>3. \A j \in DOMAIN ioQueue[l] : ioQueue[l][j].op # "runEvery" => Born(ioQueue[l][j].c)
  BY DEF FunctorInv
<1>4. CASE f.op = "runEvery"
  BY <1>1, <1>4 DEF FunctorOK
<1>5. CASE NewConnection /\ l = loops_[next_ + 1] /\ f = [op |-> "established", c |-> nextSockId]
  <2>1. /\ conn' = [conn EXCEPT ![nextSockId] = [state |-> "kConnecting", loop |-> l, registered |-> FALSE]]
        /\ nextSockId' = nextSockId + 1 /\ connections' = connections \cup {nextSockId}
    BY <1>5 DEF NewConnection
  <2>2. nextSockId \in Conns
    BY <2>1 DEF TypeOK
  <2>3. conn'[nextSockId].state = "kConnecting" /\ conn'[nextSockId].loop = l
    BY <1>0, <2>1, <2>2
  <2>4. nextSockId < nextSockId'
    BY <1>0, <2>1
  <2>5. \A j \in DOMAIN ioQueue'[l] :
          j < i => ioQueue'[l][j].op = "runEvery" \/ ioQueue'[l][j].c # nextSockId
    <3>1. \A j \in DOMAIN ioQueue[l] : ioQueue[l][j].op = "runEvery" \/ ioQueue[l][j].c # nextSockId
      BY <1>0, <1>3 DEF Born
    <3> QED BY <1>2, <3>1
  <2>6. PICK c : c = nextSockId
    OBVIOUS
  <2>7. /\ f.op = "established" /\ f.c = c
    BY <1>5, <2>6
  <2> QED BY <1>1, <2>3, <2>4, <2>5, <2>6, <2>7 DEF FunctorOK, Born
<1>6. CASE RemoveConnectionInLoop /\ l = conn[f.c].loop /\ f = [op |-> "destroyed", c |-> Head(batch).c]
  <2>1. PICK c : c = f.c
    OBVIOUS
  <2>2. f.op = "destroyed" /\ c \in Conns /\ c = Head(batch).c
    BY <1>6, <2>1, IoOpFacts
  <2>3. Takes("remove") /\ UNCHANGED <<conn, nextSockId>>
    BY <1>6 DEF RemoveConnectionInLoop
  <2>4. batch[1].op = "remove" /\ c = batch[1].c /\ 1 \in DOMAIN batch
    BY <2>2, <2>3, TakesFacts DEF TypeOK
  <2>5. conn[c].state = "kDisconnected"
    BY <2>4 DEF RemoveInv
  <2>6. Born(c)'
    BY <2>2, <2>3, <2>5 DEF ReportInv, Born
  <2> QED BY <1>1, <1>6, <2>1, <2>2, <2>3, <2>5, <2>6 DEF FunctorOK
<1>7. CASE /\ CloseNext /\ l = conn[f.c].loop
           /\ f = [op |-> "destroyedWithLatch", c |-> Min(connections)]
  <2>1. PICK c : c = f.c
    OBVIOUS
  <2>2. f.op = "destroyedWithLatch" /\ c = Min(connections)
    BY <1>7, <2>1
  <2>3. /\ basePc.at = "next" /\ basePc' = [at |-> "close", c |-> c] /\ connLatch' = 1
        /\ UNCHANGED <<conn, nextSockId, connections>> /\ connections # {}
    BY <1>7, <2>2 DEF CloseNext, NewLatch
  <2>4. c \in connections
    <3>1. connections \subseteq Nat
      BY TcpServerConstants DEF TypeOK, Conns
    <3> QED BY <2>2, <2>3, <3>1, MinFacts
  <2>5. Born(c)'
    BY <2>3, <2>4 DEF MapInv, Born
  <2>6. \A j \in DOMAIN ioQueue[l] : ioQueue[l][j].op # "destroyedWithLatch"
    <3>1. ASSUME NEW j \in DOMAIN ioQueue[l], ioQueue[l][j].op = "destroyedWithLatch" PROVE FALSE
      <4>1. basePc = [at |-> "close", c |-> ioQueue[l][j].c]
        BY <3>1 DEF FunctorInv
      <4> QED BY <2>3, <4>1
    <3> QED BY <3>1
  <2>7. \A j \in DOMAIN ioQueue'[l] : ioQueue'[l][j].op = "destroyedWithLatch" => j = i
    BY <1>2, <2>6
  <2> QED BY <1>1, <1>7, <2>1, <2>2, <2>3, <2>5, <2>7 DEF FunctorOK
<1>8. f = [op |-> "runEvery"] => f.op = "runEvery"
  OBVIOUS
<1> QED BY <1>4, <1>5, <1>6, <1>7, <1>8 DEF NewFunctor

LEMMA FunctorStep ==
  ASSUME TypeOK, TypeOK', PoolInv, PeerInv, ReportInv, MapInv, FunctorInv, ConnectingInv, RemoveInv, Next
  PROVE  FunctorInv'
<1> SUFFICES ASSUME NEW l \in Loops, NEW i \in DOMAIN ioQueue'[l] PROVE FunctorOK(l, i)'
  BY DEF FunctorInv, FunctorOK
<1>0. ioQueue[l] \in Seq(IoOps) /\ ioQueue'[l] \in Seq(IoOps) /\ i \in Nat /\ i # 0
  <2>1. ioQueue \in [Loops -> Seq(IoOps)] /\ ioQueue' \in [Loops -> Seq(IoOps)]
    BY DEF TypeOK
  <2>2. ioQueue[l] \in Seq(IoOps) /\ ioQueue'[l] \in Seq(IoOps)
    BY <2>1
  <2> QED BY <2>2
<1>1. ASSUME NEW ops, Runs(l, ops) PROVE Len(ioQueue'[l]) = Len(ioQueue[l]) - 1
  <2>1. ioQueue[l] # <<>> /\ ioQueue' = [ioQueue EXCEPT ![l] = Tail(@)]
    BY <1>1 DEF Runs
  <2>2. ioQueue \in [Loops -> Seq(IoOps)]
    BY DEF TypeOK
  <2>3. ioQueue'[l] = Tail(ioQueue[l])
    BY <2>1, <2>2
  <2>4. \A q \in Seq(IoOps) : q # <<>> => Len(Tail(q)) = Len(q) - 1
    OBVIOUS
  <2> QED BY <1>0, <2>1, <2>3, <2>4
<1>2. ASSUME Len(ioQueue'[l]) >= Len(ioQueue[l]) PROVE ~ConnectEstablished(l) /\ ~ConnectDestroyed(l)
  <2>1. Len(ioQueue[l]) \in Nat
    BY <1>0
  <2> QED BY <1>1, <1>2, <2>1 DEF ConnectEstablished, ConnectDestroyed
<1>num. i + 0 = i /\ 0 \in {0, 1} /\ 1 \in {0, 1} /\ i + 1 # 1
  BY <1>0
<1>3. CASE ioQueue'[l] = ioQueue[l]
  <2>1. ~ConnectEstablished(l) /\ ~ConnectDestroyed(l)
    BY <1>0, <1>2, <1>3
  <2>2. \A j \in DOMAIN ioQueue'[l] : j \in Nat /\ j + 0 \in DOMAIN ioQueue[l] /\ ioQueue'[l][j] = ioQueue[l][j + 0]
    BY <1>0, <1>3
  <2> QED BY <1>0, <1>num, <2>1, <2>2, FunctorKept
<1>4. ASSUME NEW f \in IoOps, NewFunctor(l, f), ioQueue'[l] = Append(ioQueue[l], f) PROVE FunctorOK(l, i)'
  <2>1. ~ConnectEstablished(l) /\ ~ConnectDestroyed(l)
    BY <1>0, <1>2, <1>4
  <2>2. \A j \in DOMAIN ioQueue'[l] :
          \/ j \in Nat /\ j + 0 \in DOMAIN ioQueue[l] /\ ioQueue'[l][j] = ioQueue[l][j + 0]
          \/ j = Len(ioQueue[l]) + 1 /\ ioQueue'[l][j] = f /\ j \notin DOMAIN ioQueue[l]
    BY <1>0, <1>4
  <2>3. CASE i \notin DOMAIN ioQueue[l]
    BY <1>0, <1>4, <2>3, FunctorNew
  <2>4. CASE i \in DOMAIN ioQueue[l]
    <3>1. ioQueue'[l][i] = ioQueue[l][i + 0]
      BY <2>2, <2>4
    <3>2. ASSUME NEW j \in DOMAIN ioQueue'[l], j < i
          PROVE  j \in Nat /\ j + 0 \in DOMAIN ioQueue[l] /\ ioQueue'[l][j] = ioQueue[l][j + 0]
      <4>1. j # Len(ioQueue[l]) + 1
        BY <1>0, <2>4, <3>2
      <4> QED BY <2>2, <4>1
    <3>3. ASSUME NEW j \in DOMAIN ioQueue'[l], ioQueue'[l][i].op = "destroyedWithLatch",
                 ioQueue'[l][j].op = "destroyedWithLatch"
          PROVE  j \in Nat /\ j + 0 \in DOMAIN ioQueue[l] /\ ioQueue'[l][j] = ioQueue[l][j + 0]
      <4>1. ioQueue[l][i].op = "destroyedWithLatch"
        BY <1>num, <3>1, <3>3
      <4>2. basePc.at = "close"
        <5>1. basePc = [at |-> "close", c |-> ioQueue[l][i].c]
          BY <2>4, <4>1 DEF FunctorInv
        <5> QED BY <5>1
      <4>3. ~CloseNext
        <5>1. CloseNext => basePc.at = "next"
          BY DEF CloseNext
        <5> QED BY <4>2, <5>1
      <4>4. f.op # "destroyedWithLatch"
        BY <1>4, <4>3 DEF NewFunctor
      <4> QED BY <2>2, <3>3, <4>4
    <3> QED BY <1>0, <1>num, <2>1, <2>4, <3>1, <3>2, <3>3, FunctorKept
  <2> QED BY <2>3, <2>4
<1>5. CASE RunEvery(l) \/ ConnectEstablished(l) \/ ConnectDestroyed(l)
  <2> PICK ops : Runs(l, ops)
    BY <1>5 DEF RunEvery, ConnectEstablished, ConnectDestroyed
  <2>1. \A j \in DOMAIN ioQueue'[l] :
          j \in Nat /\ j + 1 \in DOMAIN ioQueue[l] /\ ioQueue'[l][j] = ioQueue[l][j + 1]
    BY RunsFacts
  <2> QED BY <1>0, <1>num, <2>1, FunctorKept
<1>6. ioQueue'[l] # <<>>
  OBVIOUS
<1> QED BY <1>3, <1>4, <1>5, <1>6, QueueMoves DEF QueueMove

\* A connection that is not over has a running loop of the pool.
LEMMA OpenLoop ==
  ASSUME TypeOK, MapInv, LoopInv, NEW c \in Conns, Born(c), ~Over(c)
  PROVE  loop[conn[c].loop].at \in {"published", "looping"}
<1>1. c \in connections
  BY DEF MapInv
<1>2. PICK i \in DOMAIN loops_ : loops_[i] = conn[c].loop
  BY <1>1 DEF MapInv
<1>3. Kept
  BY <1>1 DEF MapInv, Kept
<1> QED BY <1>2, <1>3 DEF LoopInv

LEMMA ConnectingStep ==
  ASSUME TypeOK, TypeOK', PoolInv, PeerInv, LoopInv, ReportInv, MapInv, FunctorInv, ConnectingInv, Next
  PROVE  ConnectingInv'
<1> SUFFICES ASSUME NEW c \in Conns, conn'[c].state = "kConnecting"
             PROVE  \E i \in DOMAIN ioQueue'[conn'[c].loop] :
                       ioQueue'[conn'[c].loop][i] = [op |-> "established", c |-> c]
  BY DEF ConnectingInv
<1>0. ioQueue \in [Loops -> Seq(IoOps)] /\ conn \in [Conns -> ConnType]
  BY DEF TypeOK, ConnType
<1>1. ConnMove(c)
  BY ConnMoves
<1>2. CASE conn[c].state = "kConnecting"
  <2>1. Born(c) /\ ~Over(c)
    BY <1>2 DEF ReportInv, Over
  <2>2. PICK l \in Loops : l = conn[c].loop
    BY <2>1 DEF ReportInv
  <2>3. conn'[c].loop = l
    BY <1>1, <2>1, <2>2, OverStays
  <2>4. PICK i \in DOMAIN ioQueue[l] : ioQueue[l][i] = [op |-> "established", c |-> c]
    BY <1>2, <2>2 DEF ConnectingInv
  <2>5. PICK q \in Seq(IoOps) : q = ioQueue[l]
    BY <1>0
  <2>6. CASE ioQueue'[l] = ioQueue[l]
    BY <2>3, <2>4, <2>6
  <2>7. ASSUME NEW f \in IoOps, ioQueue'[l] = Append(ioQueue[l], f)
        PROVE  i \in DOMAIN ioQueue'[l] /\ ioQueue'[l][i] = ioQueue[l][i]
    BY <2>4, <2>5, <2>7
  <2>8. ASSUME RunEvery(l) \/ ConnectEstablished(l) \/ ConnectDestroyed(l)
        PROVE  i - 1 \in DOMAIN ioQueue'[l] /\ ioQueue'[l][i - 1] = ioQueue[l][i]
    <3>1. PICK ops : Runs(l, ops)
      BY <2>8 DEF RunEvery, ConnectEstablished, ConnectDestroyed
    <3>2. /\ Head(ioQueue[l]) = ioQueue[l][1]
          /\ i # 1 => i - 1 \in DOMAIN ioQueue'[l] /\ ioQueue'[l][i - 1] = ioQueue[l][i]
      BY <3>1, RunsFacts
    <3>3. ASSUME i = 1 PROVE FALSE
      <4>1. Head(ioQueue[l]).op = "established" /\ Head(ioQueue[l]).c = c
        BY <2>4, <3>2, <3>3
      <4>2. ConnectEstablished(l)
        BY <2>8, <4>1 DEF RunEvery, ConnectDestroyed, Runs
      <4>3. conn' = [conn EXCEPT ![c].state = "kConnected", ![c].registered = TRUE]
        BY <4>1, <4>2 DEF ConnectEstablished
      <4>4. conn'[c].state = "kConnected"
        BY <1>0, <4>3 DEF ConnType
      <4> QED BY <4>4
    <3> QED BY <3>2, <3>3
  <2>9. loop[l].at # "left"
    BY <2>1, <2>2, OpenLoop
  <2> QED BY <2>3, <2>4, <2>6, <2>7, <2>8, <2>9, QueueMoves DEF QueueMove
<1>3. CASE conn[c].state # "kConnecting"
  <2>1. Appears(c)
    BY <1>1, <1>3 DEF ConnMove, Stays, GoesUp, GoesDown, LosesChannel, ShutsDown
  <2>2. PICK l : l = loops_[next_ + 1]
    OBVIOUS
  <2>3. pool /\ basePc = Idle
    BY <2>1 DEF Appears, NewConnection, Accepts, PoolInv
  <2>4. basePc.at = "idle"
    BY <2>3 DEF Idle
  <2>5. l \in Loops /\ next_ + 1 \in DOMAIN loops_
    BY <2>2, <2>3, <2>4, NextLoop
  <2>6. loop[l].at # "gone"
    BY <2>2, <2>4, <2>5 DEF LoopInv, Kept
  <2>7. conn'[c].loop = l /\ ioQueue' = Queued(l, [op |-> "established", c |-> c])
    BY <2>1, <2>2 DEF Appears, NewConnection
  <2>8. ioQueue'[l] = Append(ioQueue[l], [op |-> "established", c |-> c])
    BY <1>0, <2>5, <2>6, <2>7 DEF Queued
  <2>9. \A q \in Seq(IoOps) : \A f : Len(q) + 1 \in DOMAIN Append(q, f) /\ Append(q, f)[Len(q) + 1] = f
    OBVIOUS
  <2> QED BY <1>0, <2>5, <2>7, <2>8, <2>9
<1> QED BY <1>2, <1>3

-----------------------------------------------------------------------------
(* The idle timers.                                                        *)

\* A loop has its timer until it ends.
LEMMA TimerStays ==
  ASSUME TypeOK, PeerInv, Next, NEW l \in Loops, HasTimer(l), loop[l].at # "left"
  PROVE  HasTimer(l)'
<1> USE DEF ioVars
<1>0. ioQueue[l] \in Seq(IoOps) /\ idleTimers \in [Loops -> Nat]
  BY DEF TypeOK
<1>1. CASE RunEvery(l)
  <2>1. idleTimers' = [idleTimers EXCEPT ![l] = @ + 1]
    BY <1>1 DEF RunEvery
  <2>2. idleTimers'[l] > 0
    BY <1>0, <2>1
  <2> QED BY <2>2 DEF HasTimer
<1>2. CASE ~RunEvery(l)
  <2>1. idleTimers'[l] = idleTimers[l]
    <3>1. ASSUME NEW k \in Loops, IoStep(k) PROVE idleTimers'[l] = idleTimers[l]
      <4>1. CASE RunEvery(k)
        <5>1. k # l
          BY <1>2, <4>1
        <5> QED BY <1>0, <4>1, <5>1 DEF RunEvery
      <4>2. CASE ~RunEvery(k)
        BY <3>1, <4>2 DEF IoStep, ThreadInit, LoopBegin, LoopEnd, ThreadExit, ConnectEstablished, ConnectDestroyed
      <4> QED BY <4>1, <4>2
    <3>2. Env \/ (\E u \in Users : ReturnFromStop(u)) => idleTimers' = idleTimers
      BY DEF Env, CallStart, CallStop, HandleClose, Shutdown, PeerConnects, ReturnFromStop
    <3>3. BaseStep => idleTimers' = idleTimers
      BY DEF BaseStep, DoPendingFunctors, Start, StartTimer, StopInLoop, RemoveConnectionInLoop,
             NewConnection, RefuseConnection, Accepts, CloseNext, Closed, ResetPool, StartLoop,
             DestructThread, ThreadDestroyed
    <3> QED BY <3>1, <3>2, <3>3 DEF Next
  <2>2. CASE idleTimers[l] > 0
    BY <2>1, <2>2 DEF HasTimer
  <2>3. ASSUME NEW i \in DOMAIN ioQueue[l], ioQueue[l][i].op = "runEvery"
        PROVE  \E j \in DOMAIN ioQueue'[l] : ioQueue'[l][j].op = "runEvery"
    <3>1. PICK q \in Seq(IoOps) : q = ioQueue[l]
      BY <1>0
    <3>2. CASE ioQueue'[l] = ioQueue[l]
      BY <2>3, <3>2
    <3>3. ASSUME NEW f \in IoOps, ioQueue'[l] = Append(ioQueue[l], f)
          PROVE  i \in DOMAIN ioQueue'[l] /\ ioQueue'[l][i] = ioQueue[l][i]
      BY <2>3, <3>1, <3>3
    <3>4. ASSUME ConnectEstablished(l) \/ ConnectDestroyed(l)
          PROVE  i - 1 \in DOMAIN ioQueue'[l] /\ ioQueue'[l][i - 1] = ioQueue[l][i]
      <4>1. PICK ops : Runs(l, ops) /\ "runEvery" \notin ops
        BY <3>4 DEF ConnectEstablished, ConnectDestroyed
      <4>2. /\ Head(ioQueue[l]) = ioQueue[l][1] /\ Head(ioQueue[l]).op \in ops
            /\ i # 1 => i - 1 \in DOMAIN ioQueue'[l] /\ ioQueue'[l][i - 1] = ioQueue[l][i]
        BY <4>1, RunsFacts
      <4> QED BY <2>3, <4>1, <4>2
    <3> QED BY <1>2, <2>3, <3>2, <3>3, <3>4, QueueMoves DEF QueueMove
  <2> QED BY <2>2, <2>3 DEF HasTimer
<1> QED BY <1>1, <1>2

LEMMA NextCases ==
  ASSUME TypeOK, Next, PoolSame
  PROVE  next_' = next_ \/ (StartTimer /\ pool) \/ NewConnection
<1> USE DEF baseVars, serverVars, poolVars, ioVars, connVars, envVars, flags
<1>1. ASSUME NEW l \in Loops, IoStep(l) PROVE next_' = next_
  BY <1>1 DEF IoStep, ThreadInit, LoopBegin, LoopEnd, ThreadExit, RunEvery, ConnectEstablished,
              ConnectDestroyed, Runs
<1>2. Env \/ (\E u \in Users : ReturnFromStop(u)) => next_' = next_
  BY DEF Env, CallStart, CallStop, HandleClose, Shutdown, PeerConnects, ReturnFromStop
<1>3. Start => next_' = next_
  <2>1. Start /\ started = 0 => started' = 1
    BY DEF Start
  <2>2. Start /\ started # 0 => next_' = next_
    BY DEF Start
  <2> QED BY <2>1, <2>2 DEF PoolSame
<1>4. StartTimer => pool \/ next_' = next_
  BY DEF StartTimer
<1>5. DoPendingFunctors \/ StopInLoop \/ RemoveConnectionInLoop \/ RefuseConnection \/ CloseNext \/ Closed
         \/ ResetPool => next_' = next_
  BY DEF DoPendingFunctors, StopInLoop, RemoveConnectionInLoop, RefuseConnection, CloseNext, Closed, ResetPool
<1>6. ASSUME NEW i \in 1..NumThreads, StartLoop(i) \/ DestructThread(i) \/ ThreadDestroyed(i)
      PROVE  next_' = next_
  BY <1>6 DEF StartLoop, DestructThread, ThreadDestroyed
<1> QED BY <1>1, <1>2, <1>3, <1>4, <1>5, <1>6 DEF Next, BaseStep

\* The queued startTimer functors do not become fewer unless the base thread takes them.
LEMMA QueuedTimers ==
  ASSUME TypeOK, TypeOK', Next, ~DoPendingFunctors
  PROVE  /\ Count(baseQueue, "startTimer") \in Nat /\ Count(baseQueue', "startTimer") \in Nat
         /\ Count(baseQueue', "startTimer") >= Count(baseQueue, "startTimer")
BY CountsStep

\* The functor of a thread that publishes its loop is queued.
LEMMA QueuedByThread ==
  ASSUME TypeOK, NEW l \in Loops, ThreadInit(l)
  PROVE  Count(baseQueue', "startTimer") = Count(baseQueue, "startTimer") + 1
<1>1. [op |-> "startTimer"] \in BaseOps /\ [op |-> "startTimer"].op = "startTimer"
  BY DEF BaseOps
<1>2. baseQueue' = Append(baseQueue, [op |-> "startTimer"]) /\ batch' = batch
  BY DEF ThreadInit
<1> QED BY <1>1, <1>2, CountsAfterAppend

\* The timers that a pool which is being started is owed.
OwedWhileStarting ==
    basePc.at = "startLoop" =>
       Count(baseQueue, "startTimer") >=
          IF loop[threads_[basePc.i]].at = "init" THEN basePc.i - 1 ELSE basePc.i

LEMMA StartLoopIndex ==
  ASSUME TypeOK, basePc.at = "startLoop"
  PROVE  basePc.i \in 1..NumThreads
BY DEF TypeOK, Idle, Crashed

LEMMA StartingStep ==
  ASSUME TypeOK, TypeOK', PoolInv, LoopInv, SpawnInv, CallInv, OwedWhileStarting, Next
  PROVE  OwedWhileStarting'
<1>0. /\ NumThreads \in Nat \ {0} /\ Idle.at = "idle" /\ Crashed.at = "crashed"
      /\ threads_ \in Seq(Loops) /\ loop \in [Loops -> LoopType]
  BY TcpServerConstants DEF Idle, Crashed, TypeOK, LoopType
<1>1. ASSUME basePc'.at = "startLoop", PoolSame PROVE OwedWhileStarting'
  <2>1. basePc' = basePc /\ threads_' = threads_ /\ basePc.at = "startLoop"
    BY <1>1 DEF PoolSame
  <2>2. PICK i \in Nat : i = basePc.i /\ i >= 1
    BY <1>0, <2>1, StartLoopIndex
  <2>3. ~DoPendingFunctors
    BY <1>0, <2>1 DEF DoPendingFunctors
  <2>4. i \in DOMAIN threads_
    <3>1. Len(threads_) = i
      BY <2>1, <2>2 DEF PoolInv
    <3> QED BY <1>0, <2>2, <3>1
  <2>5. PICK t \in Loops : t = threads_[i]
    BY <1>0, <2>4
  <2>6. Count(baseQueue, "startTimer") >= IF loop[t].at = "init" THEN i - 1 ELSE i
    BY <2>1, <2>2, <2>5 DEF OwedWhileStarting
  <2>7. /\ Count(baseQueue, "startTimer") \in Nat /\ Count(baseQueue', "startTimer") \in Nat
        /\ Count(baseQueue', "startTimer") >= Count(baseQueue, "startTimer")
    BY <2>3, QueuedTimers
  <2>8. loop[t].at = "init" /\ loop'[t].at # "init" =>
          Count(baseQueue', "startTimer") = Count(baseQueue, "startTimer") + 1
    <3>1. loop[t].at = "init" => loop'[t] = loop[t] \/ ThreadInit(t)
      BY <1>1, LoopsOfPoolSame DEF LoopMoves
    <3> QED BY <3>1, QueuedByThread
  <2>9. Count(baseQueue', "startTimer") >= IF loop'[t].at = "init" THEN i - 1 ELSE i
    BY <2>6, <2>7, <2>8
  <2> QED BY <2>1, <2>2, <2>5, <2>9 DEF OwedWhileStarting
<1>2. ASSUME Start, started = 0 PROVE OwedWhileStarting'
  <2>1. loops_' = <<>> /\ Spawn(<<>>) /\ Takes("start") /\ basePc' = [at |-> "startLoop", i |-> 1]
        /\ baseQueue' = baseQueue
    BY <1>2 DEF Start
  <2>2. ToSpawn = 0 /\ Count(batch, "start") > 0
    <3>1. basePc.at = "idle" /\ batch' \in Seq(BaseOps) /\ Count(batch, "start") = Count(batch', "start") + 1
      BY <2>1, TakesFacts DEF TypeOK
    <3>2. Count(batch', "start") \in Nat
      BY <3>1, CountType
    <3> QED BY <3>1, <3>2 DEF ToSpawn
  <2>3. PICK n \in Nat : Spawned = 1..n /\ n + 1 \in Loops
    BY <2>2, SpawnRoom
  <2>4. <<>> \in Seq(Loops)
    OBVIOUS
  <2>5. /\ threads_' = Append(<<>>, n + 1)
        /\ loop' = [loop EXCEPT ![n + 1].at = "init"]
    BY <1>0, <2>1, <2>3, <2>4, SpawnFacts
  <2>6. threads_'[1] = n + 1 /\ loop'[n + 1].at = "init"
    BY <1>0, <2>3, <2>5 DEF LoopType
  <2>7. Count(baseQueue', "startTimer") \in Nat
    BY CountType DEF TypeOK
  <2> QED BY <2>1, <2>6, <2>7 DEF OwedWhileStarting
<1>3. ASSUME NEW i \in 1..NumThreads, StartLoop(i) PROVE OwedWhileStarting'
  <2>1. /\ basePc = [at |-> "startLoop", i |-> i] /\ basePc.at = "startLoop" /\ basePc.i = i
        /\ loop[threads_[i]].at \in {"published", "looping"} /\ baseQueue' = baseQueue
    BY <1>3 DEF StartLoop
  <2>2. Len(threads_) = i /\ i \in Nat
    BY <1>0, <2>1 DEF PoolInv
  <2>3. CASE i < NumThreads
    <3>1. Spawn(threads_) /\ basePc' = [basePc EXCEPT !.i = i + 1]
      BY <1>3, <2>3 DEF StartLoop
    <3>2. ToSpawn > 0
      BY <1>0, <2>1, <2>3 DEF ToSpawn
    <3>3. PICK n \in Nat : Spawned = 1..n /\ n + 1 \in Loops
      BY <3>2, SpawnRoom
    <3>4. /\ threads_' = Append(threads_, n + 1)
          /\ loop' = [loop EXCEPT ![n + 1].at = "init"]
      BY <1>0, <3>1, <3>3, SpawnFacts
    <3>5. threads_'[i + 1] = n + 1 /\ loop'[n + 1].at = "init"
      BY <1>0, <2>2, <3>3, <3>4 DEF LoopType
    <3>6. basePc' = [at |-> "startLoop", i |-> i + 1]
      BY <2>1, <3>1
    <3>7. Count(baseQueue', "startTimer") >= (i + 1) - 1
      <4>1. Count(baseQueue, "startTimer") >= i
        BY <2>1 DEF OwedWhileStarting
      <4> QED BY <2>1, <2>2, <4>1
    <3> QED BY <3>5, <3>6, <3>7 DEF OwedWhileStarting
  <2>4. CASE ~(i < NumThreads)
    <3>1. basePc' = Idle
      BY <1>3, <2>4 DEF StartLoop
    <3> QED BY <1>0, <3>1 DEF OwedWhileStarting
  <2> QED BY <2>3, <2>4
<1>4. CASE \/ StartTimer /\ ~pool
           \/ StopInLoop \/ CloseNext \/ Closed \/ ResetPool
  <2>1. basePc'.at # "startLoop"
    BY <1>0, <1>4 DEF StartTimer, StopInLoop, CloseNext, Closed, ResetPool, Stopped
  <2> QED BY <2>1 DEF OwedWhileStarting
<1>5. ASSUME NEW i \in 1..NumThreads, DestructThread(i) \/ ThreadDestroyed(i) PROVE OwedWhileStarting'
  <2>1. DestructThread(i) => basePc'.at # "startLoop"
    BY DEF DestructThread
  <2>2. ThreadDestroyed(i) => basePc'.at # "startLoop"
    BY <1>0 DEF ThreadDestroyed, Stopped
  <2> QED BY <1>5, <2>1, <2>2 DEF OwedWhileStarting
<1>6. basePc'.at # "startLoop" => OwedWhileStarting'
  BY DEF OwedWhileStarting
<1> QED BY <1>1, <1>2, <1>3, <1>4, <1>5, <1>6, PoolCases DEF PoolChange

\* getNextLoop brings every other loop one call closer.
LEMMA DistanceFacts ==
  ASSUME NumThreads \in Nat \ {0}, next_ \in 0..(NumThreads - 1), Len(loops_) = NumThreads,
         NEW j \in 0..(NumThreads - 1)
  PROVE  /\ Distance(j) \in 0..(NumThreads - 1)
         /\ next_' \in 0..(NumThreads - 1) => Distance(j)' \in 0..(NumThreads - 1)
         /\ next_' = NextIndex => Distance(j)' = Distance(j) - 1 \/ j = next_
<1>1. Distance(j) \in 0..(NumThreads - 1)
  BY DEF Distance
<1>2. ASSUME next_' \in 0..(NumThreads - 1) PROVE Distance(j)' \in 0..(NumThreads - 1)
  <2>1. PICK n \in 0..(NumThreads - 1) : n = next_'
    BY <1>2
  <2>2. (IF j >= n THEN j - n ELSE j - n + NumThreads) \in 0..(NumThreads - 1)
    OBVIOUS
  <2> QED BY <2>1, <2>2 DEF Distance
<1>3. next_' = NextIndex => Distance(j)' = Distance(j) - 1 \/ j = next_
  BY DEF Distance, NextIndex
<1> QED BY <1>1, <1>2, <1>3

\* The timers that a complete pool is owed.
OwedWhenComplete ==
    basePc.at = "idle" /\ pool =>
       \/ Count(baseQueue, "startTimer") >= NumThreads
       \/ \A j \in 0..NumThreads - 1 :
             HasTimer(loops_[j + 1]) \/ Distance(j) < Count(batch, "startTimer")

LEMMA CompleteStep ==
  ASSUME TypeOK, TypeOK', PoolInv, LoopInv, PeerInv, OwedWhileStarting, OwedWhenComplete, Next
  PROVE  OwedWhenComplete'
<1> DEFINE Q == Count(baseQueue, "startTimer")
           B == Count(batch, "startTimer")
           QN == Count(baseQueue', "startTimer")
           BN == Count(batch', "startTimer")
<1>num. NumThreads \in Nat \ {0}
  BY TcpServerConstants
<1>0. Idle.at = "idle" /\ Crashed.at = "crashed" /\ Q \in Nat /\ B \in Nat /\ QN \in Nat /\ BN \in Nat
  BY CountsStep DEF Idle, Crashed
<1>1. ASSUME PoolSame, basePc.at = "idle", pool PROVE OwedWhenComplete'
  <2>1. UNCHANGED <<basePc, pool, loops_>>
    BY <1>1 DEF PoolSame
  <2>2. Len(loops_) = NumThreads /\ DOMAIN loops_ = 1..NumThreads /\ loops_[next_ + 1] \in Loops
    BY <1>1, NextLoop
  <2>3. next_ \in 0..(NumThreads - 1) /\ next_' \in 0..(NumThreads - 1) /\ loops_ \in Seq(Loops)
    <3>1. next_' \in 0..(NumThreads - 1)
      BY DEF TypeOK
    <3> QED BY <3>1 DEF TypeOK
  <2>4. \A j \in 0..(NumThreads - 1) : j + 1 \in DOMAIN loops_ /\ loops_[j + 1] \in Loops
    BY <1>num, <2>2, <2>3
  <2>5. ASSUME NEW j \in 0..(NumThreads - 1), HasTimer(loops_[j + 1]) PROVE HasTimer(loops_[j + 1])'
    <3>1. PICK l \in Loops : l = loops_[j + 1]
      BY <2>4
    <3>2. loop[l].at # "left"
      BY <1>1, <2>4, <3>1 DEF LoopInv, Kept
    <3>3. HasTimer(l)'
      BY <2>5, <3>1, <3>2, TimerStays
    <3> QED BY <2>1, <3>1, <3>3
  <2>6. ASSUME Q >= NumThreads PROVE OwedWhenComplete'
    <3>1. CASE DoPendingFunctors
      <4>1. BN = Q
        BY <3>1 DEF DoPendingFunctors
      <4>2. \A j \in 0..(NumThreads - 1) : Distance(j)' < NumThreads
        <5>1. ASSUME NEW j \in 0..(NumThreads - 1) PROVE Distance(j)' < NumThreads
          <6>1. Distance(j)' \in 0..(NumThreads - 1)
            BY <1>num, <2>2, <2>3, DistanceFacts
          <6> QED BY <1>num, <6>1
        <5> QED BY <5>1
      <4>3. \A j \in 0..(NumThreads - 1) : Distance(j)' < BN
        <5>1. \A j \in 0..(NumThreads - 1) : Distance(j)' \in Int
          BY <1>num, <2>3 DEF Distance
        <5> QED BY <1>num, <1>0, <2>6, <4>1, <4>2, <5>1
      <4> QED BY <4>3 DEF OwedWhenComplete
    <3>2. CASE ~DoPendingFunctors
      <4>1. QN >= Q
        BY <3>2, QueuedTimers
      <4>2. QN >= NumThreads
        BY <1>num, <1>0, <2>6, <4>1
      <4> QED BY <4>2 DEF OwedWhenComplete
    <3> QED BY <3>1, <3>2
  <2>7. ASSUME \A j \in 0..(NumThreads - 1) : HasTimer(loops_[j + 1]) \/ Distance(j) < B
        PROVE  OwedWhenComplete'
    <3>1. \A j \in 0..(NumThreads - 1) : Distance(j) \in 0..(NumThreads - 1)
      BY <1>num, <2>2, <2>3, DistanceFacts
    <3>2. ASSUME NEW j \in 0..(NumThreads - 1), ~HasTimer(loops_[j + 1])
          PROVE  HasTimer(loops_[j + 1])' \/ Distance(j)' < BN
      <4>1. Distance(j) < B /\ Distance(j) \in Nat /\ B > 0
        <5>1. Distance(j) \in Nat
          BY <1>num, <3>1
        <5>2. Distance(j) < B
          BY <2>7, <3>2
        <5> QED BY <1>0, <5>1, <5>2
      <4>2. ~NewConnection /\ ~DoPendingFunctors
        <5>1. NewConnection \/ DoPendingFunctors => batch = <<>>
          BY DEF NewConnection, Accepts, DoPendingFunctors
        <5>2. batch = <<>> => B = 0
          BY CountEmpty
        <5> QED BY <1>0, <4>1, <5>1, <5>2
      <4>3. CASE StartTimer
        <5>1. /\ ioQueue' = Queued(loops_[next_ + 1], [op |-> "runEvery"]) /\ next_' = NextIndex
              /\ Takes("startTimer")
          BY <1>1, <4>3 DEF StartTimer
        <5>2. B = BN + 1
          BY <5>1, TakesFacts DEF TypeOK
        <5>3. CASE j = next_
          <6>1. PICK l \in Loops : l = loops_[j + 1]
            BY <2>4
          <6>2. loop[l].at # "gone"
            BY <1>1, <2>4, <6>1 DEF LoopInv, Kept
          <6>3. ioQueue \in [Loops -> Seq(IoOps)]
            BY DEF TypeOK
          <6>4. ioQueue'[l] = Append(ioQueue[l], [op |-> "runEvery"])
            BY <5>1, <5>3, <6>1, <6>2, <6>3 DEF Queued
          <6>5. \A q \in Seq(IoOps) : \A f : Len(q) + 1 \in DOMAIN Append(q, f) /\ Append(q, f)[Len(q) + 1] = f
            OBVIOUS
          <6>6. \E i \in DOMAIN ioQueue'[l] : ioQueue'[l][i] = [op |-> "runEvery"]
            BY <6>3, <6>4, <6>5
          <6>7. HasTimer(l)'
            BY <6>6 DEF HasTimer
          <6> QED BY <2>1, <6>1, <6>7
        <5>4. CASE j # next_
          <6>1. Distance(j)' = Distance(j) - 1
            BY <1>num, <2>2, <2>3, <5>1, <5>4, DistanceFacts
          <6> QED BY <1>0, <4>1, <5>2, <6>1
        <5> QED BY <5>3, <5>4
      <4>4. CASE ~StartTimer
        <5>1. next_' = next_
          BY <1>1, <4>2, <4>4, NextCases
        <5>2. Distance(j)' = Distance(j)
          BY <5>1 DEF Distance
        <5>3. BN = B
          BY <4>2, <4>4, CountsStep
        <5> QED BY <4>1, <5>2, <5>3
      <4> QED BY <4>3, <4>4
    <3>3. \A j \in 0..(NumThreads - 1) : HasTimer(loops_[j + 1])' \/ Distance(j)' < BN
      BY <2>5, <3>2
    <3> QED BY <2>1, <3>3 DEF OwedWhenComplete
  <2> QED BY <1>1, <2>6, <2>7 DEF OwedWhenComplete
<1>2. ASSUME basePc'.at # "idle" \/ ~pool' PROVE OwedWhenComplete'
  BY <1>2 DEF OwedWhenComplete
<1>3. CASE PoolSame
  <2>1. UNCHANGED <<basePc, pool>>
    BY <1>3 DEF PoolSame
  <2> QED BY <1>1, <1>2, <1>3, <2>1
<1>4. CASE Start /\ started = 0
  <2>1. basePc'.at = "startLoop"
    BY <1>4 DEF Start
  <2> QED BY <1>2, <2>1
<1>5. ASSUME NEW i \in 1..NumThreads, StartLoop(i) PROVE OwedWhenComplete'
  <2>1. /\ basePc = [at |-> "startLoop", i |-> i] /\ basePc.at = "startLoop" /\ basePc.i = i
        /\ loop[threads_[i]].at \in {"published", "looping"} /\ baseQueue' = baseQueue
    BY <1>5 DEF StartLoop
  <2>2. CASE i < NumThreads
    <3>1. basePc' = [basePc EXCEPT !.i = i + 1]
      BY <1>5, <2>2 DEF StartLoop
    <3>2. basePc'.at = "startLoop"
      BY <2>1, <3>1
    <3> QED BY <1>2, <3>2
  <2>3. CASE ~(i < NumThreads)
    <3>1. i = NumThreads
      BY <1>num, <2>3
    <3>2. Count(baseQueue, "startTimer") >= i
      BY <2>1 DEF OwedWhileStarting
    <3>3. Count(baseQueue', "startTimer") >= NumThreads
      BY <2>1, <3>1, <3>2
    <3> QED BY <3>3 DEF OwedWhenComplete
  <2> QED BY <2>2, <2>3
<1>6. CASE \/ StartTimer /\ ~pool
           \/ StopInLoop \/ CloseNext \/ Closed \/ ResetPool
  <2>1. basePc'.at # "idle" \/ ~pool'
    BY <1>0, <1>6 DEF StartTimer, StopInLoop, CloseNext, Closed, ResetPool, Stopped
  <2> QED BY <1>2, <2>1
<1>7. ASSUME NEW i \in 1..NumThreads, DestructThread(i) \/ ThreadDestroyed(i) PROVE OwedWhenComplete'
  <2>1. DestructThread(i) => basePc'.at # "idle"
    BY DEF DestructThread
  <2>2. ThreadDestroyed(i) => basePc'.at # "idle" \/ ~pool'
    BY <1>0 DEF ThreadDestroyed, Stopped
  <2> QED BY <1>2, <1>7, <2>1, <2>2
<1> QED BY <1>3, <1>4, <1>5, <1>6, <1>7, PoolCases DEF PoolChange

LEMMA IdleStep ==
  ASSUME TypeOK, TypeOK', PoolInv, LoopInv, SpawnInv, CallInv, PeerInv, IdleInv, Next
  PROVE  IdleInv'
<1>1. OwedWhileStarting /\ OwedWhenComplete
  BY DEF IdleInv, OwedWhileStarting, OwedWhenComplete
<1>2. OwedWhileStarting' /\ OwedWhenComplete'
  BY <1>1, StartingStep, CompleteStep
<1> QED BY <1>2 DEF IdleInv, OwedWhileStarting, OwedWhenComplete

-----------------------------------------------------------------------------
(* The theorems.                                                           *)

LEMMA InvInit ==
  ASSUME Init
  PROVE  IInv
<1>0. /\ NumThreads \in Nat \ {0} /\ MaxConns \in Nat /\ MaxStarts \in Nat
      /\ Idle.at = "idle" /\ MaxStops \in Nat
  BY TcpServerConstants DEF Idle
<1>1. TypeOK
  <2>1. <<>> \in Seq(BaseOps) /\ <<>> \in Seq(Loops) /\ <<>> \in Seq(IoOps)
    OBVIOUS
  <2>2. loop \in [Loops -> LoopType] /\ conn \in [Conns -> ConnType]
    BY DEF Init, LoopType, ConnType
  <2>3. /\ ioQueue \in [Loops -> Seq(IoOps)] /\ idleTimers \in [Loops -> Nat]
        /\ ups \in [Conns -> Nat] /\ downs \in [Conns -> Nat]
        /\ calls \in [{"start", "stop", "connect"} -> Nat]
    BY <2>1 DEF Init
  <2>4. 1 \in 1..(MaxConns + 1) /\ 0 \in 0..(NumThreads - 1) /\ 0 \in 0..MaxConns /\ 0 \in 0..1
    BY <1>0
  <2>5. /\ baseQueue \in Seq(BaseOps) /\ batch \in Seq(BaseOps) /\ basePc = Idle
        /\ loops_ \in Seq(Loops) /\ threads_ \in Seq(Loops)
        /\ started \in 0..1 /\ next_ \in 0..(NumThreads - 1) /\ nextSockId \in 1..(MaxConns + 1)
        /\ backlog \in 0..MaxConns /\ latch \in Int /\ connLatch \in Int
    BY <2>1, <2>4 DEF Init
  <2>6. /\ listening \in BOOLEAN /\ pool \in BOOLEAN /\ latchOverwritten \in BOOLEAN
        /\ connections \subseteq Conns /\ halfClosed \subseteq Conns /\ waiting \subseteq Users
        /\ lostQuits \subseteq Loops
    BY DEF Init
  <2> QED BY <2>2, <2>3, <2>5, <2>6 DEF TypeOK, LoopType, ConnType
<1>2. PoolInv
  BY <1>0 DEF Init, PoolInv
<1>3. LoopInv
  BY DEF Init, LoopInv
<1>4. SpawnInv
  <2>1. Count(baseQueue, "start") = 0 /\ Count(batch, "start") = 0
    BY CountEmpty DEF Init
  <2>2. ToSpawn = 0
    BY <1>0 DEF Init, ToSpawn
  <2>3. {l \in Loops : loop[l].at # "none"} = 1..0
    BY DEF Init
  <2>4. calls["start"] = 0
    BY DEF Init
  <2>5. 0 + ToSpawn + NumThreads * (Count(baseQueue, "start") + Count(batch, "start"))
          <= NumThreads * calls["start"]
    BY <1>0, <2>1, <2>2, <2>4
  <2> QED BY <2>3, <2>5 DEF SpawnInv
<1>5. PeerInv /\ CallInv
  BY <1>0 DEF Init, PeerInv, CallInv
<1>6. ReportInv
  <2>1. \A c \in Conns : ~Born(c)
    BY <1>0 DEF Init, Born, Conns
  <2> QED BY <2>1 DEF Init, ReportInv
<1>7. MapInv
  <2>1. \A c \in Conns : ~Born(c)
    BY <1>0 DEF Init, Born, Conns
  <2> QED BY <1>0, <2>1 DEF Init, MapInv
<1>8. FunctorInv /\ ConnectingInv /\ RemoveInv
  BY DEF Init, FunctorInv, ConnectingInv, RemoveInv
<1>9. IdleInv
  BY <1>0 DEF Init, IdleInv
<1> QED BY <1>1, <1>2, <1>3, <1>4, <1>5, <1>6, <1>7, <1>8, <1>9 DEF IInv

LEMMA InvStutter ==
  ASSUME IInv, UNCHANGED vars
  PROVE  IInv'
<1> USE DEF vars, baseVars, serverVars, poolVars, ioVars, connVars, envVars, flags
<1>1. TypeOK' /\ PoolInv' /\ LoopInv'
  BY DEF IInv, TypeOK, PoolInv, LoopInv, Kept
<1>2. SpawnInv' /\ PeerInv' /\ CallInv'
  BY DEF IInv, SpawnInv, ToSpawn, PeerInv, CallInv
<1>3. ReportInv' /\ MapInv' /\ RemoveInv'
  BY DEF IInv, ReportInv, MapInv, RemoveInv, Born, Over
<1>4. FunctorInv' /\ ConnectingInv'
  BY DEF IInv, FunctorInv, ConnectingInv, Born
<1>5. IdleInv'
  BY DEF IInv, IdleInv, HasTimer, Distance
<1> QED BY <1>1, <1>2, <1>3, <1>4, <1>5 DEF IInv

LEMMA Invariant == Spec => []IInv
<1>1. Init => IInv
  BY InvInit
<1>2. IInv /\ [Next]_vars => IInv'
  <2> SUFFICES ASSUME IInv, [Next]_vars PROVE IInv'
    OBVIOUS
  <2>1. CASE UNCHANGED vars
    BY <2>1, InvStutter
  <2>2. CASE Next
    <3>1. /\ TypeOK /\ PoolInv /\ LoopInv /\ SpawnInv /\ PeerInv /\ CallInv
          /\ ReportInv /\ MapInv /\ FunctorInv /\ ConnectingInv /\ RemoveInv /\ IdleInv
      BY DEF IInv
    <3>2. TypeOK'
      BY <2>2, <3>1, TypeStep
    <3>3. PoolInv' /\ LoopInv' /\ SpawnInv' /\ PeerInv' /\ CallInv'
      BY <2>2, <3>1, <3>2, PoolStep, LoopInvStep, SpawnStep, PeerStep, CallStep
    <3>4. ReportInv' /\ MapInv' /\ RemoveInv'
      BY <2>2, <3>1, <3>2, ReportStep, MapStep, RemoveStep
    <3>5. FunctorInv' /\ ConnectingInv'
      BY <2>2, <3>1, <3>2, FunctorStep, ConnectingStep
    <3>6. IdleInv'
      BY <2>2, <3>1, <3>2, IdleStep
    <3> QED BY <3>2, <3>3, <3>4, <3>5, <3>6 DEF IInv
  <2> QED BY <2>1, <2>2
<1> QED BY <1>1, <1>2, PTL DEF Spec

\* The server keeps its types: in particular the loop of every thread that
\* EventLoopThreadPool::start creates, and the socket id of every connection
\* that the Acceptor accepts, exist.
THEOREM ServerTypeCorrect == Spec => []TypeOK
<1>1. IInv => TypeOK
  BY DEF IInv
<1> QED BY <1>1, Invariant, PTL

\* The connection callback is called once that a connection is up and at most
\* once, afterwards, that it is down, whichever of handleClose,
\* connectDestroyed and connectDestroyedWithLatch comes first.
THEOREM CallbacksCorrect == Spec => []CallbacksPaired
<1>1. IInv => CallbacksPaired
  <2> SUFFICES ASSUME IInv, NEW c \in Conns PROVE downs[c] <= ups[c] /\ ups[c] <= 1
    BY DEF CallbacksPaired
  <2>1. /\ ups[c] = IF conn[c].state \in {"none", "kConnecting"} THEN 0 ELSE 1
        /\ downs[c] = IF conn[c].state = "kDisconnected" THEN 1 ELSE 0
    BY DEF IInv, ReportInv
  <2> QED BY <2>1
<1> QED BY <1>1, Invariant, PTL

\* stopInLoop destroys every connection before it destroys the pool: a
\* connection whose close has not been reported has a loop that runs.
THEOREM LoopKeptCorrect == Spec => []OpenConnectionsHaveALoop
<1>1. IInv => OpenConnectionsHaveALoop
  <2> SUFFICES ASSUME IInv, NEW c \in Conns,
                      \/ conn[c].state \in {"kConnecting", "kConnected"}
                      \/ conn[c].state = "kDisconnecting" /\ conn[c].registered
               PROVE  loop[conn[c].loop].at \notin {"left", "gone"}
    BY DEF OpenConnectionsHaveALoop
  <2>1. Born(c) /\ ~Over(c)
    BY DEF IInv, ReportInv, Over
  <2>2. loop[conn[c].loop].at \in {"published", "looping"}
    BY <2>1, OpenLoop DEF IInv
  <2> QED BY <2>2
<1> QED BY <1>1, Invariant, PTL

\* When stopInLoop has ended, every connection that was accepted has been
\* reported up, and down unless it was found in kDisconnecting, and the map is
\* empty.
THEOREM StoppedCorrect == Spec => []StoppedServerIsEmpty
<1>1. IInv => StoppedServerIsEmpty
  <2> SUFFICES ASSUME IInv, ~pool
               PROVE  /\ connections = {}
                      /\ \A c \in Conns : c < nextSockId => ups[c] = 1 /\ (downs[c] = 1 \/ c \in halfClosed)
    BY DEF StoppedServerIsEmpty
  <2>1. connections = {}
    BY DEF IInv, MapInv
  <2>2. ASSUME NEW c \in Conns, c < nextSockId PROVE ups[c] = 1 /\ (downs[c] = 1 \/ c \in halfClosed)
    <3>1. Over(c)
      BY <2>1, <2>2 DEF IInv, MapInv, Born
    <3> QED BY <3>1 DEF IInv, ReportInv, Over
  <2> QED BY <2>1, <2>2
<1> QED BY <1>1, Invariant, PTL

\* Although startTimer and newConnection draw on one round robin, no
\* connection is accepted between the timers of a pool, so that every loop
\* gets a timer that looks for idle connections.
THEOREM IdleTimersCorrect == Spec => []EveryLoopHasIdleTimer
<1>1. IInv => EveryLoopHasIdleTimer
  <2> SUFFICES ASSUME IInv, basePc = Idle, pool,
                      [op |-> "startTimer"] \notin Range(baseQueue) \cup Range(batch),
                      NEW l \in Range(loops_)
               PROVE  idleTimers[l] > 0 \/ [op |-> "runEvery"] \in Range(ioQueue[l])
    BY DEF EveryLoopHasIdleTimer
  <2>1. basePc.at = "idle"
    BY DEF Idle
  <2>num. NumThreads \in Nat \ {0}
    BY TcpServerConstants
  <2>2. ASSUME NEW q \in Seq(BaseOps), [op |-> "startTimer"] \notin Range(q)
        PROVE  Count(q, "startTimer") = 0
    <3>1. \A i \in DOMAIN q : q[i] \in BaseOps /\ q[i] # [op |-> "startTimer"]
      BY <2>2 DEF Range
    <3>2. \A f \in BaseOps : f.op = "startTimer" => f = [op |-> "startTimer"]
      BY DEF BaseOps
    <3> QED BY <3>1, <3>2, CountType
  <2>3. Count(baseQueue, "startTimer") = 0 /\ Count(batch, "startTimer") = 0
    BY <2>2 DEF IInv, TypeOK
  <2>4. \A j \in 0..(NumThreads - 1) : HasTimer(loops_[j + 1]) \/ Distance(j) < 0
    BY <2>num, <2>1, <2>3 DEF IInv, IdleInv
  <2>5. /\ Len(loops_) = NumThreads /\ DOMAIN loops_ = 1..NumThreads
        /\ next_ \in 0..(NumThreads - 1)
    BY <2>1, NextLoop DEF IInv, TypeOK
  <2>6. PICK i \in 1..NumThreads : loops_[i] = l
    BY <2>5 DEF Range
  <2>7. i - 1 \in 0..(NumThreads - 1) /\ (i - 1) + 1 = i
    BY <2>num
  <2>8. HasTimer(loops_[(i - 1) + 1]) \/ Distance(i - 1) < 0
    BY <2>4, <2>7
  <2>9. Distance(i - 1) \in 0..(NumThreads - 1)
    BY <2>num, <2>5, <2>7, DistanceFacts
  <2>10. HasTimer(l)
    BY <2>num, <2>6, <2>7, <2>8, <2>9
  <2>11. CASE idleTimers[l] > 0
    BY <2>11
  <2>12. ASSUME NEW k \in DOMAIN ioQueue[l], ioQueue[l][k].op = "runEvery"
         PROVE  [op |-> "runEvery"] \in Range(ioQueue[l])
    <3>1. l \in Loops
      BY <2>5, <2>6 DEF IInv, TypeOK
    <3>2. ioQueue[l] \in Seq(IoOps)
      BY <3>1 DEF IInv, TypeOK
    <3>3. ioQueue[l][k] \in IoOps
      BY <2>12, <3>2
    <3>4. \A f \in IoOps : f.op = "runEvery" => f = [op |-> "runEvery"]
      BY DEF IoOps
    <3>5. ioQueue[l][k] = [op |-> "runEvery"]
      BY <2>12, <3>3, <3>4
    <3> QED BY <2>12, <3>5 DEF Range
  <2> QED BY <2>10, <2>11, <2>12 DEF HasTimer
<1> QED BY <1>1, Invariant, PTL
=============================================================================
