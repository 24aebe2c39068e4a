------------------------ MODULE TcpConnectionProofs -------------------------
(***************************************************************************)
(* Proofs about TcpConnection for any messages, threads, operations and    *)
(* bounds: type correctness together with the bookkeeping of the output    *)
(* list, the validity of the iterators bound to send timers, that nothing  *)
(* is written after the sending side was shut down, that every accepted    *)
(* message has one outcome and goes over the wire in order, and that a     *)
(* connection which only its loop thread closes is closed once.            *)
(***************************************************************************)
EXTENDS TcpConnection, SequenceTheorems, FiniteSetTheorems, TLAPS

Buffers == Msgs \X (1..MsgLen)

\* The part of TypeOK that sending and closing change.
OutTypeOK ==
    /\ outputBufferList_ \in Seq(Buffers)
    /\ sendQueSize_ \in Nat
    /\ timers \subseteq Timers
    /\ chWriting \in BOOLEAN
    /\ wire \in Seq(Msgs) /\ taken \in Seq(Msgs)
    /\ outcome \in [Msgs -> Seq(Codes)]

\* The rest of it.
RestTypeOK ==
    /\ state_ \in States
    /\ reading_ \in BOOLEAN /\ chReading \in BOOLEAN /\ removed_ \in BOOLEAN
    /\ functors \in Seq(Functor)
    /\ timerBatch \subseteq Timers /\ calling \in BOOLEAN
    /\ tpc \in [Threads -> [op : CloseOps, step : {"checked", "set"}] \cup {Idle}]
    /\ baseQueue \in Nat /\ inServer \in BOOLEAN
    /\ writeShut \in BOOLEAN
    /\ ret \in [Msgs -> Codes \cup {"none"}]
    /\ closes \in Nat /\ destroys \in Nat /\ ops \in Nat

-----------------------------------------------------------------------------
(* The operators of the model.                                             *)

LEMMA WithoutFacts ==
  ASSUME NEW S, NEW s \in Seq(S), NEW i \in DOMAIN s
  PROVE  /\ Without(s, i) \in Seq(S)
         /\ Len(Without(s, i)) = Len(s) - 1
         /\ \A k \in 1..Len(s) - 1 : Without(s, i)[k] = IF k < i THEN s[k] ELSE s[k + 1]
<1> DEFINE a == SubSeq(s, 1, i - 1)
           b == SubSeq(s, i + 1, Len(s))
<1>1. /\ a \in Seq(S) /\ Len(a) = i - 1
      /\ \A k \in 1..i - 1 : a[k] = s[k]
  BY SubSeqProperties
<1>2. /\ b \in Seq(S) /\ Len(b) = Len(s) - i
      /\ \A k \in 1..Len(s) - i : b[k] = s[k + i]
  BY SubSeqProperties
<1>3. Without(s, i) = a \o b
  BY DEF Without
<1> HIDE DEF a, b
<1>4. /\ Without(s, i) \in Seq(S)
      /\ Len(Without(s, i)) = Len(s) - 1
  BY <1>1, <1>2, <1>3
<1>5. ASSUME NEW k \in 1..Len(s) - 1
      PROVE  Without(s, i)[k] = IF k < i THEN s[k] ELSE s[k + 1]
  <2>1. CASE k < i
    BY <1>1, <1>2, <1>3, <2>1
  <2>2. CASE ~(k < i)
    <3>1. (a \o b)[k] = b[k - (i - 1)]
      BY <1>1, <1>2, <2>2
    <3> QED BY <1>2, <1>3, <2>2, <3>1
  <2> QED BY <2>1, <2>2
<1> QED BY <1>4, <1>5

LEMMA WrittenType ==
  ASSUME wire \in Seq(Msgs), NEW m \in Msgs, NEW n \in Nat, Written(m, n)
  PROVE  wire' \in Seq(Msgs)
<1>1. [i \in 1..n |-> m] \in Seq(Msgs)
  OBVIOUS
<1> QED BY <1>1 DEF Written

LEMMA ReportType ==
  ASSUME outcome \in [Msgs -> Seq(Codes)], NEW m \in Msgs, NEW code \in Codes, Report(m, code)
  PROVE  outcome' \in [Msgs -> Seq(Codes)]
BY DEF Report

LEMMA ReportAllType ==
  ASSUME outcome \in [Msgs -> Seq(Codes)], NEW ms, NEW code \in Codes, ReportAll(ms, code)
  PROVE  outcome' \in [Msgs -> Seq(Codes)]
BY DEF ReportAll

LEMMA EnqueueType ==
  ASSUME OutTypeOK, NEW m \in Msgs, NEW n \in 1..MsgLen, NEW timeout \in BOOLEAN,
         Enqueue(m, n, timeout)
  PROVE  /\ outputBufferList_' \in Seq(Buffers)
         /\ Len(outputBufferList_') = Len(outputBufferList_) + 1
         /\ sendQueSize_' \in Nat
         /\ timers' \subseteq Timers
         /\ chWriting' \in BOOLEAN
         /\ outcome' \in [Msgs -> Seq(Codes)]
<1>1. chWriting' \in BOOLEAN
  BY Zenon DEF Enqueue
<1>2. <<m, n>> \in Buffers
  BY DEF Buffers
<1>3. timers' \subseteq Timers
  BY DEF Enqueue, OutTypeOK, Timers
<1> QED BY <1>1, <1>2, <1>3 DEF Enqueue, OutTypeOK

LEMMA SendInLoopType ==
  ASSUME OutTypeOK, NEW m \in Msgs, NEW timeout \in BOOLEAN, SendInLoop(m, timeout)
  PROVE  OutTypeOK'
<1>1. taken' \in Seq(Msgs)
  BY DEF SendInLoop, OutTypeOK
<1>2. CASE /\ Report(m, "DISCONNECTED")
           /\ UNCHANGED <<outputBufferList_, sendQueSize_, timers, chWriting, wire>>
  BY <1>1, <1>2, ReportType DEF OutTypeOK, Codes
<1>3. CASE Enqueue(m, MsgLen, timeout) /\ UNCHANGED wire
  BY <1>1, <1>3, EnqueueType, ConnectionConstants DEF OutTypeOK
<1>4. ASSUME NEW n \in 0..MsgLen - 1, Written(m, n), Enqueue(m, MsgLen - n, timeout)
      PROVE  OutTypeOK'
  <2>1. wire' \in Seq(Msgs)
    BY <1>4, WrittenType DEF OutTypeOK
  <2>2. MsgLen - n \in 1..MsgLen
    BY ConnectionConstants
  <2> QED BY <1>1, <1>4, <2>1, <2>2, EnqueueType DEF OutTypeOK
<1>5. CASE /\ Written(m, MsgLen)
           /\ Report(m, "SUCCESS")
           /\ UNCHANGED <<outputBufferList_, sendQueSize_, timers, chWriting>>
  <2>1. wire' \in Seq(Msgs)
    BY <1>5, WrittenType, ConnectionConstants DEF OutTypeOK
  <2> QED BY <1>1, <1>5, <2>1, ReportType DEF OutTypeOK, Codes
<1>6. CASE /\ Report(m, "WRITEERR")
           /\ UNCHANGED <<outputBufferList_, sendQueSize_, timers, chWriting, wire>>
  BY <1>1, <1>6, ReportType DEF OutTypeOK, Codes
<1> QED BY <1>2, <1>3, <1>4, <1>5, <1>6 DEF SendInLoop

LEMMA FailAllUnsentType ==
  ASSUME OutTypeOK, UnsentDataIsWritten, FailAllUnsent
  PROVE  /\ OutTypeOK'
         /\ state_' = "kDisconnected" /\ chReading' = FALSE /\ chWriting' = FALSE
         /\ outputBufferList_' = <<>> /\ sendQueSize_' = 0
         /\ timers' \cap Unsent = {}
<1>1. outcome' \in [Msgs -> Seq(Codes)]
  BY ReportAllType DEF FailAllUnsent, OutTypeOK, Codes
<1>2. chReading' = FALSE /\ chWriting' = FALSE /\ chWriting' \in BOOLEAN
  BY Zenon DEF FailAllUnsent
<1> QED BY <1>1, <1>2 DEF FailAllUnsent, OutTypeOK, UnsentDataIsWritten, CancelTimers

LEMMA QueueType ==
  ASSUME functors \in Seq(Functor), NEW op \in InLoopOps
  PROVE  /\ Queue(op) \in Seq(Functor)
         /\ Len(Queue(op)) = Len(functors) + 1
         /\ Queue(op)[Len(functors) + 1].op = op
         /\ \A i \in DOMAIN functors : Queue(op)[i] = functors[i]
<1>1. [op |-> op, msg |-> "none", timeout |-> FALSE] \in Functor
  BY DEF Functor
<1> QED BY <1>1 DEF Queue

LEMMA ShutdownInLoopType ==
  ASSUME NEW b, ShutdownInLoop(b)
  PROVE  writeShut' \in BOOLEAN
BY Zenon DEF ShutdownInLoop

LEMMA AfterRemovalFacts ==
  ASSUME writeShut \in BOOLEAN, NEW n \in Nat, AfterRemoval(n)
  PROVE  /\ chWriting' \in BOOLEAN
         /\ chWriting' <=> n > 0
         /\ writeShut' \in BOOLEAN
<1>1. chWriting' \in BOOLEAN /\ (chWriting' <=> n > 0)
  <2>1. CASE n > 0
    <3>1. chWriting' = TRUE
      BY <2>1, Zenon DEF AfterRemoval
    <3> QED BY <2>1, <3>1, Zenon
  <2>2. CASE ~(n > 0)
    <3>1. (n > 0) = FALSE
      BY <2>2, SMT
    <3>2. chWriting' = FALSE
      BY <3>1, Zenon DEF AfterRemoval
    <3> QED BY <2>2, <3>2, Zenon
  <2> QED BY <2>1, <2>2
<1>2. writeShut' \in BOOLEAN
  BY ShutdownInLoopType DEF AfterRemoval
<1> QED BY <1>1, <1>2

\* The three ways out of handleWrite.
LEMMA HandleWriteCases ==
  ASSUME OutTypeOK, UnsentDataIsWritten, writeShut \in BOOLEAN, HandleWrite
  PROVE  LET m == Head(outputBufferList_)[1]
         IN  /\ OutTypeOK'
             /\ writeShut' \in BOOLEAN
             /\ m \in Msgs
             /\ \/ /\ Len(outputBufferList_') = Len(outputBufferList_)
                   /\ \A i \in DOMAIN outputBufferList_ :
                         outputBufferList_'[i][1] = outputBufferList_[i][1]
                   /\ UNCHANGED <<sendQueSize_, timers, chWriting, writeShut>>
                \/ /\ outputBufferList_' = Tail(outputBufferList_)
                   /\ sendQueSize_' = sendQueSize_ - 1
                   /\ timers' = timers \ {m}
                   /\ AfterRemoval(sendQueSize_ - 1)
                   /\ chWriting' <=> outputBufferList_' # <<>>
<1> DEFINE m == Head(outputBufferList_)[1]
           left == Head(outputBufferList_)[2]
           Drop == /\ outputBufferList_' = Tail(outputBufferList_)
                   /\ sendQueSize_' = sendQueSize_ - 1
                   /\ CancelTimers({m})
                   /\ AfterRemoval(sendQueSize_ - 1)
<1>1. Head(outputBufferList_) \in Buffers /\ Tail(outputBufferList_) \in Seq(Buffers)
  BY DEF HandleWrite, OutTypeOK
<1>2. m \in Msgs /\ left \in 1..MsgLen
  BY <1>1 DEF Buffers
<1>3. taken' = taken
  BY DEF HandleWrite
<1>4. ASSUME NEW n \in PartialWrites(left), Written(m, n),
             outputBufferList_' = <<<<m, left - n>>>> \o Tail(outputBufferList_),
             UNCHANGED <<sendQueSize_, timers, chWriting, writeShut, outcome>>
      PROVE  /\ OutTypeOK'
             /\ Len(outputBufferList_') = Len(outputBufferList_)
             /\ \A i \in DOMAIN outputBufferList_ :
                   outputBufferList_'[i][1] = outputBufferList_[i][1]
  <2>1. n \in Nat /\ left - n \in 1..MsgLen
    BY <1>2, ConnectionConstants DEF PartialWrites
  <2>2. <<m, left - n>> \in Buffers
    BY <1>2, <2>1 DEF Buffers
  <2>3. wire' \in Seq(Msgs)
    BY <1>2, <1>4, <2>1, WrittenType DEF OutTypeOK
  <2>4. outputBufferList_ \in Seq(Buffers) /\ outputBufferList_ # <<>>
    BY DEF HandleWrite, OutTypeOK
  <2>5. /\ outputBufferList_' \in Seq(Buffers)
        /\ Len(outputBufferList_') = Len(outputBufferList_)
        /\ outputBufferList_'[1] = <<m, left - n>>
        /\ \A i \in DOMAIN outputBufferList_ : i # 1 => outputBufferList_'[i] = outputBufferList_[i]
    BY <1>4, <2>2, <2>4
  <2>6. outputBufferList_'[1][1] = outputBufferList_[1][1]
    BY <2>4, <2>5
  <2> QED BY <1>3, <1>4, <2>3, <2>5, <2>6 DEF OutTypeOK
<1>5. ASSUME Drop, wire' \in Seq(Msgs), outcome' \in [Msgs -> Seq(Codes)]
      PROVE  /\ OutTypeOK' /\ writeShut' \in BOOLEAN
             /\ timers' = timers \ {m}
             /\ chWriting' <=> outputBufferList_' # <<>>
  <2>1. sendQueSize_ - 1 \in Nat /\ sendQueSize_ - 1 = Len(Tail(outputBufferList_))
    BY DEF UnsentDataIsWritten, HandleWrite, OutTypeOK
  <2>2. /\ chWriting' \in BOOLEAN /\ writeShut' \in BOOLEAN
        /\ chWriting' <=> sendQueSize_ - 1 > 0
    BY <1>5, <2>1, AfterRemovalFacts
  <2>3. sendQueSize_ - 1 > 0 <=> Tail(outputBufferList_) # <<>>
    BY <1>1, <2>1
  <2> QED BY <1>1, <1>3, <1>5, <2>1, <2>2, <2>3 DEF OutTypeOK, CancelTimers
<1>6. ASSUME Written(m, left), Report(m, "SUCCESS")
      PROVE  wire' \in Seq(Msgs) /\ outcome' \in [Msgs -> Seq(Codes)]
  BY <1>2, <1>6, WrittenType, ReportType, ConnectionConstants DEF OutTypeOK, Codes
<1>7. ASSUME Report(m, "WRITEERR"), UNCHANGED wire
      PROVE  wire' \in Seq(Msgs) /\ outcome' \in [Msgs -> Seq(Codes)]
  BY <1>2, <1>7, ReportType DEF OutTypeOK, Codes
<1>8. \/ \E n \in PartialWrites(left) :
            /\ Written(m, n)
            /\ outputBufferList_' = <<<<m, left - n>>>> \o Tail(outputBufferList_)
            /\ UNCHANGED <<sendQueSize_, timers, chWriting, writeShut, outcome>>
      \/ Written(m, left) /\ Drop /\ Report(m, "SUCCESS")
      \/ WriteFails /\ Drop /\ Report(m, "WRITEERR") /\ UNCHANGED wire
  BY DEF HandleWrite
<1> QED BY <1>2, <1>4, <1>5, <1>6, <1>7, <1>8

LEMMA FunctorsType ==
  ASSUME functors \in Seq(Functor), functors # <<>>, functors' = Tail(functors)
  PROVE  /\ Head(functors) \in Functor
         /\ Head(functors) = functors[1]
         /\ functors' \in Seq(Functor)
         /\ Len(functors') = Len(functors) - 1
         /\ \A i \in DOMAIN functors' : i + 1 \in DOMAIN functors /\ functors'[i] = functors[i + 1]
OBVIOUS

LEMMA SetReadingType ==
  ASSUME NEW b \in BOOLEAN, SetReading(b)
  PROVE  reading_' \in BOOLEAN /\ chReading' \in BOOLEAN
BY Zenon DEF SetReading

LEMMA ReadOpType ==
  ASSUME timers \subseteq Timers, NEW op, ReadOpInLoop(op)
  PROVE  /\ reading_' \in BOOLEAN /\ chReading' \in BOOLEAN
         /\ timers' \subseteq Timers
         /\ timers' \cap Msgs = timers \cap Msgs
<1>1. reading_' \in BOOLEAN /\ chReading' \in BOOLEAN
  <2> DEFINE b == op \in {"resumeRecv", "startRead"}
  <2>1. b \in BOOLEAN
    OBVIOUS
  <2>2. SetReading(b)
    BY DEF ReadOpInLoop
  <2> HIDE DEF b
  <2> QED BY <2>1, <2>2, SetReadingType
<1>2. timers' \subseteq Timers /\ timers' \cap Msgs = timers \cap Msgs
  BY ConnectionConstants DEF ReadOpInLoop, Timers
<1> QED BY <1>1, <1>2

\* RunFunctor, one case per functor.
LEMMA RunFunctorType ==
  ASSUME OutTypeOK, RestTypeOK, UnsentDataIsWritten, SendInv, RunFunctor
  PROVE  OutTypeOK' /\ RestTypeOK'
<1> DEFINE f == Head(functors)
<1>1. f \in Functor /\ functors' \in Seq(Functor) /\ f = functors[1] /\ 1 \in DOMAIN functors
  BY FunctorsType DEF RunFunctor, RestTypeOK
<1>2. /\ timerBatch' \subseteq Timers /\ calling' \in BOOLEAN
      /\ tpc' \in [Threads -> [op : CloseOps, step : {"checked", "set"}] \cup {Idle}]
      /\ ret' \in [Msgs -> Codes \cup {"none"}]
      /\ ops' \in Nat
  BY DEF RunFunctor, RestTypeOK
<1> USE <1>1, <1>2
<1>3. CASE /\ ConnectEstablished
           /\ UNCHANGED <<reading_, chWriting, removed_, out, timers, server, writeShut>>
  <2>1. chReading' \in BOOLEAN
    BY <1>3, Zenon DEF ConnectEstablished
  <2> QED BY <1>3, <2>1 DEF ConnectEstablished, OutTypeOK, RestTypeOK, States, out, server
<1>4. CASE /\ f.op = "sendInLoop"
           /\ SendInLoop(f.msg, f.timeout)
           /\ UNCHANGED <<state_, reading_, chReading, removed_, server, writeShut>>
  <2>1. f.msg \in Msgs /\ f.timeout \in BOOLEAN
    BY <1>4 DEF SendInv, Functor
  <2>2. OutTypeOK'
    BY <1>4, <2>1, SendInLoopType
  <2> QED BY <1>4, <2>2 DEF RestTypeOK, server
<1>5. CASE /\ ShutdownInLoop(chWriting)
           /\ UNCHANGED <<state_, reading_, chan, out, timers, server>>
  <2>1. writeShut' \in BOOLEAN
    BY <1>5, ShutdownInLoopType
  <2> QED BY <1>5, <2>1 DEF OutTypeOK, RestTypeOK, chan, out, server
<1>6. CASE /\ HandleClose
           /\ UNCHANGED <<reading_, removed_, writeShut>>
  <2>1. OutTypeOK' /\ state_' \in States /\ chReading' \in BOOLEAN
    BY <1>6, FailAllUnsentType DEF HandleClose, States
  <2> QED BY <1>6, <2>1 DEF RestTypeOK, HandleClose
<1>7. CASE /\ UNCHANGED <<state_, chReading, chWriting, out, timers, server>>
           /\ UNCHANGED <<reading_, removed_, writeShut>>
  BY <1>7 DEF OutTypeOK, RestTypeOK, out, server
<1>8. CASE /\ timers' = timers \cup {"close"}
           /\ UNCHANGED <<state_, reading_, chan, out, server, writeShut>>
  BY <1>8 DEF OutTypeOK, RestTypeOK, Timers, chan, out, server
<1>9. CASE ConnectDestroyed /\ UNCHANGED <<reading_, writeShut>>
  <2>1. removed_' \in BOOLEAN
    BY <1>9, Zenon DEF ConnectDestroyed
  <2>2. OutTypeOK' /\ state_' \in States /\ chReading' \in BOOLEAN
    <3>1. CASE FailAllUnsent
      BY <3>1, FailAllUnsentType DEF States
    <3>2. CASE UNCHANGED <<state_, chReading, chWriting, out, timers>>
      BY <3>2 DEF OutTypeOK, RestTypeOK, out
    <3> QED BY <1>9, <3>1, <3>2 DEF ConnectDestroyed
  <2> QED BY <1>9, <2>1, <2>2 DEF RestTypeOK, ConnectDestroyed
<1>10. CASE /\ ReadOpInLoop(f.op)
            /\ UNCHANGED <<state_, chWriting, removed_, out, server, writeShut>>
  BY <1>10, ReadOpType DEF OutTypeOK, RestTypeOK, out, server
<1> QED BY <1>3, <1>4, <1>5, <1>6, <1>7, <1>8, <1>9, <1>10 DEF RunFunctor

\* The callback of one timer.  TimerIteratorValid gives sendTimeoutCallBack
\* its entry.
LEMMA RunTimerType ==
  ASSUME OutTypeOK, RestTypeOK, UnsentDataIsWritten, NEW timer \in Timers, RunTimer(timer)
  PROVE  OutTypeOK' /\ RestTypeOK'
<1>1. /\ timerBatch' \subseteq Timers /\ calling' \in BOOLEAN /\ timers' \subseteq Timers
      /\ removed_' \in BOOLEAN /\ chWriting' \in BOOLEAN
      /\ tpc' \in [Threads -> [op : CloseOps, step : {"checked", "set"}] \cup {Idle}]
      /\ baseQueue' \in Nat /\ inServer' \in BOOLEAN /\ writeShut' \in BOOLEAN
      /\ ret' \in [Msgs -> Codes \cup {"none"}]
      /\ closes' \in Nat /\ destroys' \in Nat /\ ops' \in Nat
  BY DEF RunTimer, OutTypeOK, RestTypeOK, server
<1>2. CASE /\ timer \in Msgs /\ SendTimeoutCallBack(timer)
           /\ UNCHANGED <<state_, reading_, chReading, functors>>
  <2>1. PICK i \in DOMAIN outputBufferList_ :
              /\ outputBufferList_[i][1] = timer
              /\ outputBufferList_' = Without(outputBufferList_, i)
    BY <1>2 DEF SendTimeoutCallBack
  <2>2. outputBufferList_' \in Seq(Buffers)
    BY <2>1, WithoutFacts DEF OutTypeOK
  <2>3. outcome' \in [Msgs -> Seq(Codes)]
    BY <1>2, ReportType DEF SendTimeoutCallBack, OutTypeOK, Codes
  <2>4. sendQueSize_' \in Nat
    BY <1>2, <2>1 DEF SendTimeoutCallBack, UnsentDataIsWritten, OutTypeOK
  <2> QED BY <1>1, <1>2, <2>2, <2>3, <2>4 DEF SendTimeoutCallBack, OutTypeOK, RestTypeOK
<1>3. CASE SetReading(TRUE) /\ UNCHANGED <<state_, out, functors>>
  <2>1. reading_' \in BOOLEAN /\ chReading' \in BOOLEAN
    BY <1>3, Zenon DEF SetReading
  <2> QED BY <1>1, <1>3, <2>1 DEF OutTypeOK, RestTypeOK, out
<1>4. CASE /\ state_' = IF Closable THEN "kDisconnecting" ELSE state_
           /\ functors' = IF Closable THEN Queue("forceCloseInLoop") ELSE functors
           /\ UNCHANGED <<reading_, chReading, out>>
  <2>1. functors' \in Seq(Functor)
    BY <1>4, QueueType DEF RestTypeOK, InLoopOps
  <2> QED BY <1>1, <1>4, <2>1 DEF OutTypeOK, RestTypeOK, out, States
<1> QED BY <1>2, <1>3, <1>4 DEF RunTimer

LEMMA TypeStep ==
  ASSUME OutTypeOK, RestTypeOK, UnsentDataIsWritten, SendInv, Next
  PROVE  OutTypeOK' /\ RestTypeOK'
<1>1. CASE HandleWrite
  <2>1. OutTypeOK' /\ writeShut' \in BOOLEAN
    BY <1>1, HandleWriteCases DEF RestTypeOK
  <2> QED BY <1>1, <2>1 DEF HandleWrite, RestTypeOK, server
<1>2. CASE RunFunctor
  BY <1>2, RunFunctorType
<1>3. CASE TimersDone
  <2>1. calling' \in BOOLEAN
    BY <1>3, Zenon DEF TimersDone
  <2> QED BY <1>3, <2>1 DEF TimersDone, OutTypeOK, RestTypeOK, chan, out, server
<1>4. ASSUME NEW timer \in Timers, RunTimer(timer) PROVE OutTypeOK' /\ RestTypeOK'
  BY <1>4, RunTimerType
<1>5. CASE TimersExpire
  <2>1. calling' \in BOOLEAN
    BY <1>5, Zenon DEF TimersExpire
  <2>2. timers' \subseteq Timers /\ timerBatch' \subseteq Timers
    BY <1>5 DEF TimersExpire, OutTypeOK
  <2> QED BY <1>5, <2>1, <2>2 DEF TimersExpire, OutTypeOK, RestTypeOK, chan, out, server
<1>6. CASE PeerCloses
  <2>1. OutTypeOK' /\ state_' \in States /\ chReading' \in BOOLEAN
    BY <1>6, FailAllUnsentType DEF PeerCloses, HandleClose, States
  <2> QED BY <1>6, <2>1 DEF PeerCloses, HandleClose, RestTypeOK
<1>7. CASE RemoveConnectionInLoop \/ StopInLoop
  <2>1. functors' \in Seq(Functor)
    BY <1>7, QueueType DEF RemoveConnectionInLoop, StopInLoop, RestTypeOK, InLoopOps
  <2>2. inServer' \in BOOLEAN
    BY <1>7, Zenon DEF RemoveConnectionInLoop, StopInLoop
  <2> QED BY <1>7, <2>1, <2>2 DEF RemoveConnectionInLoop, StopInLoop, OutTypeOK, RestTypeOK,
                                  chan, out, clock
<1>8. ASSUME NEW m \in Msgs, NEW timeout \in Timeouts, LoopSend(m, timeout)
      PROVE  OutTypeOK' /\ RestTypeOK'
  <2>1. timeout \in BOOLEAN
    BY ConnectionConstants
  <2>2. OutTypeOK'
    <3>1. CASE SendInLoop(m, timeout)
      BY <2>1, <3>1, SendInLoopType
    <3>2. CASE UNCHANGED <<out, timers, chWriting>>
      BY <3>2 DEF OutTypeOK, out
    <3> QED BY <1>8, <3>1, <3>2 DEF LoopSend
  <2>3. ret' \in [Msgs -> Codes \cup {"none"}]
    BY <1>8 DEF LoopSend, SendResult, Codes, RestTypeOK
  <2> QED BY <1>8, <2>2, <2>3 DEF LoopSend, RestTypeOK, server
<1>9. ASSUME NEW m \in Msgs, NEW timeout \in Timeouts, ForeignSend(m, timeout)
      PROVE  OutTypeOK' /\ RestTypeOK'
  <2>1. [op |-> "sendInLoop", msg |-> m, timeout |-> timeout] \in Functor
    BY ConnectionConstants DEF Functor, InLoopOps
  <2>2. functors' \in Seq(Functor)
    BY <1>9, <2>1 DEF ForeignSend, RestTypeOK
  <2>3. ret' \in [Msgs -> Codes \cup {"none"}]
    BY <1>9 DEF ForeignSend, SendResult, Codes, RestTypeOK
  <2> QED BY <1>9, <2>2, <2>3 DEF ForeignSend, OutTypeOK, RestTypeOK, chan, out, clock, server
<1>10. ASSUME NEW op \in LoopOps, LoopCall(op) PROVE OutTypeOK' /\ RestTypeOK'
  <2>1. functors' \in Seq(Functor)
    BY <1>10, QueueType DEF LoopCall, RestTypeOK, InLoopOps
  <2>2. writeShut' \in BOOLEAN
    BY <1>10, ShutdownInLoopType DEF LoopCall, RestTypeOK
  <2>3. reading_' \in BOOLEAN /\ chReading' \in BOOLEAN /\ timers' \subseteq Timers
    <3>1. CASE ReadOpInLoop(op)
      BY <3>1, ReadOpType DEF OutTypeOK
    <3>2. CASE /\ timers' = IF op = "forceCloseWithDelay" THEN timers \cup {"close"} ELSE timers
               /\ UNCHANGED <<reading_, chReading>>
      BY <3>2 DEF OutTypeOK, RestTypeOK, Timers
    <3> QED BY <1>10, <3>1, <3>2 DEF LoopCall
  <2> QED BY <1>10, <2>1, <2>2, <2>3 DEF LoopCall, OutTypeOK, RestTypeOK, out, server, States
<1>11. ASSUME NEW t \in Threads, NEW op \in ForeignOps, ForeignCall(t, op)
       PROVE  OutTypeOK' /\ RestTypeOK'
  <2>1. op \in ReadOps \/ op \in CloseOps
    BY ConnectionConstants
  <2>2. functors' \in Seq(Functor)
    BY <1>11, QueueType DEF ForeignCall, RestTypeOK, InLoopOps
  <2>3. tpc' \in [Threads -> [op : CloseOps, step : {"checked", "set"}] \cup {Idle}]
    BY <1>11, <2>1 DEF ForeignCall, RestTypeOK
  <2> QED BY <1>11, <2>2, <2>3 DEF ForeignCall, OutTypeOK, RestTypeOK, chan, out, clock, server
<1>12. ASSUME NEW t \in Threads, ForeignSetState(t) PROVE OutTypeOK' /\ RestTypeOK'
  <2>1. tpc[t] \in [op : CloseOps, step : {"checked", "set"}]
    BY <1>12 DEF ForeignSetState, RestTypeOK, Idle
  <2>2. tpc' \in [Threads -> [op : CloseOps, step : {"checked", "set"}] \cup {Idle}]
    BY <1>12, <2>1 DEF ForeignSetState, RestTypeOK
  <2> QED BY <1>12, <2>2 DEF ForeignSetState, OutTypeOK, RestTypeOK, States, chan, out, clock,
                             server
<1>13. ASSUME NEW t \in Threads, ForeignHandOver(t) PROVE OutTypeOK' /\ RestTypeOK'
  <2>1. InLoopOf(tpc[t].op) \in InLoopOps
    <3>1. tpc[t].op \in CloseOps
      BY <1>13 DEF ForeignHandOver, RestTypeOK, Idle
    <3> QED BY <3>1 DEF InLoopOf, InLoopOps, CloseOps
  <2>2. functors' \in Seq(Functor)
    BY <1>13, <2>1, QueueType DEF ForeignHandOver, RestTypeOK
  <2>3. tpc' \in [Threads -> [op : CloseOps, step : {"checked", "set"}] \cup {Idle}]
    BY <1>13 DEF ForeignHandOver, RestTypeOK
  <2> QED BY <1>13, <2>2, <2>3 DEF ForeignHandOver, OutTypeOK, RestTypeOK, chan, out, clock,
                                   server
<1> QED
  BY <1>1, <1>2, <1>3, <1>4, <1>5, <1>6, <1>7, <1>8, <1>9, <1>10, <1>11, <1>12, <1>13
  DEF Next, LoopStep

-----------------------------------------------------------------------------
(* The output list, its counter and the channel's write interest.          *)

\* What sendInLoop does to the list.
LEMMA SendInLoopCases ==
  ASSUME OutTypeOK, NEW m \in Msgs, NEW timeout \in BOOLEAN, SendInLoop(m, timeout)
  PROVE  \/ UNCHANGED <<outputBufferList_, sendQueSize_, timers, chWriting>>
         \/ /\ state_ = "kConnected"
            /\ outputBufferList_' \in Seq(Buffers)
            /\ Len(outputBufferList_') = Len(outputBufferList_) + 1
            /\ outputBufferList_'[Len(outputBufferList_) + 1][1] = m
            /\ \A i \in DOMAIN outputBufferList_ : outputBufferList_'[i] = outputBufferList_[i]
            /\ sendQueSize_' = sendQueSize_ + 1
            /\ timers \subseteq timers' /\ timers' \subseteq timers \cup {m}
            /\ chWriting'
<1>1. ASSUME NEW n \in 1..MsgLen, Enqueue(m, n, timeout)
      PROVE  /\ outputBufferList_' \in Seq(Buffers)
             /\ Len(outputBufferList_') = Len(outputBufferList_) + 1
             /\ outputBufferList_'[Len(outputBufferList_) + 1][1] = m
             /\ \A i \in DOMAIN outputBufferList_ : outputBufferList_'[i] = outputBufferList_[i]
             /\ sendQueSize_' = sendQueSize_ + 1
             /\ timers \subseteq timers' /\ timers' \subseteq timers \cup {m}
             /\ chWriting'
  <2>1. <<m, n>> \in Buffers
    BY DEF Buffers
  <2>2. chWriting'
    BY <1>1, Zenon DEF Enqueue
  <2> QED BY <1>1, <2>1, <2>2 DEF Enqueue, OutTypeOK
<1>2. ASSUME NEW n \in 0..MsgLen - 1 PROVE MsgLen - n \in 1..MsgLen
  BY ConnectionConstants
<1>3. MsgLen \in 1..MsgLen
  BY ConnectionConstants
<1> QED BY <1>1, <1>2, <1>3 DEF SendInLoop

LEMMA UnsentAfterSend ==
  ASSUME OutTypeOK, UnsentDataIsWritten, NEW m \in Msgs, NEW timeout \in BOOLEAN,
         SendInLoop(m, timeout), state_' = state_
  PROVE  UnsentDataIsWritten'
<1>1. CASE UNCHANGED <<outputBufferList_, sendQueSize_, timers, chWriting>>
  BY <1>1 DEF UnsentDataIsWritten
<1>2. CASE /\ state_ = "kConnected"
           /\ Len(outputBufferList_') = Len(outputBufferList_) + 1
           /\ sendQueSize_' = sendQueSize_ + 1
           /\ chWriting'
  BY <1>2 DEF UnsentDataIsWritten
<1> QED BY <1>1, <1>2, SendInLoopCases

LEMMA UnsentStep ==
  ASSUME OutTypeOK, RestTypeOK, UnsentDataIsWritten, SendInv, Next
  PROVE  UnsentDataIsWritten'
<1>1. CASE HandleWrite
  <2>1. state_' = state_ /\ chWriting
    BY <1>1 DEF HandleWrite
  <2>2. OutTypeOK' /\ outputBufferList_ # <<>>
    BY <1>1, HandleWriteCases DEF RestTypeOK, HandleWrite
  <2>3. CASE /\ Len(outputBufferList_') = Len(outputBufferList_)
             /\ UNCHANGED <<sendQueSize_, timers, chWriting, writeShut>>
    BY <2>1, <2>2, <2>3 DEF UnsentDataIsWritten, OutTypeOK
  <2>4. CASE /\ outputBufferList_' = Tail(outputBufferList_)
             /\ sendQueSize_' = sendQueSize_ - 1
             /\ chWriting' <=> outputBufferList_' # <<>>
    BY <2>1, <2>2, <2>4 DEF UnsentDataIsWritten, OutTypeOK
  <2> QED BY <1>1, <2>3, <2>4, HandleWriteCases DEF RestTypeOK
<1>2. CASE RunFunctor
  <2> DEFINE f == Head(functors)
  <2>1. f \in Functor /\ f = functors[1] /\ 1 \in DOMAIN functors
    BY <1>2, FunctorsType DEF RunFunctor, RestTypeOK
  <2>2. ASSUME f.op = "sendInLoop", SendInLoop(f.msg, f.timeout), state_' = state_
        PROVE  UnsentDataIsWritten'
    <3>1. f.msg \in Msgs /\ f.timeout \in BOOLEAN
      BY <2>1, <2>2 DEF SendInv, Functor
    <3> QED BY <2>2, <3>1, UnsentAfterSend
  <2>3. CASE FailAllUnsent
    BY <2>3, FailAllUnsentType DEF UnsentDataIsWritten
  <2>4. CASE UNCHANGED <<outputBufferList_, sendQueSize_, chWriting>> /\ state_' = state_
    BY <2>4 DEF UnsentDataIsWritten
  <2>5. CASE UNCHANGED <<outputBufferList_, sendQueSize_, chWriting>> /\ state_' = "kConnected"
    BY <2>5 DEF UnsentDataIsWritten
  <2> QED BY <1>2, <2>2, <2>3, <2>4, <2>5
          DEF RunFunctor, ConnectEstablished, HandleClose, ConnectDestroyed, out, chan
<1>3. ASSUME NEW timer \in Timers, RunTimer(timer) PROVE UnsentDataIsWritten'
  <2>1. chWriting' = chWriting
    BY <1>3 DEF RunTimer
  <2>2. CASE SendTimeoutCallBack(timer) /\ state_' = state_
    <3>1. PICK i \in DOMAIN outputBufferList_ : outputBufferList_' = Without(outputBufferList_, i)
      BY <2>2 DEF SendTimeoutCallBack
    <3>2. /\ outputBufferList_' \in Seq(Buffers)
          /\ Len(outputBufferList_') = Len(outputBufferList_) - 1
      BY <3>1, WithoutFacts DEF OutTypeOK
    <3>3. outputBufferList_ # <<>>
      BY <3>1
    <3> QED BY <2>1, <2>2, <3>2, <3>3 DEF UnsentDataIsWritten, SendTimeoutCallBack
  <2>3. CASE out' = out /\ state_' \in {state_, "kDisconnecting"}
    BY <2>1, <2>3 DEF out, UnsentDataIsWritten
  <2> QED BY <1>3, <2>2, <2>3 DEF RunTimer
<1>4. CASE PeerCloses
  BY <1>4, FailAllUnsentType DEF PeerCloses, HandleClose, UnsentDataIsWritten
<1>5. ASSUME NEW m \in Msgs, NEW timeout \in Timeouts, LoopSend(m, timeout)
      PROVE  UnsentDataIsWritten'
  <2>1. timeout \in BOOLEAN
    BY ConnectionConstants
  <2>2. CASE SendInLoop(m, timeout)
    BY <1>5, <2>1, <2>2, UnsentAfterSend DEF LoopSend
  <2>3. CASE UNCHANGED <<out, timers, chWriting>>
    BY <1>5, <2>3 DEF LoopSend, out, UnsentDataIsWritten
  <2> QED BY <1>5, <2>2, <2>3 DEF LoopSend
<1>6. CASE /\ UNCHANGED <<outputBufferList_, sendQueSize_, chWriting>>
           /\ state_' \in {state_, "kDisconnecting"}
  BY <1>6 DEF UnsentDataIsWritten
<1>7. ASSUME NEW op \in LoopOps, LoopCall(op)
      PROVE  /\ UNCHANGED <<outputBufferList_, sendQueSize_, chWriting>>
             /\ state_' \in {state_, "kDisconnecting"}
  BY <1>7 DEF LoopCall, out
<1> QED
  BY <1>1, <1>2, <1>3, <1>4, <1>5, <1>6, <1>7
  DEF Next, LoopStep, TimersDone, TimersExpire, RemoveConnectionInLoop, StopInLoop,
      ForeignSend, ForeignCall, ForeignSetState, ForeignHandOver, out, chan

-----------------------------------------------------------------------------
(* The messages in the list, and the timers that point into it.            *)

LEMMA UnsentOfSend ==
  ASSUME OutTypeOK, NEW m \in Msgs, NEW timeout \in BOOLEAN, SendInLoop(m, timeout)
  PROVE  /\ Unsent \subseteq Unsent' /\ Unsent' \subseteq Unsent \cup {m}
         /\ \/ timers' = timers
            \/ timers' \subseteq timers \cup {m} /\ m \in Unsent'
<1>1. CASE UNCHANGED <<outputBufferList_, sendQueSize_, timers, chWriting>>
  BY <1>1 DEF Unsent
<1>2. CASE /\ outputBufferList_' \in Seq(Buffers)
           /\ Len(outputBufferList_') = Len(outputBufferList_) + 1
           /\ outputBufferList_'[Len(outputBufferList_) + 1][1] = m
           /\ \A i \in DOMAIN outputBufferList_ : outputBufferList_'[i] = outputBufferList_[i]
           /\ timers' \subseteq timers \cup {m}
  <2>1. /\ DOMAIN outputBufferList_' = 1..Len(outputBufferList_) + 1
        /\ DOMAIN outputBufferList_ = 1..Len(outputBufferList_)
        /\ Len(outputBufferList_) \in Nat
    BY <1>2 DEF OutTypeOK
  <2>2. m \in Unsent'
    BY <1>2, <2>1 DEF Unsent
  <2>3. Unsent \subseteq Unsent' /\ Unsent' \subseteq Unsent \cup {m}
    BY <1>2, <2>1 DEF Unsent
  <2> QED BY <1>2, <2>2, <2>3
<1> QED BY <1>1, <1>2, SendInLoopCases

LEMMA UnsentOfHandleWrite ==
  ASSUME OutTypeOK, UnsentDataIsWritten, writeShut \in BOOLEAN, HandleWrite
  PROVE  \E m \in Msgs : /\ Unsent' \subseteq Unsent
                         /\ Unsent \ {m} \subseteq Unsent'
                         /\ \/ timers' = timers /\ Unsent' = Unsent
                            \/ timers' = timers \ {m}
<1> DEFINE m == Head(outputBufferList_)[1]
<1>1. outputBufferList_ \in Seq(Buffers) /\ outputBufferList_ # <<>> /\ m \in Msgs
  BY HandleWriteCases DEF OutTypeOK, HandleWrite
<1>2. CASE /\ Len(outputBufferList_') = Len(outputBufferList_)
           /\ \A i \in DOMAIN outputBufferList_ :
                 outputBufferList_'[i][1] = outputBufferList_[i][1]
           /\ UNCHANGED <<sendQueSize_, timers, chWriting, writeShut>>
  <2>1. DOMAIN outputBufferList_' = DOMAIN outputBufferList_
    BY <1>1, <1>2, HandleWriteCases DEF OutTypeOK
  <2> QED BY <1>1, <1>2, <2>1 DEF Unsent
<1>3. CASE outputBufferList_' = Tail(outputBufferList_) /\ timers' = timers \ {m}
  <2>1. /\ m = outputBufferList_[1][1]
        /\ DOMAIN outputBufferList_ = 1..Len(outputBufferList_)
        /\ DOMAIN outputBufferList_' = 1..Len(outputBufferList_) - 1
        /\ Len(outputBufferList_) \in Nat
        /\ \A i \in 1..Len(outputBufferList_) - 1 : outputBufferList_'[i] = outputBufferList_[i + 1]
    BY <1>1, <1>3
  <2>2. Unsent' \subseteq Unsent
    BY <2>1 DEF Unsent
  <2>3. ASSUME NEW x \in Unsent, x # m PROVE x \in Unsent'
    <3>1. PICK i \in DOMAIN outputBufferList_ : x = outputBufferList_[i][1]
      BY DEF Unsent
    <3>2. i - 1 \in DOMAIN outputBufferList_' /\ outputBufferList_'[i - 1] = outputBufferList_[i]
      BY <2>1, <2>3, <3>1
    <3> QED BY <3>1, <3>2 DEF Unsent
  <2> QED BY <1>1, <1>3, <2>2, <2>3
<1> QED BY <1>2, <1>3, HandleWriteCases

LEMMA UnsentOfTimeout ==
  ASSUME OutTypeOK, NEW m \in Msgs, SendTimeoutCallBack(m)
  PROVE  Unsent' \subseteq Unsent /\ Unsent \ {m} \subseteq Unsent'
<1>1. PICK i \in DOMAIN outputBufferList_ :
            /\ outputBufferList_[i][1] = m
            /\ outputBufferList_' = Without(outputBufferList_, i)
  BY DEF SendTimeoutCallBack
<1>2. /\ outputBufferList_' \in Seq(Buffers)
      /\ Len(outputBufferList_') = Len(outputBufferList_) - 1
      /\ \A k \in 1..Len(outputBufferList_) - 1 :
            outputBufferList_'[k] = IF k < i THEN outputBufferList_[k] ELSE outputBufferList_[k + 1]
  BY <1>1, WithoutFacts DEF OutTypeOK
<1>3. /\ DOMAIN outputBufferList_' = 1..Len(outputBufferList_) - 1
      /\ DOMAIN outputBufferList_ = 1..Len(outputBufferList_)
      /\ Len(outputBufferList_) \in Nat
  BY <1>2 DEF OutTypeOK
<1>4. Unsent' \subseteq Unsent
  <2> SUFFICES ASSUME NEW x \in Unsent' PROVE x \in Unsent
    OBVIOUS
  <2>1. PICK k \in DOMAIN outputBufferList_' : x = outputBufferList_'[k][1]
    BY DEF Unsent
  <2>2. CASE k < i
    BY <1>2, <1>3, <2>1, <2>2 DEF Unsent
  <2>3. CASE ~(k < i)
    <3>1. outputBufferList_'[k] = outputBufferList_[k + 1] /\ k + 1 \in DOMAIN outputBufferList_
      BY <1>2, <1>3, <2>3
    <3> QED BY <2>1, <3>1 DEF Unsent
  <2> QED BY <2>2, <2>3
<1>5. ASSUME NEW x \in Unsent, x # m PROVE x \in Unsent'
  <2>1. PICK j \in DOMAIN outputBufferList_ : x = outputBufferList_[j][1]
    BY DEF Unsent
  <2>2. j # i
    BY <1>1, <1>5, <2>1
  <2>3. CASE j < i
    <3>1. j \in DOMAIN outputBufferList_' /\ outputBufferList_'[j] = outputBufferList_[j]
      BY <1>2, <1>3, <2>3
    <3> QED BY <2>1, <3>1 DEF Unsent
  <2>4. CASE i < j
    <3>1. j - 1 \in DOMAIN outputBufferList_' /\ outputBufferList_'[j - 1] = outputBufferList_[j]
      BY <1>2, <1>3, <2>4
    <3> QED BY <2>1, <3>1 DEF Unsent
  <2> QED BY <1>3, <2>2, <2>3, <2>4
<1> QED BY <1>4, <1>5

LEMMA UnsentOfClose ==
  ASSUME FailAllUnsent
  PROVE  Unsent' = {} /\ timers' = timers \ Unsent
<1>1. outputBufferList_' = <<>>
  BY DEF FailAllUnsent
<1>2. Unsent' = {}
  BY <1>1 DEF Unsent
<1> QED BY <1>2 DEF FailAllUnsent, CancelTimers

\* The second part of SendInv.
Accepted ==
    \A i \in DOMAIN functors :
        functors[i].op = "sendInLoop" => functors[i].msg \in Msgs /\ ret[functors[i].msg] # "none"

LEMMA AcceptedAfterQueue ==
  ASSUME RestTypeOK, Accepted, NEW op \in InLoopOps, op # "sendInLoop",
         functors' = Queue(op), ret' = ret
  PROVE  Accepted'
<1>1. /\ functors' \in Seq(Functor) /\ Len(functors') = Len(functors) + 1
      /\ functors'[Len(functors) + 1].op = op
      /\ \A i \in DOMAIN functors : functors'[i] = functors[i]
  BY QueueType DEF RestTypeOK
<1>2. \A i \in DOMAIN functors' : i \in DOMAIN functors \/ i = Len(functors) + 1
  BY <1>1 DEF RestTypeOK
<1> QED BY <1>1, <1>2 DEF Accepted

LEMMA InLoopOfClose ==
  ASSUME NEW op \in CloseOps
  PROVE  InLoopOf(op) \in InLoopOps \ {"sendInLoop", "connectEstablished"}
BY DEF InLoopOf, InLoopOps, CloseOps

LEMMA AcceptedStep ==
  ASSUME RestTypeOK, Accepted, Next
  PROVE  Accepted'
<1>1. CASE UNCHANGED <<functors, ret>>
  BY <1>1 DEF Accepted
<1>2. CASE RunFunctor
  <2>1. \A i \in DOMAIN functors' : i + 1 \in DOMAIN functors /\ functors'[i] = functors[i + 1]
    BY <1>2, FunctorsType DEF RunFunctor, RestTypeOK
  <2>2. ret' = ret
    BY <1>2 DEF RunFunctor
  <2> QED BY <2>1, <2>2 DEF Accepted
<1>3. ASSUME NEW timer \in Timers, RunTimer(timer) PROVE Accepted'
  <2>1. ret' = ret /\ (functors' = functors \/ functors' = Queue("forceCloseInLoop"))
    BY <1>3 DEF RunTimer
  <2> QED BY <1>1, <2>1, AcceptedAfterQueue DEF InLoopOps
<1>4. CASE RemoveConnectionInLoop \/ StopInLoop
  BY <1>4, AcceptedAfterQueue DEF RemoveConnectionInLoop, StopInLoop, InLoopOps
<1>5. ASSUME NEW m \in Msgs, NEW timeout \in Timeouts, LoopSend(m, timeout) PROVE Accepted'
  <2>1. functors' = functors /\ ret' = [ret EXCEPT ![m] = SendResult] /\ SendResult # "none"
    BY <1>5 DEF LoopSend, SendResult
  <2> QED BY <2>1 DEF Accepted, RestTypeOK
<1>6. ASSUME NEW m \in Msgs, NEW timeout \in Timeouts, ForeignSend(m, timeout) PROVE Accepted'
  <2>1. ret' = [ret EXCEPT ![m] = SendResult] /\ SendResult # "none"
    BY <1>6 DEF ForeignSend, SendResult
  <2>2. \A i \in DOMAIN functors' : \/ i \in DOMAIN functors /\ functors'[i] = functors[i]
                                    \/ functors'[i].msg = m
    BY <1>6 DEF ForeignSend, RestTypeOK
  <2> QED BY <2>1, <2>2 DEF Accepted, RestTypeOK
<1>7. ASSUME NEW op \in LoopOps, LoopCall(op) PROVE Accepted'
  <2>1. ret' = ret /\ (functors' = functors \/ functors' = Queue("forceCloseInLoop"))
    BY <1>7 DEF LoopCall
  <2> QED BY <1>1, <2>1, AcceptedAfterQueue DEF InLoopOps
<1>8. ASSUME NEW t \in Threads, NEW op \in ForeignOps, ForeignCall(t, op) PROVE Accepted'
  <2>1. ret' = ret /\ (functors' = functors \/ (op \in ReadOps /\ functors' = Queue(op)))
    BY <1>8 DEF ForeignCall
  <2>2. op \in ReadOps => op \in InLoopOps /\ op # "sendInLoop"
    BY DEF ReadOps, InLoopOps
  <2> QED BY <1>1, <2>1, <2>2, AcceptedAfterQueue
<1>9. ASSUME NEW t \in Threads, ForeignHandOver(t) PROVE Accepted'
  <2>1. tpc[t].op \in CloseOps
    BY <1>9 DEF ForeignHandOver, RestTypeOK, Idle
  <2>2. ret' = ret /\ functors' = Queue(InLoopOf(tpc[t].op))
    BY <1>9 DEF ForeignHandOver
  <2> QED BY <2>1, <2>2, InLoopOfClose, AcceptedAfterQueue
<1> QED
  BY <1>1, <1>2, <1>3, <1>4, <1>5, <1>6, <1>7, <1>8, <1>9
  DEF Next, LoopStep, HandleWrite, TimersDone, TimersExpire, PeerCloses, ForeignSetState

LEMMA SendStep ==
  ASSUME OutTypeOK, RestTypeOK, UnsentDataIsWritten, SendInv, Next
  PROVE  SendInv'
<1>1. Accepted'
  BY AcceptedStep DEF SendInv, Accepted
<1>2. CASE Unsent' \subseteq Unsent /\ ret' = ret
  BY <1>1, <1>2 DEF SendInv, Accepted
<1>3. CASE HandleWrite
  <2>1. Unsent' \subseteq Unsent
    BY <1>3, UnsentOfHandleWrite DEF RestTypeOK
  <2> QED BY <1>2, <1>3, <2>1 DEF HandleWrite
<1>4. CASE RunFunctor
  <2> DEFINE f == Head(functors)
  <2>1. f \in Functor /\ f = functors[1] /\ 1 \in DOMAIN functors
    BY <1>4, FunctorsType DEF RunFunctor, RestTypeOK
  <2>2. ret' = ret
    BY <1>4 DEF RunFunctor
  <2>3. CASE f.op = "sendInLoop" /\ SendInLoop(f.msg, f.timeout)
    <3>1. f.msg \in Msgs /\ f.timeout \in BOOLEAN /\ ret[f.msg] # "none"
      BY <2>1, <2>3 DEF SendInv, Functor
    <3>2. Unsent' \subseteq Unsent \cup {f.msg}
      BY <2>3, <3>1, UnsentOfSend
    <3> QED BY <1>1, <2>2, <3>1, <3>2 DEF SendInv, Accepted
  <2>4. CASE FailAllUnsent
    BY <1>2, <2>2, <2>4, UnsentOfClose
  <2>5. CASE outputBufferList_' = outputBufferList_
    BY <1>2, <2>2, <2>5 DEF Unsent
  <2> QED BY <1>4, <2>3, <2>4, <2>5 DEF RunFunctor, HandleClose, ConnectDestroyed, out
<1>5. ASSUME NEW timer \in Timers, RunTimer(timer) PROVE SendInv'
  <2>1. ret' = ret
    BY <1>5 DEF RunTimer
  <2>2. CASE timer \in Msgs /\ SendTimeoutCallBack(timer)
    BY <1>2, <2>1, <2>2, UnsentOfTimeout
  <2>3. CASE out' = out
    BY <1>2, <2>1, <2>3 DEF out, Unsent
  <2> QED BY <1>5, <2>2, <2>3 DEF RunTimer
<1>6. CASE PeerCloses
  BY <1>2, <1>6, UnsentOfClose DEF PeerCloses, HandleClose
<1>7. ASSUME NEW m \in Msgs, NEW timeout \in Timeouts, LoopSend(m, timeout) PROVE SendInv'
  <2>1. ret' = [ret EXCEPT ![m] = SendResult] /\ SendResult # "none"
    BY <1>7 DEF LoopSend, SendResult
  <2>2. Unsent' \subseteq Unsent \cup {m}
    <3>1. timeout \in BOOLEAN
      BY ConnectionConstants
    <3>2. CASE SendInLoop(m, timeout)
      BY <3>1, <3>2, UnsentOfSend
    <3>3. CASE out' = out
      BY <3>3 DEF out, Unsent
    <3> QED BY <1>7, <3>2, <3>3 DEF LoopSend
  <2> QED BY <1>1, <2>1, <2>2 DEF SendInv, Accepted, RestTypeOK
<1>8. ASSUME NEW m \in Msgs, NEW timeout \in Timeouts, ForeignSend(m, timeout) PROVE SendInv'
  <2>1. /\ ret' = [ret EXCEPT ![m] = SendResult] /\ SendResult # "none"
        /\ outputBufferList_' = outputBufferList_
    BY <1>8 DEF ForeignSend, SendResult, out
  <2> QED BY <1>1, <2>1 DEF SendInv, Accepted, RestTypeOK, Unsent
<1>9. CASE outputBufferList_' = outputBufferList_ /\ ret' = ret
  BY <1>2, <1>9 DEF Unsent
<1>10. ASSUME NEW op \in LoopOps, LoopCall(op)
       PROVE  outputBufferList_' = outputBufferList_ /\ ret' = ret
  BY <1>10 DEF LoopCall, out
<1> QED
  BY <1>3, <1>4, <1>5, <1>6, <1>7, <1>8, <1>9, <1>10
  DEF Next, LoopStep, TimersDone, TimersExpire, RemoveConnectionInLoop, StopInLoop,
      ForeignCall, ForeignSetState, ForeignHandOver, out

\* The iterators: a step that takes a message out of the list also cancels its
\* armed timer, and no such step happens while its timer is expiring, except
\* the callback of that very timer.
LEMMA IteratorStep ==
  ASSUME OutTypeOK, RestTypeOK, UnsentDataIsWritten, SendInv, TimerInv, TimerIteratorValid, Next
  PROVE  TimerInv' /\ TimerIteratorValid'
<1> USE DEF TimerInv, TimerIteratorValid
<1>0. ASSUME NEW m \in Msgs, m \in timers \cup timerBatch PROVE ret[m] # "none"
  BY <1>0 DEF SendInv
<1>1. CASE /\ timers' \cap Msgs = timers \cap Msgs
           /\ UNCHANGED <<timerBatch, calling, outputBufferList_>>
  BY <1>1 DEF Unsent
<1>2. CASE HandleWrite
  <2>1. PICK m \in Msgs : /\ Unsent' \subseteq Unsent
                          /\ Unsent \ {m} \subseteq Unsent'
                          /\ \/ timers' = timers /\ Unsent' = Unsent
                             \/ timers' = timers \ {m}
    BY <1>2, UnsentOfHandleWrite DEF RestTypeOK
  <2>2. timerBatch = {} /\ timerBatch' = {} /\ calling' = calling
    BY <1>2 DEF HandleWrite
  <2> QED BY <2>1, <2>2
<1>3. ASSUME ~calling, FailAllUnsent, UNCHANGED <<timerBatch, calling>>
      PROVE  TimerInv' /\ TimerIteratorValid'
  <2>1. Unsent' = {} /\ timers' = timers \ Unsent
    BY <1>3, UnsentOfClose
  <2> QED BY <1>3, <2>1
<1>4. CASE RunFunctor
  <2> DEFINE f == Head(functors)
  <2>1. f \in Functor /\ f = functors[1] /\ 1 \in DOMAIN functors
    BY <1>4, FunctorsType DEF RunFunctor, RestTypeOK
  <2>2. ~calling /\ UNCHANGED <<timerBatch, calling>> /\ timerBatch = {}
    BY <1>4 DEF RunFunctor
  <2>3. CASE f.op = "sendInLoop" /\ SendInLoop(f.msg, f.timeout)
    <3>1. f.msg \in Msgs /\ f.timeout \in BOOLEAN
      BY <2>1, <2>3 DEF SendInv, Functor
    <3>2. /\ Unsent \subseteq Unsent'
          /\ timers' = timers \/ (timers' \subseteq timers \cup {f.msg} /\ f.msg \in Unsent')
      BY <2>3, <3>1, UnsentOfSend
    <3> QED BY <2>2, <3>2
  <2>4. CASE FailAllUnsent
    BY <1>3, <2>2, <2>4
  <2>5. CASE outputBufferList_' = outputBufferList_ /\ timers' \cap Msgs = timers \cap Msgs
    BY <1>1, <2>2, <2>5
  <2>6. CASE outputBufferList_' = outputBufferList_ /\ timers' = timers \cup {"close"}
    BY <2>5, <2>6, ConnectionConstants
  <2>7. CASE outputBufferList_' = outputBufferList_ /\ ReadOpInLoop(f.op)
    BY <2>5, <2>7, ReadOpType DEF OutTypeOK
  <2> QED BY <1>4, <2>3, <2>4, <2>5, <2>6, <2>7
          DEF RunFunctor, HandleClose, ConnectDestroyed, out
<1>5. CASE TimersDone
  <2>1. timerBatch' = {} /\ timerBatch = {} /\ timers' = timers
    BY <1>5 DEF TimersDone
  <2>2. outputBufferList_' = outputBufferList_
    BY <1>5 DEF TimersDone, out
  <2> QED BY <2>1, <2>2 DEF Unsent
<1>6. ASSUME NEW timer \in Timers, RunTimer(timer) PROVE TimerInv' /\ TimerIteratorValid'
  <2>1. /\ timer \in timerBatch /\ timerBatch' = timerBatch \ {timer}
        /\ timers' = timers /\ calling' = calling /\ calling
    BY <1>6 DEF RunTimer
  <2>2. CASE timer \in Msgs /\ SendTimeoutCallBack(timer)
    <3>1. Unsent \ {timer} \subseteq Unsent'
      BY <2>2, UnsentOfTimeout
    <3> QED BY <2>1, <2>2, <3>1
  <2>3. CASE out' = out
    BY <2>1, <2>3 DEF out, Unsent
  <2> QED BY <1>6, <2>2, <2>3 DEF RunTimer
<1>7. CASE TimersExpire
  <2>1. PICK batch \in SUBSET timers : timerBatch' = batch /\ timers' = timers \ batch
    BY <1>7 DEF TimersExpire
  <2>2. calling' = TRUE /\ outputBufferList_' = outputBufferList_
    BY <1>7 DEF TimersExpire, out
  <2> QED BY <2>1, <2>2 DEF Unsent
<1>8. CASE PeerCloses
  BY <1>3, <1>8 DEF PeerCloses, HandleClose
<1>9. ASSUME NEW m \in Msgs, NEW timeout \in Timeouts, LoopSend(m, timeout)
      PROVE  TimerInv' /\ TimerIteratorValid'
  <2>1. UNCHANGED <<timerBatch, calling>> /\ ret[m] = "none"
    BY <1>9 DEF LoopSend
  <2>2. m \notin timers \cup timerBatch
    BY <1>0, <2>1
  <2>3. CASE SendInLoop(m, timeout)
    <3>1. timeout \in BOOLEAN
      BY ConnectionConstants
    <3>2. /\ Unsent \subseteq Unsent'
          /\ timers' = timers \/ (timers' \subseteq timers \cup {m} /\ m \in Unsent')
      BY <2>3, <3>1, UnsentOfSend
    <3> QED BY <2>1, <2>2, <3>2
  <2>4. CASE UNCHANGED <<out, timers, chWriting>>
    BY <1>1, <2>1, <2>4 DEF out
  <2> QED BY <1>9, <2>3, <2>4 DEF LoopSend
<1>10. ASSUME NEW op \in LoopOps, LoopCall(op) PROVE TimerInv' /\ TimerIteratorValid'
  <2>1. UNCHANGED <<timerBatch, calling, outputBufferList_>>
    BY <1>10 DEF LoopCall, out
  <2>2. CASE ReadOpInLoop(op)
    BY <1>1, <2>1, <2>2, ReadOpType DEF OutTypeOK
  <2>3. CASE timers' = IF op = "forceCloseWithDelay" THEN timers \cup {"close"} ELSE timers
    <3>1. timers' \cap Msgs = timers \cap Msgs
      BY <2>3, ConnectionConstants
    <3> QED BY <1>1, <2>1, <3>1
  <2> QED BY <1>10, <2>2, <2>3 DEF LoopCall
<1>11. ASSUME UNCHANGED <<clock, out>> PROVE TimerInv' /\ TimerIteratorValid'
  BY <1>1, <1>11 DEF clock, out
<1> QED
  BY <1>2, <1>4, <1>5, <1>6, <1>7, <1>8, <1>9, <1>10, <1>11
  DEF Next, LoopStep, RemoveConnectionInLoop, StopInLoop, ForeignSend, ForeignCall,
      ForeignSetState, ForeignHandOver

-----------------------------------------------------------------------------
(* The phases of a connection.                                             *)

\* The parts of PhaseInv.
Virgin ==
    state_ = "kConnecting" =>
        /\ ~chReading /\ ~chWriting
        /\ timers = {} /\ timerBatch = {}
        /\ \A i \in DOMAIN functors :
              functors[i].op \in {"connectEstablished", "connectDestroyed"}
QueuePhase ==
    \A i \in DOMAIN functors :
        /\ functors[i].op = "connectEstablished" => i = 1 /\ state_ = "kConnecting"
        /\ functors[i].op = "shutdownInLoop" => Down
ThreadPhase ==
    \A t \in Threads : /\ tpc[t].step = "checked" => state_ # "kConnecting"
                       /\ tpc[t].step = "set" => Down
ShutPhase == writeShut => Down /\ outputBufferList_ = <<>>

LEMMA PhaseParts == PhaseInv <=> Virgin /\ QueuePhase /\ ThreadPhase /\ ShutPhase
BY DEF PhaseInv, Virgin, QueuePhase, ThreadPhase, ShutPhase

\* Only connectEstablished brings state_ up; everything else leaves it or
\* takes it down, and not out of kConnecting.
StateFalls ==
    \/ state_' = state_
    \/ state_ # "kConnecting" /\ state_' \in {"kDisconnecting", "kDisconnected"}

LEMMA StateStep ==
  ASSUME RestTypeOK, PhaseInv, Next
  PROVE  \/ StateFalls
         \/ /\ RunFunctor /\ ConnectEstablished
            /\ functors # <<>> /\ Head(functors).op = "connectEstablished"
            /\ UNCHANGED <<reading_, chWriting, removed_, out, timers, server, writeShut>>
<1>1. CASE RunFunctor
  <2>1. CASE Closable /\ HandleClose
    BY <2>1 DEF Closable, HandleClose, FailAllUnsent, StateFalls
  <2>2. CASE ConnectDestroyed
    BY <2>2 DEF ConnectDestroyed, FailAllUnsent, StateFalls
  <2>3. CASE state_' = state_
    BY <2>3 DEF StateFalls
  <2> QED BY <1>1, <2>1, <2>2, <2>3 DEF RunFunctor, server
<1>2. CASE PeerCloses
  <2>1. state_ # "kConnecting"
    BY <1>2 DEF PeerCloses, PhaseInv
  <2> QED BY <1>2, <2>1 DEF PeerCloses, HandleClose, FailAllUnsent, StateFalls
<1>3. ASSUME NEW t \in Threads, ForeignSetState(t) PROVE StateFalls
  BY <1>3 DEF ForeignSetState, PhaseInv, StateFalls
<1>4. ASSUME NEW op \in LoopOps, LoopCall(op) PROVE StateFalls
  BY <1>4 DEF LoopCall, StateFalls
<1>5. ASSUME NEW timer \in Timers, RunTimer(timer) PROVE StateFalls
  BY <1>5 DEF RunTimer, Closable, StateFalls
<1> QED
  BY <1>1, <1>2, <1>3, <1>4, <1>5
  DEF Next, LoopStep, HandleWrite, TimersDone, TimersExpire, RemoveConnectionInLoop,
      StopInLoop, LoopSend, ForeignSend, ForeignCall, ForeignHandOver, StateFalls

LEMMA QueuePhaseAfterQueue ==
  ASSUME RestTypeOK, QueuePhase, StateFalls, NEW op \in InLoopOps, op # "connectEstablished",
         op = "shutdownInLoop" => Down, functors' = Queue(op)
  PROVE  QueuePhase'
<1>1. /\ functors' \in Seq(Functor) /\ Len(functors') = Len(functors) + 1
      /\ functors'[Len(functors) + 1].op = op
      /\ \A i \in DOMAIN functors : functors'[i] = functors[i]
  BY QueueType DEF RestTypeOK
<1>2. \A i \in DOMAIN functors' : i \in DOMAIN functors \/ i = Len(functors) + 1
  BY <1>1 DEF RestTypeOK
<1>3. Down => Down'
  BY DEF Down, StateFalls
<1> QED BY <1>1, <1>2, <1>3 DEF QueuePhase, StateFalls

LEMMA QueuePhaseStep ==
  ASSUME RestTypeOK, QueuePhase, ThreadPhase, StateFalls, Next
  PROVE  QueuePhase'
<1>0. Down => Down'
  BY DEF Down, StateFalls
<1>1. CASE functors' = functors
  BY <1>0, <1>1 DEF QueuePhase, StateFalls
<1>2. CASE RunFunctor
  <2>1. /\ \A i \in DOMAIN functors' : i + 1 \in DOMAIN functors /\ functors'[i] = functors[i + 1]
        /\ \A i \in DOMAIN functors' : i \in Nat \ {0}
    BY <1>2, FunctorsType DEF RunFunctor, RestTypeOK
  <2> QED BY <1>0, <2>1 DEF QueuePhase
<1>3. ASSUME NEW timer \in Timers, RunTimer(timer) PROVE QueuePhase'
  <2>1. functors' = functors \/ functors' = Queue("forceCloseInLoop")
    BY <1>3 DEF RunTimer
  <2> QED BY <1>1, <2>1, QueuePhaseAfterQueue DEF InLoopOps
<1>4. CASE RemoveConnectionInLoop \/ StopInLoop
  <2>1. functors' = Queue("connectDestroyed")
    BY <1>4 DEF RemoveConnectionInLoop, StopInLoop
  <2> QED BY <2>1, QueuePhaseAfterQueue DEF InLoopOps
<1>5. ASSUME NEW m \in Msgs, NEW timeout \in Timeouts, ForeignSend(m, timeout) PROVE QueuePhase'
  <2>1. \A i \in DOMAIN functors' : \/ i \in DOMAIN functors /\ functors'[i] = functors[i]
                                    \/ functors'[i].op = "sendInLoop"
    BY <1>5 DEF ForeignSend, RestTypeOK
  <2>2. state_' = state_
    BY <1>5 DEF ForeignSend
  <2> QED BY <1>0, <2>1, <2>2 DEF QueuePhase
<1>6. ASSUME NEW op \in LoopOps, LoopCall(op) PROVE QueuePhase'
  <2>1. functors' = functors \/ functors' = Queue("forceCloseInLoop")
    BY <1>6 DEF LoopCall
  <2> QED BY <1>1, <2>1, QueuePhaseAfterQueue DEF InLoopOps
<1>7. ASSUME NEW t \in Threads, NEW op \in ForeignOps, ForeignCall(t, op) PROVE QueuePhase'
  <2>1. functors' = functors \/ (op \in ReadOps /\ functors' = Queue(op))
    BY <1>7 DEF ForeignCall
  <2>2. op \in ReadOps => op \in InLoopOps /\ op # "connectEstablished" /\ op # "shutdownInLoop"
    BY DEF ReadOps, InLoopOps
  <2> QED BY <1>1, <2>1, <2>2, QueuePhaseAfterQueue
<1>8. ASSUME NEW t \in Threads, ForeignHandOver(t) PROVE QueuePhase'
  <2>1. tpc[t].op \in CloseOps /\ Down
    BY <1>8 DEF ForeignHandOver, RestTypeOK, Idle, ThreadPhase
  <2>2. functors' = Queue(InLoopOf(tpc[t].op))
    BY <1>8 DEF ForeignHandOver
  <2> QED BY <2>1, <2>2, InLoopOfClose, QueuePhaseAfterQueue
<1> QED
  BY <1>1, <1>2, <1>3, <1>4, <1>5, <1>6, <1>7, <1>8
  DEF Next, LoopStep, HandleWrite, TimersDone, TimersExpire, PeerCloses, LoopSend,
      ForeignSetState

LEMMA ThreadPhaseStep ==
  ASSUME RestTypeOK, ThreadPhase, StateFalls, Next
  PROVE  ThreadPhase'
<1>1. Down => Down'
  BY DEF Down, StateFalls
<1>2. CASE tpc' = tpc
  BY <1>1, <1>2 DEF ThreadPhase, StateFalls
<1>3. ASSUME NEW t \in Threads, NEW op \in ForeignOps, ForeignCall(t, op) PROVE ThreadPhase'
  <2>1. state_' = state_ /\ state_ # "kConnecting"
    BY <1>3 DEF ForeignCall
  <2>2. tpc' = tpc \/ tpc' = [tpc EXCEPT ![t] = [op |-> op, step |-> "checked"]]
    BY <1>3 DEF ForeignCall
  <2> QED BY <1>1, <1>2, <2>1, <2>2 DEF ThreadPhase, RestTypeOK
<1>4. ASSUME NEW t \in Threads, ForeignSetState(t) PROVE ThreadPhase'
  <2>1. state_' = "kDisconnecting" /\ Down'
    BY <1>4 DEF ForeignSetState, Down
  <2> QED BY <2>1 DEF ThreadPhase
<1>5. ASSUME NEW t \in Threads, ForeignHandOver(t) PROVE ThreadPhase'
  <2>1. state_' = state_ /\ tpc' = [tpc EXCEPT ![t] = Idle]
    BY <1>5 DEF ForeignHandOver
  <2> QED BY <1>1, <2>1 DEF ThreadPhase, RestTypeOK, Idle
<1>6. ASSUME NEW op \in LoopOps, LoopCall(op) PROVE tpc' = tpc
  BY <1>6 DEF LoopCall
<1>7. ASSUME NEW timer \in Timers, RunTimer(timer) PROVE tpc' = tpc
  BY <1>7 DEF RunTimer
<1>8. CASE RunFunctor
  BY <1>2, <1>8 DEF RunFunctor
<1> QED
  BY <1>2, <1>3, <1>4, <1>5, <1>6, <1>7, <1>8
  DEF Next, LoopStep, HandleWrite, TimersDone, TimersExpire, PeerCloses,
      RemoveConnectionInLoop, StopInLoop, LoopSend, ForeignSend

LEMMA VirginStep ==
  ASSUME RestTypeOK, PhaseInv, Next, state_' = "kConnecting"
  PROVE  Virgin'
<1>0. /\ Virgin /\ QueuePhase /\ ThreadPhase
  BY PhaseParts
<1>1. state_ = "kConnecting"
  BY StateStep DEF StateFalls, ConnectEstablished
<1>2. /\ ~chReading /\ ~chWriting /\ timers = {} /\ timerBatch = {}
      /\ \A i \in DOMAIN functors :
            functors[i].op \in {"connectEstablished", "connectDestroyed"}
  BY <1>0, <1>1 DEF Virgin
<1>3. CASE RunFunctor
  <2>1. /\ Head(functors).op \in {"connectEstablished", "connectDestroyed"}
        /\ \A i \in DOMAIN functors' : i + 1 \in DOMAIN functors /\ functors'[i] = functors[i + 1]
    BY <1>2, <1>3, FunctorsType DEF RunFunctor, RestTypeOK
  <2>2. timerBatch' = {}
    BY <1>2, <1>3 DEF RunFunctor
  <2>3. UNCHANGED <<chReading, chWriting, timers>>
    <3>1. CASE ConnectEstablished
      BY <3>1 DEF ConnectEstablished
    <3>2. CASE ConnectDestroyed
      BY <1>1, <3>2 DEF ConnectDestroyed
    <3> QED BY <1>3, <2>1, <3>1, <3>2 DEF RunFunctor, ReadOps
  <2> QED BY <1>2, <2>1, <2>2, <2>3 DEF Virgin
<1>4. CASE RemoveConnectionInLoop \/ StopInLoop
  <2>1. UNCHANGED <<chan, clock>> /\ functors' = Queue("connectDestroyed")
    BY <1>4 DEF RemoveConnectionInLoop, StopInLoop
  <2>2. \A i \in DOMAIN functors' : \/ i \in DOMAIN functors /\ functors'[i] = functors[i]
                                    \/ functors'[i].op = "connectDestroyed"
    BY <2>1, QueueType DEF RestTypeOK, InLoopOps
  <2> QED BY <1>2, <2>1, <2>2 DEF Virgin, chan, clock
<1>5. CASE TimersDone
  BY <1>2, <1>5 DEF TimersDone, chan, Virgin
<1>6. ~HandleWrite /\ ~TimersExpire /\ ~PeerCloses
  BY <1>2 DEF HandleWrite, TimersExpire, PeerCloses
<1>7. ASSUME NEW timer \in Timers PROVE ~RunTimer(timer)
  BY <1>2 DEF RunTimer
<1>8. ASSUME NEW m \in Msgs, NEW timeout \in Timeouts
      PROVE  ~LoopSend(m, timeout) /\ ~ForeignSend(m, timeout)
  BY <1>1 DEF LoopSend, ForeignSend
<1>9. ASSUME NEW op PROVE ~LoopCall(op) /\ \A t \in Threads : ~ForeignCall(t, op)
  BY <1>1 DEF LoopCall, ForeignCall
<1>10. ASSUME NEW t \in Threads PROVE ~ForeignSetState(t) /\ ~ForeignHandOver(t)
  BY <1>0, <1>1 DEF ForeignSetState, ForeignHandOver, ThreadPhase, Down
<1> QED
  BY <1>3, <1>4, <1>5, <1>6, <1>7, <1>8, <1>9, <1>10 DEF Next, LoopStep

LEMMA EstablishStep ==
  ASSUME RestTypeOK, PhaseInv, RunFunctor, ConnectEstablished, functors # <<>>,
         Head(functors).op = "connectEstablished",
         UNCHANGED <<reading_, chWriting, removed_, out, timers, server, writeShut>>
  PROVE  PhaseInv'
<1>0. Virgin /\ QueuePhase /\ ThreadPhase /\ ShutPhase
  BY PhaseParts
<1>1. /\ Head(functors) = functors[1] /\ 1 \in DOMAIN functors
      /\ \A i \in DOMAIN functors' : i + 1 \in DOMAIN functors /\ functors'[i] = functors[i + 1]
      /\ \A i \in DOMAIN functors' : i \in Nat \ {0}
  BY FunctorsType DEF RunFunctor, RestTypeOK
<1>2. state_ = "kConnecting" /\ state_' = "kConnected"
  BY <1>0, <1>1 DEF QueuePhase, ConnectEstablished
<1>3. Virgin'
  BY <1>2 DEF Virgin
<1>4. QueuePhase'
  BY <1>0, <1>1, <1>2 DEF QueuePhase, Virgin
<1>5. ThreadPhase'
  <2>1. tpc' = tpc
    BY DEF RunFunctor
  <2> QED BY <1>0, <1>2, <2>1 DEF ThreadPhase, Down
<1>6. ShutPhase'
  BY <1>0, <1>2 DEF ShutPhase, Down
<1> QED BY <1>3, <1>4, <1>5, <1>6 DEF PhaseInv, Virgin, QueuePhase, ThreadPhase, ShutPhase

LEMMA ShutPhaseAfterSend ==
  ASSUME OutTypeOK, ShutPhase, NEW m \in Msgs, NEW timeout \in BOOLEAN, SendInLoop(m, timeout),
         UNCHANGED <<state_, writeShut>>
  PROVE  ShutPhase'
<1>1. state_ = "kConnected" \/ outputBufferList_' = outputBufferList_
  BY SendInLoopCases
<1> QED BY <1>1 DEF ShutPhase, Down

LEMMA ShutPhaseStep ==
  ASSUME OutTypeOK, RestTypeOK, UnsentDataIsWritten, SendInv, PhaseInv, StateFalls, Next
  PROVE  ShutPhase'
<1>0. ShutPhase /\ QueuePhase /\ (Down => Down')
  BY PhaseParts DEF Down, StateFalls
<1>1. CASE UNCHANGED <<outputBufferList_, writeShut>>
  BY <1>0, <1>1 DEF ShutPhase
<1>2. CASE FailAllUnsent /\ writeShut' = writeShut
  BY <1>0, <1>2 DEF ShutPhase, FailAllUnsent
<1>3. ASSUME ShutdownInLoop(chWriting), outputBufferList_' = outputBufferList_, Down'
      PROVE  ShutPhase'
  <2>1. writeShut' => writeShut \/ ~chWriting
    BY <1>3, Zenon DEF ShutdownInLoop
  <2> QED BY <1>0, <1>3, <2>1 DEF ShutPhase, UnsentDataIsWritten
<1>4. CASE HandleWrite
  <2>1. state_' = state_ /\ outputBufferList_ # <<>> /\ writeShut = FALSE
    BY <1>0, <1>4 DEF HandleWrite, ShutPhase, RestTypeOK
  <2>2. CASE writeShut' = writeShut
    BY <2>1, <2>2 DEF ShutPhase
  <2>3. CASE /\ outputBufferList_' = Tail(outputBufferList_)
             /\ AfterRemoval(sendQueSize_ - 1)
    <3>1. sendQueSize_ - 1 = Len(outputBufferList_') /\ outputBufferList_' \in Seq(Buffers)
      BY <2>1, <2>3 DEF UnsentDataIsWritten, OutTypeOK
    <3>2. CASE sendQueSize_ - 1 <= 0 /\ state_ = "kDisconnecting"
      <4>1. outputBufferList_' = <<>>
        BY <3>1, <3>2
      <4> QED BY <2>1, <3>2, <4>1 DEF ShutPhase, Down
    <3>3. CASE ~(sendQueSize_ - 1 <= 0 /\ state_ = "kDisconnecting")
      BY <2>2, <2>3, <3>3 DEF AfterRemoval
    <3> QED BY <3>2, <3>3
  <2> QED BY <1>4, <2>2, <2>3, HandleWriteCases DEF RestTypeOK
<1>5. CASE RunFunctor
  <2> DEFINE f == Head(functors)
  <2>1. f \in Functor /\ f = functors[1] /\ 1 \in DOMAIN functors
    BY <1>5, FunctorsType DEF RunFunctor, RestTypeOK
  <2>2. CASE /\ f.op = "sendInLoop"
             /\ SendInLoop(f.msg, f.timeout)
             /\ UNCHANGED <<state_, writeShut>>
    <3>1. f.msg \in Msgs /\ f.timeout \in BOOLEAN
      BY <2>1, <2>2 DEF SendInv, Functor
    <3> QED BY <1>0, <2>2, <3>1, ShutPhaseAfterSend
  <2>3. CASE /\ f.op = "shutdownInLoop"
             /\ ShutdownInLoop(chWriting)
             /\ outputBufferList_' = outputBufferList_
    BY <1>0, <1>3, <2>1, <2>3 DEF QueuePhase
  <2> QED BY <1>1, <1>2, <1>5, <2>2, <2>3
          DEF RunFunctor, HandleClose, ConnectDestroyed, out
<1>6. ASSUME NEW timer \in Timers, RunTimer(timer) PROVE ShutPhase'
  <2>1. writeShut' = writeShut
    BY <1>6 DEF RunTimer
  <2>2. CASE SendTimeoutCallBack(timer)
    <3>1. outputBufferList_ # <<>>
      BY <2>2 DEF SendTimeoutCallBack
    <3> QED BY <1>0, <2>1, <3>1 DEF ShutPhase
  <2>3. CASE out' = out
    BY <1>1, <2>1, <2>3 DEF out
  <2> QED BY <1>6, <2>2, <2>3 DEF RunTimer
<1>7. CASE PeerCloses
  BY <1>2, <1>7 DEF PeerCloses, HandleClose
<1>8. ASSUME NEW m \in Msgs, NEW timeout \in Timeouts, LoopSend(m, timeout) PROVE ShutPhase'
  <2>1. timeout \in BOOLEAN /\ UNCHANGED <<state_, writeShut>>
    BY <1>8, ConnectionConstants DEF LoopSend
  <2>2. CASE SendInLoop(m, timeout)
    BY <1>0, <2>1, <2>2, ShutPhaseAfterSend
  <2>3. CASE out' = out
    BY <1>1, <2>1, <2>3 DEF out
  <2> QED BY <1>8, <2>2, <2>3 DEF LoopSend
<1>9. ASSUME NEW op \in LoopOps, LoopCall(op) PROVE ShutPhase'
  <2>1. outputBufferList_' = outputBufferList_
    BY <1>9 DEF LoopCall, out
  <2>2. CASE op = "shutdown"
    <3>1. ShutdownInLoop(chWriting) /\ Down'
      BY <1>9, <2>2 DEF LoopCall, Down, CloseOps
    <3> QED BY <1>3, <2>1, <3>1
  <2>3. CASE op # "shutdown"
    BY <1>1, <1>9, <2>1, <2>3 DEF LoopCall
  <2> QED BY <2>2, <2>3
<1>10. ASSUME UNCHANGED <<out, writeShut>> PROVE ShutPhase'
  BY <1>1, <1>10 DEF out
<1> QED
  BY <1>4, <1>5, <1>6, <1>7, <1>8, <1>9, <1>10
  DEF Next, LoopStep, TimersDone, TimersExpire, RemoveConnectionInLoop, StopInLoop,
      ForeignSend, ForeignCall, ForeignSetState, ForeignHandOver

LEMMA PhaseStep ==
  ASSUME OutTypeOK, RestTypeOK, UnsentDataIsWritten, SendInv, PhaseInv, Next
  PROVE  PhaseInv'
<1>0. Virgin /\ QueuePhase /\ ThreadPhase /\ ShutPhase
  BY PhaseParts
<1>1. CASE StateFalls
  <2>1. Virgin'
    BY VirginStep DEF Virgin
  <2>2. QueuePhase' /\ ThreadPhase' /\ ShutPhase'
    BY <1>0, <1>1, QueuePhaseStep, ThreadPhaseStep, ShutPhaseStep
  <2> QED BY <2>1, <2>2 DEF PhaseInv, Virgin, QueuePhase, ThreadPhase, ShutPhase
<1> QED BY <1>1, StateStep, EstablishStep

-----------------------------------------------------------------------------
(* The theorems.                                                           *)

\* The inductive invariant.
IInv ==
    /\ OutTypeOK /\ RestTypeOK
    /\ UnsentDataIsWritten /\ SendInv
    /\ TimerInv /\ TimerIteratorValid
    /\ PhaseInv

LEMMA TypeParts == TypeOK <=> OutTypeOK /\ RestTypeOK
BY DEF TypeOK, OutTypeOK, RestTypeOK, Buffers

LEMMA InvInit == Init => IInv
<1> SUFFICES ASSUME Init PROVE IInv
  OBVIOUS
<1>1. /\ reading_ \in BOOLEAN /\ chReading \in BOOLEAN /\ chWriting \in BOOLEAN
      /\ removed_ \in BOOLEAN /\ calling \in BOOLEAN /\ inServer \in BOOLEAN
      /\ writeShut \in BOOLEAN
      /\ ~chReading /\ ~chWriting /\ ~calling /\ ~writeShut
  BY Zenon DEF Init
<1>2. /\ functors \in Seq(Functor) /\ DOMAIN functors = {1}
      /\ functors[1].op = "connectEstablished"
  <2>1. [op |-> "connectEstablished", msg |-> "none", timeout |-> FALSE] \in Functor
    BY DEF Functor, InLoopOps
  <2> QED BY <2>1 DEF Init
<1>3. OutTypeOK
  BY <1>1 DEF Init, OutTypeOK
<1>4. RestTypeOK
  BY <1>1, <1>2 DEF Init, RestTypeOK, States
<1>5. Unsent = {}
  BY DEF Init, Unsent
<1>6. UnsentDataIsWritten
  BY DEF Init, UnsentDataIsWritten
<1>7. SendInv
  BY <1>2, <1>5 DEF SendInv
<1>8. TimerInv /\ TimerIteratorValid
  BY DEF Init, TimerInv, TimerIteratorValid
<1>9. PhaseInv
  BY <1>1, <1>2 DEF Init, PhaseInv, Idle
<1> QED BY <1>3, <1>4, <1>6, <1>7, <1>8, <1>9 DEF IInv

LEMMA InvStep == IInv /\ [Next]_vars => IInv'
<1> SUFFICES ASSUME IInv, [Next]_vars PROVE IInv'
  OBVIOUS
<1>1. CASE Next
  BY <1>1, TypeStep, UnsentStep, SendStep, IteratorStep, PhaseStep DEF IInv
<1>2. CASE UNCHANGED vars
  BY <1>2 DEF vars, chan, out, clock, server, IInv, OutTypeOK, RestTypeOK,
              UnsentDataIsWritten, SendInv, TimerInv, TimerIteratorValid, PhaseInv, Unsent, Down
<1> QED BY <1>1, <1>2

LEMMA Invariant == Spec => []IInv
BY InvInit, InvStep, PTL DEF Spec

\* Every variable keeps its type; sendQueSize_, an unsigned counter, never
\* goes below 0.
THEOREM ConnectionTypeCorrect == Spec => []TypeOK
<1>1. IInv => TypeOK
  BY TypeParts DEF IInv
<1> QED BY <1>1, Invariant, PTL

\* sendQueSize_ is the length of the list, a list that is not empty has the
\* channel waiting to write, and a connection that is down has none.
THEOREM UnsentDataCorrect == Spec => []UnsentDataIsWritten
<1>1. IInv => UnsentDataIsWritten
  BY DEF IInv
<1> QED BY <1>1, Invariant, PTL

\* A send timer that is armed or expiring points to an entry of the list:
\* sendTimeoutCallBack never uses an iterator that has been erased.
THEOREM TimerIteratorsCorrect == Spec => []TimerIteratorValid
<1>1. IInv => TimerIteratorValid
  BY DEF IInv
<1> QED BY <1>1, Invariant, PTL

LEMMA ShutdownStep ==
  ASSUME IInv, IInv', [Next]_vars
  PROVE  /\ writeShut => wire' = wire
         /\ ~writeShut /\ writeShut' => outputBufferList_' = <<>>
<1>1. ~writeShut /\ writeShut' => outputBufferList_' = <<>>
  BY DEF IInv, PhaseInv
<1>2. ASSUME writeShut PROVE wire' = wire
  <2>1. state_ # "kConnected" /\ outputBufferList_ = <<>>
    BY <1>2 DEF IInv, PhaseInv, Down
  <2>2. ASSUME NEW m, NEW timeout, SendInLoop(m, timeout) PROVE wire' = wire
    BY <2>1, <2>2 DEF SendInLoop
  <2>3. ~HandleWrite
    BY <2>1 DEF HandleWrite
  <2>4. CASE RunFunctor
    BY <2>2, <2>4 DEF RunFunctor, HandleClose, ConnectDestroyed, FailAllUnsent, out
  <2>5. ASSUME NEW timer \in Timers, RunTimer(timer) PROVE wire' = wire
    BY <2>5 DEF RunTimer, SendTimeoutCallBack, out
  <2>6. CASE PeerCloses
    BY <2>6 DEF PeerCloses, HandleClose, FailAllUnsent
  <2>7. ASSUME NEW m \in Msgs, NEW timeout \in Timeouts, LoopSend(m, timeout)
        PROVE  wire' = wire
    BY <2>2, <2>7 DEF LoopSend, out
  <2>8. ASSUME NEW op \in LoopOps, LoopCall(op) PROVE wire' = wire
    BY <2>8 DEF LoopCall, out
  <2>9. CASE UNCHANGED vars
    BY <2>9 DEF vars, out
  <2> QED
    BY <2>3, <2>4, <2>5, <2>6, <2>7, <2>8, <2>9
    DEF Next, LoopStep, TimersDone, TimersExpire, RemoveConnectionInLoop, StopInLoop,
        ForeignSend, ForeignCall, ForeignSetState, ForeignHandOver, out
<1> QED BY <1>1, <1>2

\* Nothing is written after shutdownWrite, and shutdownWrite never comes while
\* data is in the list.
THEOREM ShutdownCorrect == Spec => NothingAfterShutdown
<1>1. IInv /\ IInv' /\ [Next]_vars =>
        [/\ writeShut => wire' = wire
         /\ ~writeShut /\ writeShut' => outputBufferList_' = <<>>]_vars
  BY ShutdownStep
<1> QED BY <1>1, Invariant, PTL DEF Spec, NothingAfterShutdown

-----------------------------------------------------------------------------
(* Where a message is: OneOutcome.                                         *)

\* Message m is on its way to the loop.
Travels(m) == \E i \in DOMAIN functors : functors[i].msg = m

\* Only sendInLoop carries a message, and no message is carried twice.
QueueInv ==
    /\ \A i \in DOMAIN functors : functors[i].op # "sendInLoop" => functors[i].msg = "none"
    /\ \A i, j \in DOMAIN functors :
          functors[i].msg \in Msgs /\ functors[i].msg = functors[j].msg => i = j

\* No message is twice in the list.
ListInv ==
    \A i, j \in DOMAIN outputBufferList_ :
        outputBufferList_[i][1] = outputBufferList_[j][1] => i = j

\* A message that was accepted, and no other, is in one of its three places.
PlaceInv ==
    \A m \in Msgs :
        /\ Travels(m) \/ m \in Unsent \/ Len(outcome[m]) > 0 <=> ret[m] = "SUCCESS"
        /\ ~(Travels(m) /\ m \in Unsent)
        /\ Len(outcome[m]) > 0 => ~Travels(m) /\ m \notin Unsent
        /\ Len(outcome[m]) <= 1

Reports(m) ==
    /\ Len(outcome'[m]) = Len(outcome[m]) + 1
    /\ \A x \in Msgs \ {m} : outcome'[x] = outcome[x]

LEMMA ReportReports ==
  ASSUME outcome \in [Msgs -> Seq(Codes)], NEW m \in Msgs, NEW code \in Codes, Report(m, code)
  PROVE  Reports(m)
BY DEF Report, Reports

LEMMA TravelsAfterQueue ==
  ASSUME functors \in Seq(Functor), QueueInv, NEW op \in InLoopOps, functors' = Queue(op)
  PROVE  QueueInv' /\ \A x \in Msgs : Travels(x)' <=> Travels(x)
<1> DEFINE n == Len(functors)
<1>1. /\ functors' \in Seq(Functor) /\ Len(functors') = n + 1 /\ n \in Nat
      /\ functors'[n + 1].msg = "none"
      /\ \A i \in DOMAIN functors : functors'[i] = functors[i]
  <2>1. [op |-> op, msg |-> "none", timeout |-> FALSE] \in Functor
    BY DEF Functor
  <2> QED BY <2>1 DEF Queue
<1>2. DOMAIN functors' = DOMAIN functors \cup {n + 1} /\ n + 1 \notin DOMAIN functors
  BY <1>1
<1>3. "none" \notin Msgs
  BY ConnectionConstants
<1> HIDE DEF n
<1> QED BY <1>1, <1>2, <1>3 DEF QueueInv, Travels

LEMMA TravelsAfterSend ==
  ASSUME functors \in Seq(Functor), QueueInv, NEW m \in Msgs, NEW timeout \in BOOLEAN, ~Travels(m),
         functors' = Append(functors, [op |-> "sendInLoop", msg |-> m, timeout |-> timeout])
  PROVE  QueueInv' /\ \A x \in Msgs : Travels(x)' <=> Travels(x) \/ x = m
<1> DEFINE n == Len(functors)
           f == [op |-> "sendInLoop", msg |-> m, timeout |-> timeout]
<1>0. f \in Functor /\ f.op = "sendInLoop" /\ f.msg = m
  BY DEF Functor, InLoopOps
<1> HIDE DEF f
<1>1. /\ functors' \in Seq(Functor) /\ Len(functors') = n + 1 /\ n \in Nat
      /\ functors'[n + 1] = f
      /\ \A i \in DOMAIN functors : functors'[i] = functors[i]
  BY <1>0 DEF f
<1>2. DOMAIN functors' = DOMAIN functors \cup {n + 1} /\ n + 1 \notin DOMAIN functors
  BY <1>1
<1> HIDE DEF n
<1> QED BY <1>0, <1>1, <1>2 DEF QueueInv, Travels

LEMMA TravelsAfterRun ==
  ASSUME functors \in Seq(Functor), QueueInv, functors # <<>>, functors' = Tail(functors)
  PROVE  /\ QueueInv'
         /\ \A x \in Msgs : Travels(x)' <=> Travels(x) /\ x # functors[1].msg
         /\ functors[1].msg \in Msgs => Travels(functors[1].msg)
<1>1. /\ \A i \in DOMAIN functors' : i + 1 \in DOMAIN functors /\ functors'[i] = functors[i + 1]
      /\ Len(functors') = Len(functors) - 1 /\ functors' \in Seq(Functor)
  BY FunctorsType
<1>2. 1 \in DOMAIN functors /\ DOMAIN functors \subseteq Nat /\ DOMAIN functors' \subseteq Nat \ {0}
  BY <1>1
<1>3. \A i \in DOMAIN functors : i # 1 => i - 1 \in DOMAIN functors' /\ functors'[i - 1] = functors[i]
  BY <1>1
<1>4. QueueInv'
  <2>1. \A i \in DOMAIN functors' : functors'[i].op # "sendInLoop" => functors'[i].msg = "none"
    BY <1>1 DEF QueueInv
  <2>2. ASSUME NEW i \in DOMAIN functors', NEW j \in DOMAIN functors',
               functors'[i].msg \in Msgs, functors'[i].msg = functors'[j].msg
        PROVE  i = j
    <3>1. i + 1 = j + 1
      BY <1>1, <2>2 DEF QueueInv
    <3> QED BY <1>2, <3>1
  <2> QED BY <2>1, <2>2 DEF QueueInv
<1>5. ASSUME NEW x \in Msgs PROVE Travels(x)' <=> Travels(x) /\ x # functors[1].msg
  <2>1. ASSUME Travels(x)' PROVE Travels(x) /\ x # functors[1].msg
    <3>1. PICK i \in DOMAIN functors' : functors'[i].msg = x
      BY <2>1 DEF Travels
    <3>2. i + 1 # 1
      BY <1>2
    <3> QED BY <1>1, <1>2, <3>1, <3>2 DEF Travels, QueueInv
  <2>2. ASSUME Travels(x), x # functors[1].msg PROVE Travels(x)'
    BY <1>3, <2>2 DEF Travels
  <2> QED BY <2>1, <2>2
<1> QED BY <1>2, <1>4, <1>5 DEF Travels

LEMMA ListShrinks ==
  ASSUME outputBufferList_ \in Seq(Buffers), outputBufferList_' \in Seq(Buffers), ListInv,
         NEW i \in DOMAIN outputBufferList_,
         Len(outputBufferList_') = Len(outputBufferList_) - 1,
         \A k \in 1..Len(outputBufferList_) - 1 :
            outputBufferList_'[k] = IF k < i THEN outputBufferList_[k] ELSE outputBufferList_[k + 1]
  PROVE  ListInv' /\ Unsent' = Unsent \ {outputBufferList_[i][1]}
<1> DEFINE n == Len(outputBufferList_)
           Old(k) == IF k < i THEN k ELSE k + 1
<1>1. /\ n \in Nat /\ DOMAIN outputBufferList_ = 1..n /\ DOMAIN outputBufferList_' = 1..n - 1
      /\ i \in 1..n
  OBVIOUS
<1>2. \A k \in 1..n - 1 : /\ outputBufferList_'[k] = outputBufferList_[Old(k)]
                          /\ Old(k) \in 1..n /\ Old(k) # i
  BY <1>1
<1>3. \A j, k \in 1..n - 1 : Old(j) = Old(k) => j = k
  BY <1>1
<1>4. \A j \in 1..n : j # i => \E k \in 1..n - 1 : Old(k) = j
  <2> TAKE j \in 1..n
  <2> HAVE j # i
  <2>1. CASE j < i
    BY <1>1, <2>1
  <2>2. CASE i < j
    <3>1. j - 1 \in 1..n - 1 /\ Old(j - 1) = j
      BY <1>1, <2>2
    <3> QED BY <3>1
  <2> QED BY <1>1, <2>1, <2>2
<1> HIDE DEF n, Old
<1>5. ListInv'
  BY <1>1, <1>2, <1>3 DEF ListInv
<1>6. ASSUME NEW x \in Unsent' PROVE x \in Unsent \ {outputBufferList_[i][1]}
  <2>1. PICK k \in 1..n - 1 : x = outputBufferList_'[k][1]
    BY <1>1 DEF Unsent
  <2> QED BY <1>1, <1>2, <2>1 DEF Unsent, ListInv
<1>7. ASSUME NEW x \in Unsent, x # outputBufferList_[i][1] PROVE x \in Unsent'
  <2>1. PICK j \in 1..n : x = outputBufferList_[j][1]
    BY <1>1 DEF Unsent
  <2>2. PICK k \in 1..n - 1 : Old(k) = j
    BY <1>4, <1>7, <2>1
  <2> QED BY <1>1, <1>2, <2>1, <2>2 DEF Unsent
<1> QED BY <1>5, <1>6, <1>7

\* sendInLoop puts its message into the list or reports a result.
LEMMA PlaceOfSend ==
  ASSUME OutTypeOK, ListInv, NEW m \in Msgs, m \notin Unsent, NEW timeout \in BOOLEAN,
         SendInLoop(m, timeout)
  PROVE  /\ ListInv'
         /\ \/ Unsent' = Unsent \cup {m} /\ outcome' = outcome
            \/ Unsent' = Unsent /\ Reports(m)
<1>1. ASSUME NEW n \in 1..MsgLen, Enqueue(m, n, timeout)
      PROVE  ListInv' /\ Unsent' = Unsent \cup {m} /\ outcome' = outcome
  <2> DEFINE k == Len(outputBufferList_)
  <2>1. <<m, n>> \in Buffers /\ <<m, n>>[1] = m
    BY DEF Buffers
  <2>2. outputBufferList_' = Append(outputBufferList_, <<m, n>>) /\ outputBufferList_ \in Seq(Buffers)
    BY <1>1 DEF Enqueue, OutTypeOK
  <2>3. /\ k \in Nat /\ outputBufferList_'[k + 1] = <<m, n>>
        /\ DOMAIN outputBufferList_' = DOMAIN outputBufferList_ \cup {k + 1}
        /\ k + 1 \notin DOMAIN outputBufferList_
        /\ \A i \in DOMAIN outputBufferList_ : outputBufferList_'[i] = outputBufferList_[i]
    BY <2>1, <2>2
  <2>4. \A i \in DOMAIN outputBufferList_ : outputBufferList_[i][1] # m
    BY DEF Unsent
  <2> HIDE DEF k
  <2>5. ListInv'
    BY <2>1, <2>3, <2>4 DEF ListInv
  <2>6. ASSUME NEW x PROVE x \in Unsent' <=> x \in Unsent \cup {m}
    BY <2>1, <2>3 DEF Unsent
  <2> QED BY <1>1, <2>5, <2>6 DEF Enqueue
<1>2. ASSUME NEW code \in Codes, Report(m, code), outputBufferList_' = outputBufferList_
      PROVE  ListInv' /\ Unsent' = Unsent /\ Reports(m)
  BY <1>2, ReportReports DEF OutTypeOK, ListInv, Unsent
<1>3. {"DISCONNECTED", "SUCCESS", "WRITEERR"} \subseteq Codes
  BY DEF Codes
<1>4. /\ MsgLen \in 1..MsgLen
      /\ \A n \in 0..MsgLen - 1 : MsgLen - n \in 1..MsgLen
  BY ConnectionConstants
<1> QED BY <1>1, <1>2, <1>3, <1>4 DEF SendInLoop

\* handleWrite takes a message it has finished from the list and reports it.
LEMMA PlaceOfHandleWrite ==
  ASSUME OutTypeOK, UnsentDataIsWritten, writeShut \in BOOLEAN, ListInv, HandleWrite
  PROVE  /\ ListInv'
         /\ \/ Unsent' = Unsent /\ outcome' = outcome
            \/ \E m \in Unsent : Unsent' = Unsent \ {m} /\ Reports(m)
<1> DEFINE m == Head(outputBufferList_)[1]
           left == Head(outputBufferList_)[2]
<1>1. /\ outputBufferList_ \in Seq(Buffers) /\ outputBufferList_ # <<>> /\ OutTypeOK'
      /\ m \in Msgs /\ left \in Nat
  <2>1. outputBufferList_ \in Seq(Buffers) /\ outputBufferList_ # <<>>
    BY DEF OutTypeOK, HandleWrite
  <2>2. m \in Msgs /\ left \in Nat
    BY <2>1 DEF Buffers
  <2> QED BY <2>1, <2>2, HandleWriteCases
<1>2. m = outputBufferList_[1][1] /\ 1 \in DOMAIN outputBufferList_
  BY <1>1
<1>3. ASSUME outputBufferList_' = Tail(outputBufferList_), NEW code \in Codes, Report(m, code)
      PROVE  ListInv' /\ m \in Unsent /\ Unsent' = Unsent \ {m} /\ Reports(m)
  <2>1. /\ outputBufferList_' \in Seq(Buffers)
        /\ Len(outputBufferList_') = Len(outputBufferList_) - 1
        /\ \A k \in 1..Len(outputBufferList_) - 1 :
              outputBufferList_'[k] = IF k < 1 THEN outputBufferList_[k] ELSE outputBufferList_[k + 1]
    BY <1>1, <1>3
  <2>2. ListInv' /\ Unsent' = Unsent \ {outputBufferList_[1][1]}
    BY <1>1, <1>2, <2>1, ListShrinks
  <2>3. m \in Unsent
    BY <1>2 DEF Unsent
  <2>4. Reports(m)
    BY <1>1, <1>3, ReportReports DEF OutTypeOK
  <2> QED BY <1>2, <2>2, <2>3, <2>4
<1>4. ASSUME NEW n \in PartialWrites(left),
             outputBufferList_' = <<<<m, left - n>>>> \o Tail(outputBufferList_), outcome' = outcome
      PROVE  ListInv' /\ Unsent' = Unsent
  <2>1. /\ DOMAIN outputBufferList_' = DOMAIN outputBufferList_
        /\ outputBufferList_'[1] = <<m, left - n>>
        /\ \A i \in DOMAIN outputBufferList_ : i # 1 => outputBufferList_'[i] = outputBufferList_[i]
    <3>1. /\ Tail(outputBufferList_) \in Seq(Buffers)
          /\ Len(Tail(outputBufferList_)) = Len(outputBufferList_) - 1
          /\ \A i \in 1..Len(outputBufferList_) - 1 : Tail(outputBufferList_)[i] = outputBufferList_[i + 1]
      BY <1>1
    <3>2. left - n \in 1..MsgLen
      <4>1. left \in 1..MsgLen
        BY <1>1 DEF Buffers
      <4> QED BY <4>1, ConnectionConstants DEF PartialWrites
    <3>3. <<<<m, left - n>>>> \in Seq(Buffers)
      BY <1>1, <3>2 DEF Buffers
    <3> QED BY <1>1, <1>4, <3>1, <3>3
  <2>2. \A i \in DOMAIN outputBufferList_ : outputBufferList_'[i][1] = outputBufferList_[i][1]
    BY <1>2, <2>1
  <2> QED BY <2>1, <2>2 DEF ListInv, Unsent
<1>5. {"SUCCESS", "WRITEERR"} \subseteq Codes
  BY DEF Codes
<1> QED BY <1>3, <1>4, <1>5 DEF HandleWrite

\* So does sendTimeoutCallBack with its message.
LEMMA PlaceOfTimeout ==
  ASSUME OutTypeOK, ListInv, NEW m \in Msgs, SendTimeoutCallBack(m)
  PROVE  ListInv' /\ m \in Unsent /\ Unsent' = Unsent \ {m} /\ Reports(m)
<1>1. PICK i \in DOMAIN outputBufferList_ :
            /\ outputBufferList_[i][1] = m
            /\ outputBufferList_' = Without(outputBufferList_, i)
  BY DEF SendTimeoutCallBack
<1>2. /\ outputBufferList_' \in Seq(Buffers)
      /\ Len(outputBufferList_') = Len(outputBufferList_) - 1
      /\ \A k \in 1..Len(outputBufferList_) - 1 :
            outputBufferList_'[k] = IF k < i THEN outputBufferList_[k] ELSE outputBufferList_[k + 1]
  BY <1>1, WithoutFacts DEF OutTypeOK
<1>3. ListInv' /\ Unsent' = Unsent \ {outputBufferList_[i][1]}
  BY <1>2, ListShrinks DEF OutTypeOK
<1>4. m \in Unsent
  BY <1>1 DEF Unsent
<1>5. Reports(m)
  BY ReportReports DEF SendTimeoutCallBack, OutTypeOK, Codes
<1> QED BY <1>1, <1>3, <1>4, <1>5

\* A close reports every message of the list.
LEMMA PlaceOfClose ==
  ASSUME OutTypeOK, FailAllUnsent
  PROVE  /\ ListInv' /\ Unsent' = {}
         /\ \A x \in Msgs : IF x \in Unsent THEN Len(outcome'[x]) = Len(outcome[x]) + 1
                                           ELSE outcome'[x] = outcome[x]
<1>1. outputBufferList_' = <<>> /\ ReportAll(Unsent, "DISCONNECTED")
  BY DEF FailAllUnsent
<1> QED BY <1>1, UnsentOfClose DEF ListInv, ReportAll, OutTypeOK, Codes

OutcomeInv == QueueInv /\ ListInv /\ PlaceInv

\* Steps after which every message is where it was.
LEMMA PlacesSame ==
  ASSUME OutcomeInv, QueueInv', ret' = ret, outputBufferList_' = outputBufferList_,
         outcome' = outcome, \A x \in Msgs : Travels(x)' <=> Travels(x)
  PROVE  OutcomeInv'
<1>1. ListInv' /\ Unsent' = Unsent
  BY DEF OutcomeInv, ListInv, Unsent
<1> QED BY <1>1 DEF OutcomeInv, PlaceInv

\* Steps that take a message from the list and report it.
LEMMA PlacesWhenReported ==
  ASSUME OutTypeOK, OutcomeInv, ListInv', UNCHANGED <<functors, ret>>,
         NEW m \in Unsent, Unsent' = Unsent \ {m}, Reports(m)
  PROVE  OutcomeInv'
<1>1. QueueInv' /\ \A x \in Msgs : Travels(x)' <=> Travels(x)
  BY DEF OutcomeInv, QueueInv, Travels
<1>2. m \in Msgs
  BY DEF Unsent, OutTypeOK, Buffers
<1>3. ASSUME NEW x \in Msgs
      PROVE  /\ Travels(x)' \/ x \in Unsent' \/ Len(outcome'[x]) > 0 <=> ret'[x] = "SUCCESS"
             /\ ~(Travels(x)' /\ x \in Unsent')
             /\ Len(outcome'[x]) > 0 => ~Travels(x)' /\ x \notin Unsent'
             /\ Len(outcome'[x]) <= 1
  <2>1. Len(outcome[x]) \in Nat
    BY DEF OutTypeOK
  <2>2. CASE x = m
    BY <1>1, <2>1, <2>2 DEF OutcomeInv, PlaceInv, Reports
  <2>3. CASE x # m
    BY <1>1, <2>1, <2>3 DEF OutcomeInv, PlaceInv, Reports
  <2> QED BY <2>2, <2>3
<1> QED BY <1>1, <1>3 DEF OutcomeInv, PlaceInv

\* Steps that close the connection, in functors that carry no message.
LEMMA PlacesWhenClosed ==
  ASSUME OutTypeOK, OutcomeInv, FailAllUnsent, QueueInv', ret' = ret,
         \A x \in Msgs : Travels(x)' <=> Travels(x)
  PROVE  OutcomeInv'
<1>1. /\ ListInv' /\ Unsent' = {}
      /\ \A x \in Msgs : IF x \in Unsent THEN Len(outcome'[x]) = Len(outcome[x]) + 1
                                        ELSE outcome'[x] = outcome[x]
  BY PlaceOfClose
<1>2. \A x \in Msgs : Len(outcome[x]) \in Nat
  BY DEF OutTypeOK
<1> QED BY <1>1, <1>2 DEF OutcomeInv, PlaceInv

\* sendInLoop, for a message that is in no other place.
LEMMA PlacesAfterSend ==
  ASSUME OutTypeOK, OutcomeInv, NEW m \in Msgs, NEW timeout \in BOOLEAN, SendInLoop(m, timeout),
         m \notin Unsent, Len(outcome[m]) = 0, QueueInv', ret'[m] = "SUCCESS", ~Travels(m)',
         \A x \in Msgs \ {m} : (Travels(x)' <=> Travels(x)) /\ ret'[x] = ret[x]
  PROVE  OutcomeInv'
<1>1. /\ ListInv'
      /\ \/ Unsent' = Unsent \cup {m} /\ outcome' = outcome
         \/ Unsent' = Unsent /\ Reports(m)
  BY PlaceOfSend DEF OutcomeInv
<1>2. ASSUME NEW x \in Msgs
      PROVE  /\ Travels(x)' \/ x \in Unsent' \/ Len(outcome'[x]) > 0 <=> ret'[x] = "SUCCESS"
             /\ ~(Travels(x)' /\ x \in Unsent')
             /\ Len(outcome'[x]) > 0 => ~Travels(x)' /\ x \notin Unsent'
             /\ Len(outcome'[x]) <= 1
  <2>1. CASE x = m
    <3>1. ~Travels(x)'
      BY <2>1
    <3>2. CASE Unsent' = Unsent \cup {m} /\ outcome' = outcome
      BY <2>1, <3>1, <3>2
    <3>3. CASE Unsent' = Unsent /\ Reports(m)
      BY <2>1, <3>1, <3>3 DEF Reports
    <3> QED BY <1>1, <3>2, <3>3
  <2>2. CASE x # m
    BY <1>1, <2>2 DEF OutcomeInv, PlaceInv, Reports
  <2> QED BY <2>1, <2>2
<1> QED BY <1>1, <1>2 DEF OutcomeInv, PlaceInv

LEMMA OutcomeStep ==
  ASSUME IInv, OutcomeInv, Next
  PROVE  OutcomeInv'
<1>0. OutTypeOK /\ RestTypeOK /\ UnsentDataIsWritten /\ SendInv /\ functors \in Seq(Functor)
  BY DEF IInv, RestTypeOK
<1>1. QueueInv /\ ListInv /\ PlaceInv
  BY DEF OutcomeInv
<1>2. ASSUME UNCHANGED <<outputBufferList_, outcome, ret, functors>> PROVE OutcomeInv'
  <2>1. QueueInv' /\ \A x \in Msgs : Travels(x)' <=> Travels(x)
    BY <1>1, <1>2 DEF QueueInv, Travels
  <2> QED BY <1>2, <2>1, PlacesSame
<1>3. ASSUME UNCHANGED <<outputBufferList_, outcome, ret>>, NEW op \in InLoopOps, functors' = Queue(op)
      PROVE  OutcomeInv'
  <2>1. QueueInv' /\ \A x \in Msgs : Travels(x)' <=> Travels(x)
    BY <1>0, <1>1, <1>3, TravelsAfterQueue
  <2> QED BY <1>3, <2>1, PlacesSame
<1>4. CASE HandleWrite
  <2>1. UNCHANGED <<functors, ret>>
    BY <1>4 DEF HandleWrite
  <2>2. /\ ListInv'
        /\ \/ Unsent' = Unsent /\ outcome' = outcome
           \/ \E m \in Unsent : Unsent' = Unsent \ {m} /\ Reports(m)
    BY <1>0, <1>1, <1>4, PlaceOfHandleWrite DEF RestTypeOK
  <2>3. CASE Unsent' = Unsent /\ outcome' = outcome
    <3>1. QueueInv' /\ \A x \in Msgs : Travels(x)' <=> Travels(x)
      BY <1>1, <2>1 DEF QueueInv, Travels
    <3> QED BY <1>1, <2>1, <2>2, <2>3, <3>1 DEF OutcomeInv, PlaceInv
  <2>4. ASSUME NEW m \in Unsent, Unsent' = Unsent \ {m} /\ Reports(m) PROVE OutcomeInv'
    BY <1>0, <2>1, <2>2, <2>4, PlacesWhenReported
  <2> QED BY <2>2, <2>3, <2>4
<1>5. CASE RunFunctor
  <2> DEFINE f == Head(functors)
  <2>1. functors # <<>> /\ functors' = Tail(functors) /\ ret' = ret
    BY <1>5 DEF RunFunctor
  <2>2. f \in Functor /\ f = functors[1] /\ 1 \in DOMAIN functors
    BY <1>0, <2>1, FunctorsType
  <2>3. /\ QueueInv'
        /\ \A x \in Msgs : Travels(x)' <=> Travels(x) /\ x # f.msg
        /\ f.msg \in Msgs => Travels(f.msg)
    BY <1>0, <1>1, <2>1, <2>2, TravelsAfterRun
  <2>4. f.op # "sendInLoop" => \A x \in Msgs : Travels(x)' <=> Travels(x)
    BY <1>1, <2>2, <2>3, ConnectionConstants DEF QueueInv
  <2> HIDE DEF f
  <2>5. CASE f.op = "sendInLoop" /\ SendInLoop(f.msg, f.timeout)
    <3>1. f.msg \in Msgs /\ f.timeout \in BOOLEAN
      BY <1>0, <2>2, <2>5 DEF SendInv, Functor
    <3>2. f.msg \notin Unsent /\ Len(outcome[f.msg]) = 0 /\ ret[f.msg] = "SUCCESS"
      <4>1. Len(outcome[f.msg]) \in Nat
        BY <1>0, <3>1 DEF OutTypeOK
      <4> QED BY <1>1, <2>3, <3>1, <4>1 DEF PlaceInv
    <3> QED BY <1>0, <2>1, <2>3, <2>5, <3>1, <3>2, PlacesAfterSend
  <2>6. CASE f.op # "sendInLoop" /\ FailAllUnsent
    BY <1>0, <2>1, <2>3, <2>4, <2>6, PlacesWhenClosed
  <2>7. CASE f.op # "sendInLoop" /\ UNCHANGED <<outputBufferList_, outcome>>
    BY <2>1, <2>3, <2>4, <2>7, PlacesSame
  <2>8. \/ f.op = "sendInLoop" /\ SendInLoop(f.msg, f.timeout)
        \/ f.op # "sendInLoop" /\ FailAllUnsent
        \/ f.op # "sendInLoop" /\ UNCHANGED <<outputBufferList_, outcome>>
    BY <1>5 DEF RunFunctor, HandleClose, ConnectDestroyed, out, ReadOps, f
  <2> QED BY <2>5, <2>6, <2>7, <2>8
<1>6. ASSUME NEW timer \in Timers, RunTimer(timer) PROVE OutcomeInv'
  <2>1. ret' = ret
    BY <1>6 DEF RunTimer
  <2>2. CASE timer \in Msgs /\ SendTimeoutCallBack(timer) /\ functors' = functors
    <3>1. ListInv' /\ timer \in Unsent /\ Unsent' = Unsent \ {timer} /\ Reports(timer)
      BY <1>0, <1>1, <2>2, PlaceOfTimeout
    <3> QED BY <1>0, <2>1, <2>2, <3>1, PlacesWhenReported
  <2>3. CASE out' = out /\ (functors' = functors \/ functors' = Queue("forceCloseInLoop"))
    BY <1>2, <1>3, <2>1, <2>3 DEF out, InLoopOps
  <2> QED BY <1>6, <2>2, <2>3 DEF RunTimer
<1>7. CASE PeerCloses
  <2>1. FailAllUnsent /\ UNCHANGED <<functors, ret>>
    BY <1>7 DEF PeerCloses, HandleClose
  <2>2. QueueInv' /\ \A x \in Msgs : Travels(x)' <=> Travels(x)
    BY <1>1, <2>1 DEF QueueInv, Travels
  <2> QED BY <1>0, <2>1, <2>2, PlacesWhenClosed
<1>8. ASSUME NEW m \in Msgs, NEW timeout \in Timeouts, LoopSend(m, timeout) PROVE OutcomeInv'
  <2>1. timeout \in BOOLEAN
    BY ConnectionConstants
  <2>2. ret[m] = "none" /\ ret' = [ret EXCEPT ![m] = SendResult] /\ functors' = functors
    BY <1>8 DEF LoopSend
  <2>3. ret'[m] = SendResult /\ \A x \in Msgs \ {m} : ret'[x] = ret[x]
    BY <1>0, <2>2 DEF RestTypeOK
  <2>4. m \notin Unsent /\ Len(outcome[m]) = 0 /\ ~Travels(m)
    <3>1. Len(outcome[m]) \in Nat
      BY <1>0 DEF OutTypeOK
    <3> QED BY <1>1, <2>2, <3>1 DEF PlaceInv
  <2>5. QueueInv' /\ \A x \in Msgs : Travels(x)' <=> Travels(x)
    BY <1>1, <2>2 DEF QueueInv, Travels
  <2>6. CASE SendResult = "SUCCESS" /\ SendInLoop(m, timeout)
    BY <1>0, <2>1, <2>3, <2>4, <2>5, <2>6, PlacesAfterSend
  <2>7. CASE SendResult # "SUCCESS" /\ UNCHANGED <<out, timers, chWriting>>
    <3>1. outcome' = outcome /\ ListInv' /\ Unsent' = Unsent
      BY <1>1, <2>7 DEF out, ListInv, Unsent
    <3> QED BY <1>1, <2>2, <2>3, <2>5, <2>7, <3>1 DEF OutcomeInv, PlaceInv
  <2> QED BY <1>8, <2>6, <2>7 DEF LoopSend
<1>9. ASSUME NEW m \in Msgs, NEW timeout \in Timeouts, ForeignSend(m, timeout) PROVE OutcomeInv'
  <2>1. timeout \in BOOLEAN
    BY ConnectionConstants
  <2>2. /\ ret[m] = "none" /\ ret' = [ret EXCEPT ![m] = SendResult]
        /\ UNCHANGED <<outputBufferList_, outcome>>
    BY <1>9 DEF ForeignSend, out
  <2>3. ret'[m] = SendResult /\ \A x \in Msgs \ {m} : ret'[x] = ret[x]
    BY <1>0, <2>2 DEF RestTypeOK
  <2>4. m \notin Unsent /\ Len(outcome[m]) = 0 /\ ~Travels(m)
    <3>1. Len(outcome[m]) \in Nat
      BY <1>0 DEF OutTypeOK
    <3> QED BY <1>1, <2>2, <3>1 DEF PlaceInv
  <2>5. ListInv' /\ Unsent' = Unsent
    BY <1>1, <2>2 DEF ListInv, Unsent
  <2>6. CASE SendResult = "SUCCESS"
    <3>1. functors' = Append(functors, [op |-> "sendInLoop", msg |-> m, timeout |-> timeout])
      BY <1>9, <2>6 DEF ForeignSend
    <3>2. QueueInv' /\ \A x \in Msgs : Travels(x)' <=> Travels(x) \/ x = m
      BY <1>0, <1>1, <2>1, <2>4, <3>1, TravelsAfterSend
    <3>3. ASSUME NEW x \in Msgs
          PROVE  /\ Travels(x)' \/ x \in Unsent' \/ Len(outcome'[x]) > 0 <=> ret'[x] = "SUCCESS"
                 /\ ~(Travels(x)' /\ x \in Unsent')
                 /\ Len(outcome'[x]) > 0 => ~Travels(x)' /\ x \notin Unsent'
                 /\ Len(outcome'[x]) <= 1
      BY <1>1, <2>2, <2>3, <2>4, <2>5, <2>6, <3>2 DEF PlaceInv
    <3> QED BY <2>5, <3>2, <3>3 DEF OutcomeInv, PlaceInv
  <2>7. CASE SendResult # "SUCCESS"
    <3>1. functors' = functors
      BY <1>9, <2>7 DEF ForeignSend
    <3>2. QueueInv' /\ \A x \in Msgs : Travels(x)' <=> Travels(x)
      BY <1>1, <3>1 DEF QueueInv, Travels
    <3> QED BY <1>1, <2>2, <2>3, <2>5, <2>7, <3>2 DEF OutcomeInv, PlaceInv
  <2> QED BY <2>6, <2>7
<1>10. ASSUME NEW op \in LoopOps, LoopCall(op) PROVE OutcomeInv'
  <2>1. /\ UNCHANGED <<outputBufferList_, outcome, ret>>
        /\ functors' = functors \/ functors' = Queue("forceCloseInLoop")
    BY <1>10 DEF LoopCall, out
  <2> QED BY <1>2, <1>3, <2>1 DEF InLoopOps
<1>11. ASSUME NEW t \in Threads, NEW op \in ForeignOps, ForeignCall(t, op) PROVE OutcomeInv'
  <2>1. /\ UNCHANGED <<outputBufferList_, outcome, ret>>
        /\ functors' = functors \/ (op \in ReadOps /\ functors' = Queue(op))
    BY <1>11 DEF ForeignCall, out
  <2> QED BY <1>2, <1>3, <2>1 DEF InLoopOps
<1>12. ASSUME NEW t \in Threads, ForeignHandOver(t) PROVE OutcomeInv'
  <2>1. tpc[t].op \in CloseOps
    BY <1>0, <1>12 DEF ForeignHandOver, RestTypeOK, Idle
  <2>2. UNCHANGED <<outputBufferList_, outcome, ret>> /\ functors' = Queue(InLoopOf(tpc[t].op))
    BY <1>12 DEF ForeignHandOver, out
  <2> QED BY <1>3, <2>1, <2>2, InLoopOfClose
<1>13. CASE RemoveConnectionInLoop \/ StopInLoop
  <2>1. UNCHANGED <<outputBufferList_, outcome, ret>> /\ functors' = Queue("connectDestroyed")
    BY <1>13 DEF RemoveConnectionInLoop, StopInLoop, out
  <2> QED BY <1>3, <2>1 DEF InLoopOps
<1> QED
  BY <1>2, <1>4, <1>5, <1>6, <1>7, <1>8, <1>9, <1>10, <1>11, <1>12, <1>13
  DEF Next, LoopStep, TimersDone, TimersExpire, ForeignSetState, out

LEMMA OutcomeInvariant == Spec => []OutcomeInv
<1>1. Init => OutcomeInv
  <2> SUFFICES ASSUME Init PROVE OutcomeInv
    OBVIOUS
  <2>1. DOMAIN functors = {1} /\ functors[1].msg = "none" /\ "none" \notin Msgs
    BY ConnectionConstants DEF Init
  <2>2. QueueInv /\ \A m \in Msgs : ~Travels(m)
    BY <2>1 DEF QueueInv, Travels
  <2>3. ListInv /\ Unsent = {} /\ \A m \in Msgs : Len(outcome[m]) = 0 /\ ret[m] = "none"
    BY DEF Init, ListInv, Unsent
  <2> QED BY <2>2, <2>3 DEF OutcomeInv, PlaceInv
<1>2. IInv /\ OutcomeInv /\ [Next]_vars => OutcomeInv'
  <2>1. ASSUME OutcomeInv, UNCHANGED vars PROVE OutcomeInv'
    BY <2>1 DEF vars, out, OutcomeInv, QueueInv, ListInv, PlaceInv, Travels, Unsent
  <2> QED BY <2>1, OutcomeStep
<1> QED BY <1>1, <1>2, Invariant, PTL DEF Spec

\* However writes, time-outs, closes and sends of several threads compete for a
\* message that send() accepted, it is in one place: queued for the loop, in the
\* list, or reported, once.
THEOREM OutcomeCorrect == Spec => []OneOutcome
<1>1. IInv /\ OutcomeInv => OneOutcome
  <2> SUFFICES ASSUME IInv, OutcomeInv, NEW m \in Msgs
               PROVE  Cardinality({i \in DOMAIN functors : functors[i].msg = m})
                      + Cardinality({i \in DOMAIN outputBufferList_ : outputBufferList_[i][1] = m})
                      + Len(outcome[m]) = IF ret[m] = "SUCCESS" THEN 1 ELSE 0
    BY DEF OneOutcome
  <2> DEFINE Q == {i \in DOMAIN functors : functors[i].msg = m}
             L == {i \in DOMAIN outputBufferList_ : outputBufferList_[i][1] = m}
  <2>1. Cardinality(Q) = IF Travels(m) THEN 1 ELSE 0
    <3>1. CASE Travels(m)
      <4>1. PICK i \in DOMAIN functors : functors[i].msg = m
        BY <3>1 DEF Travels
      <4>2. Q = {i}
        BY <4>1 DEF OutcomeInv, QueueInv
      <4> QED BY <3>1, <4>2, FS_Singleton
    <3>2. CASE ~Travels(m)
      <4>1. Q = {}
        BY <3>2 DEF Travels
      <4> QED BY <3>2, <4>1, FS_EmptySet
    <3> QED BY <3>1, <3>2
  <2>2. Cardinality(L) = IF m \in Unsent THEN 1 ELSE 0
    <3>1. CASE m \in Unsent
      <4>1. PICK i \in DOMAIN outputBufferList_ : outputBufferList_[i][1] = m
        BY <3>1 DEF Unsent
      <4>2. L = {i}
        BY <4>1 DEF OutcomeInv, ListInv
      <4> QED BY <3>1, <4>2, FS_Singleton
    <3>2. CASE m \notin Unsent
      <4>1. L = {}
        BY <3>2 DEF Unsent
      <4> QED BY <3>2, <4>1, FS_EmptySet
    <3> QED BY <3>1, <3>2
  <2>3. Len(outcome[m]) \in Nat
    BY DEF IInv, OutTypeOK
  <2> HIDE DEF Q, L
  <2>4. Cardinality(Q) + Cardinality(L) + Len(outcome[m]) = IF ret[m] = "SUCCESS" THEN 1 ELSE 0
    <3>1. /\ Travels(m) \/ m \in Unsent \/ Len(outcome[m]) > 0 <=> ret[m] = "SUCCESS"
          /\ ~(Travels(m) /\ m \in Unsent)
          /\ Len(outcome[m]) > 0 => ~Travels(m) /\ m \notin Unsent
          /\ Len(outcome[m]) <= 1
      BY DEF OutcomeInv, PlaceInv
    <3>2. CASE Travels(m)
      BY <2>1, <2>2, <2>3, <3>1, <3>2
    <3>3. CASE ~Travels(m) /\ m \in Unsent
      BY <2>1, <2>2, <2>3, <3>1, <3>3
    <3>4. CASE ~Travels(m) /\ m \notin Unsent
      <4>1. Cardinality(Q) = 0 /\ Cardinality(L) = 0
        BY <2>1, <2>2, <3>4
      <4>2. Len(outcome[m]) = IF ret[m] = "SUCCESS" THEN 1 ELSE 0
        BY <2>3, <3>1, <3>4
      <4> QED BY <4>1, <4>2
    <3> QED BY <3>2, <3>3, <3>4
  <2> QED BY <2>4 DEF Q, L
<1> QED BY <1>1, Invariant, OutcomeInvariant, PTL

-----------------------------------------------------------------------------
(* The connection is closed once: ClosedOnce.  The loop thread alone closes *)
(* it, reading is not switched on again by hand, and the server runs on.    *)

LoopCloses == ForeignOps = {} /\ LoopOps \cap ReadOps = {} /\ ~ServerStops

\* No thread is inside a close, and nothing will switch reading on.
Quiet ==
    /\ \A t \in Threads : tpc[t].step = "none"
    /\ "resume" \notin timers \cup timerBatch
    /\ \A i \in DOMAIN functors : functors[i].op \notin ReadOps

\* The connection has been closed when it is down, and then is not polled.
DownInv ==
    /\ closes <= 1
    /\ state_ # "kDisconnected" => closes = 0
    /\ state_ = "kDisconnected" => ~chReading /\ ~chWriting

Destroying == \E i \in DOMAIN functors : functors[i].op = "connectDestroyed"

\* A close is on its way through the base loop and back, or has arrived.
DestroyInv ==
    /\ \A i, j \in DOMAIN functors :
          functors[i].op = "connectDestroyed" /\ functors[j].op = "connectDestroyed" => i = j
    /\ closes = 0 => baseQueue = 0 /\ destroys = 0 /\ ~Destroying
    /\ Destroying => baseQueue = 0 /\ destroys = 0
    /\ baseQueue + destroys <= 1

CloseInv == Quiet /\ DownInv /\ DestroyInv

\* Functors that are queued, other than connectDestroyed, disturb nothing.
LEMMA CloseQueueSame ==
  ASSUME functors \in Seq(Functor), Quiet, DestroyInv,
         UNCHANGED <<closes, baseQueue, destroys>>,
         \A t \in Threads : tpc'[t].step = "none", "resume" \notin timers' \cup timerBatch',
         NEW f \in Functor, f.op \notin ReadOps \cup {"connectDestroyed"},
         functors' = functors \/ functors' = Append(functors, f)
  PROVE  Quiet' /\ DestroyInv'
<1>1. CASE functors' = functors
  BY <1>1 DEF Quiet, DestroyInv, Destroying
<1>2. CASE functors' = Append(functors, f)
  <2> DEFINE n == Len(functors)
  <2>1. /\ n \in Nat /\ functors'[n + 1] = f
        /\ DOMAIN functors' = DOMAIN functors \cup {n + 1}
        /\ \A i \in DOMAIN functors : functors'[i] = functors[i]
    BY <1>2
  <2> HIDE DEF n
  <2>2. Destroying' <=> Destroying
    BY <2>1 DEF Destroying
  <2> QED BY <2>1, <2>2 DEF Quiet, DestroyInv
<1> QED BY <1>1, <1>2

\* handleClose, of a connection that is not down.
LEMMA CloseOnce ==
  ASSUME RestTypeOK, DownInv, DestroyInv, state_ # "kDisconnected", HandleClose
  PROVE  /\ DownInv'
         /\ closes' = 1 /\ baseQueue' = 1 /\ destroys' = 0 /\ destroys = 0 /\ baseQueue = 0 /\ ~Destroying
<1>1. closes = 0 /\ baseQueue = 0 /\ destroys = 0 /\ ~Destroying
  BY DEF DownInv, DestroyInv
<1>2. closes' = 1 /\ baseQueue' = 1 /\ destroys' = 0 /\ state_' = "kDisconnected"
  BY <1>1 DEF HandleClose, FailAllUnsent
<1>3. ~chReading' /\ ~chWriting'
  BY Zenon DEF HandleClose, FailAllUnsent
<1> QED BY <1>1, <1>2, <1>3 DEF DownInv

LEMMA CloseStep ==
  ASSUME LoopCloses, IInv, CloseInv, Next
  PROVE  CloseInv'
<1>0. /\ OutTypeOK /\ RestTypeOK /\ UnsentDataIsWritten /\ SendInv /\ PhaseInv
      /\ functors \in Seq(Functor) /\ Quiet /\ DownInv /\ DestroyInv
  BY DEF IInv, RestTypeOK, CloseInv
<1>1. [op |-> "forceCloseInLoop", msg |-> "none", timeout |-> FALSE] \in Functor
  BY DEF Functor, InLoopOps
<1>2. ASSUME UNCHANGED <<closes, baseQueue, destroys, functors, tpc>>,
             "resume" \notin timers' \cup timerBatch'
      PROVE  Quiet' /\ DestroyInv'
  BY <1>0, <1>2 DEF Quiet, DestroyInv, Destroying
<1>3. CASE HandleWrite
  <2>1. /\ UNCHANGED <<closes, baseQueue, destroys, functors, tpc, state_, chReading, timerBatch>>
        /\ chWriting
    BY <1>3 DEF HandleWrite, server
  <2>2. timers' \subseteq timers
    BY <1>0, <1>3, HandleWriteCases DEF RestTypeOK
  <2> QED BY <1>0, <1>2, <2>1, <2>2 DEF CloseInv, DownInv, Quiet
<1>4. CASE RunFunctor
  <2> DEFINE f == Head(functors)
  <2>1. /\ functors # <<>> /\ functors' = Tail(functors)
        /\ UNCHANGED <<tpc, timerBatch>>
    BY <1>4 DEF RunFunctor
  <2>2. /\ f \in Functor /\ f = functors[1] /\ 1 \in DOMAIN functors
        /\ Len(functors') = Len(functors) - 1 /\ functors' \in Seq(Functor)
        /\ \A i \in DOMAIN functors' : i + 1 \in DOMAIN functors /\ functors'[i] = functors[i + 1]
    BY <1>0, <2>1, FunctorsType
  <2>3. f.op \notin ReadOps
    BY <1>0, <2>2 DEF Quiet
  <2>4. DOMAIN functors' \subseteq Nat /\ \A i \in DOMAIN functors' : i + 1 # 1
    BY <2>2
  <2>5. /\ \A i, j \in DOMAIN functors' :
              functors'[i].op = "connectDestroyed" /\ functors'[j].op = "connectDestroyed" => i = j
        /\ Destroying' => Destroying
        /\ f.op = "connectDestroyed" => Destroying /\ ~Destroying'
        /\ \A i \in DOMAIN functors' : functors'[i].op \notin ReadOps
    <3>1. ASSUME NEW i \in DOMAIN functors', NEW j \in DOMAIN functors',
                 functors'[i].op = "connectDestroyed", functors'[j].op = "connectDestroyed"
          PROVE  i = j
      <4>1. i + 1 = j + 1
        BY <1>0, <2>2, <3>1 DEF DestroyInv
      <4> QED BY <2>4, <4>1
    <3>2. Destroying' => Destroying
      BY <2>2 DEF Destroying
    <3>3. f.op = "connectDestroyed" => Destroying /\ ~Destroying'
      BY <1>0, <2>2, <2>4 DEF Destroying, DestroyInv
    <3>4. \A i \in DOMAIN functors' : functors'[i].op \notin ReadOps
      BY <1>0, <2>2 DEF Quiet
    <3> QED BY <3>1, <3>2, <3>3, <3>4
  <2>6. ASSUME "resume" \notin timers' PROVE Quiet'
    BY <1>0, <2>1, <2>5, <2>6 DEF Quiet
  <2>7. ASSUME UNCHANGED <<closes, baseQueue, destroys>> PROVE DestroyInv'
    BY <1>0, <2>5, <2>7 DEF DestroyInv
  <2> HIDE DEF f
  <2>8. CASE /\ f.op = "connectEstablished" /\ ConnectEstablished
             /\ UNCHANGED <<closes, baseQueue, destroys, chWriting, timers>>
    <3>1. state_ = "kConnecting" /\ state_' = "kConnected"
      BY <1>0, <2>2, <2>8 DEF PhaseInv, ConnectEstablished
    <3> QED BY <1>0, <2>6, <2>7, <2>8, <3>1 DEF CloseInv, DownInv, Quiet
  <2>9. CASE /\ f.op = "sendInLoop" /\ SendInLoop(f.msg, f.timeout)
             /\ UNCHANGED <<closes, baseQueue, destroys, state_, chReading>>
    <3>1. f.msg \in Msgs /\ f.timeout \in BOOLEAN
      BY <1>0, <2>2, <2>9 DEF SendInv, Functor
    <3>2. \/ UNCHANGED <<timers, chWriting>>
          \/ state_ = "kConnected" /\ timers' \subseteq timers \cup {f.msg}
      BY <1>0, <2>9, <3>1, SendInLoopCases
    <3>3. f.msg # "resume"
      BY <3>1, ConnectionConstants
    <3> QED BY <1>0, <2>6, <2>7, <2>9, <3>2, <3>3 DEF CloseInv, DownInv, Quiet
  <2>10. CASE UNCHANGED <<closes, baseQueue, destroys, state_, chReading, chWriting>>
              /\ timers' \subseteq timers \cup {"close"}
    BY <1>0, <2>6, <2>7, <2>10 DEF CloseInv, DownInv, Quiet
  <2>11. CASE Closable /\ HandleClose
    <3>1. state_ # "kDisconnected" /\ timers' \subseteq timers
      BY <2>11 DEF Closable, HandleClose, FailAllUnsent, CancelTimers
    <3>2. /\ DownInv'
          /\ closes' = 1 /\ baseQueue' = 1 /\ destroys' = 0 /\ ~Destroying
      BY <1>0, <2>11, <3>1, CloseOnce
    <3> QED BY <1>0, <2>5, <2>6, <3>1, <3>2 DEF CloseInv, DestroyInv, Quiet
  <2>12. CASE f.op = "connectDestroyed" /\ ConnectDestroyed
    <3>1. Destroying /\ ~Destroying' /\ closes # 0 /\ baseQueue = 0 /\ destroys = 0
      BY <1>0, <2>5, <2>12 DEF DestroyInv
    <3>2. state_ # "kConnected"
      BY <1>0, <3>1 DEF DownInv
    <3>3. /\ destroys' = 1 /\ UNCHANGED <<baseQueue, closes, state_, chReading, chWriting, timers>>
      BY <2>12, <3>1, <3>2 DEF ConnectDestroyed
    <3> QED BY <1>0, <2>5, <2>6, <3>1, <3>3 DEF CloseInv, DestroyInv, DownInv, Quiet
  <2>13. \/ /\ f.op = "connectEstablished" /\ ConnectEstablished
            /\ UNCHANGED <<closes, baseQueue, destroys, chWriting, timers>>
         \/ /\ f.op = "sendInLoop" /\ SendInLoop(f.msg, f.timeout)
            /\ UNCHANGED <<closes, baseQueue, destroys, state_, chReading>>
         \/ /\ UNCHANGED <<closes, baseQueue, destroys, state_, chReading, chWriting>>
            /\ timers' \subseteq timers \cup {"close"}
         \/ Closable /\ HandleClose
         \/ f.op = "connectDestroyed" /\ ConnectDestroyed
    BY <1>4, <2>3 DEF RunFunctor, out, chan, server, f
  <2> QED BY <2>8, <2>9, <2>10, <2>11, <2>12, <2>13
<1>5. ASSUME NEW timer \in Timers, RunTimer(timer) PROVE CloseInv'
  <2>1. /\ UNCHANGED <<chWriting, timers, tpc, closes, baseQueue, destroys>>
        /\ timer \in timerBatch /\ timerBatch' \subseteq timerBatch
    BY <1>5 DEF RunTimer, server
  <2>2. /\ chReading' = chReading
        /\ \/ UNCHANGED <<state_, functors>>
           \/ /\ Closable /\ state_' = "kDisconnecting"
              /\ functors' = Append(functors, [op |-> "forceCloseInLoop", msg |-> "none", timeout |-> FALSE])
    BY <1>0, <1>5, <2>1 DEF RunTimer, Quiet, Queue
  <2>3. Quiet' /\ DestroyInv'
    BY <1>0, <1>1, <2>1, <2>2, CloseQueueSame DEF Quiet, ReadOps
  <2> QED BY <1>0, <2>1, <2>2, <2>3 DEF CloseInv, DownInv, Closable
<1>6. CASE TimersDone \/ TimersExpire
  <2>1. /\ UNCHANGED <<closes, baseQueue, destroys, functors, tpc, state_, chReading, chWriting>>
        /\ timers' \cup timerBatch' \subseteq timers \cup timerBatch
    BY <1>6 DEF TimersDone, TimersExpire, server, chan
  <2> QED BY <1>0, <1>2, <2>1 DEF CloseInv, DownInv, Quiet
<1>7. CASE PeerCloses
  <2>1. HandleClose /\ UNCHANGED <<functors, tpc, timerBatch>> /\ (chReading \/ chWriting)
    BY <1>7 DEF PeerCloses
  <2>2. state_ # "kDisconnected" /\ timers' \subseteq timers
    BY <1>0, <2>1 DEF DownInv, HandleClose, FailAllUnsent, CancelTimers
  <2>3. DownInv' /\ closes' = 1 /\ baseQueue' = 1 /\ destroys' = 0 /\ ~Destroying
    BY <1>0, <2>1, <2>2, CloseOnce
  <2> QED BY <1>0, <2>1, <2>2, <2>3 DEF CloseInv, Quiet, DestroyInv, Destroying
<1>8. CASE RemoveConnectionInLoop
  <2> DEFINE n == Len(functors)
             f == [op |-> "connectDestroyed", msg |-> "none", timeout |-> FALSE]
  <2>1. /\ baseQueue > 0 /\ baseQueue' = baseQueue - 1 /\ functors' = Append(functors, f)
        /\ UNCHANGED <<closes, destroys, tpc, timers, timerBatch, state_, chReading, chWriting>>
    BY <1>8 DEF RemoveConnectionInLoop, clock, chan, Queue
  <2>2. f \in Functor /\ f.op = "connectDestroyed" /\ f.op \notin ReadOps
    BY DEF Functor, InLoopOps, ReadOps
  <2> HIDE DEF f
  <2>3. /\ n \in Nat /\ functors'[n + 1] = f
        /\ DOMAIN functors' = DOMAIN functors \cup {n + 1}
        /\ \A i \in DOMAIN functors : functors'[i] = functors[i]
    BY <1>0, <2>1, <2>2
  <2>4. baseQueue = 1 /\ destroys = 0 /\ ~Destroying /\ closes # 0
    BY <1>0, <2>1 DEF DestroyInv, RestTypeOK
  <2> HIDE DEF n
  <2>5. \A i \in DOMAIN functors : functors[i].op # "connectDestroyed"
    BY <2>4 DEF Destroying
  <2>6. Quiet'
    BY <1>0, <2>1, <2>2, <2>3 DEF Quiet
  <2>7. \A i, j \in DOMAIN functors' :
           functors'[i].op = "connectDestroyed" /\ functors'[j].op = "connectDestroyed" => i = j
    BY <2>2, <2>3, <2>5
  <2>8. DestroyInv'
    BY <2>1, <2>4, <2>7 DEF DestroyInv
  <2> QED BY <1>0, <2>1, <2>6, <2>8 DEF CloseInv, DownInv
<1>9. ASSUME NEW m \in Msgs, NEW timeout \in Timeouts, LoopSend(m, timeout) PROVE CloseInv'
  <2>1. UNCHANGED <<closes, baseQueue, destroys, functors, tpc, state_, chReading, timerBatch>>
    BY <1>9 DEF LoopSend, server
  <2>2. timeout \in BOOLEAN /\ m # "resume"
    BY ConnectionConstants
  <2>3. \/ UNCHANGED <<timers, chWriting>>
        \/ state_ = "kConnected" /\ timers' \subseteq timers \cup {m}
    <3>1. CASE SendInLoop(m, timeout)
      BY <1>0, <2>2, <3>1, SendInLoopCases
    <3> QED BY <1>9, <3>1 DEF LoopSend
  <2> QED BY <1>0, <1>2, <2>1, <2>2, <2>3 DEF CloseInv, DownInv, Quiet
<1>10. ASSUME NEW m \in Msgs, NEW timeout \in Timeouts, ForeignSend(m, timeout) PROVE CloseInv'
  <2> DEFINE f == [op |-> "sendInLoop", msg |-> m, timeout |-> timeout]
  <2>1. f \in Functor /\ f.op \notin ReadOps \cup {"connectDestroyed"}
    BY ConnectionConstants DEF Functor, InLoopOps, ReadOps
  <2>2. /\ UNCHANGED <<closes, baseQueue, destroys, tpc, state_, chReading, chWriting, timers, timerBatch>>
        /\ functors' = functors \/ functors' = Append(functors, f)
    BY <1>10 DEF ForeignSend, server, clock, chan
  <2> HIDE DEF f
  <2>3. Quiet' /\ DestroyInv'
    BY <1>0, <2>1, <2>2, CloseQueueSame DEF Quiet
  <2> QED BY <1>0, <2>2, <2>3 DEF CloseInv, DownInv
<1>11. ASSUME NEW op \in LoopOps, LoopCall(op) PROVE CloseInv'
  <2>1. op \in CloseOps /\ op \notin ReadOps
    BY ConnectionConstants DEF LoopCloses
  <2>2. Closable
    BY <1>11, <2>1 DEF LoopCall, Precondition, CloseOps, Closable
  <2>3. /\ UNCHANGED <<closes, baseQueue, destroys, tpc, chReading, chWriting, timerBatch>>
        /\ state_' = "kDisconnecting" /\ timers' \subseteq timers \cup {"close"}
        /\ \/ functors' = functors
           \/ functors' = Append(functors, [op |-> "forceCloseInLoop", msg |-> "none", timeout |-> FALSE])
    BY <1>11, <2>1 DEF LoopCall, server, Queue
  <2>4. Quiet' /\ DestroyInv'
    BY <1>0, <1>1, <2>3, CloseQueueSame DEF Quiet, ReadOps
  <2> QED BY <1>0, <2>2, <2>3, <2>4 DEF CloseInv, DownInv, Closable
<1>12. ASSUME NEW t \in Threads PROVE ~ForeignSetState(t) /\ ~ForeignHandOver(t)
  BY <1>0 DEF ForeignSetState, ForeignHandOver, Quiet
<1>13. ~StopInLoop /\ ForeignOps = {}
  BY DEF LoopCloses, StopInLoop
<1> QED
  BY <1>3, <1>4, <1>5, <1>6, <1>7, <1>8, <1>9, <1>10, <1>11, <1>12, <1>13 DEF Next, LoopStep

\* When only the loop thread closes the connection, reading is not switched on
\* again by hand and the server is not stopped, then closeCallback_ and
\* connectDestroyed are called once at most, whatever the peer, forceClose,
\* shutdown, delayed closes, write errors and time-outs do at the same time.
THEOREM ClosedOnceCorrect == ASSUME LoopCloses PROVE Spec => []ClosedOnce
<1>1. Init => CloseInv
  <2> SUFFICES ASSUME Init PROVE CloseInv
    OBVIOUS
  <2>1. DOMAIN functors = {1} /\ functors[1].op = "connectEstablished"
    BY DEF Init
  <2>2. \A t \in Threads : tpc[t].step = "none"
    BY DEF Init, Idle
  <2> QED BY <2>1, <2>2 DEF Init, CloseInv, Quiet, DownInv, DestroyInv, Destroying, ReadOps
<1>2. IInv /\ CloseInv /\ [Next]_vars => CloseInv'
  <2>1. ASSUME CloseInv, UNCHANGED vars PROVE CloseInv'
    BY <2>1 DEF vars, chan, clock, server, CloseInv, Quiet, DownInv, DestroyInv, Destroying
  <2> QED BY <2>1, CloseStep
<1>3. IInv /\ CloseInv => ClosedOnce
  BY DEF IInv, RestTypeOK, CloseInv, DownInv, DestroyInv, ClosedOnce
<1> QED BY <1>1, <1>2, <1>3, Invariant, PTL DEF Spec

-----------------------------------------------------------------------------
(* What the peer receives: WireInOrder.                                    *)

Units(m) == Cardinality(Indices(wire, m))
Last == wire[Len(wire)]
Taken(m) == \E k \in DOMAIN taken : taken[k] = m
Before(a, b) == \E j, k \in DOMAIN taken : j < k /\ taken[j] = a /\ taken[k] = b

\* The results of a message after which others may follow it on the wire.
Final == {<<"SUCCESS">>, <<"WRITEERR">>, <<"TIMEOUT">>}

\* sendInLoop has taken what is in the list and on the wire, and that is either
\* still in the list or has been reported.
TakenInv ==
    /\ \A i \in DOMAIN outputBufferList_ : Taken(outputBufferList_[i][1])
    /\ \A i \in DOMAIN wire : Taken(wire[i])
    /\ \A m \in Msgs : Taken(m) => m \in Unsent \/ Len(outcome[m]) > 0

\* The list is in the order of taken, and behind what was written last.
OrderInv ==
    /\ \A i, j \in DOMAIN outputBufferList_ :
          i < j => Before(outputBufferList_[i][1], outputBufferList_[j][1])
    /\ wire # <<>> => \A i \in DOMAIN outputBufferList_ :
          outputBufferList_[i][1] # Last => Before(Last, outputBufferList_[i][1])

\* What is left of a message in the list is what was not written of it, and
\* only the front may be written in part, last of all.
UnitsInv ==
    \A i \in DOMAIN outputBufferList_ :
        /\ Units(outputBufferList_[i][1]) = MsgLen - outputBufferList_[i][2]
        /\ outputBufferList_[i][2] < MsgLen =>
              i = 1 /\ wire # <<>> /\ Last = outputBufferList_[1][1]

\* A message that a close has cut short is the last on the wire for ever.
ResultInv ==
    \A m \in Msgs :
        /\ outcome[m] \in Final \cup {<<>>, <<"DISCONNECTED">>}
        /\ outcome[m] = <<"SUCCESS">> <=> Units(m) = MsgLen
        /\ outcome[m] = <<"DISCONNECTED">> /\ (\E i \in DOMAIN wire : wire[i] = m) =>
              Down /\ outputBufferList_ = <<>>

AdjacentInv ==
    \A i \in 1..Len(wire) - 1 :
        wire[i] # wire[i + 1] => Before(wire[i], wire[i + 1]) /\ outcome[wire[i]] \in Final

WireInv == TakenInv /\ OrderInv /\ UnitsInv /\ ResultInv /\ AdjacentInv

LEMMA UnitsType ==
  ASSUME wire \in Seq(Msgs), NEW m
  PROVE  IsFiniteSet(Indices(wire, m)) /\ Units(m) \in Nat
         /\ (Units(m) = 0 <=> \A i \in DOMAIN wire : wire[i] # m)
<1>1. IsFiniteSet(1..Len(wire))
  BY FS_Interval
<1>2. Indices(wire, m) \subseteq 1..Len(wire)
  BY DEF Indices
<1>3. IsFiniteSet(Indices(wire, m))
  BY <1>1, <1>2, FS_Subset
<1>4. Units(m) \in Nat /\ (Units(m) = 0 <=> Indices(wire, m) = {})
  BY <1>3, FS_CardinalityType, FS_EmptySet DEF Units
<1> QED BY <1>3, <1>4 DEF Indices

LEMMA WireGrows ==
  ASSUME wire \in Seq(Msgs), NEW m \in Msgs, NEW n \in Nat, Written(m, n)
  PROVE  /\ wire' \in Seq(Msgs) /\ Len(wire) \in Nat /\ Len(wire') = Len(wire) + n
         /\ \A i \in 1..Len(wire) : wire'[i] = wire[i]
         /\ \A i \in Len(wire) + 1..Len(wire) + n : wire'[i] = m
         /\ \A x \in Msgs : Units(x)' = IF x = m THEN Units(x) + n ELSE Units(x)
<1> DEFINE new == [i \in 1..n |-> m]
           k == Len(wire)
<1>1. new \in Seq(Msgs) /\ Len(new) = n /\ \A i \in 1..n : new[i] = m
  OBVIOUS
<1>2. wire' = wire \o new
  BY DEF Written
<1> HIDE DEF new
<1>3. /\ wire' \in Seq(Msgs) /\ k \in Nat /\ Len(wire') = k + n
      /\ \A i \in 1..k : wire'[i] = wire[i]
  <2>1. k \in Nat /\ Len(new) \in Nat
    BY <1>1
  <2>2. /\ wire \o new \in Seq(Msgs) /\ Len(wire \o new) = k + Len(new)
        /\ \A i \in 1..k + Len(new) : (wire \o new)[i] = IF i <= k THEN wire[i] ELSE new[i - k]
    BY <1>1, ConcatProperties
  <2> HIDE DEF k
  <2>3. \A i \in 1..k : (wire \o new)[i] = wire[i]
    BY <2>1, <2>2
  <2> QED BY <1>1, <1>2, <2>1, <2>2, <2>3
<1>4. ASSUME NEW i \in k + 1..k + n PROVE wire'[i] = m
  <2>1. wire'[i] = new[i - k] /\ i - k \in 1..n
    BY <1>1, <1>2, <1>3
  <2> QED BY <1>1, <2>1
<1>5. DOMAIN wire' = 1..k + n /\ DOMAIN wire = 1..k
  BY <1>3
<1> HIDE DEF k
<1>6. ASSUME NEW x \in Msgs PROVE Units(x)' = IF x = m THEN Units(x) + n ELSE Units(x)
  <2>1. IsFiniteSet(Indices(wire, x)) /\ Indices(wire, x) \subseteq 1..k /\ Units(x) \in Nat
    BY <1>5, UnitsType DEF Indices
  <2>2. CASE x = m
    <3>1. ASSUME NEW i PROVE i \in Indices(wire', x) <=> i \in Indices(wire, x) \cup (k + 1..k + n)
      <4>1. i \in DOMAIN wire' <=> i \in DOMAIN wire \/ i \in k + 1..k + n
        BY <1>3, <1>5
      <4> QED BY <1>3, <1>4, <1>5, <2>2, <4>1 DEF Indices
    <3>2. Indices(wire', x) = Indices(wire, x) \cup (k + 1..k + n)
      BY <3>1
    <3>3. Indices(wire, x) \cap (k + 1..k + n) = {}
      BY <1>3, <2>1
    <3>4. IsFiniteSet(k + 1..k + n) /\ Cardinality(k + 1..k + n) = n
      <4>1. CASE n = 0
        BY <1>3, <4>1, FS_Interval
      <4>2. CASE n > 0
        BY <1>3, <4>2, FS_Interval
      <4> QED BY <4>1, <4>2
    <3>5. Cardinality({}) = 0
      BY FS_EmptySet
    <3>6. Cardinality(Indices(wire, x) \cup (k + 1..k + n))
             = Cardinality(Indices(wire, x)) + Cardinality(k + 1..k + n)
               - Cardinality(Indices(wire, x) \cap (k + 1..k + n))
      BY <2>1, <3>4, FS_Union
    <3>7. Cardinality(Indices(wire, x) \cap (k + 1..k + n)) = 0
      BY <3>3, <3>5
    <3>8. Cardinality(Indices(wire', x)) = Units(x) + n
      BY <2>1, <3>2, <3>4, <3>6, <3>7 DEF Units
    <3> QED BY <2>2, <3>8 DEF Units
  <2>3. CASE x # m
    <3>1. ASSUME NEW i PROVE i \in Indices(wire', x) <=> i \in Indices(wire, x)
      <4>1. i \in DOMAIN wire' <=> i \in DOMAIN wire \/ i \in k + 1..k + n
        BY <1>3, <1>5
      <4> QED BY <1>3, <1>4, <1>5, <2>3, <4>1 DEF Indices
    <3>2. Indices(wire', x) = Indices(wire, x)
      BY <3>1
    <3> QED BY <2>3, <3>2 DEF Units
  <2> QED BY <2>2, <2>3
<1> QED BY <1>3, <1>4, <1>6 DEF k

LEMMA AdjacentGrows ==
  ASSUME wire \in Seq(Msgs), AdjacentInv, NEW m \in Msgs, NEW n \in Nat, Written(m, n),
         \A a, b \in Msgs : Before(a, b) => Before(a, b)',
         \A x \in Msgs : outcome[x] \in Final => outcome'[x] = outcome[x],
         \A w \in Msgs : n > 0 /\ wire # <<>> /\ Last = w /\ w # m =>
                           Before(w, m)' /\ outcome'[w] \in Final
  PROVE  AdjacentInv'
<1> DEFINE k == Len(wire)
<1>1. /\ wire' \in Seq(Msgs) /\ k \in Nat /\ Len(wire') = k + n
      /\ \A i \in 1..k : wire'[i] = wire[i]
      /\ \A i \in k + 1..k + n : wire'[i] = m
  BY WireGrows
<1>2. (k > 0 => wire # <<>>) /\ Last = wire[k] /\ \A i \in 1..k : wire[i] \in Msgs
  BY DEF Last
<1> SUFFICES ASSUME NEW i \in 1..k + n - 1, wire'[i] # wire'[i + 1]
             PROVE  (Before(wire[i], wire[i + 1]))' /\ outcome'[wire'[i]] \in Final
  BY <1>1 DEF AdjacentInv
<1> HIDE DEF k
<1>3. CASE i < k
  <2>1. wire'[i] = wire[i] /\ wire'[i + 1] = wire[i + 1] /\ wire[i] \in Msgs /\ wire[i + 1] \in Msgs
    BY <1>1, <1>2, <1>3
  <2>2. Before(wire[i], wire[i + 1]) /\ outcome[wire[i]] \in Final
    BY <1>1, <1>3, <2>1 DEF AdjacentInv, k
  <2>3. outcome'[wire[i]] = outcome[wire[i]]
    BY <2>1, <2>2
  <2> DEFINE a == wire[i]
             b == wire[i + 1]
  <2>4. a \in Msgs /\ b \in Msgs /\ Before(a, b) /\ wire'[i] = a /\ wire'[i + 1] = b
    BY <2>1, <2>2
  <2> HIDE DEF a, b
  <2>5. \E p, q \in DOMAIN taken' : p < q /\ taken'[p] = a /\ taken'[q] = b
    BY <2>4 DEF Before
  <2> QED BY <2>1, <2>2, <2>3, <2>4, <2>5 DEF Before
<1>4. CASE i = k
  <2>1. wire'[i] = Last /\ wire'[i + 1] = m /\ n > 0 /\ wire # <<>>
    BY <1>1, <1>2, <1>4
  <2>2. PICK w \in Msgs : w = Last
    BY <1>1, <1>2, <1>4
  <2>3. Before(w, m)' /\ outcome'[w] \in Final
    BY <2>1, <2>2
  <2>4. \E p, q \in DOMAIN taken' : p < q /\ taken'[p] = w /\ taken'[q] = m
    BY <2>3 DEF Before
  <2> QED BY <2>1, <2>2, <2>3, <2>4 DEF Before
<1>5. CASE i > k
  BY <1>1, <1>5
<1> QED BY <1>1, <1>3, <1>4, <1>5

LEMMA TakenGrows ==
  ASSUME taken \in Seq(Msgs), NEW m \in Msgs, taken' = Append(taken, m)
  PROVE  /\ \A a, b : Before(a, b) => Before(a, b)'
         /\ \A a : Taken(a)' <=> Taken(a) \/ a = m
         /\ \A a : Taken(a) => Before(a, m)'
<1>1. /\ Len(taken) \in Nat /\ DOMAIN taken = 1..Len(taken) /\ DOMAIN taken' = 1..Len(taken) + 1
      /\ taken'[Len(taken) + 1] = m /\ \A k \in 1..Len(taken) : taken'[k] = taken[k]
  OBVIOUS
<1>2. ASSUME NEW a, NEW b, Before(a, b) PROVE Before(a, b)'
  BY <1>1, <1>2 DEF Before
<1>3. ASSUME NEW a PROVE Taken(a)' <=> Taken(a) \/ a = m
  BY <1>1 DEF Taken
<1>4. ASSUME NEW a, Taken(a) PROVE Before(a, m)'
  <2>1. PICK k \in 1..Len(taken) : taken[k] = a
    BY <1>1, <1>4 DEF Taken
  <2>2. k < Len(taken) + 1 /\ taken'[k] = a /\ taken'[Len(taken) + 1] = m
        /\ k \in DOMAIN taken' /\ Len(taken) + 1 \in DOMAIN taken'
    BY <1>1, <2>1
  <2> QED BY <2>2 DEF Before
<1> QED BY <1>2, <1>3, <1>4

LEMMA NothingWritten ==
  ASSUME wire \in Seq(Msgs), wire' = wire, NEW m \in Msgs
  PROVE  Written(m, 0)
<1>1. [i \in 1..0 |-> m] = <<>>
  OBVIOUS
<1>2. wire \o <<>> = wire
  BY ConcatEmptySeq
<1> QED BY <1>1, <1>2 DEF Written

\* The order of taken is only extended by sendInLoop.
LEMMA TakenSame ==
  ASSUME taken' = taken
  PROVE  /\ \A a, b : Before(a, b)' <=> Before(a, b)
         /\ \A a : Taken(a)' <=> Taken(a)
BY DEF Before, Taken

LEMMA WireSame ==
  ASSUME WireInv, UNCHANGED <<outputBufferList_, wire, taken, outcome>>, Down => Down'
  PROVE  WireInv'
<1>1. TakenInv' /\ OrderInv'
  BY DEF WireInv, TakenInv, OrderInv, Taken, Before, Unsent, Last
<1>2. UnitsInv' /\ AdjacentInv'
  BY DEF WireInv, UnitsInv, AdjacentInv, Units, Last, Before, Final
<1>3. ResultInv'
  BY DEF WireInv, ResultInv, Units
<1> QED BY <1>1, <1>2, <1>3 DEF WireInv

\* A result that is reported for m: the other messages keep theirs.
LEMMA ReportValue ==
  ASSUME outcome \in [Msgs -> Seq(Codes)], NEW m \in Msgs, Len(outcome[m]) = 0,
         NEW code \in Codes, Report(m, code)
  PROVE  outcome'[m] = <<code>> /\ \A x \in Msgs \ {m} : outcome'[x] = outcome[x]
<1>1. outcome[m] \in Seq(Codes)
  OBVIOUS
<1>2. outcome[m] = <<>>
  BY <1>1
<1>3. outcome'[m] = Append(outcome[m], code) /\ \A x \in Msgs \ {m} : outcome'[x] = outcome[x]
  BY DEF Report
<1> QED BY <1>2, <1>3

\* What sendInLoop writes, and what it does with its message.
LEMMA SendWrites ==
  ASSUME OutTypeOK, UnsentDataIsWritten, NEW m \in Msgs, NEW timeout \in BOOLEAN,
         SendInLoop(m, timeout)
  PROVE  \E n \in 0..MsgLen :
            /\ Written(m, n)
            /\ n > 0 => outputBufferList_ = <<>> /\ state_ = "kConnected"
            /\ \/ /\ n < MsgLen /\ outcome' = outcome /\ state_ = "kConnected"
                  /\ outputBufferList_' = Append(outputBufferList_, <<m, MsgLen - n>>)
               \/ /\ outputBufferList_' = outputBufferList_
                  /\ \E code \in {"SUCCESS", "WRITEERR", "DISCONNECTED"} :
                        /\ Report(m, code)
                        /\ code = "SUCCESS" <=> n = MsgLen
                        /\ code = "DISCONNECTED" => n = 0
<1>0. MsgLen \in Nat \ {0} /\ wire \in Seq(Msgs)
  BY ConnectionConstants DEF OutTypeOK
<1>1. wire' = wire => Written(m, 0)
  BY <1>0, NothingWritten
<1>2. WritesDirectly => outputBufferList_ = <<>>
  BY DEF WritesDirectly, UnsentDataIsWritten, OutTypeOK
<1>3. 0 \in 0..MsgLen /\ MsgLen \in 0..MsgLen /\ 0 < MsgLen /\ MsgLen - 0 = MsgLen
  BY <1>0
<1>4. CASE /\ Report(m, "DISCONNECTED")
           /\ UNCHANGED <<outputBufferList_, sendQueSize_, timers, chWriting, wire>>
  BY <1>1, <1>3, <1>4
<1>5. CASE state_ = "kConnected" /\ Enqueue(m, MsgLen, timeout) /\ UNCHANGED wire
  BY <1>1, <1>3, <1>5 DEF Enqueue
<1>6. ASSUME state_ = "kConnected", WritesDirectly, NEW n \in 0..MsgLen - 1, Written(m, n),
             Enqueue(m, MsgLen - n, timeout)
      PROVE  n \in 0..MsgLen /\ n < MsgLen /\ outcome' = outcome
             /\ outputBufferList_' = Append(outputBufferList_, <<m, MsgLen - n>>)
  BY <1>0, <1>6 DEF Enqueue
<1>7. CASE /\ state_ = "kConnected" /\ WritesDirectly /\ Written(m, MsgLen)
           /\ Report(m, "SUCCESS")
           /\ UNCHANGED <<outputBufferList_, sendQueSize_, timers, chWriting>>
  BY <1>2, <1>3, <1>7
<1>8. CASE /\ Report(m, "WRITEERR")
           /\ UNCHANGED <<outputBufferList_, sendQueSize_, timers, chWriting, wire>>
  BY <1>1, <1>3, <1>8
<1> QED BY <1>2, <1>4, <1>5, <1>6, <1>7, <1>8 DEF SendInLoop

\* A message that is partly on the wire, followed by another: its fate is sealed
\* when it is not in the list any more and the connection still writes.
LEMMA LastIsFinal ==
  ASSUME OutTypeOK, WireInv, NEW w \in Msgs, wire # <<>>, w = Last, w \notin Unsent,
         ~Down \/ outputBufferList_ # <<>>
  PROVE  outcome[w] \in Final
<1>1. Len(wire) \in DOMAIN wire /\ wire[Len(wire)] = w
  BY DEF OutTypeOK, Last
<1>2. Len(outcome[w]) > 0
  BY <1>1 DEF WireInv, TakenInv
<1>3. outcome[w] # <<>>
  BY <1>2
<1> QED BY <1>1, <1>3 DEF WireInv, ResultInv

LEMMA WireOfSend ==
  ASSUME OutTypeOK, UnsentDataIsWritten, WireInv, NEW m \in Msgs, NEW timeout \in BOOLEAN,
         SendInLoop(m, timeout), m \notin Unsent, Len(outcome[m]) = 0, state_' = state_
  PROVE  WireInv'
<1>0. /\ TakenInv /\ OrderInv /\ UnitsInv /\ ResultInv /\ AdjacentInv
      /\ MsgLen \in Nat \ {0} /\ wire \in Seq(Msgs) /\ outputBufferList_ \in Seq(Buffers)
      /\ Down' <=> Down
  BY ConnectionConstants DEF WireInv, OutTypeOK, Down
<1>1. PICK n \in 0..MsgLen :
         /\ Written(m, n)
         /\ n > 0 => outputBufferList_ = <<>> /\ state_ = "kConnected"
         /\ \/ /\ n < MsgLen /\ outcome' = outcome /\ state_ = "kConnected"
               /\ outputBufferList_' = Append(outputBufferList_, <<m, MsgLen - n>>)
            \/ /\ outputBufferList_' = outputBufferList_
               /\ \E code \in {"SUCCESS", "WRITEERR", "DISCONNECTED"} :
                     /\ Report(m, code)
                     /\ code = "SUCCESS" <=> n = MsgLen
                     /\ code = "DISCONNECTED" => n = 0
  BY SendWrites
<1> DEFINE enq == /\ n < MsgLen /\ outcome' = outcome /\ state_ = "kConnected"
                  /\ outputBufferList_' = Append(outputBufferList_, <<m, MsgLen - n>>)
           len == Len(outputBufferList_)
           k == Len(wire)
<1>2. /\ \A a, b : Before(a, b) => Before(a, b)'
      /\ \A a : Taken(a)' <=> Taken(a) \/ a = m
      /\ \A a : Taken(a) => Before(a, m)'
  BY TakenGrows DEF OutTypeOK, SendInLoop
<1>3. ~Taken(m)
  BY <1>0 DEF TakenInv
<1>4. Units(m) = 0 /\ \A i \in DOMAIN wire : wire[i] # m
  BY <1>0, <1>3, UnitsType DEF TakenInv
<1>5. /\ wire' \in Seq(Msgs) /\ k \in Nat /\ Len(wire') = k + n
      /\ \A i \in 1..k : wire'[i] = wire[i]
      /\ \A i \in k + 1..k + n : wire'[i] = m
      /\ \A x \in Msgs : Units(x)' = IF x = m THEN Units(x) + n ELSE Units(x)
  BY <1>0, <1>1, WireGrows
<1>6. DOMAIN wire = 1..k /\ DOMAIN wire' = 1..k + n
  BY <1>0, <1>5
<1>7. enq => /\ DOMAIN outputBufferList_' = DOMAIN outputBufferList_ \cup {len + 1}
             /\ outputBufferList_'[len + 1] = <<m, MsgLen - n>>
             /\ \A i \in DOMAIN outputBufferList_ :
                   outputBufferList_'[i] = outputBufferList_[i] /\ i < len + 1 /\ i \in Nat
             /\ len + 1 \in Nat /\ DOMAIN outputBufferList_ = 1..len
  <2>1. MsgLen - n \in 1..MsgLen \/ ~enq
    BY <1>0
  <2>2. <<m, MsgLen - n>> \in Buffers \/ ~enq
    BY <2>1 DEF Buffers
  <2> QED BY <1>0, <2>2
<1>8. ~enq => /\ outputBufferList_' = outputBufferList_ /\ n \in Nat
              /\ \E code \in {"SUCCESS", "WRITEERR", "DISCONNECTED"} :
                    /\ outcome'[m] = <<code>>
                    /\ code = "SUCCESS" <=> n = MsgLen
                    /\ code = "DISCONNECTED" => n = 0
              /\ \A x \in Msgs \ {m} : outcome'[x] = outcome[x]
  <2>1. \A code \in {"SUCCESS", "WRITEERR", "DISCONNECTED"} : code \in Codes
    BY DEF Codes
  <2>2. \A code \in {"SUCCESS", "WRITEERR", "DISCONNECTED"} : Report(m, code) =>
           outcome'[m] = <<code>> /\ \A x \in Msgs \ {m} : outcome'[x] = outcome[x]
    BY <2>1, ReportValue DEF OutTypeOK
  <2> QED BY <1>1, <2>2
<1>9. outcome[m] = <<>> /\ \A x \in Msgs \ {m} : outcome'[x] = outcome[x]
  <2>1. outcome[m] \in Seq(Codes)
    BY DEF OutTypeOK
  <2>2. outcome[m] = <<>>
    BY <2>1
  <2> QED BY <1>8, <2>2
<1>10. \A i \in DOMAIN outputBufferList_ : outputBufferList_[i][1] # m /\ outputBufferList_[i][1] \in Msgs
  BY <1>0 DEF Unsent, Buffers
<1>11. n > 0 => DOMAIN outputBufferList_ = {} /\ len = 0 /\ ~Down
  BY <1>1 DEF Down
<1>12. \A x : (\E i \in DOMAIN wire' : wire'[i] = x) <=> (\E i \in DOMAIN wire : wire[i] = x) \/ (n > 0 /\ x = m)
  BY <1>5, <1>6
<1>13. /\ n = 0 => wire' = wire
       /\ n > 0 => wire' # <<>> /\ Last' = m
  <2>1. n = 0 => wire' = wire
    BY <1>0, <1>5, <1>6
  <2>2. n > 0 => wire' # <<>> /\ wire'[k + n] = m
    BY <1>5, <1>6
  <2> QED BY <1>5, <2>1, <2>2 DEF Last
<1>14. Unsent \subseteq Unsent' /\ (enq => m \in Unsent')
  <2>1. CASE enq
    <3>1. outputBufferList_'[len + 1][1] = m
      BY <1>7, <2>1
    <3> QED BY <1>7, <2>1, <3>1 DEF Unsent
  <2>2. CASE ~enq
    BY <1>8, <2>2 DEF Unsent
  <2> QED BY <2>1, <2>2
<1> HIDE DEF enq, len, k
<1>15. TakenInv'
  <2>1. \A i \in DOMAIN outputBufferList_' : Taken(outputBufferList_[i][1])'
    <3>1. ASSUME NEW i \in DOMAIN outputBufferList_'
          PROVE  outputBufferList_'[i][1] = m \/ Taken(outputBufferList_'[i][1])
      BY <1>0, <1>7, <1>8, <3>1 DEF TakenInv
    <3> QED BY <1>2, <3>1 DEF Taken
  <2>2. \A i \in DOMAIN wire' : Taken(wire[i])'
    <3>1. ASSUME NEW i \in DOMAIN wire' PROVE wire'[i] = m \/ Taken(wire'[i])
      BY <1>0, <1>5, <1>6, <3>1 DEF TakenInv
    <3> QED BY <1>2, <3>1 DEF Taken
  <2>3. ASSUME NEW x \in Msgs, Taken(x)' PROVE x \in Unsent' \/ Len(outcome'[x]) > 0
    <3>1. CASE x = m
      BY <1>8, <1>14, <3>1
    <3>2. CASE x # m
      BY <1>0, <1>2, <1>9, <1>14, <2>3, <3>2 DEF TakenInv
    <3> QED BY <3>1, <3>2
  <2> QED BY <2>1, <2>2, <2>3 DEF TakenInv
<1>16. OrderInv'
  <2>1. ASSUME NEW i \in DOMAIN outputBufferList_', NEW j \in DOMAIN outputBufferList_', i < j
        PROVE  (Before(outputBufferList_[i][1], outputBufferList_[j][1]))'
    <3>1. PICK a, b : /\ a = outputBufferList_'[i][1] /\ b = outputBufferList_'[j][1]
                      /\ Before(a, b) \/ (Taken(a) /\ b = m)
      BY <1>0, <1>7, <1>8, <2>1 DEF OrderInv, TakenInv
    <3>2. Before(a, b)'
      BY <1>2, <3>1
    <3> QED BY <3>1, <3>2 DEF Before
  <2>2. ASSUME wire' # <<>>, NEW i \in DOMAIN outputBufferList_', outputBufferList_'[i][1] # Last'
        PROVE  (Before(Last, outputBufferList_[i][1]))'
    <3>1. n = 0
      BY <1>7, <1>8, <1>11, <1>13, <2>2
    <3>2. wire' = wire /\ Last' = Last /\ Taken(Last)
      <4>1. wire' = wire /\ k \in 1..k
        BY <1>0, <1>5, <1>13, <2>2, <3>1 DEF k
      <4> QED BY <1>0, <1>6, <4>1 DEF TakenInv, Last, k
    <3>3. PICK a, b : /\ a = Last' /\ b = outputBufferList_'[i][1]
                      /\ Before(a, b) \/ (Taken(a) /\ b = m)
      BY <1>0, <1>7, <1>8, <2>2, <3>2 DEF OrderInv
    <3>4. Before(a, b)'
      BY <1>2, <3>3
    <3> QED BY <3>3, <3>4 DEF Before
  <2> QED BY <2>1, <2>2 DEF OrderInv
<1>17. UnitsInv'
  <2> SUFFICES ASSUME NEW i \in DOMAIN outputBufferList_'
               PROVE  /\ (Units(outputBufferList_[i][1]))' = MsgLen - outputBufferList_'[i][2]
                      /\ outputBufferList_'[i][2] < MsgLen =>
                            i = 1 /\ wire' # <<>> /\ Last' = outputBufferList_'[1][1]
    BY DEF UnitsInv
  <2>1. CASE i \in DOMAIN outputBufferList_
    <3>1. n = 0 /\ outputBufferList_'[i] = outputBufferList_[i] /\ wire' = wire
      BY <1>7, <1>8, <1>11, <1>13, <2>1
    <3>2. i = 1 => outputBufferList_'[1] = outputBufferList_[1]
      BY <3>1
    <3> QED BY <1>0, <2>1, <3>1, <3>2 DEF UnitsInv, Units, Last
  <2>2. CASE i \notin DOMAIN outputBufferList_
    <3>1. i = len + 1 /\ outputBufferList_'[i] = <<m, MsgLen - n>>
      BY <1>7, <1>8, <2>2
    <3>2. Units(m)' = n
      BY <1>4, <1>5
    <3>3. outputBufferList_'[i][1] = m /\ outputBufferList_'[i][2] = MsgLen - n
      BY <3>1
    <3>4. (Units(outputBufferList_[i][1]))' = MsgLen - outputBufferList_'[i][2]
      <4>1. Cardinality(Indices(wire', m)) = n
        BY <3>2 DEF Units
      <4> QED BY <1>0, <3>3, <4>1 DEF Units
    <3>5. MsgLen - n < MsgLen => n > 0
      BY <1>0
    <3> QED BY <1>11, <1>13, <3>1, <3>3, <3>4, <3>5
  <2> QED BY <2>1, <2>2
<1>18. ResultInv'
  <2> SUFFICES ASSUME NEW x \in Msgs
               PROVE  /\ outcome'[x] \in Final \cup {<<>>, <<"DISCONNECTED">>}
                      /\ outcome'[x] = <<"SUCCESS">> <=> Units(x)' = MsgLen
                      /\ outcome'[x] = <<"DISCONNECTED">> /\ (\E i \in DOMAIN wire' : wire'[i] = x) =>
                            Down' /\ outputBufferList_' = <<>>
    BY DEF ResultInv, Final
  <2>1. CASE x = m
    <3>1. Units(x)' = n
      BY <1>4, <1>5, <2>1
    <3>2. CASE enq
      <4>1. outcome'[x] = <<>> /\ n < MsgLen
        BY <1>9, <2>1, <3>2 DEF enq
      <4>2. <<>> # <<"SUCCESS">> /\ <<>> # <<"DISCONNECTED">>
        OBVIOUS
      <4>3. Units(x)' # MsgLen
        BY <1>0, <3>1, <4>1
      <4> QED BY <4>1, <4>2, <4>3
    <3>3. CASE ~enq
      <4>1. PICK code \in {"SUCCESS", "WRITEERR", "DISCONNECTED"} :
                    /\ outcome'[m] = <<code>>
                    /\ code = "SUCCESS" <=> n = MsgLen
                    /\ code = "DISCONNECTED" => n = 0
        BY <1>8, <3>3
      <4>2. outcome'[x] \in Final \cup {<<>>, <<"DISCONNECTED">>}
        BY <2>1, <4>1 DEF Final
      <4>3. outcome'[x] = <<"SUCCESS">> <=> Units(x)' = MsgLen
        BY <2>1, <3>1, <4>1
      <4>4. outcome'[x] = <<"DISCONNECTED">> => n = 0
        BY <2>1, <4>1
      <4> QED BY <1>4, <1>12, <2>1, <4>2, <4>3, <4>4
    <3> QED BY <3>2, <3>3
  <2>2. CASE x # m
    <3>1. outcome'[x] = outcome[x] /\ Units(x)' = Units(x)
      BY <1>5, <1>9, <2>2
    <3>2. Down => outputBufferList_' = outputBufferList_
      BY <1>8 DEF enq, Down
    <3> QED BY <1>0, <1>12, <2>2, <3>1, <3>2 DEF ResultInv
  <2> QED BY <2>1, <2>2
<1>19. AdjacentInv'
  <2>1. ASSUME NEW x \in Msgs, outcome[x] \in Final PROVE outcome'[x] = outcome[x]
    BY <1>9, <2>1 DEF Final
  <2>2. ASSUME NEW w \in Msgs, n > 0, wire # <<>>, Last = w, w # m
        PROVE  Before(w, m)' /\ outcome'[w] \in Final
    <3>1. w \notin Unsent /\ ~Down
      BY <1>11, <2>2 DEF Unsent
    <3>2. outcome[w] \in Final
      BY <2>2, <3>1, LastIsFinal
    <3>3. Taken(w)
      <4>1. k \in 1..k
        BY <1>0, <1>5, <2>2 DEF k
      <4> QED BY <1>0, <1>6, <2>2, <4>1 DEF TakenInv, Last, k
    <3> QED BY <1>2, <1>9, <2>2, <3>2, <3>3
  <2> QED BY <1>0, <1>1, <1>2, <2>1, <2>2, AdjacentGrows
<1> QED BY <1>15, <1>16, <1>17, <1>18, <1>19 DEF WireInv

\* A message leaves the list with a result, written to its end or given up.
LEMMA WireOfDrop ==
  ASSUME OutTypeOK, OutTypeOK', OutcomeInv, WireInv, NEW i \in DOMAIN outputBufferList_,
         Len(outputBufferList_') = Len(outputBufferList_) - 1,
         \A k \in 1..Len(outputBufferList_) - 1 :
            outputBufferList_'[k] = IF k < i THEN outputBufferList_[k] ELSE outputBufferList_[k + 1],
         NEW m \in Msgs, m = outputBufferList_[i][1],
         NEW n \in Nat, Written(m, n), n > 0 => i = 1 /\ n = outputBufferList_[i][2],
         NEW code \in {"SUCCESS", "WRITEERR", "TIMEOUT"}, Report(m, code),
         code = "SUCCESS" <=> n > 0,
         taken' = taken, state_' = state_
  PROVE  WireInv'
<1> DEFINE len == Len(outputBufferList_)
           k == Len(wire)
           Old(j) == IF j < i THEN j ELSE j + 1
<1>0. /\ TakenInv /\ OrderInv /\ UnitsInv /\ ResultInv /\ AdjacentInv /\ ListInv /\ PlaceInv
      /\ MsgLen \in Nat \ {0} /\ wire \in Seq(Msgs) /\ outputBufferList_ \in Seq(Buffers)
      /\ outputBufferList_' \in Seq(Buffers)
      /\ Down' <=> Down
  BY ConnectionConstants DEF WireInv, OutTypeOK, Down, OutcomeInv
<1>1. /\ len \in Nat /\ DOMAIN outputBufferList_ = 1..len /\ DOMAIN outputBufferList_' = 1..len - 1
      /\ i \in 1..len
  BY <1>0
<1>2. \A j \in 1..len - 1 : /\ outputBufferList_'[j] = outputBufferList_[Old(j)]
                            /\ Old(j) \in 1..len /\ Old(j) # i
                            /\ Old(j) = 1 => j = 1
  BY <1>1
<1>3. \A p, q \in 1..len - 1 : p < q => Old(p) < Old(q)
  BY <1>1
<1>4. ListInv' /\ Unsent' = Unsent \ {m}
  BY <1>0, ListShrinks
<1>5. /\ wire' \in Seq(Msgs) /\ k \in Nat /\ Len(wire') = k + n
      /\ \A j \in 1..k : wire'[j] = wire[j]
      /\ \A j \in k + 1..k + n : wire'[j] = m
      /\ \A x \in Msgs : Units(x)' = IF x = m THEN Units(x) + n ELSE Units(x)
  BY <1>0, WireGrows
<1>6. DOMAIN wire = 1..k /\ DOMAIN wire' = 1..k + n
  BY <1>0, <1>5
<1>7. m \in Unsent /\ Taken(m)
  BY <1>0 DEF Unsent, TakenInv
<1>8. Len(outcome[m]) = 0
  <2>1. Len(outcome[m]) \in Nat
    BY DEF OutTypeOK
  <2> QED BY <1>0, <1>7, <2>1 DEF PlaceInv
<1>9. outcome'[m] = <<code>> /\ \A x \in Msgs \ {m} : outcome'[x] = outcome[x]
  BY <1>8, ReportValue DEF OutTypeOK, Codes
<1>10. /\ n = 0 => wire' = wire
       /\ n > 0 => wire' # <<>> /\ Last' = m
  <2>1. n = 0 => wire' = wire
    BY <1>0, <1>5, <1>6
  <2>2. n > 0 => wire' # <<>> /\ wire'[k + n] = m
    BY <1>5, <1>6
  <2> QED BY <1>5, <2>1, <2>2 DEF Last
<1>11. outputBufferList_[i][2] \in 1..MsgLen /\ Units(m) = MsgLen - outputBufferList_[i][2]
  BY <1>0 DEF Buffers, UnitsInv
<1>12. /\ \A a, b : Before(a, b)' <=> Before(a, b)
       /\ \A a : Taken(a)' <=> Taken(a)
  BY TakenSame
<1>13. /\ outputBufferList_ # <<>>
       /\ \A j \in 1..len : outputBufferList_[j][1] \in Msgs /\ outputBufferList_[j][2] \in 1..MsgLen
  <2>1. \A j \in 1..len : outputBufferList_[j] \in Buffers
    BY <1>0
  <2> QED BY <1>1, <2>1 DEF Buffers
<1> HIDE DEF len, k, Old
<1>14. TakenInv'
  <2>1. \A j \in DOMAIN outputBufferList_' : Taken(outputBufferList_[j][1])'
    BY <1>0, <1>1, <1>2 DEF TakenInv, Taken
  <2>2. \A j \in DOMAIN wire' : Taken(wire[j])'
    <3>1. ASSUME NEW j \in DOMAIN wire' PROVE Taken(wire'[j])
      <4>1. CASE j \in 1..k
        BY <1>0, <1>5, <1>6, <4>1 DEF TakenInv
      <4>2. CASE j \in k + 1..k + n
        BY <1>5, <1>7, <4>2
      <4> QED BY <1>5, <1>6, <4>1, <4>2
    <3> QED BY <3>1 DEF Taken
  <2>3. \A x \in Msgs : Taken(x)' => x \in Unsent' \/ Len(outcome'[x]) > 0
    <3>1. Len(outcome'[m]) > 0
      BY <1>9
    <3> QED BY <1>0, <1>4, <1>9, <1>12, <3>1 DEF TakenInv
  <2> QED BY <2>1, <2>2, <2>3 DEF TakenInv
<1>15. OrderInv'
  <2>1. ASSUME NEW p \in DOMAIN outputBufferList_', NEW q \in DOMAIN outputBufferList_', p < q
        PROVE  (Before(outputBufferList_[p][1], outputBufferList_[q][1]))'
    <3>1. Before(outputBufferList_'[p][1], outputBufferList_'[q][1])
      BY <1>0, <1>1, <1>2, <1>3, <2>1 DEF OrderInv
    <3> QED BY <3>1 DEF Before
  <2>2. ASSUME wire' # <<>>, NEW j \in DOMAIN outputBufferList_', outputBufferList_'[j][1] # Last'
        PROVE  (Before(Last, outputBufferList_[j][1]))'
    <3>1. CASE n = 0
      <4>1. wire' = wire /\ Last' = Last
        BY <1>10, <3>1 DEF Last
      <4>2. Before(Last', outputBufferList_'[j][1])
        BY <1>0, <1>1, <1>2, <2>2, <4>1 DEF OrderInv
      <4> QED BY <4>2 DEF Before
    <3>2. CASE n > 0
      <4>1. i = 1 /\ Last' = m
        BY <1>10, <3>2
      <4>2. i < Old(j)
        BY <1>1, <1>2, <4>1
      <4>3. Before(m, outputBufferList_'[j][1])
        BY <1>0, <1>1, <1>2, <4>2 DEF OrderInv
      <4> QED BY <4>1, <4>3 DEF Before
    <3> QED BY <3>1, <3>2
  <2> QED BY <2>1, <2>2 DEF OrderInv
<1>16. UnitsInv'
  <2> SUFFICES ASSUME NEW j \in DOMAIN outputBufferList_'
               PROVE  /\ (Units(outputBufferList_[j][1]))' = MsgLen - outputBufferList_'[j][2]
                      /\ outputBufferList_'[j][2] < MsgLen =>
                            j = 1 /\ wire' # <<>> /\ Last' = outputBufferList_'[1][1]
    BY DEF UnitsInv
  <2>1. PICK o \in 1..len : o = Old(j) /\ outputBufferList_'[j] = outputBufferList_[o] /\ o # i
    BY <1>1, <1>2
  <2>2. PICK x \in Msgs : x = outputBufferList_[o][1]
    BY <1>13, <2>1
  <2>3. x # m
    BY <1>0, <1>1, <2>1, <2>2 DEF ListInv
  <2>4. Units(x)' = MsgLen - outputBufferList_[o][2]
    BY <1>0, <1>1, <1>5, <2>1, <2>2, <2>3 DEF UnitsInv
  <2>5. (Units(outputBufferList_[j][1]))' = MsgLen - outputBufferList_'[j][2]
    <3>1. outputBufferList_'[j][1] = x
      BY <2>1, <2>2
    <3> QED BY <2>1, <2>4, <3>1 DEF Units
  <2>6. ASSUME outputBufferList_'[j][2] < MsgLen
        PROVE  j = 1 /\ wire' # <<>> /\ Last' = outputBufferList_'[1][1]
    <3>1. o = 1 /\ wire # <<>> /\ Last = outputBufferList_[1][1]
      BY <1>0, <1>1, <2>1, <2>6 DEF UnitsInv
    <3>2. j = 1
      BY <1>1, <1>2, <2>1, <3>1
    <3>3. n = 0
      BY <2>1, <3>1
    <3> QED BY <1>10, <2>1, <3>1, <3>2, <3>3 DEF Last
  <2> QED BY <2>5, <2>6
<1>17. ResultInv'
  <2> SUFFICES ASSUME NEW x \in Msgs
               PROVE  /\ outcome'[x] \in Final \cup {<<>>, <<"DISCONNECTED">>}
                      /\ outcome'[x] = <<"SUCCESS">> <=> Units(x)' = MsgLen
                      /\ outcome'[x] # <<"DISCONNECTED">> \/ ~(\E j \in DOMAIN wire' : wire'[j] = x)
    BY DEF ResultInv, Final
  <2>1. CASE x = m
    <3>1. Units(x)' = MsgLen <=> n > 0
      BY <1>0, <1>5, <1>11, <2>1
    <3>2. outcome'[x] \in Final /\ outcome'[x] # <<"DISCONNECTED">>
      <4>1. <<code>> \in Final
        BY DEF Final
      <4>2. \A y \in Final : y # <<"DISCONNECTED">>
        BY DEF Final
      <4> QED BY <1>9, <2>1, <4>1, <4>2
    <3>3. outcome'[x] = <<"SUCCESS">> <=> code = "SUCCESS"
      BY <1>9, <2>1
    <3> QED BY <3>1, <3>2, <3>3
  <2>2. CASE x # m
    <3>1. outcome'[x] = outcome[x] /\ Units(x)' = Units(x)
      BY <1>5, <1>9, <2>2
    <3>2. (\E j \in DOMAIN wire' : wire'[j] = x) => (\E j \in DOMAIN wire : wire[j] = x)
      BY <1>5, <1>6, <2>2
    <3> QED BY <1>0, <1>13, <3>1, <3>2 DEF ResultInv
  <2> QED BY <2>1, <2>2
<1>18. AdjacentInv'
  <2>1. ASSUME NEW x \in Msgs, outcome[x] \in Final PROVE outcome'[x] = outcome[x]
    BY <1>8, <1>9, <2>1 DEF Final
  <2>2. ASSUME NEW w \in Msgs, n > 0, wire # <<>>, Last = w, w # m
        PROVE  Before(w, m)' /\ outcome'[w] \in Final
    <3>1. Before(w, m)
      BY <1>0, <2>2 DEF OrderInv
    <3>2. k \in 1..k /\ wire[k] = w
      BY <1>0, <1>5, <2>2 DEF k, Last
    <3>3. w \notin Unsent
      <4> SUFFICES ASSUME w \in Unsent PROVE FALSE
        OBVIOUS
      <4>1. PICK j \in 1..len : outputBufferList_[j][1] = w
        BY <1>1 DEF Unsent
      <4>2. j # 1
        BY <2>2, <4>1
      <4>3. Units(w) \in Nat /\ Units(w) # 0
        BY <1>0, <1>6, <3>2, UnitsType
      <4>4. outputBufferList_[j][2] \in 1..MsgLen /\ Units(w) = MsgLen - outputBufferList_[j][2]
        BY <1>0, <1>1, <1>13, <4>1 DEF UnitsInv
      <4>5. outputBufferList_[j][2] < MsgLen
        BY <1>0, <4>3, <4>4
      <4> QED BY <1>0, <1>1, <4>2, <4>5 DEF UnitsInv
    <3>4. outcome[w] \in Final
      BY <1>13, <2>2, <3>3, LastIsFinal
    <3> QED BY <1>9, <1>12, <2>2, <3>1, <3>4
  <2>3. \A a, b \in Msgs : Before(a, b) => Before(a, b)'
    BY <1>12
  <2> QED BY <1>0, <2>1, <2>2, <2>3, AdjacentGrows
<1> QED BY <1>14, <1>15, <1>16, <1>17, <1>18 DEF WireInv

\* handleWrite writes a part of the front.
LEMMA WireOfPartialWrite ==
  ASSUME OutTypeOK, OutTypeOK', OutcomeInv, WireInv, outputBufferList_ # <<>>,
         NEW m \in Msgs, NEW left, outputBufferList_[1] = <<m, left>>,
         NEW n \in 1..left - 1, Written(m, n),
         outputBufferList_' = <<<<m, left - n>>>> \o Tail(outputBufferList_),
         outcome' = outcome, taken' = taken, state_' = state_
  PROVE  WireInv'
<1> DEFINE len == Len(outputBufferList_)
           k == Len(wire)
<1>0. /\ TakenInv /\ OrderInv /\ UnitsInv /\ ResultInv /\ AdjacentInv /\ ListInv
      /\ MsgLen \in Nat \ {0} /\ wire \in Seq(Msgs) /\ outputBufferList_ \in Seq(Buffers)
      /\ Down' <=> Down
  BY ConnectionConstants DEF WireInv, OutTypeOK, Down, OutcomeInv
<1>1. /\ len \in Nat /\ 1 \in DOMAIN outputBufferList_ /\ DOMAIN outputBufferList_ = 1..len
      /\ \A j \in DOMAIN outputBufferList_ : outputBufferList_[j] \in Buffers
  BY <1>0
<1>2. left \in 1..MsgLen /\ n \in Nat /\ n > 0 /\ left - n \in 1..MsgLen /\ left - n < MsgLen
  <2>1. left \in 1..MsgLen
    BY <1>1 DEF Buffers
  <2> QED BY <1>0, <2>1
<1>3. \A j \in DOMAIN outputBufferList_ :
         outputBufferList_[j][1] \in Msgs /\ outputBufferList_[j][2] \in 1..MsgLen
  BY <1>1 DEF Buffers
<1>4. /\ DOMAIN outputBufferList_' = DOMAIN outputBufferList_
      /\ outputBufferList_'[1] = <<m, left - n>>
      /\ \A j \in DOMAIN outputBufferList_ : j # 1 => outputBufferList_'[j] = outputBufferList_[j]
  <2>1. /\ Tail(outputBufferList_) \in Seq(Buffers)
        /\ Len(Tail(outputBufferList_)) = len - 1
        /\ \A j \in 1..len - 1 : Tail(outputBufferList_)[j] = outputBufferList_[j + 1]
    BY <1>0
  <2>2. <<<<m, left - n>>>> \in Seq(Buffers)
    BY <1>2 DEF Buffers
  <2> QED BY <1>1, <2>1, <2>2
<1>5. /\ wire' \in Seq(Msgs) /\ k \in Nat /\ Len(wire') = k + n
      /\ \A j \in 1..k : wire'[j] = wire[j]
      /\ \A j \in k + 1..k + n : wire'[j] = m
      /\ \A x \in Msgs : Units(x)' = IF x = m THEN Units(x) + n ELSE Units(x)
  BY <1>0, <1>2, WireGrows
<1>6. DOMAIN wire = 1..k /\ DOMAIN wire' = 1..k + n
  BY <1>0, <1>2, <1>5
<1>7. wire' # <<>> /\ Last' = m
  <2>1. wire' # <<>> /\ wire'[k + n] = m
    BY <1>2, <1>5, <1>6
  <2> QED BY <1>5, <2>1 DEF Last
<1>8. \A j \in DOMAIN outputBufferList_ : outputBufferList_'[j][1] = outputBufferList_[j][1]
  BY <1>4
<1>9. Unsent' = Unsent
  <2>1. \A x : x \in Unsent <=> \E j \in DOMAIN outputBufferList_ : x = outputBufferList_[j][1]
    BY DEF Unsent
  <2>2. \A x : x \in Unsent' <=> \E j \in DOMAIN outputBufferList_' : x = outputBufferList_'[j][1]
    BY DEF Unsent
  <2>3. ASSUME NEW x PROVE x \in Unsent' <=> x \in Unsent
    <3>1. ASSUME x \in Unsent PROVE x \in Unsent'
      <4>1. PICK j \in DOMAIN outputBufferList_ : x = outputBufferList_[j][1]
        BY <2>1, <3>1
      <4> QED BY <1>4, <1>8, <2>2, <4>1
    <3>2. ASSUME x \in Unsent' PROVE x \in Unsent
      <4>1. PICK j \in DOMAIN outputBufferList_' : x = outputBufferList_'[j][1]
        BY <2>2, <3>2
      <4> QED BY <1>4, <1>8, <2>1, <4>1
    <3> QED BY <3>1, <3>2
  <2> QED BY <2>3
<1>10. Units(m) = MsgLen - left /\ Taken(m) /\ outputBufferList_[1][1] = m
  BY <1>0, <1>1 DEF UnitsInv, TakenInv
<1> HIDE DEF len, k
<1>11. TakenInv'
  <2>1. \A j \in DOMAIN outputBufferList_' : Taken(outputBufferList_[j][1])'
    <3>1. ASSUME NEW j \in DOMAIN outputBufferList_' PROVE Taken(outputBufferList_'[j][1])
      BY <1>0, <1>4, <1>8, <3>1 DEF TakenInv
    <3> QED BY <3>1 DEF Taken
  <2>2. \A j \in DOMAIN wire' : Taken(wire[j])'
    <3>1. ASSUME NEW j \in DOMAIN wire' PROVE Taken(wire'[j])
      <4>1. CASE j \in 1..k
        BY <1>0, <1>5, <1>6, <4>1 DEF TakenInv
      <4>2. CASE j \in k + 1..k + n
        BY <1>5, <1>10, <4>2
      <4> QED BY <1>2, <1>5, <1>6, <4>1, <4>2
    <3> QED BY <3>1 DEF Taken
  <2> QED BY <1>0, <1>9, <2>1, <2>2 DEF TakenInv, Taken
<1>12. OrderInv'
  <2>1. ASSUME NEW p \in DOMAIN outputBufferList_', NEW q \in DOMAIN outputBufferList_', p < q
        PROVE  (Before(outputBufferList_[p][1], outputBufferList_[q][1]))'
    <3>1. Before(outputBufferList_'[p][1], outputBufferList_'[q][1])
      BY <1>0, <1>4, <1>8, <2>1 DEF OrderInv
    <3> QED BY <3>1 DEF Before
  <2>2. ASSUME NEW j \in DOMAIN outputBufferList_', outputBufferList_'[j][1] # Last'
        PROVE  (Before(Last, outputBufferList_[j][1]))'
    <3>1. 1 < j
      BY <1>1, <1>4, <1>7, <1>8, <1>10, <2>2
    <3>2. Before(m, outputBufferList_'[j][1])
      BY <1>0, <1>1, <1>4, <1>8, <1>10, <3>1 DEF OrderInv
    <3> QED BY <1>7, <3>2 DEF Before
  <2> QED BY <2>1, <2>2 DEF OrderInv
<1>13. UnitsInv'
  <2> SUFFICES ASSUME NEW j \in DOMAIN outputBufferList_'
               PROVE  /\ (Units(outputBufferList_[j][1]))' = MsgLen - outputBufferList_'[j][2]
                      /\ outputBufferList_'[j][2] < MsgLen =>
                            j = 1 /\ wire' # <<>> /\ Last' = outputBufferList_'[1][1]
    BY DEF UnitsInv
  <2>1. PICK x \in Msgs : x = outputBufferList_'[j][1] /\ x = outputBufferList_[j][1]
    BY <1>3, <1>4, <1>8
  <2>2. Units(x)' = MsgLen - outputBufferList_'[j][2]
    <3>1. CASE j = 1
      <4>1. x = m /\ outputBufferList_'[j][2] = left - n
        BY <1>4, <2>1, <3>1
      <4>2. Units(x)' = MsgLen - left + n
        BY <1>5, <1>10, <4>1
      <4>3. MsgLen - left + n = MsgLen - (left - n)
        BY <1>0, <1>2
      <4> QED BY <4>1, <4>2, <4>3
    <3>2. CASE j # 1
      <4>1. x # m
        BY <1>0, <1>1, <1>4, <1>10, <2>1, <3>2 DEF ListInv
      <4> QED BY <1>0, <1>4, <1>5, <2>1, <3>2, <4>1 DEF UnitsInv
    <3> QED BY <3>1, <3>2
  <2>3. (Units(outputBufferList_[j][1]))' = MsgLen - outputBufferList_'[j][2]
    BY <2>1, <2>2 DEF Units
  <2>4. outputBufferList_'[j][2] < MsgLen => j = 1
    BY <1>0, <1>4 DEF UnitsInv
  <2>5. Last' = outputBufferList_'[1][1]
    BY <1>4, <1>7
  <2> QED BY <1>7, <2>3, <2>4, <2>5
<1>14. ResultInv'
  <2> SUFFICES ASSUME NEW x \in Msgs
               PROVE  /\ outcome'[x] \in Final \cup {<<>>, <<"DISCONNECTED">>}
                      /\ outcome'[x] = <<"SUCCESS">> <=> Units(x)' = MsgLen
                      /\ outcome'[x] # <<"DISCONNECTED">> \/ ~(\E j \in DOMAIN wire' : wire'[j] = x)
    BY DEF ResultInv, Final
  <2>1. CASE x = m
    <3>1. m \in Unsent
      BY <1>1, <1>10 DEF Unsent
    <3>2. outcome[m] \in Seq(Codes) /\ ~(Len(outcome[m]) > 0)
      BY <3>1 DEF OutTypeOK, OutcomeInv, PlaceInv
    <3>3. outcome[m] = <<>>
      BY <3>2
    <3>4. <<>> # <<"SUCCESS">> /\ <<>> # <<"DISCONNECTED">>
      OBVIOUS
    <3>5. Units(x)' # MsgLen
      BY <1>0, <1>2, <1>5, <1>10, <2>1
    <3> QED BY <2>1, <3>3, <3>4, <3>5
  <2>2. CASE x # m
    <3>1. Units(x)' = Units(x)
      BY <1>5, <2>2
    <3>2. (\E j \in DOMAIN wire' : wire'[j] = x) => (\E j \in DOMAIN wire : wire[j] = x)
      BY <1>5, <1>6, <2>2
    <3> QED BY <1>0, <3>1, <3>2 DEF ResultInv
  <2> QED BY <2>1, <2>2
<1>15. AdjacentInv'
  <2>1. /\ \A a, b \in Msgs : Before(a, b) => Before(a, b)'
        /\ \A x \in Msgs : outcome[x] \in Final => outcome'[x] = outcome[x]
    BY TakenSame
  <2>2. ASSUME NEW w \in Msgs, n > 0, wire # <<>>, Last = w, w # m
        PROVE  Before(w, m)' /\ outcome'[w] \in Final
    <3>1. Before(w, m)
      BY <1>0, <1>1, <1>10, <2>2 DEF OrderInv
    <3>2. k \in 1..k /\ wire[k] = w
      BY <1>0, <1>5, <2>2 DEF k, Last
    <3>3. w \notin Unsent
      <4> SUFFICES ASSUME w \in Unsent PROVE FALSE
        OBVIOUS
      <4>1. PICK j \in DOMAIN outputBufferList_ : outputBufferList_[j][1] = w
        BY DEF Unsent
      <4>2. j # 1
        BY <1>10, <2>2, <4>1
      <4>3. Units(w) \in Nat /\ Units(w) # 0
        BY <1>0, <1>6, <3>2, UnitsType
      <4>4. outputBufferList_[j][2] \in 1..MsgLen /\ Units(w) = MsgLen - outputBufferList_[j][2]
        BY <1>0, <1>3, <4>1 DEF UnitsInv
      <4>5. outputBufferList_[j][2] < MsgLen
        BY <1>0, <4>3, <4>4
      <4> QED BY <1>0, <4>2, <4>5 DEF UnitsInv
    <3>4. outcome[w] \in Final
      BY <2>2, <3>3, LastIsFinal
    <3> QED BY <2>1, <2>2, <3>1, <3>4
  <2> QED BY <1>0, <1>2, <2>1, <2>2, AdjacentGrows
<1> QED BY <1>11, <1>12, <1>13, <1>14, <1>15 DEF WireInv

\* A close fails what is in the list.
LEMMA WireOfClose ==
  ASSUME OutTypeOK, OutcomeInv, WireInv, FailAllUnsent
  PROVE  WireInv'
<1>0. /\ TakenInv /\ OrderInv /\ UnitsInv /\ ResultInv /\ AdjacentInv /\ PlaceInv
      /\ MsgLen \in Nat \ {0} /\ outputBufferList_ \in Seq(Buffers)
  BY ConnectionConstants DEF WireInv, OutTypeOK, OutcomeInv
<1>1. /\ outputBufferList_' = <<>> /\ UNCHANGED <<wire, taken>> /\ Down'
      /\ ReportAll(Unsent, "DISCONNECTED")
  BY DEF FailAllUnsent, Down
<1>2. Unsent' = {} /\ Unsent \subseteq Msgs
  <2>1. \A j \in DOMAIN outputBufferList_ : outputBufferList_[j] \in Buffers
    BY <1>0
  <2>2. \A j \in DOMAIN outputBufferList_ : outputBufferList_[j][1] \in Msgs
    BY <2>1 DEF Buffers
  <2>3. Unsent \subseteq Msgs
    BY <2>2 DEF Unsent
  <2>4. \A x : x \notin Unsent'
    BY <1>1 DEF Unsent
  <2> QED BY <2>3, <2>4
<1>3. ASSUME NEW x \in Unsent
      PROVE  outcome[x] = <<>> /\ outcome'[x] = <<"DISCONNECTED">> /\ Units(x) # MsgLen
  <2>1. x \in Msgs /\ outcome[x] \in Seq(Codes) /\ ~(Len(outcome[x]) > 0)
    BY <1>0, <1>2 DEF OutTypeOK, PlaceInv
  <2>2. outcome[x] = <<>>
    BY <2>1
  <2>3. outcome'[x] = Append(outcome[x], "DISCONNECTED")
    BY <1>1, <2>1 DEF ReportAll
  <2>4. PICK j \in DOMAIN outputBufferList_ : outputBufferList_[j][1] = x
    BY DEF Unsent
  <2>5. outputBufferList_[j][2] \in 1..MsgLen
    BY <1>0 DEF Buffers
  <2>6. Units(x) = MsgLen - outputBufferList_[j][2]
    BY <1>0, <2>4 DEF UnitsInv
  <2> QED BY <1>0, <2>2, <2>3, <2>5, <2>6
<1>4. \A x \in Msgs \ Unsent : outcome'[x] = outcome[x]
  BY <1>1 DEF ReportAll
<1>5. TakenInv'
  <2>1. \A x \in Unsent : Len(outcome'[x]) > 0
    BY <1>3
  <2>2. \A x \in Msgs : Taken(x)' => Len(outcome'[x]) > 0
    BY <1>0, <1>1, <1>4, <2>1 DEF TakenInv, Taken
  <2>3. \A i \in DOMAIN wire' : Taken(wire[i])'
    BY <1>0, <1>1 DEF TakenInv, Taken
  <2> QED BY <1>1, <2>2, <2>3 DEF TakenInv
<1>6. OrderInv' /\ UnitsInv'
  BY <1>1 DEF OrderInv, UnitsInv
<1>7. ResultInv'
  <2> SUFFICES ASSUME NEW x \in Msgs
               PROVE  /\ outcome'[x] \in Final \cup {<<>>, <<"DISCONNECTED">>}
                      /\ outcome'[x] = <<"SUCCESS">> <=> Units(x)' = MsgLen
    BY <1>1 DEF ResultInv, Final
  <2>1. Units(x)' = Units(x)
    BY <1>1 DEF Units
  <2>2. CASE x \in Unsent
    <3>1. <<"SUCCESS">> # <<"DISCONNECTED">>
      OBVIOUS
    <3> QED BY <1>3, <2>1, <2>2, <3>1
  <2>3. CASE x \notin Unsent
    BY <1>0, <1>4, <2>1, <2>3 DEF ResultInv
  <2> QED BY <2>2, <2>3
<1>8. AdjacentInv'
  <2> SUFFICES ASSUME NEW i \in 1..Len(wire) - 1, wire[i] # wire[i + 1]
               PROVE  (Before(wire[i], wire[i + 1]))' /\ outcome'[wire[i]] \in Final
    BY <1>1 DEF AdjacentInv
  <2>1. Before(wire[i], wire[i + 1]) /\ outcome[wire[i]] \in Final
    BY <1>0 DEF AdjacentInv
  <2>2. wire[i] \in Msgs
    BY DEF OutTypeOK
  <2>3. wire[i] \notin Unsent
    BY <1>3, <2>1 DEF Final
  <2> QED BY <1>1, <1>4, <2>1, <2>2, <2>3 DEF Before
<1> QED BY <1>5, <1>6, <1>7, <1>8 DEF WireInv

\* handleWrite, for the three results of write().
LEMMA WireOfHandleWrite ==
  ASSUME OutTypeOK, OutTypeOK', OutcomeInv, WireInv, HandleWrite
  PROVE  WireInv'
<1>1. /\ outputBufferList_ \in Seq(Buffers) /\ outputBufferList_ # <<>>
      /\ outputBufferList_' \in Seq(Buffers) /\ wire \in Seq(Msgs)
      /\ UNCHANGED <<state_, taken>>
  BY DEF HandleWrite, OutTypeOK
<1>2. /\ Head(outputBufferList_) = outputBufferList_[1] /\ 1 \in DOMAIN outputBufferList_
      /\ outputBufferList_[1] \in Buffers
  BY <1>1
<1>3. PICK m \in Msgs, left \in 1..MsgLen : outputBufferList_[1] = <<m, left>>
  BY <1>2 DEF Buffers
<1>4. outputBufferList_[1][1] = m /\ outputBufferList_[1][2] = left /\ left \in Nat /\ left > 0
  BY <1>3, ConnectionConstants
<1>5. \/ \E n \in PartialWrites(left) :
            /\ Written(m, n)
            /\ outputBufferList_' = <<<<m, left - n>>>> \o Tail(outputBufferList_)
            /\ outcome' = outcome
      \/ Written(m, left) /\ outputBufferList_' = Tail(outputBufferList_) /\ Report(m, "SUCCESS")
      \/ outputBufferList_' = Tail(outputBufferList_) /\ Report(m, "WRITEERR") /\ wire' = wire
  BY <1>2, <1>4 DEF HandleWrite
<1>6. ASSUME NEW n \in PartialWrites(left), Written(m, n), outcome' = outcome,
             outputBufferList_' = <<<<m, left - n>>>> \o Tail(outputBufferList_)
      PROVE  WireInv'
  BY <1>1, <1>3, <1>6, WireOfPartialWrite DEF PartialWrites
<1>7. ASSUME outputBufferList_' = Tail(outputBufferList_)
      PROVE  /\ Len(outputBufferList_') = Len(outputBufferList_) - 1
             /\ \A k \in 1..Len(outputBufferList_) - 1 :
                   outputBufferList_'[k] = IF k < 1 THEN outputBufferList_[k] ELSE outputBufferList_[k + 1]
  BY <1>1, <1>7
<1>8. CASE Written(m, left) /\ outputBufferList_' = Tail(outputBufferList_) /\ Report(m, "SUCCESS")
  BY <1>1, <1>2, <1>4, <1>7, <1>8, WireOfDrop
<1>9. CASE outputBufferList_' = Tail(outputBufferList_) /\ Report(m, "WRITEERR") /\ wire' = wire
  <2>1. Written(m, 0) /\ 0 \in Nat /\ ~(0 > 0)
    BY <1>1, <1>9, NothingWritten
  <2> QED BY <1>1, <1>2, <1>4, <1>7, <1>9, <2>1, WireOfDrop
<1> QED BY <1>5, <1>6, <1>8, <1>9

\* sendTimeoutCallBack
LEMMA WireOfTimeout ==
  ASSUME OutTypeOK, OutTypeOK', OutcomeInv, WireInv, NEW m \in Msgs, SendTimeoutCallBack(m),
         state_' = state_
  PROVE  WireInv'
<1>1. PICK i \in DOMAIN outputBufferList_ :
            /\ outputBufferList_[i][1] = m
            /\ outputBufferList_' = Without(outputBufferList_, i)
  BY DEF SendTimeoutCallBack
<1>2. /\ Len(outputBufferList_') = Len(outputBufferList_) - 1
      /\ \A k \in 1..Len(outputBufferList_) - 1 :
            outputBufferList_'[k] = IF k < i THEN outputBufferList_[k] ELSE outputBufferList_[k + 1]
  BY <1>1, WithoutFacts DEF OutTypeOK
<1>3. Report(m, "TIMEOUT") /\ UNCHANGED <<wire, taken>>
  BY DEF SendTimeoutCallBack
<1>4. Written(m, 0) /\ 0 \in Nat /\ ~(0 > 0)
  BY <1>3, NothingWritten DEF OutTypeOK
<1> QED BY <1>1, <1>2, <1>3, <1>4, WireOfDrop

LEMMA WireStep ==
  ASSUME IInv, OutTypeOK', OutcomeInv, WireInv, Next
  PROVE  WireInv'
<1>0. OutTypeOK /\ RestTypeOK /\ UnsentDataIsWritten /\ SendInv /\ PhaseInv /\ functors \in Seq(Functor)
  BY DEF IInv, RestTypeOK
<1>1. QueueInv /\ ListInv /\ PlaceInv
  BY DEF OutcomeInv
<1>2. Down => Down'
  <2>1. CASE StateFalls
    BY <2>1 DEF StateFalls, Down
  <2>2. CASE functors # <<>> /\ Head(functors).op = "connectEstablished"
    <3>1. Head(functors) = functors[1] /\ 1 \in DOMAIN functors
      BY <1>0, <2>2, FunctorsType
    <3>2. state_ = "kConnecting"
      BY <1>0, <2>2, <3>1 DEF PhaseInv
    <3> QED BY <3>2 DEF Down
  <2> QED BY <1>0, <2>1, <2>2, StateStep
<1>3. ASSUME UNCHANGED <<outputBufferList_, wire, taken, outcome>> PROVE WireInv'
  BY <1>2, <1>3, WireSame
<1>4. CASE HandleWrite
  BY <1>0, <1>4, WireOfHandleWrite
<1>5. CASE RunFunctor
  <2> DEFINE f == Head(functors)
  <2>1. functors # <<>> /\ functors' = Tail(functors)
    BY <1>5 DEF RunFunctor
  <2>2. f \in Functor /\ f = functors[1] /\ 1 \in DOMAIN functors
    BY <1>0, <2>1, FunctorsType
  <2>3. f.msg \in Msgs => Travels(f.msg)
    BY <1>0, <1>1, <2>1, <2>2, TravelsAfterRun
  <2> HIDE DEF f
  <2>4. CASE f.op = "sendInLoop" /\ SendInLoop(f.msg, f.timeout) /\ state_' = state_
    <3>1. f.msg \in Msgs /\ f.timeout \in BOOLEAN
      BY <1>0, <2>2, <2>4 DEF SendInv, Functor
    <3>2. f.msg \notin Unsent /\ Len(outcome[f.msg]) = 0
      <4>1. Len(outcome[f.msg]) \in Nat
        BY <1>0, <3>1 DEF OutTypeOK
      <4> QED BY <1>1, <2>3, <3>1, <4>1 DEF PlaceInv
    <3> QED BY <1>0, <2>4, <3>1, <3>2, WireOfSend
  <2>5. CASE FailAllUnsent
    BY <1>0, <2>5, WireOfClose
  <2>6. \/ f.op = "sendInLoop" /\ SendInLoop(f.msg, f.timeout) /\ state_' = state_
        \/ FailAllUnsent
        \/ UNCHANGED <<outputBufferList_, wire, taken, outcome>>
    BY <1>5 DEF RunFunctor, HandleClose, ConnectDestroyed, out, ReadOps, f
  <2> QED BY <1>3, <2>4, <2>5, <2>6
<1>6. ASSUME NEW timer \in Timers, RunTimer(timer) PROVE WireInv'
  <2>1. CASE timer \in Msgs /\ SendTimeoutCallBack(timer) /\ state_' = state_
    BY <1>0, <2>1, WireOfTimeout
  <2>2. CASE out' = out
    BY <1>3, <2>2 DEF out
  <2> QED BY <1>6, <2>1, <2>2 DEF RunTimer
<1>7. CASE PeerCloses
  <2>1. FailAllUnsent
    BY <1>7 DEF PeerCloses, HandleClose
  <2> QED BY <1>0, <2>1, WireOfClose
<1>8. ASSUME NEW m \in Msgs, NEW timeout \in Timeouts, LoopSend(m, timeout) PROVE WireInv'
  <2>1. timeout \in BOOLEAN
    BY ConnectionConstants
  <2>2. m \notin Unsent /\ Len(outcome[m]) = 0 /\ state_' = state_
    <3>1. ret[m] = "none" /\ state_' = state_
      BY <1>8 DEF LoopSend
    <3>2. Len(outcome[m]) \in Nat
      BY <1>0 DEF OutTypeOK
    <3> QED BY <1>1, <3>1, <3>2 DEF PlaceInv
  <2>3. CASE SendInLoop(m, timeout)
    BY <1>0, <2>1, <2>2, <2>3, WireOfSend
  <2>4. CASE UNCHANGED <<out, timers, chWriting>>
    BY <1>3, <2>4 DEF out
  <2> QED BY <1>8, <2>3, <2>4 DEF LoopSend
<1> QED
  BY <1>3, <1>4, <1>5, <1>6, <1>7, <1>8
  DEF Next, LoopStep, TimersDone, TimersExpire, RemoveConnectionInLoop, StopInLoop, ForeignSend,
      LoopCall, ForeignCall, ForeignSetState, ForeignHandOver, out

\* The peer receives the messages one after the other in the order sendInLoop
\* took them, however partial writes, time-outs of entries in the middle of the
\* list, write errors and closes cut in; a message is followed by another only
\* when its result has been reported, and it is reported as sent if and only if
\* all of it was written.
THEOREM WireCorrect == Spec => []WireInOrder
<1>1. Init => WireInv
  <2> SUFFICES ASSUME Init PROVE WireInv
    OBVIOUS
  <2>1. /\ outputBufferList_ = <<>> /\ wire = <<>> /\ taken = <<>>
        /\ \A m \in Msgs : outcome[m] = <<>>
    BY DEF Init
  <2>2. wire \in Seq(Msgs) /\ DOMAIN wire = {} /\ DOMAIN taken = {} /\ Len(wire) = 0
    BY <2>1
  <2>3. TakenInv /\ OrderInv /\ UnitsInv /\ AdjacentInv
    BY <2>1, <2>2 DEF TakenInv, OrderInv, UnitsInv, AdjacentInv, Taken
  <2>4. ASSUME NEW m \in Msgs PROVE Units(m) # MsgLen
    BY <2>2, UnitsType, ConnectionConstants
  <2>5. <<>> # <<"SUCCESS">> /\ <<>> # <<"DISCONNECTED">>
    OBVIOUS
  <2>6. ResultInv
    BY <2>1, <2>4, <2>5 DEF ResultInv
  <2> QED BY <2>3, <2>6 DEF WireInv
<1>2. IInv /\ IInv' /\ OutcomeInv /\ WireInv /\ [Next]_vars => WireInv'
  <2>1. ASSUME WireInv, UNCHANGED vars PROVE WireInv'
    <3>1. UNCHANGED <<outputBufferList_, wire, taken, outcome, state_>>
      BY <2>1 DEF vars, out
    <3>2. Down => Down'
      BY <3>1 DEF Down
    <3> QED BY <2>1, <3>1, <3>2, WireSame
  <2>2. IInv' => OutTypeOK'
    BY DEF IInv
  <2> QED BY <2>1, <2>2, WireStep
<1>3. IInv /\ WireInv => WireInOrder
  <2> SUFFICES ASSUME IInv, WireInv PROVE WireInOrder
    OBVIOUS
  <2>1. wire \in Seq(Msgs)
    BY DEF IInv, OutTypeOK
  <2>2. ASSUME NEW i \in 1..Len(wire) - 1, wire[i] # wire[i + 1]
        PROVE  \E j, k \in DOMAIN taken : j < k /\ taken[j] = wire[i] /\ taken[k] = wire[i + 1]
    BY <2>2 DEF WireInv, AdjacentInv, Before
  <2>3. ASSUME NEW m \in Msgs
        PROVE  outcome[m] = <<"SUCCESS">> <=> Cardinality(Indices(wire, m)) = MsgLen
    BY DEF WireInv, ResultInv, Units
  <2>4. ASSUME NEW m \in Msgs, NEW i \in Indices(wire, m), i < Len(wire), wire[i + 1] # m
        PROVE  outcome[m] \in {<<"SUCCESS">>, <<"WRITEERR">>, <<"TIMEOUT">>}
    <3>1. i \in 1..Len(wire) - 1 /\ wire[i] = m
      BY <2>1, <2>4 DEF Indices
    <3> QED BY <2>4, <3>1 DEF WireInv, AdjacentInv, Final
  <2> QED BY <2>2, <2>3, <2>4 DEF WireInOrder
<1> QED BY <1>1, <1>2, <1>3, Invariant, OutcomeInvariant, PTL DEF Spec
=============================================================================
