-------------------------- MODULE EventLoopProofs ---------------------------
(***************************************************************************)
(* Proofs about EventLoop for every set of threads and functors and every  *)
(* number of exceptions: type correctness, the absence of lost wake-ups,   *)
(* and that the batch and the pending queue implement one FIFO queue.      *)
(***************************************************************************)
EXTENDS EventLoop, SequenceTheorems, TLAPS

\* Every variable keeps its type.
THEOREM TypeCorrect == Spec => []TypeOK
<1>1. Init => TypeOK
  <2> SUFFICES ASSUME Init PROVE TypeOK
    OBVIOUS
  <2>1. /\ callingPendingFunctors_ \in BOOLEAN /\ quit_ \in BOOLEAN
        /\ wakeupFd \in BOOLEAN /\ unsignalled \in BOOLEAN
    BY Zenon DEF Init
  <2>2. tpc \in [Threads -> {"idle", "waking"}]
    BY DEF Init
  <2> QED BY <2>1, <2>2 DEF Init, TypeOK, Channels, None, PCs
<1>2. TypeOK /\ [Next]_vars => TypeOK'
  <2> SUFFICES ASSUME TypeOK, [Next]_vars PROVE TypeOK'
    OBVIOUS
  <2> USE DEF TypeOK, Channels, None, PCs
  <2>1. CASE UNCHANGED vars
    BY <2>1 DEF vars, loopVars, history
  <2>2. ASSUME NEW t \in Threads, NEW f \in Functors, QueueInLoop(t, f) PROVE TypeOK'
    BY <2>2 DEF QueueInLoop, PushBack, loopVars, history
  <2>3. ASSUME NEW t \in Threads, Quit(t) PROVE TypeOK'
    BY <2>3 DEF Quit, loopVars, history
  <2>4. ASSUME NEW t \in Threads, Wakeup(t) PROVE TypeOK'
    BY <2>4 DEF Wakeup, loopVars, history
  <2>5. CASE StartLoop \/ TestQuit \/ Poll({}) \/ Poll({"io"}) \/ PollTimeout
    BY <2>5 DEF StartLoop, TestQuit, Poll, PollTimeout, history
  <2>6. CASE HandleRead \/ HandleEvent \/ HandlerReturn
    BY <2>6 DEF HandleRead, HandleEvent, HandlerReturn, history
  <2>7. CASE HandlerThrow
    <3>1. unsignalled' \in BOOLEAN
      BY <2>7, Zenon DEF HandlerThrow
    <3> QED BY <2>7, <3>1 DEF HandlerThrow
  <2>12. CASE BeginPending \/ EndPending \/ FreeFunctors
    <3>1. callingPendingFunctors_' \in BOOLEAN
      BY <2>12, Zenon DEF BeginPending, EndPending, FreeFunctors
    <3> QED BY <2>12, <3>1 DEF BeginPending, EndPending, FreeFunctors, history
  <2>13. CASE SwapPending
    <3>1. unsignalled' \in BOOLEAN
      BY <2>13, Zenon DEF SwapPending
    <3> QED BY <2>13, <3>1 DEF SwapPending
  <2>8. CASE RunFunctor
    BY <2>8 DEF RunFunctor
  <2>9. CASE FunctorThrow
    <3>1. Tail(functors) \in Seq(Functors)
      BY <2>9 DEF FunctorThrow
    <3>2. Range(Tail(functors)) \subseteq Functors
      BY <3>1 DEF Range
    <3>3. left \o functors \in Seq(Functors)
      OBVIOUS
    <3> QED BY <2>9, <3>2, <3>3 DEF FunctorThrow
  <2>10. ASSUME NEW f \in Functors, CallbackQueue(f) PROVE TypeOK'
    BY <2>10 DEF CallbackQueue, PushBack, WakesItself, loopVars
  <2>11. CASE CallbackQuit
    BY <2>11 DEF CallbackQuit, loopVars, history
  <2> QED
    BY <2>1, <2>2, <2>3, <2>4, <2>5, <2>6, <2>7, <2>8, <2>9, <2>10, <2>11,
       <2>12, <2>13
    DEF Next, LoopStep
<1> QED BY <1>1, <1>2, PTL DEF Spec

-----------------------------------------------------------------------------

LEMMA WakeupInvStep == TypeOK /\ WakeupInv /\ [Next]_vars => WakeupInv'
<1> SUFFICES ASSUME TypeOK, WakeupInv, [Next]_vars PROVE WakeupInv'
  OBVIOUS
<1> USE DEF TypeOK, WakeupInv, Signalled
<1>1. CASE UNCHANGED vars
  BY <1>1 DEF vars, loopVars, history
<1>2. ASSUME NEW t \in Threads, NEW f \in Functors, QueueInLoop(t, f) PROVE WakeupInv'
  <2>1. tpc'[t] = "waking"
    BY <1>2 DEF QueueInLoop
  <2> QED BY <1>2, <2>1 DEF QueueInLoop, PushBack, loopVars, history
<1>3. ASSUME NEW t \in Threads, Quit(t) PROVE WakeupInv'
  <2>1. tpc'[t] = "waking"
    BY <1>3 DEF Quit
  <2> QED BY <1>3, <2>1 DEF Quit, loopVars, history
<1>4. ASSUME NEW t \in Threads, Wakeup(t) PROVE WakeupInv'
  BY <1>4 DEF Wakeup, loopVars, history
<1>5. CASE StartLoop \/ TestQuit \/ Poll({}) \/ Poll({"io"}) \/ PollTimeout
  BY <1>5 DEF StartLoop, TestQuit, Poll, PollTimeout, history
<1>6. CASE HandleRead \/ HandleEvent \/ HandlerReturn
  BY <1>6 DEF HandleRead, HandleEvent, HandlerReturn, history
<1>7. CASE HandlerThrow
  BY <1>7 DEF HandlerThrow
<1>8. CASE BeginPending \/ FreeFunctors \/ EndPending
  BY <1>8 DEF BeginPending, FreeFunctors, EndPending, history
<1>9. CASE SwapPending
  BY <1>9 DEF SwapPending
<1>10. CASE RunFunctor
  BY <1>10 DEF RunFunctor
<1>11. CASE FunctorThrow
  BY <1>11 DEF FunctorThrow
<1>12. ASSUME NEW f \in Functors, CallbackQueue(f) PROVE WakeupInv'
  BY <1>12 DEF CallbackQueue, PushBack, WakesItself, InCallback, loopVars
<1>13. CASE CallbackQuit
  BY <1>13 DEF CallbackQuit, loopVars, history
<1> QED
  BY <1>1, <1>2, <1>3, <1>4, <1>5, <1>6, <1>7, <1>8, <1>9, <1>10, <1>11, <1>12, <1>13
  DEF Next, LoopStep

\* No wake-up is lost: whenever the loop is about to sleep in poll() with
\* functors pending, its eventfd is or will be written, except in the two
\* situations that unsignalled records.
THEOREM WakeupCorrect == Spec => []NoLostWakeup
<1>1. Init => WakeupInv
  BY DEF Init, WakeupInv
<1>2. WakeupInv => NoLostWakeup
  BY DEF WakeupInv, NoLostWakeup
<1> QED BY <1>1, <1>2, TypeCorrect, WakeupInvStep, PTL DEF Spec

-----------------------------------------------------------------------------
(* The refinement of FunctorQueue.                                         *)

LEMMA AppendToConcat ==
  ASSUME NEW S, NEW s \in Seq(S), NEW t \in Seq(S), NEW e \in S
  PROVE  s \o Append(t, e) = Append(s \o t, e)
  BY SMT

LEMMA HeadTailOfConcat ==
  ASSUME NEW S, NEW s \in Seq(S), NEW t \in Seq(S), s # <<>>
  PROVE  /\ s \o t # <<>>
         /\ Head(s \o t) = Head(s)
         /\ Tail(s \o t) = Tail(s) \o t
  BY SMT

LEMMA RangeOfConcat ==
  ASSUME NEW S, NEW s \in Seq(S), NEW t \in Seq(S)
  PROVE  Range(s \o t) = Range(s) \cup Range(t)
  <1>1. s \o t \in Seq(S) /\ Len(s \o t) = Len(s) + Len(t)
    BY SMT
  <1>2. ASSUME NEW i \in DOMAIN (s \o t)
        PROVE  (s \o t)[i] \in Range(s) \cup Range(t)
    BY <1>1, SMT DEF Range
  <1>3. ASSUME NEW i \in DOMAIN s PROVE s[i] \in Range(s \o t)
    <2>1. i \in DOMAIN (s \o t) /\ (s \o t)[i] = s[i]
      BY SMT
    <2> QED BY <2>1 DEF Range
  <1>4. ASSUME NEW i \in DOMAIN t PROVE t[i] \in Range(s \o t)
    <2>1. i + Len(s) \in DOMAIN (s \o t) /\ (s \o t)[i + Len(s)] = t[i]
      BY SMT
    <2> QED BY <2>1 DEF Range
  <1> QED BY <1>2, <1>3, <1>4, Zenon DEF Range

LEMMA SubSeqsOfConcat ==
  ASSUME NEW S, NEW s \in Seq(S), NEW t \in Seq(S), s # <<>>
  PROVE  /\ Len(s) \in 1..Len(s \o t)
         /\ SubSeq(s \o t, 1, Len(s)) = s
         /\ SubSeq(s \o t, 2, Len(s)) = Tail(s)
         /\ SubSeq(s \o t, Len(s) + 1, Len(s \o t)) = t
  BY SMT

LEMMA BatchInvariant == Spec => []BatchInv
<1>1. Init => BatchInv
  BY DEF Init, BatchInv
<1>2. BatchInv /\ [Next]_vars => BatchInv'
  BY DEF BatchInv, Next, LoopStep, QueueInLoop, Quit, Wakeup, StartLoop, TestQuit, Poll,
         PollTimeout, HandleRead, HandleEvent, HandlerReturn, HandlerThrow, BeginPending,
         SwapPending, RunFunctor, FunctorThrow, EndPending, FreeFunctors, CallbackQueue,
         CallbackQuit, vars, loopVars, history
<1> QED BY <1>1, <1>2, PTL DEF Spec

LEMMA SubmitStep ==
  ASSUME TypeOK, NEW f \in Functors, Unqueued(f),
         pendingFunctors_' = Append(pendingFunctors_, f),
         UNCHANGED <<functors, left, lost>>
  PROVE  Abstract!Submit(f)
<1>1. f \notin Range(left) \cup Range(functors \o pendingFunctors_)
  BY RangeOfConcat DEF TypeOK, Unqueued
<1>2. (functors \o pendingFunctors_)' = Append(functors \o pendingFunctors_, f)
  BY AppendToConcat DEF TypeOK
<1> QED BY <1>1, <1>2 DEF Abstract!Submit, Abstract!Range, Range

LEMMA RefinementStep ==
  ASSUME TypeOK, BatchInv, [Next]_vars
  PROVE  [Abstract!FNext]_(Abstract!fvars)
<1> USE DEF TypeOK
<1>1. CASE UNCHANGED vars
  BY <1>1 DEF vars, loopVars, history, Abstract!fvars
<1>2. ASSUME NEW t \in Threads, NEW f \in Functors, QueueInLoop(t, f)
      PROVE  Abstract!FNext
  <2>1. Abstract!Submit(f)
    BY <1>2, SubmitStep DEF QueueInLoop, PushBack, loopVars, history
  <2> QED BY <2>1 DEF Abstract!FNext
<1>3. ASSUME NEW f \in Functors, CallbackQueue(f) PROVE Abstract!FNext
  <2>1. Abstract!Submit(f)
    BY <1>3, SubmitStep DEF CallbackQueue, PushBack, WakesItself, loopVars
  <2> QED BY <2>1 DEF Abstract!FNext
<1>4. CASE SwapPending
  <2>1. functors = <<>>
    BY <1>4 DEF SwapPending, BatchInv
  <2>2. (functors \o pendingFunctors_)' = functors \o pendingFunctors_
    BY <1>4, <2>1, ConcatEmptySeq DEF SwapPending
  <2> QED BY <1>4, <2>2 DEF SwapPending, Abstract!fvars
<1>5. CASE RunFunctor
  <2>1. Abstract!Execute
    BY <1>5, HeadTailOfConcat DEF RunFunctor, Abstract!Execute
  <2> QED BY <2>1 DEF Abstract!FNext
<1>6. CASE FunctorThrow
  <2>1. functors # <<>> /\ (functors \o pendingFunctors_)' = pendingFunctors_
    BY <1>6, ConcatEmptySeq DEF FunctorThrow
  <2>2. Abstract!Abort(Len(functors))
    <3>1. /\ SubSeq(functors \o pendingFunctors_, 1, Len(functors)) = functors
          /\ SubSeq(functors \o pendingFunctors_, 2, Len(functors)) = Tail(functors)
          /\ SubSeq(functors \o pendingFunctors_, Len(functors) + 1,
                    Len(functors \o pendingFunctors_)) = pendingFunctors_
      <4>1. /\ functors \in Seq(Functors) /\ functors # <<>>
            /\ pendingFunctors_ \in Seq(Functors)
        BY <2>1
      <4> HIDE DEF TypeOK
      <4> QED BY ONLY <4>1, SubSeqsOfConcat
    <3> QED BY <1>6, <2>1, <3>1 DEF FunctorThrow, Abstract!Abort, Abstract!Range, Range
  <2>3. Len(functors) \in 1..Len(functors \o pendingFunctors_)
    BY <2>1, SubSeqsOfConcat
  <2> QED BY <2>2, <2>3 DEF Abstract!FNext
<1>7. ASSUME NEW t \in Threads, Quit(t) \/ Wakeup(t) PROVE UNCHANGED Abstract!fvars
  BY <1>7 DEF Quit, Wakeup, loopVars, history, Abstract!fvars
<1>8. CASE \/ StartLoop \/ TestQuit \/ Poll({}) \/ Poll({"io"}) \/ PollTimeout
           \/ HandleRead \/ HandleEvent \/ HandlerReturn \/ HandlerThrow
  BY <1>8 DEF StartLoop, TestQuit, Poll, PollTimeout, HandleRead, HandleEvent,
              HandlerReturn, HandlerThrow, history, Abstract!fvars
<1>9. CASE BeginPending \/ EndPending \/ FreeFunctors \/ CallbackQuit
  BY <1>9 DEF BeginPending, EndPending, FreeFunctors, CallbackQuit, loopVars, history,
              Abstract!fvars
<1> QED
  BY <1>1, <1>2, <1>3, <1>4, <1>5, <1>6, <1>7, <1>8, <1>9 DEF Next, LoopStep

\* The loop is a FIFO executor: batch and pendingFunctors_ together implement
\* FunctorQueue, for any threads, functors and number of exceptions.
THEOREM LoopImplementsFunctorQueue == Spec => ImplementsFunctorQueue
<1>1. Init => Abstract!FInit
  BY ConcatEmptySeq DEF Init, Abstract!FInit
<1> QED
  BY <1>1, TypeCorrect, BatchInvariant, RefinementStep, PTL
  DEF Spec, ImplementsFunctorQueue, Abstract!FSpec
=============================================================================
