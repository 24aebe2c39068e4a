----------------------------- MODULE EventLoop ------------------------------
(***************************************************************************)
(* One EventLoop (mwnet_mt/net/EventLoop.cc) and the threads that hand it  *)
(* functors: the hand-over of pendingFunctors_ under mutex_, the wake-up   *)
(* through the eventfd, the batch that doPendingFunctors runs, exceptions  *)
(* thrown by callbacks, and quit().                                        *)
(*                                                                         *)
(* A foreign thread's queueInLoop is two steps, because nothing holds      *)
(* mutex_ across the push and the wakeup().  The body of a callback (a     *)
(* functor, an I/O handler, the destructor of a functor, or what the owner *)
(* does before loop()) is any number of queueInLoop and quit() calls of    *)
(* the loop thread.  Every functor object is queued at most once.          *)
(***************************************************************************)
EXTENDS Naturals, Sequences, FiniteSets, Functions

CONSTANTS Threads,    \* threads other than the loop thread
          Functors,   \* the functor objects
          MaxThrows   \* bound: exceptions thrown by callbacks in a behaviour

ASSUME MaxThrowsAssumption == MaxThrows \in Nat

VARIABLES
    pendingFunctors_,         \* guarded by mutex_
    functors,                 \* what is left of the local batch of doPendingFunctors
    callingPendingFunctors_,
    quit_,
    wakeupFd,                 \* the eventfd is readable (its counter is not 0)
    activeChannels_,          \* channels poll() reported, still to be handled
    currentActiveChannel_,
    pc,                       \* where the loop thread is
    tpc,                      \* where each foreign thread is
    left, lost,               \* history: functors that left, in order; dropped ones
    throws,                   \* history: exceptions so far
    unsignalled               \* history: see NoLostWakeup

loopVars == <<functors, callingPendingFunctors_, activeChannels_,
              currentActiveChannel_, pc>>
history == <<left, lost, throws, unsignalled>>
vars == <<pendingFunctors_, quit_, wakeupFd, tpc, loopVars, history>>

\* "wakeup" is wakeupChannel_; "io" stands for all other channels of the loop.
Channels == {"wakeup", "io"}
None == "none"

PCs == {"created", "test", "polling", "handling", "swapping", "running",
        "freeing", "stopped"}

TypeOK ==
    /\ pendingFunctors_ \in Seq(Functors)
    /\ functors \in Seq(Functors)
    /\ callingPendingFunctors_ \in BOOLEAN
    /\ quit_ \in BOOLEAN
    /\ wakeupFd \in BOOLEAN
    /\ activeChannels_ \subseteq Channels
    /\ currentActiveChannel_ \in Channels \cup {None}
    /\ pc \in PCs
    /\ tpc \in [Threads -> {"idle", "waking"}]
    /\ left \in Seq(Functors)
    /\ lost \subseteq Functors
    /\ throws \in Nat
    /\ unsignalled \in BOOLEAN

Init ==
    /\ pendingFunctors_ = <<>>
    /\ functors = <<>>
    /\ callingPendingFunctors_ = FALSE
    /\ quit_ = FALSE
    /\ wakeupFd = FALSE
    /\ activeChannels_ = {}
    /\ currentActiveChannel_ = None
    /\ pc = "created"
    /\ tpc = [t \in Threads |-> "idle"]
    /\ left = <<>>
    /\ lost = {}
    /\ throws = 0
    /\ unsignalled = FALSE

Unqueued(f) == f \notin Range(left) \cup Range(functors) \cup Range(pendingFunctors_)

\* Mutant of PushBack: the functor is put in front of those that wait.
PushFront(f) == <<f>> \o pendingFunctors_

\* pendingFunctors_.push_back(cb), under mutex_
PushBack(f) == Append(pendingFunctors_, f)

\* Mutant of WakesItself: the loop thread never wakes itself up.
NeverWakesItself == FALSE

\* queueInLoop in the loop thread wakes the loop up only while a batch runs.
WakesItself == callingPendingFunctors_

-----------------------------------------------------------------------------
(* Foreign threads.                                                        *)

\* queueInLoop, and runInLoop of a thread that is not the loop thread: the
\* push under mutex_.  The wakeup() that follows is Wakeup(t).
QueueInLoop(t, f) ==
    /\ tpc[t] = "idle"
    /\ Unqueued(f)
    /\ pendingFunctors_' = PushBack(f)
    /\ tpc' = [tpc EXCEPT ![t] = "waking"]
    /\ UNCHANGED <<quit_, wakeupFd, loopVars, history>>

\* quit() of a foreign thread; Wakeup(t) follows here too.
Quit(t) ==
    /\ tpc[t] = "idle"
    /\ quit_' = TRUE
    /\ tpc' = [tpc EXCEPT ![t] = "waking"]
    /\ UNCHANGED <<pendingFunctors_, wakeupFd, loopVars, history>>

\* wakeup(): the eventfd write that ends queueInLoop and quit().
Wakeup(t) ==
    /\ tpc[t] = "waking"
    /\ wakeupFd' = TRUE
    /\ tpc' = [tpc EXCEPT ![t] = "idle"]
    /\ UNCHANGED <<pendingFunctors_, quit_, loopVars, history>>

-----------------------------------------------------------------------------
(* The loop thread.                                                        *)

\* loop(): quit_ is reset, whoever set it before.
StartLoop ==
    /\ pc = "created"
    /\ quit_' = FALSE
    /\ pc' = "test"
    /\ UNCHANGED <<pendingFunctors_, functors, callingPendingFunctors_, wakeupFd,
                   activeChannels_, currentActiveChannel_, tpc, history>>

\* Mutant of TestQuit: while (true).
TestNothing ==
    /\ pc = "test"
    /\ pc' = "polling"
    /\ UNCHANGED <<pendingFunctors_, functors, callingPendingFunctors_, quit_, wakeupFd,
                   activeChannels_, currentActiveChannel_, tpc, history>>

\* while (!quit_)
TestQuit ==
    /\ pc = "test"
    /\ pc' = IF quit_ THEN "stopped" ELSE "polling"
    /\ UNCHANGED <<pendingFunctors_, functors, callingPendingFunctors_, quit_, wakeupFd,
                   activeChannels_, currentActiveChannel_, tpc, history>>

\* epoll_wait returns the channels that are ready, at least one; io is {"io"}
\* when there is input or output besides the wake-up.
Poll(io) ==
    /\ pc = "polling"
    /\ LET ready == io \cup {ch \in {"wakeup"} : wakeupFd}
       IN  /\ ready # {}
           /\ activeChannels_' = ready
    /\ pc' = "handling"
    /\ UNCHANGED <<pendingFunctors_, functors, callingPendingFunctors_, quit_, wakeupFd,
                   currentActiveChannel_, tpc, history>>

\* Mutant of PollTimeout: poll() with no timeout.
PollForever == pc = "polling" /\ FALSE /\ UNCHANGED vars

\* epoll_wait returns nothing after kPollTimeMs, or is interrupted.
PollTimeout ==
    /\ pc = "polling"
    /\ activeChannels_' = {}
    /\ pc' = "handling"
    /\ UNCHANGED <<pendingFunctors_, functors, callingPendingFunctors_, quit_, wakeupFd,
                   currentActiveChannel_, tpc, history>>

\* The wakeup channel's callback, handleRead: the read resets the counter.
HandleRead ==
    /\ pc = "handling"
    /\ currentActiveChannel_ # "io"
    /\ "wakeup" \in activeChannels_
    /\ activeChannels_' = activeChannels_ \ {"wakeup"}
    /\ currentActiveChannel_' = "wakeup"
    /\ wakeupFd' = FALSE
    /\ UNCHANGED <<pendingFunctors_, functors, callingPendingFunctors_, quit_, pc,
                   tpc, history>>

\* handleEvent of any other channel is entered; CallbackQueue and CallbackQuit
\* are what its callback does, HandlerReturn and HandlerThrow how it ends.
HandleEvent ==
    /\ pc = "handling"
    /\ currentActiveChannel_ # "io"
    /\ "io" \in activeChannels_
    /\ activeChannels_' = activeChannels_ \ {"io"}
    /\ currentActiveChannel_' = "io"
    /\ UNCHANGED <<pendingFunctors_, functors, callingPendingFunctors_, quit_, wakeupFd,
                   pc, tpc, history>>

HandlerReturn ==
    /\ pc = "handling"
    /\ currentActiveChannel_ = "io"
    /\ currentActiveChannel_' = None
    /\ UNCHANGED <<pendingFunctors_, functors, callingPendingFunctors_, quit_, wakeupFd,
                   activeChannels_, pc, tpc, history>>

\* An exception leaves the iteration: the channels that are left and
\* doPendingFunctors are skipped.  currentActiveChannel_ stays where it was,
\* and is overwritten before anything reads it.
HandlerThrow ==
    /\ pc = "handling"
    /\ currentActiveChannel_ = "io"
    /\ throws < MaxThrows
    /\ throws' = throws + 1
    /\ unsignalled' = TRUE
    /\ activeChannels_' = {}
    /\ currentActiveChannel_' = None
    /\ pc' = "test"
    /\ UNCHANGED <<pendingFunctors_, functors, callingPendingFunctors_, quit_, wakeupFd,
                   tpc, left, lost>>

\* All channels are handled; doPendingFunctors begins.
BeginPending ==
    /\ pc = "handling"
    /\ activeChannels_ = {}
    /\ currentActiveChannel_ # "io"
    /\ currentActiveChannel_' = None
    /\ callingPendingFunctors_' = TRUE
    /\ pc' = "swapping"
    /\ UNCHANGED <<pendingFunctors_, functors, quit_, wakeupFd, activeChannels_, tpc,
                   history>>

\* functors.swap(pendingFunctors_), under mutex_.
SwapPending ==
    /\ pc = "swapping"
    /\ functors' = pendingFunctors_
    /\ pendingFunctors_' = <<>>
    /\ unsignalled' = FALSE
    /\ pc' = "running"
    /\ UNCHANGED <<callingPendingFunctors_, quit_, wakeupFd, activeChannels_,
                   currentActiveChannel_, tpc, left, lost, throws>>

\* functors[i]() returns.
RunFunctor ==
    /\ pc = "running"
    /\ functors # <<>>
    /\ left' = Append(left, Head(functors))
    /\ functors' = Tail(functors)
    /\ UNCHANGED <<pendingFunctors_, callingPendingFunctors_, quit_, wakeupFd,
                   activeChannels_, currentActiveChannel_, pc, tpc, lost, throws,
                   unsignalled>>

\* functors[i]() throws: the rest of the batch is destroyed unexecuted and
\* callingPendingFunctors_ stays TRUE until the next batch ends.
FunctorThrow ==
    /\ pc = "running"
    /\ functors # <<>>
    /\ throws < MaxThrows
    /\ throws' = throws + 1
    /\ left' = left \o functors
    /\ lost' = lost \cup Range(Tail(functors))
    /\ functors' = <<>>
    /\ pc' = "freeing"
    /\ UNCHANGED <<pendingFunctors_, callingPendingFunctors_, quit_, wakeupFd,
                   activeChannels_, currentActiveChannel_, tpc, unsignalled>>

\* The batch is done.
EndPending ==
    /\ pc = "running"
    /\ functors = <<>>
    /\ callingPendingFunctors_' = FALSE
    /\ pc' = "freeing"
    /\ UNCHANGED <<pendingFunctors_, functors, quit_, wakeupFd, activeChannels_,
                   currentActiveChannel_, tpc, history>>

\* The local vector of functors, and all they bind, is destroyed.
FreeFunctors ==
    /\ pc = "freeing"
    /\ pc' = "test"
    /\ UNCHANGED <<pendingFunctors_, functors, callingPendingFunctors_, quit_, wakeupFd,
                   activeChannels_, currentActiveChannel_, tpc, history>>

\* The loop thread is in code of its user: before loop(), in an I/O handler, in
\* a functor, in the destructor of one.
InCallback ==
    \/ pc = "created"
    \/ pc = "handling" /\ currentActiveChannel_ = "io"
    \/ pc = "running" /\ functors # <<>>
    \/ pc = "freeing"

\* queueInLoop in the loop thread.  Push and write need no interleaving: no
\* other thread reads the eventfd or takes functors.
CallbackQueue(f) ==
    /\ InCallback
    /\ Unqueued(f)
    /\ pendingFunctors_' = PushBack(f)
    /\ wakeupFd' = (wakeupFd \/ WakesItself)
    /\ unsignalled' = (unsignalled \/ (pc \in {"created", "freeing"}
                                       /\ ~callingPendingFunctors_))
    /\ UNCHANGED <<quit_, tpc, loopVars, left, lost, throws>>

\* quit() in the loop thread.
CallbackQuit ==
    /\ InCallback
    /\ quit_' = TRUE
    /\ UNCHANGED <<pendingFunctors_, wakeupFd, tpc, loopVars, history>>

LoopStep ==
    \/ StartLoop \/ TestQuit \/ Poll({}) \/ PollTimeout
    \/ HandleRead \/ HandleEvent \/ HandlerReturn \/ HandlerThrow
    \/ BeginPending \/ SwapPending \/ RunFunctor \/ FunctorThrow \/ EndPending
    \/ FreeFunctors
    \/ \E f \in Functors : CallbackQueue(f)
    \/ CallbackQuit

Next ==
    \/ LoopStep
    \/ Poll({"io"})
    \/ \E t \in Threads : \/ \E f \in Functors : QueueInLoop(t, f)
                          \/ Quit(t)
                          \/ Wakeup(t)

\* The loop thread keeps running (epoll_wait returns within kPollTimeMs, and
\* callbacks return or throw), and so does a thread inside queueInLoop or quit().
\* Nothing makes a peer send: Poll({"io"}) need not happen.
Fairness ==
    /\ WF_vars(LoopStep)
    /\ \A t \in Threads : WF_vars(Wakeup(t))

Spec == Init /\ [][Next]_vars
FairSpec == Spec /\ Fairness

-----------------------------------------------------------------------------
(* Properties.                                                             *)

Signalled == wakeupFd \/ \E t \in Threads : tpc[t] = "waking"

\* A loop that is about to sleep in poll() while functors wait will be woken:
\* its eventfd is readable, or the thread that pushed is on its way to write
\* it.  The only exceptions, recorded in unsignalled, are an I/O handler that
\* threw after the eventfd was read, and a functor the loop thread queued
\* itself where callingPendingFunctors_ is FALSE and no doPendingFunctors
\* follows: before loop(), and in the destructor of a functor of the batch.
\* Those wait for the poll timeout.
NoLostWakeup ==
    pc = "polling" /\ pendingFunctors_ # <<>> => Signalled \/ unsignalled

\* NoLostWakeup holds at every step where the loop thread may still go to
\* sleep before it swaps pendingFunctors_ out; in a batch that runs,
\* callingPendingFunctors_ makes the loop thread signal itself.
WakeupInv ==
    /\ pc \in {"created", "test", "polling", "running", "freeing"}
          /\ pendingFunctors_ # <<>> => Signalled \/ unsignalled
    /\ pc \in {"swapping", "running"} => callingPendingFunctors_

\* Outside doPendingFunctors there is no batch.
BatchInv == pc # "running" => functors = <<>>

Abstract == INSTANCE FunctorQueue WITH queue <- functors \o pendingFunctors_

\* Functors leave the loop in the order they were queued, each at most once,
\* and are dropped only behind one that throws: the batch swapped out by
\* doPendingFunctors followed by pendingFunctors_ is one FIFO queue.
ImplementsFunctorQueue == Abstract!FSpec

\* A functor that is queued leaves the queue (it runs, or is dropped behind
\* one that throws) unless the loop has been told to quit and stopped, even when
\* its wake-up was lost: poll() never sleeps longer than kPollTimeMs.
QueuedFunctorRuns ==
    \A f \in Functors :
        f \in Range(pendingFunctors_) ~> f \in Range(left) \/ pc = "stopped"

\* quit() of a running loop, from whatever thread, stops it.  (One that comes
\* before loop() has begun is overwritten by quit_ = false.)
QuitStopsRunningLoop == quit_ /\ pc # "created" ~> pc = "stopped"
=============================================================================
