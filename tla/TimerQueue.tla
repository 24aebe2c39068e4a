----------------------------- MODULE TimerQueue -----------------------------
(***************************************************************************)
(* The timer queue of one EventLoop (mwnet_mt/net/TimerQueue.cc, Timer.cc, *)
(* and the runAt/runEvery/cancel front of EventLoop.cc): two ordered sets  *)
(* of raw Timer pointers, one timerfd armed for the earliest expiration,   *)
(* and callbacks that add and cancel timers while a batch of expired ones  *)
(* is being called.                                                        *)
(*                                                                         *)
(* Time is counted in units of the smallest delay resetTimerfd arms (100   *)
(* microseconds).  Timer objects live at addresses that the allocator      *)
(* reuses; sequence numbers never repeat.  Operations of other threads     *)
(* reach the loop through the FIFO queue that module EventLoop describes.  *)
(***************************************************************************)
EXTENDS Integers, Sequences, FiniteSets, Functions

CONSTANTS
    Threads,      \* threads other than the loop thread
    Addrs,        \* addresses a Timer can be allocated at
    Intervals,    \* intervals callers ask for; 0 is a one-shot timer
    MaxTime,      \* bound: last instant at which callers add or cancel
    MaxTimers,    \* bound: timers created in a behaviour
    MaxPending,   \* bound: functors waiting in the loop
    MaxThrows     \* bound: timer callbacks that throw

ASSUME TimerConstants ==
    /\ Intervals \subseteq Nat
    /\ MaxTime \in Nat /\ MaxTimers \in Nat /\ MaxPending \in Nat /\ MaxThrows \in Nat

VARIABLES
    now,                    \* the clock
    heap,                   \* the Timer at each address
    numCreated,             \* Timer::s_numCreated_
    timers_,                \* <<expiration, address>>
    activeTimers_,          \* <<address, sequence>>
    cancelingTimers_,       \* <<address, sequence>>
    callingExpiredTimers_,
    timerfd,                \* instant at which it becomes readable, or Disarmed
    timerReady,             \* timerfdChannel_ is in the loop's activeChannels_
    pc,                     \* "idle", or "calling" inside handleRead
    expired, toRun,         \* handleRead's batch, and the part not yet called
    current,                \* the entry whose callback is running
    readNow,                \* handleRead's local now
    pending,                \* functors queued by other threads
    tpc,                    \* the Timer a thread inside addTimer has created
    ids,                    \* TimerIds callers hold
    cancelled,              \* history: ids cancelInLoop has seen after their insertion
    throws

sets == <<timers_, activeTimers_, heap>>
callVars == <<callingExpiredTimers_, cancelingTimers_, pc, expired, toRun, current,
              readNow>>
vars == <<now, sets, numCreated, timerfd, timerReady, callVars, pending, tpc, ids,
          cancelled, throws>>

Disarmed == -1
NoEntry == <<-1, "none">>
NoTimer == <<"none", 0>>
Horizon == MaxTime + 2    \* the clock stops here: everything due by MaxTime has fired

TimerIds == Addrs \X Nat
Entries == Int \X Addrs
Ops == [op : {"add", "cancel"}, id : TimerIds]

TypeOK ==
    /\ now \in Nat
    /\ heap \in [Addrs -> [live : BOOLEAN, seq : Nat, expiration : Int, interval : Nat]]
    /\ numCreated \in Nat
    /\ timers_ \subseteq Entries
    /\ activeTimers_ \subseteq TimerIds
    /\ cancelingTimers_ \subseteq TimerIds
    /\ callingExpiredTimers_ \in BOOLEAN
    /\ timerfd \in Int
    /\ timerReady \in BOOLEAN
    /\ pc \in {"idle", "calling"}
    /\ expired \subseteq Entries
    /\ toRun \subseteq expired
    /\ current \in Entries \cup {NoEntry}
    /\ readNow \in Nat
    /\ pending \in Seq(Ops)
    /\ tpc \in [Threads -> TimerIds \cup {NoTimer}]
    /\ ids \subseteq TimerIds
    /\ cancelled \subseteq TimerIds
    /\ throws \in Nat

Init ==
    /\ now = 1
    /\ heap = [a \in Addrs |-> [live |-> FALSE, seq |-> 0, expiration |-> 0, interval |-> 0]]
    /\ numCreated = 0
    /\ timers_ = {} /\ activeTimers_ = {} /\ cancelingTimers_ = {}
    /\ callingExpiredTimers_ = FALSE
    /\ timerfd = Disarmed
    /\ timerReady = FALSE
    /\ pc = "idle"
    /\ expired = {} /\ toRun = {} /\ current = NoEntry
    /\ readNow = 0
    /\ pending = <<>>
    /\ tpc = [t \in Threads |-> NoTimer]
    /\ ids = {} /\ cancelled = {}
    /\ throws = 0

-----------------------------------------------------------------------------
(* Operators of the code.                                                  *)

\* Mutant of ArmAt: a delay that is not positive is passed on, and disarms.
ArmAtExactly(expiration) == IF expiration - now < 1 THEN Disarmed ELSE expiration

\* resetTimerfd: howMuchTimeFromNow never asks for less than one unit, as 0
\* would disarm the timerfd.
ArmAt(expiration) == IF expiration - now < 1 THEN now + 1 ELSE expiration

\* An entry of the ordered set timers_ that no other precedes.
Earliest(entries) == CHOOSE e \in entries : \A d \in entries : e[1] <= d[1]

\* Mutant of EarliestChanged: only the first timer arms the timerfd.
FirstTimer(when) == timers_ = {}

\* insert() reports whether the new timer is the earliest one.
EarliestChanged(when) == timers_ = {} \/ when < Earliest(timers_)[1]

Id(a) == <<a, heap[a].seq>>

\* Mutant of IsActive: the address alone identifies the timer.
IsActiveAddress(id) == \E i \in activeTimers_ : i[1] = id[1]

\* activeTimers_.find(timer) in cancelInLoop
IsActive(id) == id \in activeTimers_

\* Mutant of IsExpired: off by one.
IsNearlyExpired(e) == e[1] <= now + 1

\* getExpired takes the entries up to and including the instant now.
IsExpired(e) == e[1] <= now

\* Mutant of Restarts: cancelingTimers_ is not consulted.
RestartsAlways(e) == heap[e[2]].interval > 0

\* reset() puts the Timer of an expired entry back ...
Restarts(e) == heap[e[2]].interval > 0 /\ Id(e[2]) \notin cancelingTimers_

\* Mutant of Deletes: the else is forgotten.
DeletesAlways(e) == TRUE

\* ... or else deletes it.
Deletes(e) == ~Restarts(e)

-----------------------------------------------------------------------------
(* What the loop thread's callbacks call.                                  *)

\* The loop thread is in user code: an I/O handler, a functor or a timer.
InCallback == pc = "idle" \/ current # NoEntry

\* new Timer(cb, when, interval)
NewTimer(a, when, interval) ==
    /\ now <= MaxTime
    /\ numCreated < MaxTimers
    /\ ~heap[a].live
    /\ numCreated' = numCreated + 1
    /\ heap' = [heap EXCEPT ![a] = [live |-> TRUE, seq |-> numCreated + 1,
                                    expiration |-> when, interval |-> interval]]

\* addTimerInLoop, with insert()
AddTimerInLoop(a, seq, when) ==
    /\ timers_' = timers_ \cup {<<when, a>>}
    /\ activeTimers_' = activeTimers_ \cup {<<a, seq>>}
    /\ timerfd' = IF EarliestChanged(when) THEN ArmAt(when) ELSE timerfd

\* addTimer in the loop thread, where runInLoop calls addTimerInLoop at once
LoopAddTimer(a, when, interval) ==
    /\ InCallback
    /\ NewTimer(a, when, interval)
    /\ AddTimerInLoop(a, numCreated + 1, when)
    /\ ids' = ids \cup {<<a, numCreated + 1>>}
    /\ UNCHANGED <<now, timerReady, callVars, pending, tpc, cancelled, throws>>

\* cancelInLoop: an active timer is removed and deleted; an inactive one may
\* belong to the batch that is being called, whose reset() then drops it.
CancelInLoop(id) ==
    /\ IF IsActive(id)
         THEN /\ timers_' = timers_ \ {<<heap[id[1]].expiration, id[1]>>}
              /\ activeTimers_' = activeTimers_ \ {id}
              /\ heap' = [heap EXCEPT ![id[1]].live = FALSE]
              /\ UNCHANGED cancelingTimers_
         ELSE /\ cancelingTimers_' = IF callingExpiredTimers_
                                       THEN cancelingTimers_ \cup {id}
                                       ELSE cancelingTimers_
              /\ UNCHANGED sets
    /\ cancelled' = IF \E i \in DOMAIN pending : pending[i] = [op |-> "add", id |-> id]
                      THEN cancelled ELSE cancelled \cup {id}

\* cancel in the loop thread
LoopCancel(id) ==
    /\ InCallback
    /\ now <= MaxTime
    /\ CancelInLoop(id)
    /\ UNCHANGED <<now, numCreated, timerfd, timerReady, callingExpiredTimers_, pc, expired,
                   toRun, current, readNow, pending, tpc, ids, throws>>

-----------------------------------------------------------------------------
(* Other threads.                                                          *)

\* addTimer: the Timer is created and addTimerInLoop queued ...
AddTimer(t, a, when, interval) ==
    /\ tpc[t] = NoTimer
    /\ Len(pending) < MaxPending
    /\ NewTimer(a, when, interval)
    /\ pending' = Append(pending, [op |-> "add", id |-> <<a, numCreated + 1>>])
    /\ tpc' = [tpc EXCEPT ![t] = <<a, numCreated + 1>>]
    /\ UNCHANGED <<now, timers_, activeTimers_, timerfd, timerReady, callVars, ids,
                   cancelled, throws>>

\* ... and the TimerId is built from timer->sequence(), which reads whatever
\* the address holds by then: anything, when the Timer has been deleted.
AddTimerReturns(t) ==
    /\ tpc[t] # NoTimer
    /\ LET a == tpc[t][1]
       IN  \E seq \in {heap[a].seq} \cup {s \in {0} : ~heap[a].live} :
              ids' = ids \cup {<<a, seq>>}
    /\ tpc' = [tpc EXCEPT ![t] = NoTimer]
    /\ UNCHANGED <<now, sets, numCreated, timerfd, timerReady, callVars, pending,
                   cancelled, throws>>

\* cancel: cancelInLoop is queued.
Cancel(t, id) ==
    /\ tpc[t] = NoTimer
    /\ now <= MaxTime
    /\ Len(pending) < MaxPending
    /\ pending' = Append(pending, [op |-> "cancel", id |-> id])
    /\ UNCHANGED <<now, sets, numCreated, timerfd, timerReady, callVars, tpc, ids,
                   cancelled, throws>>

-----------------------------------------------------------------------------
(* The loop.                                                               *)

\* Past MaxTime the clock waits for the loop to have nothing left to do, so
\* that a run does not end on work the loop had no time for.
Tick ==
    /\ now < Horizon
    /\ now <= MaxTime \/ (pc = "idle" /\ pending = <<>>)
    /\ now' = now + 1
    /\ UNCHANGED <<sets, numCreated, timerfd, timerReady, callVars, pending, tpc, ids,
                   cancelled, throws>>

\* poll() reports timerfdChannel_.
PollTimerfd ==
    /\ pc = "idle" /\ ~timerReady
    /\ timerfd # Disarmed /\ timerfd <= now
    /\ timerReady' = TRUE
    /\ UNCHANGED <<now, sets, numCreated, timerfd, callVars, pending, tpc, ids, cancelled,
                   throws>>

\* doPendingFunctors runs the oldest functor, once the channels are handled.
RunPending ==
    /\ pc = "idle" /\ ~timerReady
    /\ pending # <<>>
    /\ pending' = Tail(pending)
    /\ LET id == Head(pending).id
       IN  \/ /\ Head(pending).op = "add"
              /\ AddTimerInLoop(id[1], id[2], heap[id[1]].expiration)
              /\ UNCHANGED <<heap, cancelingTimers_, cancelled>>
           \/ /\ Head(pending).op = "cancel"
              /\ CancelInLoop(id)
              /\ UNCHANGED timerfd
    /\ UNCHANGED <<now, numCreated, timerReady, callingExpiredTimers_, pc, expired, toRun,
                   current, readNow, tpc, ids, throws>>

\* handleRead up to the first callback, with getExpired.  The read disarms the
\* timerfd unless a handler of this iteration has armed it anew (EAGAIN).
HandleRead ==
    /\ pc = "idle" /\ timerReady
    /\ timerReady' = FALSE
    /\ timerfd' = IF timerfd <= now THEN Disarmed ELSE timerfd
    /\ readNow' = now
    /\ expired' = {e \in timers_ : IsExpired(e)}
    /\ toRun' = expired'
    /\ timers_' = timers_ \ expired'
    /\ activeTimers_' = activeTimers_ \ {Id(e[2]) : e \in expired'}
    /\ callingExpiredTimers_' = TRUE
    /\ cancelingTimers_' = {}
    /\ pc' = "calling"
    /\ UNCHANGED <<now, heap, numCreated, current, pending, tpc, ids, cancelled, throws>>

\* it->second->run() begins, in the order of expiration.
RunTimer(e) ==
    /\ pc = "calling" /\ current = NoEntry
    /\ \A d \in toRun : e[1] <= d[1]
    /\ current' = e
    /\ toRun' = toRun \ {e}
    /\ UNCHANGED <<now, sets, numCreated, timerfd, timerReady, callingExpiredTimers_,
                   cancelingTimers_, pc, expired, readNow, pending, tpc, ids, cancelled,
                   throws>>

RunReturns ==
    /\ current # NoEntry
    /\ current' = NoEntry
    /\ UNCHANGED <<now, sets, numCreated, timerfd, timerReady, callingExpiredTimers_,
                   cancelingTimers_, pc, expired, toRun, readNow, pending, tpc, ids,
                   cancelled, throws>>

\* The callback throws through handleRead into EventLoop::loop: the local
\* batch is gone, reset() does not happen, callingExpiredTimers_ stays TRUE.
RunThrows ==
    /\ current # NoEntry
    /\ throws < MaxThrows
    /\ throws' = throws + 1
    /\ pc' = "idle"
    /\ current' = NoEntry
    /\ expired' = {} /\ toRun' = {}
    /\ UNCHANGED <<now, sets, numCreated, timerfd, timerReady, callingExpiredTimers_,
                   cancelingTimers_, readNow, pending, tpc, ids, cancelled>>

\* The end of handleRead, with reset(): the repeating timers that were not
\* cancelled are restarted from readNow, the others deleted, and the timerfd
\* is armed again.
Reset ==
    /\ pc = "calling" /\ current = NoEntry /\ toRun = {}
    /\ callingExpiredTimers_' = FALSE
    /\ LET again == {e[2] : e \in {d \in expired : Restarts(d)}}
           over  == {e[2] : e \in {d \in expired : Deletes(d)}}
       IN  /\ heap' = [a \in Addrs |->
                         [heap[a] EXCEPT !.live = @ /\ a \notin over,
                                         !.expiration = IF a \in again
                                                        THEN readNow + heap[a].interval ELSE @]]
           /\ timers_' = timers_ \cup {<<readNow + heap[a].interval, a>> : a \in again}
           /\ activeTimers_' = activeTimers_ \cup {Id(a) : a \in again}
    /\ timerfd' = IF timers_' # {} /\ Earliest(timers_')[1] > 0
                    THEN ArmAt(Earliest(timers_')[1]) ELSE timerfd
    /\ pc' = "idle"
    /\ expired' = {}
    /\ UNCHANGED <<now, numCreated, timerReady, cancelingTimers_, toRun, current, readNow,
                   pending, tpc, ids, cancelled, throws>>

LoopStep ==
    \/ PollTimerfd \/ RunPending \/ HandleRead \/ RunReturns \/ Reset
    \/ \E e \in toRun : RunTimer(e)

Next ==
    \/ Tick
    \/ LoopStep
    \/ RunThrows
    \/ \E a \in Addrs, when \in 1..MaxTime, interval \in Intervals :
          \/ LoopAddTimer(a, when, interval)
          \/ \E t \in Threads : AddTimer(t, a, when, interval)
    \/ \E t \in Threads : AddTimerReturns(t)
    \/ \E id \in ids : LoopCancel(id) \/ \E t \in Threads : Cancel(t, id)

\* Time passes, and the loop thread keeps running.
Fairness == WF_vars(Tick) /\ WF_vars(LoopStep)

Spec == Init /\ [][Next]_vars
FairSpec == Spec /\ Fairness

-----------------------------------------------------------------------------
(* Properties.                                                             *)

\* timers_ and activeTimers_ hold the same timers, each under the expiration
\* and the sequence its Timer has: what every assert on their sizes, and the
\* lookup of cancelInLoop, rely on.
SetsAgree ==
    /\ activeTimers_ = {Id(e[2]) : e \in timers_}
    /\ \A e \in timers_ : e[1] = heap[e[2]].expiration
    /\ \A d, e \in timers_ : d[2] = e[2] => d = e

\* No entry of the queue or of a batch being called, and no addTimerInLoop
\* on its way, points to a deleted Timer, so nothing is deleted twice.
NoDanglingTimer ==
    /\ \A e \in timers_ \cup expired : heap[e[2]].live
    /\ \A i \in DOMAIN pending : pending[i].op = "add" => /\ heap[pending[i].id[1]].live
                                                          /\ Id(pending[i].id[1]) = pending[i].id
    /\ {e[2] : e \in timers_} \cap {e[2] : e \in expired} = {}

\* Outside handleRead the timerfd is armed no later than the earliest timer
\* needs, as long as no callback has thrown.
ArmedForEarliest ==
    pc = "idle" /\ timers_ # {} /\ throws = 0 =>
        /\ timerfd # Disarmed
        /\ \A e \in timers_ : timerfd <= e[1] \/ timerfd <= now + 1

\* A timer that cancelInLoop has seen is never in the queue again, even a
\* repeating one cancelled by its own callback or by another callback of its
\* batch, or one whose address is in use again.
CancelSticks == cancelled \cap activeTimers_ = {}

\* A timer's callback is not called before its time.
NeverEarly ==
    [][\A e \in toRun : e \notin toRun' /\ current' = e => e[1] <= now]_vars

\* TimerQueue.h: "Schedules the callback to be run at given time": an entry of
\* timers_ does not stay there for ever, unless a callback has thrown, after
\* which nothing arms the timerfd for the timers that remain.
DueTimersLeaveUnlessThrow ==
    \A w \in 1..MaxTime, a \in Addrs :
        <<w, a>> \in timers_ ~> <<w, a>> \notin timers_ \/ throws > 0
=============================================================================
