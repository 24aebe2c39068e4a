-------------------------- MODULE TimerQueueProofs --------------------------
(***************************************************************************)
(* Proofs about TimerQueue for any threads, addresses, intervals and       *)
(* bounds: the two sets hold the same timers, nothing points to a deleted  *)
(* Timer, a cancelled timer does not come back, the timerfd is armed for   *)
(* the earliest timer, and no callback comes before its time.              *)
(***************************************************************************)
EXTENDS TimerQueue, SequenceTheorems, WellFoundedInduction, TLAPS

-----------------------------------------------------------------------------
(* The inductive invariant.                                                *)

\* The clock starts at 1, and every Timer that is not deleted is due then or
\* later: resetTimerfd is never given 0.
ClockInv ==
    /\ now >= 1
    /\ \A a \in Addrs : heap[a].live => heap[a].expiration >= 1
    /\ pc = "calling" => readNow >= 1

\* The batch exists inside handleRead only, holds each Timer once, and is due.
BatchInv ==
    /\ pc = "idle" => expired = {}
    /\ pc = "calling" => callingExpiredTimers_
    /\ \A d, e \in expired : d[2] = e[2] => d = e
    /\ \A e \in expired : e[1] <= now

Adds == {i \in DOMAIN pending : pending[i].op = "add"}

\* A Timer whose addTimerInLoop is queued is queued once, and is neither in the
\* queue nor in the batch.
PendingInv ==
    /\ \A i, j \in Adds : pending[i].id[1] = pending[j].id[1] => i = j
    /\ \A i \in Adds : \A e \in timers_ \cup expired : e[2] # pending[i].id[1]

\* Sequence numbers in use are not greater than s_numCreated_.
FreshInv ==
    /\ \A a \in Addrs : heap[a].seq <= numCreated
    /\ \A id \in ids \cup cancelled : id[2] <= numCreated
    /\ \A i \in DOMAIN pending : pending[i].id[2] <= numCreated

\* A cancelled timer of the batch is in cancelingTimers_, so that reset() drops
\* it; one that is still to be inserted has not been cancelled.
CancelInv ==
    /\ \A e \in expired : Id(e[2]) \in cancelled => Id(e[2]) \in cancelingTimers_
    /\ \A i \in Adds : pending[i].id \notin cancelled

IInv ==
    /\ TypeOK /\ ClockInv /\ BatchInv /\ PendingInv /\ FreshInv /\ CancelInv
    /\ SetsAgree /\ NoDanglingTimer /\ CancelSticks /\ ArmedForEarliest

-----------------------------------------------------------------------------
(* The operators of the model.                                             *)

\* A set of natural numbers has a least element.
LEMMA LeastNat ==
  ASSUME NEW T, T \subseteq Nat, T # {}
  PROVE  \E x \in T : \A y \in T : x <= y
<1> DEFINE R == OpToRel(<, Nat)
<1>1. IsWellFoundedOn(R, Nat)
  BY NatLessThanWellFounded
<1>2. \A x, y \in Nat : x < y => <<x, y>> \in R
  BY DEF OpToRel
<1> HIDE DEF R
<1>3. PICK x \in T : \A y \in T : ~(<<y, x>> \in R)
  BY <1>1, WFMin
<1>4. \A y \in T : ~(y < x)
  BY <1>2, <1>3
<1> QED BY <1>4

\* *timers_.begin() is an entry that none precedes.
LEMMA EarliestIsFirst ==
  ASSUME NEW S, S # {}, S \subseteq Entries, \A e \in S : e[1] >= 1
  PROVE  /\ Earliest(S) \in S
         /\ \A d \in S : Earliest(S)[1] <= d[1]
<1> DEFINE T == {e[1] : e \in S}
<1>1. T \subseteq Nat /\ T # {}
  BY DEF Entries
<1>2. PICK x \in T : \A y \in T : x <= y
  BY <1>1, LeastNat
<1>3. \E e \in S : \A d \in S : e[1] <= d[1]
  BY <1>2
<1> QED BY <1>3 DEF Earliest

\* The timerfd is armed for the time given or, when that has come, for the next
\* unit: never for 0.
LEMMA ArmAtFacts ==
  ASSUME NEW w \in Int, w >= 1, now \in Nat, now >= 1
  PROVE  /\ ArmAt(w) \in Int /\ ArmAt(w) # Disarmed
         /\ ArmAt(w) <= w \/ ArmAt(w) <= now + 1
BY DEF ArmAt, Disarmed

LEMMA TailOfPending ==
  ASSUME pending \in Seq(Ops), pending # <<>>, pending' = Tail(pending)
  PROVE  /\ pending' \in Seq(Ops)
         /\ 1 \in DOMAIN pending /\ pending[1] = Head(pending)
         /\ \A i \in DOMAIN pending' : i + 1 \in DOMAIN pending /\ i \in Nat
                                       /\ pending'[i] = pending[i + 1]
<1>1. /\ pending' \in Seq(Ops) /\ Len(pending') = Len(pending) - 1
      /\ \A i \in 1..Len(pending) - 1 : pending'[i] = pending[i + 1]
  BY HeadTailProperties
<1>2. DOMAIN pending = 1..Len(pending) /\ DOMAIN pending' = 1..Len(pending') /\ Len(pending) \in Nat
  BY <1>1
<1>3. Len(pending) >= 1 /\ pending[1] = Head(pending)
  OBVIOUS
<1> QED BY <1>1, <1>2, <1>3

LEMMA AppendToPending ==
  ASSUME pending \in Seq(Ops), NEW f \in Ops, pending' = Append(pending, f)
  PROVE  /\ pending' \in Seq(Ops)
         /\ \A i \in DOMAIN pending' : \/ i \in DOMAIN pending /\ pending'[i] = pending[i]
                                       \/ i \notin DOMAIN pending /\ pending'[i] = f /\ i = Len(pending) + 1
         /\ \A i \in DOMAIN pending : i \in DOMAIN pending' /\ pending'[i] = pending[i]
BY AppendProperties

\* The functors that wait, one by one.
LEMMA PendingType ==
  ASSUME TypeOK
  PROVE  \A i \in DOMAIN pending : /\ pending[i] \in Ops /\ pending[i].id \in TimerIds
                                   /\ pending[i].id[1] \in Addrs /\ pending[i].id[2] \in Nat
                                   /\ pending[i].op \in {"add", "cancel"}
<1>1. \A i \in DOMAIN pending : pending[i] \in Ops
  BY DEF TypeOK
<1> QED BY <1>1 DEF Ops, TimerIds

\* The set of ids, element by element.
LEMMA SameTimers ==
  ASSUME NEW h, NEW A, NEW T,
         \A e \in T : <<e[2], h[e[2]].seq>> \in A,
         \A id \in A : \E e \in T : id = <<e[2], h[e[2]].seq>>
  PROVE  A = {<<e[2], h[e[2]].seq>> : e \in T}
OBVIOUS

LEMMA DisjointAddrs ==
  ASSUME NEW S, NEW T
  PROVE  ({e[2] : e \in S} \cap {e[2] : e \in T} = {}) <=> \A d \in S, e \in T : d[2] # e[2]
OBVIOUS

\* Every entry of the queue is due at 1 or later, before and after reset().
LEMMA EntriesPositive ==
  ASSUME TypeOK, ClockInv, SetsAgree, NoDanglingTimer
  PROVE  \A e \in timers_ : e[1] \in Int /\ e[1] >= 1 /\ e[2] \in Addrs
BY DEF TypeOK, Entries, ClockInv, SetsAgree, NoDanglingTimer

\* SetsAgree and NoDanglingTimer, element by element.
LEMMA QueueFacts ==
  ASSUME IInv
  PROVE  /\ \A e \in timers_ : /\ e \in Int \X Addrs /\ e[1] \in Int /\ e[2] \in Addrs
                               /\ e[1] = heap[e[2]].expiration /\ e[1] >= 1
                               /\ heap[e[2]].live /\ Id(e[2]) \in activeTimers_
         /\ \A id \in activeTimers_ : \E e \in timers_ : id = Id(e[2])
         /\ \A d, e \in timers_ : d[2] = e[2] => d = e
         /\ \A e \in expired : e \in Int \X Addrs /\ e[1] \in Int /\ e[2] \in Addrs /\ heap[e[2]].live
         /\ \A d \in timers_, e \in expired : d[2] # e[2]
         /\ \A i \in Adds : /\ i \in DOMAIN pending /\ pending[i] \in Ops
                            /\ pending[i].id \in TimerIds /\ pending[i].id[1] \in Addrs
                            /\ heap[pending[i].id[1]].live /\ Id(pending[i].id[1]) = pending[i].id
<1>1. TypeOK
  BY DEF IInv
<1>2. \A e \in timers_ \cup expired : e \in Int \X Addrs /\ e[1] \in Int /\ e[2] \in Addrs
  BY <1>1 DEF TypeOK, Entries
<1>3. \A e \in timers_ : e[1] >= 1
  BY <1>1, EntriesPositive DEF IInv
<1>4. \A d \in timers_, e \in expired : d[2] # e[2]
  BY DisjointAddrs DEF IInv, NoDanglingTimer
<1>5. \A i \in Adds : /\ i \in DOMAIN pending /\ pending[i] \in Ops
                      /\ pending[i].id \in TimerIds /\ pending[i].id[1] \in Addrs
                      /\ heap[pending[i].id[1]].live /\ Id(pending[i].id[1]) = pending[i].id
  BY <1>1, PendingType DEF Adds, IInv, NoDanglingTimer
<1> QED BY <1>2, <1>3, <1>4, <1>5 DEF IInv, SetsAgree, NoDanglingTimer

-----------------------------------------------------------------------------
(* The parts of actions.                                                   *)

Timers == [live : BOOLEAN, seq : Nat, expiration : Int, interval : Nat]

LEMMA AddTimerInLoopType ==
  ASSUME TypeOK, NEW a \in Addrs, NEW seq \in Nat, NEW when \in Int, AddTimerInLoop(a, seq, when)
  PROVE  timers_' \subseteq Entries /\ activeTimers_' \subseteq TimerIds /\ timerfd' \in Int
BY DEF TypeOK, AddTimerInLoop, ArmAt, Entries, TimerIds

\* new Timer changes one free address and takes the next sequence number.
LEMMA NewTimerFacts ==
  ASSUME TypeOK, NEW a \in Addrs, NEW when \in Int, NEW interval \in Nat,
         NewTimer(a, when, interval)
  PROVE  /\ heap' \in [Addrs -> Timers]
         /\ ~heap[a].live
         /\ heap'[a].live /\ heap'[a].seq = numCreated + 1 /\ heap'[a].expiration = when
         /\ \A b \in Addrs : b # a => heap'[b] = heap[b]
         /\ numCreated' = numCreated + 1 /\ numCreated' \in Nat
<1> DEFINE r == [live |-> TRUE, seq |-> numCreated + 1, expiration |-> when, interval |-> interval]
<1>1. r \in Timers
  BY DEF Timers, TypeOK
<1>2. r.live /\ r.seq = numCreated + 1 /\ r.expiration = when
  OBVIOUS
<1>3. heap \in [Addrs -> Timers] /\ heap' = [heap EXCEPT ![a] = r]
  BY DEF NewTimer, TypeOK, Timers
<1> HIDE DEF r
<1>4. heap' \in [Addrs -> Timers] /\ heap'[a] = r /\ \A b \in Addrs : b # a => heap'[b] = heap[b]
  BY <1>1, <1>3
<1> QED BY <1>2, <1>4 DEF NewTimer, TypeOK

\* cancelInLoop changes the Timers of an active id only.
LEMMA CancelFacts ==
  ASSUME TypeOK, NEW id \in TimerIds, CancelInLoop(id)
  PROVE  /\ heap' \in [Addrs -> Timers]
         /\ \A b \in Addrs : /\ heap'[b].live <=> heap[b].live /\ ~(IsActive(id) /\ b = id[1])
                             /\ heap'[b].seq = heap[b].seq
                             /\ heap'[b].expiration = heap[b].expiration
         /\ timers_' = IF IsActive(id) THEN timers_ \ {<<heap[id[1]].expiration, id[1]>>} ELSE timers_
         /\ activeTimers_' = activeTimers_ \ {id}
         /\ cancelingTimers_' = IF ~IsActive(id) /\ callingExpiredTimers_
                                  THEN cancelingTimers_ \cup {id} ELSE cancelingTimers_
         /\ cancelled \subseteq cancelled' /\ cancelled' \subseteq cancelled \cup {id}
<1>1. id[1] \in Addrs
  BY DEF TimerIds
<1>2. cancelled \subseteq cancelled' /\ cancelled' \subseteq cancelled \cup {id}
  BY DEF CancelInLoop
<1>3. heap \in [Addrs -> Timers]
  BY DEF TypeOK, Timers
<1>4. CASE IsActive(id)
  <2> DEFINE r == [heap[id[1]] EXCEPT !.live = FALSE]
  <2>1. /\ timers_' = timers_ \ {<<heap[id[1]].expiration, id[1]>>}
        /\ activeTimers_' = activeTimers_ \ {id}
        /\ heap' = [heap EXCEPT ![id[1]] = r]
        /\ UNCHANGED cancelingTimers_
    BY <1>4 DEF CancelInLoop
  <2>2. r \in Timers /\ ~r.live /\ r.seq = heap[id[1]].seq /\ r.expiration = heap[id[1]].expiration
    BY <1>1, <1>3 DEF Timers
  <2> HIDE DEF r
  <2>3. heap' \in [Addrs -> Timers] /\ heap'[id[1]] = r /\ \A b \in Addrs : b # id[1] => heap'[b] = heap[b]
    BY <1>1, <1>3, <2>1, <2>2
  <2> QED BY <1>2, <1>4, <2>1, <2>2, <2>3
<1>5. CASE ~IsActive(id)
  <2>1. UNCHANGED sets
        /\ cancelingTimers_' = IF callingExpiredTimers_ THEN cancelingTimers_ \cup {id} ELSE cancelingTimers_
    BY <1>5 DEF CancelInLoop
  <2>2. activeTimers_ = activeTimers_ \ {id}
    BY <1>5 DEF IsActive
  <2> QED BY <1>2, <1>3, <1>5, <2>1, <2>2 DEF sets
<1> QED BY <1>4, <1>5

LEMMA CancelInLoopType ==
  ASSUME TypeOK, NEW id \in TimerIds, CancelInLoop(id)
  PROVE  /\ timers_' \subseteq Entries /\ activeTimers_' \subseteq TimerIds
         /\ heap' \in [Addrs -> Timers]
         /\ cancelingTimers_' \subseteq TimerIds /\ cancelled' \subseteq TimerIds
BY CancelFacts DEF TypeOK

\* The Timers reset() starts again, and those it deletes.
Again == {e[2] : e \in {d \in expired : Restarts(d)}}
Over == {e[2] : e \in {d \in expired : Deletes(d)}}

\* What reset() does to the sets and the Timers.
LEMMA ResetSets ==
  ASSUME TypeOK, Reset
  PROVE  /\ Again \subseteq Addrs /\ Over \subseteq Addrs
         /\ heap' \in [Addrs -> Timers]
         /\ \A a \in Addrs :
               /\ heap'[a].live <=> heap[a].live /\ a \notin Over
               /\ heap'[a].seq = heap[a].seq
               /\ heap'[a].expiration =
                     IF a \in Again THEN readNow + heap[a].interval ELSE heap[a].expiration
         /\ timers_' = timers_ \cup {<<readNow + heap[a].interval, a>> : a \in Again}
         /\ activeTimers_' = activeTimers_ \cup {Id(a) : a \in Again}
         /\ timers_' \subseteq Entries /\ activeTimers_' \subseteq TimerIds
<1> USE DEF TypeOK
<1>1. Again \subseteq Addrs /\ Over \subseteq Addrs
  BY DEF Again, Over, Entries
<1> DEFINE r(a) == [heap[a] EXCEPT !.live = @ /\ a \notin Over,
                                   !.expiration = IF a \in Again
                                                  THEN readNow + heap[a].interval ELSE @]
<1>2. /\ heap' = [a \in Addrs |-> r(a)]
      /\ timers_' = timers_ \cup {<<readNow + heap[a].interval, a>> : a \in Again}
      /\ activeTimers_' = activeTimers_ \cup {Id(a) : a \in Again}
  BY DEF Reset, Again, Over
<1>3. ASSUME NEW a \in Addrs
      PROVE  /\ r(a) \in Timers
             /\ r(a).live <=> heap[a].live /\ a \notin Over
             /\ r(a).seq = heap[a].seq
             /\ r(a).expiration =
                   IF a \in Again THEN readNow + heap[a].interval ELSE heap[a].expiration
  <2>1. heap[a] \in Timers /\ readNow \in Nat
    BY DEF Timers
  <2> DEFINE x == heap[a]
             l == x.live /\ a \notin Over
             w == IF a \in Again THEN readNow + x.interval ELSE x.expiration
  <2>2. l \in BOOLEAN
    BY Zenon
  <2>3. w \in Int
    BY <2>1 DEF Timers
  <2>4. r(a) = [x EXCEPT !.live = l, !.expiration = w]
    BY Zenon
  <2>5. x \in Timers
    BY <2>1
  <2> HIDE DEF l, w, x, r
  <2>6. SUFFICES ASSUME NEW y, y = r(a)
                 PROVE  y \in Timers /\ y.live = l /\ y.seq = x.seq /\ y.expiration = w
    BY <2>2 DEF l, w, x
  <2>7. QED
    BY <2>2, <2>3, <2>4, <2>5, <2>6 DEF Timers
<1> HIDE DEF r
<1>4. /\ heap' \in [Addrs -> Timers]
      /\ \A a \in Addrs :
           /\ heap'[a].live <=> heap[a].live /\ a \notin Over
           /\ heap'[a].seq = heap[a].seq
           /\ heap'[a].expiration =
                 IF a \in Again THEN readNow + heap[a].interval ELSE heap[a].expiration
  BY <1>2, <1>3
<1>5. timers_' \subseteq Entries /\ activeTimers_' \subseteq TimerIds
  <2>1. \A a \in Again : <<readNow + heap[a].interval, a>> \in Entries /\ Id(a) \in TimerIds
    BY <1>1 DEF Entries, TimerIds, Id
  <2> QED BY <1>2, <2>1
<1> QED BY <1>1, <1>2, <1>4, <1>5

LEMMA ResetTimerfd ==
  ASSUME TypeOK, ClockInv, SetsAgree, NoDanglingTimer, Reset
  PROVE  /\ \A e \in timers_' : e[1] >= 1
         /\ timerfd' \in Int
         /\ timers_' # {} => timerfd' # Disarmed
         /\ \A e \in timers_' : timerfd' <= e[1] \/ timerfd' <= now + 1
<1>1. \A e \in timers_' : e[1] >= 1
  <2>1. \A a \in Again : readNow + heap[a].interval >= 1
    <3>1. Again \subseteq Addrs /\ readNow >= 1 /\ readNow \in Nat
      BY ResetSets DEF Reset, ClockInv, TypeOK
    <3>2. \A a \in Addrs : heap[a].interval \in Nat
      BY DEF TypeOK
    <3> QED BY <3>1, <3>2
  <2> QED BY <2>1, ResetSets, EntriesPositive
<1>2. timers_' \subseteq Entries
  BY ResetSets
<1>3. CASE timers_' = {}
  BY <1>3 DEF Reset, TypeOK
<1>4. CASE timers_' # {}
  <2> DEFINE w == Earliest(timers_')[1]
  <2>1. Earliest(timers_') \in timers_' /\ \A d \in timers_' : w <= d[1]
    BY <1>1, <1>2, <1>4, EarliestIsFirst
  <2>2. w \in Int /\ w >= 1
    BY <1>1, <1>2, <2>1 DEF Entries
  <2>3. timerfd' = ArmAt(w)
    <3>1. timerfd' = IF timers_' # {} /\ w > 0 THEN ArmAt(w) ELSE timerfd
      BY DEF Reset
    <3> HIDE DEF w
    <3> QED BY <1>4, <2>2, <3>1
  <2> HIDE DEF w
  <2>4. /\ ArmAt(w) \in Int /\ ArmAt(w) # Disarmed
        /\ ArmAt(w) <= w \/ ArmAt(w) <= now + 1
    BY <2>2, ArmAtFacts DEF TypeOK, ClockInv
  <2>5. \A d \in timers_' : d[1] \in Int /\ w <= d[1]
    BY <1>2, <2>1 DEF Entries, w
  <2>6. now \in Int
    BY DEF TypeOK
  <2> QED BY <2>2, <2>3, <2>4, <2>5, <2>6, <1>1
<1> QED BY <1>3, <1>4

-----------------------------------------------------------------------------
(* Type correctness.                                                       *)

LEMMA TypeStep == IInv /\ [Next]_vars => TypeOK'
<1> SUFFICES ASSUME IInv, [Next]_vars PROVE TypeOK'
  OBVIOUS
<1> TypeOK
  BY DEF IInv
<1> USE DEF TypeOK, Timers
<1>1. CASE UNCHANGED vars
  BY <1>1 DEF vars, sets, callVars
<1>2. CASE Tick
  BY <1>2 DEF Tick, sets, callVars
<1>3. CASE PollTimerfd
  BY <1>3 DEF PollTimerfd, sets, callVars
<1>4. CASE RunPending
  <2>1. Head(pending) \in Ops /\ Tail(pending) \in Seq(Ops)
    BY <1>4 DEF RunPending
  <2> DEFINE id == Head(pending).id
  <2>2. id \in TimerIds /\ id[1] \in Addrs /\ id[2] \in Nat /\ heap[id[1]].expiration \in Int
    BY <2>1 DEF Ops, TimerIds
  <2>3. CASE Head(pending).op = "add"
    <3>1. AddTimerInLoop(id[1], id[2], heap[id[1]].expiration)
          /\ UNCHANGED <<heap, cancelingTimers_, cancelled>>
      BY <1>4, <2>3 DEF RunPending
    <3>2. timers_' \subseteq Entries /\ activeTimers_' \subseteq TimerIds /\ timerfd' \in Int
      BY <2>2, <3>1, AddTimerInLoopType
    <3> QED BY <1>4, <2>1, <3>1, <3>2 DEF RunPending
  <2>4. CASE Head(pending).op = "cancel"
    <3>1. CancelInLoop(id) /\ UNCHANGED timerfd
      BY <1>4, <2>4 DEF RunPending
    <3> HIDE DEF id
    <3> QED BY <1>4, <2>1, <2>2, <3>1, CancelInLoopType DEF RunPending
  <2> QED BY <2>1, <2>3, <2>4 DEF Ops
<1>5. CASE HandleRead
  <2>1. expired' \subseteq timers_ /\ timers_' \subseteq timers_
        /\ activeTimers_' \subseteq activeTimers_ /\ toRun' = expired'
    BY <1>5 DEF HandleRead
  <2>2. timerfd' \in Int
    BY <1>5 DEF HandleRead, Disarmed
  <2>3. callingExpiredTimers_' \in BOOLEAN /\ timerReady' \in BOOLEAN
    BY <1>5, Zenon DEF HandleRead
  <2> QED BY <1>5, <2>1, <2>2, <2>3 DEF HandleRead
<1>6. CASE RunReturns
  BY <1>6 DEF RunReturns, sets
<1>7. CASE Reset
  <2>1. timerfd' \in Int
    BY <1>7, ResetTimerfd DEF IInv
  <2>2. callingExpiredTimers_' \in BOOLEAN /\ toRun' = {}
    BY <1>7, Zenon DEF Reset
  <2> QED BY <1>7, <2>1, <2>2, ResetSets DEF Reset
<1>8. ASSUME NEW e \in toRun, RunTimer(e) PROVE TypeOK'
  BY <1>8 DEF RunTimer, sets, Entries
<1>9. CASE RunThrows
  BY <1>9 DEF RunThrows, sets
<1>10. ASSUME NEW a \in Addrs, NEW when \in 1..MaxTime, NEW interval \in Intervals,
              LoopAddTimer(a, when, interval)
       PROVE  TypeOK'
  <2>1. when \in Int /\ interval \in Nat
    BY TimerConstants
  <2>2. heap' \in [Addrs -> Timers] /\ numCreated' = numCreated + 1 /\ numCreated' \in Nat
    BY <1>10, <2>1, NewTimerFacts DEF LoopAddTimer
  <2>3. timers_' \subseteq Entries /\ activeTimers_' \subseteq TimerIds /\ timerfd' \in Int
    BY <1>10, <2>1, AddTimerInLoopType DEF LoopAddTimer
  <2>4. ids' \subseteq TimerIds
    BY <1>10 DEF LoopAddTimer, TimerIds
  <2> QED BY <1>10, <2>2, <2>3, <2>4 DEF LoopAddTimer, callVars
<1>11. ASSUME NEW a \in Addrs, NEW when \in 1..MaxTime, NEW interval \in Intervals,
              NEW t \in Threads, AddTimer(t, a, when, interval)
       PROVE  TypeOK'
  <2>1. <<a, numCreated + 1>> \in TimerIds
    BY DEF TimerIds
  <2>2. pending' \in Seq(Ops)
    BY <1>11, <2>1 DEF AddTimer, Ops
  <2>3. tpc' \in [Threads -> TimerIds \cup {NoTimer}]
    BY <1>11, <2>1 DEF AddTimer
  <2>4. heap' \in [Addrs -> Timers] /\ numCreated' \in Nat
    <3>1. when \in Int /\ interval \in Nat
      BY TimerConstants
    <3>2. NewTimer(a, when, interval)
      BY <1>11 DEF AddTimer
    <3> QED BY <3>1, <3>2, NewTimerFacts
  <2> QED BY <1>11, <2>2, <2>3, <2>4 DEF AddTimer, callVars
<1>12. ASSUME NEW t \in Threads, AddTimerReturns(t) PROVE TypeOK'
  <2>1. tpc[t] \in TimerIds /\ tpc[t][1] \in Addrs
    BY <1>12 DEF AddTimerReturns, TimerIds
  <2>2. PICK seq \in {heap[tpc[t][1]].seq} \cup {s \in {0} : ~heap[tpc[t][1]].live} :
             ids' = ids \cup {<<tpc[t][1], seq>>}
    BY <1>12 DEF AddTimerReturns
  <2>3. <<tpc[t][1], seq>> \in TimerIds
    BY <2>1, <2>2 DEF TimerIds
  <2> QED BY <1>12, <2>2, <2>3 DEF AddTimerReturns, sets, callVars
<1>13. ASSUME NEW id \in ids, LoopCancel(id) PROVE TypeOK'
  <2>1. id \in TimerIds
    OBVIOUS
  <2> QED BY <1>13, <2>1, CancelInLoopType DEF LoopCancel
<1>14. ASSUME NEW id \in ids, NEW t \in Threads, Cancel(t, id) PROVE TypeOK'
  <2>1. [op |-> "cancel", id |-> id] \in Ops
    BY DEF Ops
  <2> QED BY <1>14, <2>1 DEF Cancel, sets, callVars
<1> QED
  BY <1>1, <1>2, <1>3, <1>4, <1>5, <1>6, <1>7, <1>8, <1>9, <1>10, <1>11, <1>12, <1>13, <1>14
  DEF Next, LoopStep
-----------------------------------------------------------------------------
(* The steps, grouped by what they do to the queue.                        *)

\* Steps that touch neither the Timers nor the sets: they may let time pass,
\* queue a cancelInLoop, return an id, or drop the batch of a callback that
\* throws.
LEMMA QuietStep ==
  ASSUME IInv, TypeOK',
         UNCHANGED <<heap, timers_, activeTimers_, cancelingTimers_, callingExpiredTimers_,
                     numCreated, cancelled, timerfd, readNow>>,
         now' = now \/ now' = now + 1,
         \/ UNCHANGED <<pc, expired, throws>>
         \/ pc' = "idle" /\ expired' = {} /\ throws' = throws + 1,
         \A id \in ids' : id[2] <= numCreated,
         \A i \in DOMAIN pending' :
            \/ i \in DOMAIN pending /\ pending'[i] = pending[i]
            \/ pending'[i].op = "cancel" /\ pending'[i].id[2] <= numCreated
  PROVE  IInv'
<1> USE DEF IInv
<1>1. ClockInv'
  BY DEF ClockInv, TypeOK
<1>2. BatchInv'
  <2>1. now <= now' /\ expired' \subseteq expired
    BY DEF TypeOK
  <2>2. \A e \in expired' : e[1] <= now'
    BY <2>1 DEF BatchInv, TypeOK, Entries
  <2> QED BY <2>1, <2>2 DEF BatchInv, TypeOK
<1>3. \A i \in Adds' : i \in Adds /\ pending'[i] = pending[i]
  BY DEF Adds
<1>4. PendingInv'
  BY <1>3 DEF PendingInv
<1>5. FreshInv'
  BY DEF FreshInv
<1>6. CancelInv'
  BY <1>3 DEF CancelInv, Id
<1>7. SetsAgree' /\ CancelSticks'
  BY DEF SetsAgree, CancelSticks, Id
<1>8. NoDanglingTimer'
  BY <1>3 DEF NoDanglingTimer, Id, Adds
<1>9. ArmedForEarliest'
  <2>1. SUFFICES ASSUME pc' = "idle", timers_' # {}, throws' = 0
                 PROVE  timerfd' # Disarmed /\ \A e \in timers_' : timerfd' <= e[1] \/ timerfd' <= now' + 1
    BY DEF ArmedForEarliest
  <2>2. pc = "idle" /\ timers_ # {} /\ throws = 0
    BY <2>1 DEF TypeOK
  <2>3. timerfd # Disarmed /\ \A e \in timers_ : timerfd <= e[1] \/ timerfd <= now + 1
    BY <2>2 DEF ArmedForEarliest
  <2>4. now \in Nat /\ timerfd \in Int /\ \A e \in timers_ : e[1] \in Int
    BY DEF TypeOK, Entries
  <2>5. now + 1 <= now' + 1 /\ now' \in Nat
    BY <2>4
  <2>6. timerfd' = timerfd /\ timers_' = timers_
    OBVIOUS
  <2>7. \A e \in timers_ : timerfd <= e[1] \/ timerfd <= now' + 1
    <3> SUFFICES ASSUME NEW e \in timers_ PROVE timerfd <= e[1] \/ timerfd <= now' + 1
      OBVIOUS
    <3> DEFINE n == now' w == e[1]
    <3>1. (timerfd <= w \/ timerfd <= now + 1) /\ w \in Int /\ n \in Nat /\ now + 1 <= n + 1
      BY <2>3, <2>4, <2>5
    <3> HIDE DEF n, w
    <3>2. timerfd <= w \/ timerfd <= n + 1
      BY <2>4, <3>1
    <3> QED BY <3>2 DEF n, w
  <2> QED BY <2>3, <2>6, <2>7
<1> QED BY <1>1, <1>2, <1>4, <1>5, <1>6, <1>7, <1>8, <1>9

\* addTimerInLoop of a Timer that is in no set yet, created in the same step or
\* waiting at the head of the queue of functors.
LEMMA AddStep ==
  ASSUME IInv, TypeOK', NEW a \in Addrs, NEW seq \in Nat, NEW when \in Int, when >= 1,
         AddTimerInLoop(a, seq, when),
         heap'[a].live, heap'[a].seq = seq, heap'[a].expiration = when,
         \A b \in Addrs : b # a => heap'[b] = heap[b],
         \A e \in timers_ \cup expired : e[2] # a,
         <<a, seq>> \notin cancelled,
         seq <= numCreated', numCreated <= numCreated',
         \A id \in ids' : id[2] <= numCreated',
         NEW k \in {0, 1},
         \A i \in DOMAIN pending' : i \in Nat /\ i + k \in DOMAIN pending /\ pending'[i] = pending[i + k],
         \A i \in Adds' : pending'[i].id[1] # a,
         UNCHANGED <<now, pc, expired, cancelingTimers_, callingExpiredTimers_, cancelled, readNow,
                     throws>>
  PROVE  IInv'
<1> USE DEF IInv
<1>1. /\ timers_' = timers_ \cup {<<when, a>>}
      /\ activeTimers_' = activeTimers_ \cup {<<a, seq>>}
      /\ timerfd' = IF EarliestChanged(when) THEN ArmAt(when) ELSE timerfd
  BY DEF AddTimerInLoop
<1>2. /\ \A e \in timers_ : e \in Int \X Addrs /\ e[2] \in Addrs
      /\ \A e \in expired : e[2] \in Addrs
  BY DEF TypeOK, Entries
<1>3. \A i \in Adds' : /\ i + k \in Adds /\ i \in Nat /\ pending'[i] = pending[i + k]
                       /\ pending[i + k].id[1] \in Addrs /\ pending'[i].id[1] # a
  BY PendingType DEF Adds
<1>4. Id(a)' = <<a, seq>> /\ \A b \in Addrs : b # a => Id(b)' = Id(b)
  BY DEF Id
<1>5. ClockInv'
  BY DEF ClockInv, TypeOK
<1>6. BatchInv'
  BY DEF BatchInv
<1>7. PendingInv'
  <2>1. \A i, j \in Adds' : pending'[i].id[1] = pending'[j].id[1] => i = j
    BY <1>3 DEF PendingInv
  <2>2. \A i \in Adds' : \A e \in timers_' \cup expired' : e[2] # pending'[i].id[1]
    BY <1>1, <1>3 DEF PendingInv
  <2> QED BY <2>1, <2>2 DEF PendingInv
<1>8. FreshInv'
  <2>1. \A b \in Addrs : heap'[b].seq <= numCreated'
    <3>1. \A b \in Addrs : heap[b].seq \in Nat /\ heap[b].seq <= numCreated
      BY DEF FreshInv, TypeOK
    <3>2. numCreated \in Nat /\ numCreated' \in Nat
      BY DEF TypeOK
    <3> QED BY <3>1, <3>2
  <2>2. \A id \in cancelled : id[2] <= numCreated'
    <3>1. \A id \in cancelled : id[2] \in Nat
      BY DEF TypeOK, TimerIds
    <3>2. \A id \in cancelled : id[2] <= numCreated
      BY DEF FreshInv
    <3>3. numCreated \in Nat /\ numCreated' \in Nat
      BY DEF TypeOK
    <3> QED BY <3>1, <3>2, <3>3
  <2>3. \A i \in DOMAIN pending' : pending'[i].id[2] <= numCreated'
    <3>1. \A i \in DOMAIN pending : pending[i].id[2] \in Nat /\ pending[i].id[2] <= numCreated
      BY PendingType DEF FreshInv
    <3>2. numCreated \in Nat /\ numCreated' \in Nat
      BY DEF TypeOK
    <3> QED BY <3>1, <3>2
  <2> QED BY <2>1, <2>2, <2>3 DEF FreshInv
<1>9. CancelInv'
  BY <1>2, <1>3, <1>4 DEF CancelInv
<1>10. SetsAgree'
  <2>1. activeTimers_' = {Id(e[2])' : e \in timers_'}
    <3>1. \A e \in timers_ : Id(e[2])' = Id(e[2])
      BY <1>2, <1>4
    <3>2. \A e \in timers_' : Id(e[2])' \in activeTimers_'
      BY <1>1, <1>4, <3>1, QueueFacts
    <3>3. \A id \in activeTimers_' : \E e \in timers_' : id = Id(e[2])'
      <4>1. <<when, a>>[2] = a /\ <<when, a>> \in timers_' /\ <<a, seq>> = Id(a)'
        BY <1>1, <1>4
      <4>2. \A id \in activeTimers_ : \E e \in timers_ : id = Id(e[2])'
        BY <3>1, QueueFacts
      <4>3. \A e \in timers_ : e \in timers_'
        BY <1>1
      <4> QED BY <1>1, <4>1, <4>2, <4>3
    <3> QED BY <3>2, <3>3, SameTimers DEF Id
  <2>2. \A e \in timers_' : e[1] = heap'[e[2]].expiration
    BY <1>1, <1>2 DEF SetsAgree
  <2>3. \A d, e \in timers_' : d[2] = e[2] => d = e
    BY <1>1 DEF SetsAgree
  <2> QED BY <2>1, <2>2, <2>3 DEF SetsAgree
<1>11. NoDanglingTimer'
  <2>1. \A e \in timers_' \cup expired' : heap'[e[2]].live
    BY <1>1, <1>2 DEF NoDanglingTimer
  <2>2. \A i \in Adds' : heap'[pending'[i].id[1]].live /\ <<pending'[i].id[1], heap'[pending'[i].id[1]].seq>> = pending'[i].id
    <3> SUFFICES ASSUME NEW i \in Adds'
                 PROVE  /\ heap'[pending'[i].id[1]].live
                        /\ <<pending'[i].id[1], heap'[pending'[i].id[1]].seq>> = pending'[i].id
      OBVIOUS
    <3>1. /\ heap[pending[i + k].id[1]].live
          /\ <<pending[i + k].id[1], heap[pending[i + k].id[1]].seq>> = pending[i + k].id
      BY <1>3, QueueFacts DEF Id
    <3> QED BY <1>3, <3>1
  <2>3. {e[2] : e \in timers_'} \cap {e[2] : e \in expired'} = {}
    <3>1. \A d \in timers_', e \in expired' : d[2] # e[2]
      BY <1>1, QueueFacts
    <3> QED BY <3>1, DisjointAddrs
  <2> QED BY <2>1, <2>2, <2>3 DEF NoDanglingTimer, Adds, Id
<1>12. CancelSticks'
  BY <1>1 DEF CancelSticks
<1>13. ArmedForEarliest'
  <2>1. SUFFICES ASSUME pc' = "idle", timers_' # {}, throws' = 0
                 PROVE  timerfd' # Disarmed /\ \A e \in timers_' : timerfd' <= e[1] \/ timerfd' <= now' + 1
    BY DEF ArmedForEarliest
  <2>2. now \in Nat /\ now >= 1 /\ timerfd \in Int /\ \A e \in timers_ : e[1] \in Int /\ e[1] >= 1
    BY EntriesPositive DEF TypeOK, ClockInv
  <2>3. ArmAt(when) \in Int /\ ArmAt(when) # Disarmed /\ (ArmAt(when) <= when \/ ArmAt(when) <= now + 1)
    BY <2>2, ArmAtFacts
  <2>4. CASE timers_ = {}
    BY <1>1, <2>3, <2>4 DEF EarliestChanged
  <2>5. CASE timers_ # {}
    <3> DEFINE w == Earliest(timers_)[1]
    <3>1. Earliest(timers_) \in timers_ /\ \A d \in timers_ : w <= d[1]
      BY <2>2, <2>5, EarliestIsFirst DEF TypeOK
    <3>2. w \in Int
      BY <2>2, <3>1
    <3>3. EarliestChanged(when) <=> when < w
      BY <2>5 DEF EarliestChanged
    <3>4. timerfd # Disarmed /\ \A e \in timers_ : timerfd <= e[1] \/ timerfd <= now + 1
      BY <2>1, <2>5 DEF ArmedForEarliest
    <3>5. timerfd <= w \/ timerfd <= now + 1
      BY <3>1, <3>4
    <3> HIDE DEF w
    <3>6. CASE when < w
      BY <1>1, <2>2, <2>3, <3>1, <3>2, <3>3, <3>6
    <3>7. CASE ~(when < w)
      BY <1>1, <2>2, <3>2, <3>3, <3>4, <3>5, <3>7
    <3> QED BY <3>6, <3>7
  <2> QED BY <2>4, <2>5
<1> QED BY <1>5, <1>6, <1>7, <1>8, <1>9, <1>10, <1>11, <1>12, <1>13

\* cancelInLoop, called by a callback or taken from the head of the queue.
LEMMA CancelStep ==
  ASSUME IInv, TypeOK', NEW id \in TimerIds, id[2] <= numCreated, CancelInLoop(id),
         NEW k \in {0, 1},
         \A i \in DOMAIN pending' : i \in Nat /\ i + k \in DOMAIN pending /\ pending'[i] = pending[i + k],
         UNCHANGED <<now, numCreated, pc, expired, callingExpiredTimers_, readNow, timerfd, ids,
                     throws>>
  PROVE  IInv'
<1> USE DEF IInv
<1>1. id[1] \in Addrs /\ id = <<id[1], id[2]>>
  BY DEF TimerIds
<1>2. \A b \in Addrs : /\ heap'[b].live <=> heap[b].live /\ ~(IsActive(id) /\ b = id[1])
                       /\ heap'[b].seq = heap[b].seq
                       /\ heap'[b].expiration = heap[b].expiration
                       /\ Id(b)' = Id(b)
  <2>1. \A b \in Addrs : /\ heap'[b].live <=> heap[b].live /\ ~(IsActive(id) /\ b = id[1])
                         /\ heap'[b].seq = heap[b].seq
                         /\ heap'[b].expiration = heap[b].expiration
    <3> SUFFICES ASSUME NEW b \in Addrs
                 PROVE  /\ heap'[b].live <=> heap[b].live /\ ~(IsActive(id) /\ b = id[1])
                        /\ heap'[b].seq = heap[b].seq
                        /\ heap'[b].expiration = heap[b].expiration
      BY Zenon
    <3>1. heap'[b].seq = heap[b].seq /\ heap'[b].expiration = heap[b].expiration
      BY CancelFacts
    <3>2. heap'[b].live <=> heap[b].live /\ ~(IsActive(id) /\ b = id[1])
      BY CancelFacts
    <3> QED BY <3>1, <3>2, Zenon
  <2>2. \A b \in Addrs : Id(b)' = Id(b)
    BY <2>1 DEF Id
  <2> QED BY <2>1, <2>2
<1>3. /\ activeTimers_' = activeTimers_ \ {id}
      /\ cancelingTimers_' = IF ~IsActive(id) /\ callingExpiredTimers_
                               THEN cancelingTimers_ \cup {id} ELSE cancelingTimers_
      /\ cancelled \subseteq cancelled' /\ cancelled' \subseteq cancelled \cup {id}
  BY CancelFacts
\* The entry of the id is the only one at its address, and the one removed.
<1>4. \A e \in timers_ : e \in timers_' <=> ~(IsActive(id) /\ e[2] = id[1])
  <2>1. CASE ~IsActive(id)
    BY <2>1, CancelFacts
  <2>2. CASE IsActive(id)
    <3>1. timers_' = timers_ \ {<<heap[id[1]].expiration, id[1]>>}
      BY <2>2, CancelFacts
    <3>2. \A e \in timers_ : e[2] = id[1] <=> e = <<heap[id[1]].expiration, id[1]>>
      <4>1. \A e \in timers_ : e = <<e[1], e[2]>> /\ e[1] = heap[e[2]].expiration
        BY QueueFacts
      <4> QED BY <4>1
    <3> QED BY <2>2, <3>1, <3>2
  <2> QED BY <2>1, <2>2
<1>5. timers_' \subseteq timers_
  BY CancelFacts
\* An id of a Timer in the batch or on its way is not active.
<1>6. /\ \A e \in expired : ~(IsActive(id) /\ e[2] = id[1])
      /\ \A i \in Adds : ~(IsActive(id) /\ pending[i].id[1] = id[1])
  <2>1. IsActive(id) => \E d \in timers_ : d[2] = id[1]
    <3>1. IsActive(id) => \E d \in timers_ : id = Id(d[2])
      BY QueueFacts DEF IsActive
    <3>2. \A d \in timers_ : id = Id(d[2]) => d[2] = id[1]
      BY DEF Id
    <3> QED BY <3>1, <3>2
  <2> QED BY <2>1, QueueFacts DEF PendingInv
<1>7. \A i \in Adds' : i + k \in Adds /\ i \in Nat /\ pending'[i] = pending[i + k]
  BY DEF Adds
<1>8. ClockInv'
  BY <1>2 DEF ClockInv
<1>9. BatchInv'
  BY DEF BatchInv
<1>10. PendingInv'
  <2>1. \A i, j \in Adds' : pending'[i].id[1] = pending'[j].id[1] => i = j
    BY <1>7 DEF PendingInv
  <2>2. \A i \in Adds' : \A e \in timers_' \cup expired' : e[2] # pending'[i].id[1]
    BY <1>5, <1>7 DEF PendingInv
  <2> QED BY <2>1, <2>2 DEF PendingInv
<1>11. FreshInv'
  BY <1>2, <1>3 DEF FreshInv
<1>12. CancelInv'
  <2>1. ASSUME NEW e \in expired', Id(e[2])' \in cancelled' PROVE Id(e[2])' \in cancelingTimers_'
    <3>1. e \in expired /\ e[2] \in Addrs /\ Id(e[2])' = Id(e[2])
      BY <1>2, QueueFacts
    <3>2. CASE Id(e[2]) \in cancelled
      BY <1>3, <3>1, <3>2 DEF CancelInv
    <3>3. CASE Id(e[2]) = id
      <4>1. e[2] = id[1]
        BY <3>3 DEF Id
      <4>2. ~IsActive(id)
        BY <1>6, <3>1, <4>1
      <4>3. callingExpiredTimers_
        BY <3>1 DEF BatchInv, TypeOK
      <4> QED BY <1>3, <3>1, <3>3, <4>2, <4>3
    <3> QED BY <1>3, <2>1, <3>1, <3>2, <3>3
  <2>2. ASSUME NEW i \in Adds' PROVE pending'[i].id \notin cancelled'
    <3>1. i + k \in Adds /\ pending'[i] = pending[i + k]
      BY <1>7
    <3>2. CASE pending[i + k].id = id
      <4>1. pending[i + k] \in Ops /\ pending[i + k].op = "add" /\ i + k \in DOMAIN pending
        BY <3>1, QueueFacts DEF Adds
      <4>2. pending[i + k] = [op |-> "add", id |-> id]
        BY <3>2, <4>1 DEF Ops
      <4>3. cancelled' = cancelled
        BY <4>1, <4>2 DEF CancelInLoop
      <4> QED BY <3>1, <4>3 DEF CancelInv
    <3>3. CASE pending[i + k].id # id
      BY <1>3, <3>1, <3>3 DEF CancelInv
    <3> QED BY <3>2, <3>3
  <2> QED BY <2>1, <2>2 DEF CancelInv
<1>13. SetsAgree'
  <2>1. \A e \in timers_' : Id(e[2])' \in activeTimers_'
    <3> SUFFICES ASSUME NEW e \in timers_' PROVE Id(e[2])' \in activeTimers_'
      OBVIOUS
    <3>1. e \in timers_ /\ e[2] \in Addrs /\ Id(e[2]) \in activeTimers_ /\ Id(e[2])' = Id(e[2])
      BY <1>2, <1>5, QueueFacts
    <3>2. Id(e[2]) = id => e[2] = id[1] /\ IsActive(id)
      BY <3>1 DEF Id, IsActive
    <3> QED BY <1>3, <1>4, <3>1, <3>2
  <2>2. \A i \in activeTimers_' : \E e \in timers_' : i = Id(e[2])'
    <3> SUFFICES ASSUME NEW i \in activeTimers_' PROVE \E e \in timers_' : i = Id(e[2])'
      OBVIOUS
    <3>1. i \in activeTimers_ /\ i # id
      BY <1>3
    <3>2. PICK e \in timers_ : i = Id(e[2])
      BY <3>1, QueueFacts
    <3>3. e[2] \in Addrs /\ Id(e[2])' = Id(e[2])
      BY <1>2, QueueFacts
    <3>4. ~(IsActive(id) /\ e[2] = id[1])
      <4> SUFFICES ASSUME IsActive(id), e[2] = id[1] PROVE FALSE
        OBVIOUS
      <4>1. PICK d \in timers_ : id = Id(d[2])
        BY QueueFacts DEF IsActive
      <4>2. d[2] = e[2]
        BY <4>1 DEF Id
      <4> QED BY <3>1, <3>2, <4>1, <4>2
    <3> QED BY <1>4, <3>2, <3>3, <3>4
  <2>3. activeTimers_' = {<<e[2], heap'[e[2]].seq>> : e \in timers_'}
    BY <2>1, <2>2, SameTimers DEF Id
  <2>4. \A e \in timers_' : e[1] = heap'[e[2]].expiration
    BY <1>2, <1>5, QueueFacts
  <2>5. \A d, e \in timers_' : d[2] = e[2] => d = e
    BY <1>5, QueueFacts
  <2> QED BY <2>3, <2>4, <2>5 DEF SetsAgree, Id
<1>14. NoDanglingTimer'
  <2>1. \A e \in timers_' \cup expired' : heap'[e[2]].live
    BY <1>2, <1>4, <1>5, <1>6, QueueFacts
  <2>2. \A i \in Adds' : heap'[pending'[i].id[1]].live
                        /\ <<pending'[i].id[1], heap'[pending'[i].id[1]].seq>> = pending'[i].id
    <3> SUFFICES ASSUME NEW i \in Adds'
                 PROVE  /\ heap'[pending'[i].id[1]].live
                        /\ <<pending'[i].id[1], heap'[pending'[i].id[1]].seq>> = pending'[i].id
      OBVIOUS
    <3>1. /\ i + k \in Adds /\ heap[pending[i + k].id[1]].live /\ pending[i + k].id[1] \in Addrs
          /\ <<pending[i + k].id[1], heap[pending[i + k].id[1]].seq>> = pending[i + k].id
      BY <1>7, QueueFacts DEF Id
    <3>2. ~(IsActive(id) /\ pending[i + k].id[1] = id[1])
      BY <1>6, <3>1
    <3> QED BY <1>2, <1>7, <3>1, <3>2
  <2>3. {e[2] : e \in timers_'} \cap {e[2] : e \in expired'} = {}
    <3>1. \A d \in timers_', e \in expired' : d[2] # e[2]
      BY <1>5, QueueFacts
    <3> QED BY <3>1, DisjointAddrs
  <2> QED BY <2>1, <2>2, <2>3 DEF NoDanglingTimer, Adds, Id
<1>15. CancelSticks'
  BY <1>3 DEF CancelSticks
<1>16. ArmedForEarliest'
  BY <1>5 DEF ArmedForEarliest
<1> QED BY <1>8, <1>9, <1>10, <1>11, <1>12, <1>13, <1>14, <1>15, <1>16

\* addTimer in another thread: a new Timer, and its addTimerInLoop queued.
LEMMA CreateStep ==
  ASSUME IInv, TypeOK', NEW a \in Addrs, NEW when \in 1..MaxTime, NEW interval \in Intervals,
         NEW t \in Threads, AddTimer(t, a, when, interval)
  PROVE  IInv'
<1> USE DEF IInv
<1> DEFINE seq == numCreated + 1
<1>0. when \in Int /\ when >= 1 /\ interval \in Nat
  BY TimerConstants
<1>1. /\ ~heap[a].live
      /\ heap'[a].live /\ heap'[a].seq = seq /\ heap'[a].expiration = when
      /\ \A b \in Addrs : b # a => heap'[b] = heap[b]
      /\ numCreated' = seq /\ seq \in Nat /\ numCreated \in Nat
  BY <1>0, NewTimerFacts DEF AddTimer, TypeOK
<1>2. UNCHANGED <<now, timers_, activeTimers_, timerfd, cancelingTimers_, callingExpiredTimers_, pc,
                  expired, readNow, ids, cancelled, throws>>
  BY DEF AddTimer, callVars
<1>3. \A i \in DOMAIN pending' :
         \/ i \in DOMAIN pending /\ pending'[i] = pending[i]
         \/ i \notin DOMAIN pending /\ pending'[i].op = "add" /\ pending'[i].id = <<a, seq>> /\ i = Len(pending) + 1
  <2> DEFINE f == [op |-> "add", id |-> <<a, seq>>]
  <2>1. f \in Ops /\ f.op = "add" /\ f.id = <<a, seq>>
    BY <1>1 DEF Ops, TimerIds
  <2>2. pending \in Seq(Ops) /\ pending' = Append(pending, f)
    BY DEF AddTimer, TypeOK
  <2> HIDE DEF f
  <2> QED BY <2>1, <2>2, AppendToPending
<1> HIDE DEF seq
\* A free address is in no set.
<1>4. /\ \A e \in timers_ \cup expired : e[2] # a /\ e[2] \in Addrs /\ heap'[e[2]] = heap[e[2]]
      /\ \A i \in Adds : pending[i].id[1] # a /\ pending[i].id[1] \in Addrs
                         /\ heap'[pending[i].id[1]] = heap[pending[i].id[1]]
  BY <1>1, QueueFacts
<1>5. \A i \in Adds' : \/ i \in Adds /\ pending'[i] = pending[i]
                       \/ pending'[i].id = <<a, seq>> /\ i = Len(pending) + 1
  <2>1. \A i \in Adds' : i \in DOMAIN pending' /\ pending'[i].op = "add"
    BY DEF Adds
  <2>2. \A i \in DOMAIN pending : pending[i].op = "add" => i \in Adds
    BY DEF Adds
  <2> TAKE i \in Adds'
  <2>3. CASE i \in DOMAIN pending /\ pending'[i] = pending[i]
    BY <2>1, <2>2, <2>3
  <2>4. CASE pending'[i].id = <<a, seq>> /\ i = Len(pending) + 1
    BY <2>4
  <2> QED BY <1>3, <2>1, <2>3, <2>4
<1>6. \A e \in timers_ \cup expired : Id(e[2])' = Id(e[2])
  BY <1>4 DEF Id
<1>7. ClockInv'
  BY <1>0, <1>1, <1>2 DEF ClockInv
<1>8. BatchInv'
  BY <1>2 DEF BatchInv
<1>9. PendingInv'
  <2>1. \A i, j \in Adds' : pending'[i].id[1] = pending'[j].id[1] => i = j
    BY <1>4, <1>5 DEF PendingInv
  <2>2. \A i \in Adds' : \A e \in timers_' \cup expired' : e[2] # pending'[i].id[1]
    BY <1>2, <1>4, <1>5 DEF PendingInv
  <2> QED BY <2>1, <2>2 DEF PendingInv
<1>10. FreshInv'
  <2>1. \A b \in Addrs : heap'[b].seq <= seq
    <3>1. \A b \in Addrs : heap[b].seq \in Nat /\ heap[b].seq <= numCreated
      BY DEF FreshInv, TypeOK
    <3> QED BY <1>1, <3>1 DEF seq
  <2>2. \A id \in ids \cup cancelled : id[2] \in Nat /\ id[2] <= numCreated
    BY DEF FreshInv, TypeOK, TimerIds
  <2>3. \A id \in ids \cup cancelled : id[2] <= seq
    BY <1>1, <2>2 DEF seq
  <2>4. \A i \in DOMAIN pending : pending[i].id[2] \in Nat /\ pending[i].id[2] <= numCreated
    BY PendingType DEF FreshInv
  <2>5. \A i \in DOMAIN pending : pending[i].id[2] <= seq
    BY <1>1, <2>4 DEF seq
  <2>6. \A i \in DOMAIN pending' : pending'[i].id[2] <= seq
    BY <1>1, <1>3, <2>5
  <2> QED BY <1>1, <1>2, <2>1, <2>3, <2>6 DEF FreshInv
<1>11. CancelInv'
  <2>1. <<a, seq>> \notin cancelled
    <3>1. \A id \in cancelled : id[2] \in Nat /\ id[2] <= numCreated
      BY DEF FreshInv, TypeOK, TimerIds
    <3> QED BY <1>1, <3>1 DEF seq
  <2>2. \A i \in Adds' : pending'[i].id \notin cancelled
    BY <1>5, <2>1 DEF CancelInv
  <2>3. \A e \in expired : Id(e[2])' \in cancelled => Id(e[2])' \in cancelingTimers_
    BY <1>6 DEF CancelInv
  <2> QED BY <1>2, <2>2, <2>3 DEF CancelInv
<1>12. SetsAgree'
  <2>1. \A e \in timers_' : Id(e[2])' \in activeTimers_'
    BY <1>2, <1>6, QueueFacts
  <2>2. \A i \in activeTimers_' : \E e \in timers_' : i = Id(e[2])'
    BY <1>2, <1>6, QueueFacts
  <2>3. activeTimers_' = {<<e[2], heap'[e[2]].seq>> : e \in timers_'}
    BY <2>1, <2>2, SameTimers DEF Id
  <2>4. /\ \A e \in timers_' : e[1] = heap'[e[2]].expiration
        /\ \A d, e \in timers_' : d[2] = e[2] => d = e
    BY <1>2, <1>4, QueueFacts
  <2> QED BY <2>3, <2>4 DEF SetsAgree, Id
<1>13. NoDanglingTimer'
  <2>1. \A e \in timers_' \cup expired' : heap'[e[2]].live
    BY <1>2, <1>4, QueueFacts
  <2>2. \A i \in Adds' : heap'[pending'[i].id[1]].live
                        /\ <<pending'[i].id[1], heap'[pending'[i].id[1]].seq>> = pending'[i].id
    <3>1. \A i \in Adds : heap[pending[i].id[1]].live
                         /\ <<pending[i].id[1], heap[pending[i].id[1]].seq>> = pending[i].id
      BY QueueFacts DEF Id
    <3> QED BY <1>1, <1>4, <1>5, <3>1
  <2>3. {e[2] : e \in timers_'} \cap {e[2] : e \in expired'} = {}
    BY <1>2, QueueFacts, DisjointAddrs
  <2> QED BY <2>1, <2>2, <2>3 DEF NoDanglingTimer, Adds, Id
<1>14. CancelSticks' /\ ArmedForEarliest'
  BY <1>2 DEF CancelSticks, ArmedForEarliest
<1> QED BY <1>7, <1>8, <1>9, <1>10, <1>11, <1>12, <1>13, <1>14

\* handleRead takes the timers that are due out of both sets.
LEMMA HandleReadStep ==
  ASSUME IInv, TypeOK', HandleRead
  PROVE  IInv'
<1> USE DEF IInv
<1>1. /\ expired' = {e \in timers_ : e[1] <= now}
      /\ timers_' = timers_ \ expired'
      /\ activeTimers_' = activeTimers_ \ {Id(e[2]) : e \in expired'}
      /\ callingExpiredTimers_' = TRUE
      /\ pc' = "calling" /\ readNow' = now
      /\ UNCHANGED <<now, heap, numCreated, pending, ids, cancelled, throws>>
  BY DEF HandleRead, IsExpired
<1>2. pc = "idle" /\ expired = {}
  BY DEF HandleRead, BatchInv
<1>3. \A e : e \in timers_' \cup expired' <=> e \in timers_
  BY <1>1
<1>4. Adds' = Adds
  BY <1>1 DEF Adds
<1>5. \A b : Id(b)' = Id(b)
  BY <1>1 DEF Id
<1>6. ClockInv'
  BY <1>1 DEF ClockInv
<1>7. BatchInv'
  BY <1>1, QueueFacts DEF BatchInv
<1>8. PendingInv'
  BY <1>1, <1>2, <1>3, <1>4 DEF PendingInv
<1>9. FreshInv'
  BY <1>1 DEF FreshInv
<1>10. CancelInv'
  <2>1. \A e \in expired' : Id(e[2]) \notin cancelled
    BY <1>3, QueueFacts DEF CancelSticks
  <2> QED BY <1>1, <1>4, <1>5, <2>1 DEF CancelInv
<1>11. SetsAgree'
  <2>1. \A e \in timers_' : Id(e[2])' \in activeTimers_'
    <3> SUFFICES ASSUME NEW e \in timers_' PROVE Id(e[2]) \in activeTimers_'
      BY <1>5
    <3>1. e \in timers_ /\ Id(e[2]) \in activeTimers_
      BY <1>1, QueueFacts
    <3>2. ASSUME NEW d \in expired', Id(e[2]) = Id(d[2]) PROVE FALSE
      <4>1. d \in timers_ /\ d[2] = e[2]
        BY <1>1, <3>2 DEF Id
      <4>2. d = e
        BY <3>1, <4>1, QueueFacts
      <4> QED BY <1>1, <4>2
    <3> QED BY <1>1, <3>1, <3>2
  <2>2. \A i \in activeTimers_' : \E e \in timers_' : i = Id(e[2])'
    <3> SUFFICES ASSUME NEW i \in activeTimers_' PROVE \E e \in timers_' : i = Id(e[2])
      BY <1>5
    <3>1. i \in activeTimers_ /\ i \notin {Id(e[2]) : e \in expired'}
      BY <1>1
    <3>2. PICK e \in timers_ : i = Id(e[2])
      BY <3>1, QueueFacts
    <3>3. e \notin expired'
      BY <3>1, <3>2
    <3> QED BY <1>1, <3>2, <3>3
  <2>3. activeTimers_' = {<<e[2], heap'[e[2]].seq>> : e \in timers_'}
    BY <2>1, <2>2, SameTimers DEF Id
  <2>4. /\ \A e \in timers_' : e[1] = heap'[e[2]].expiration
        /\ \A d, e \in timers_' : d[2] = e[2] => d = e
    BY <1>1, QueueFacts
  <2> QED BY <2>3, <2>4 DEF SetsAgree, Id
<1>12. NoDanglingTimer'
  <2>1. \A e \in timers_' \cup expired' : heap'[e[2]].live
    BY <1>1, <1>3, QueueFacts
  <2>2. \A i \in Adds' : heap'[pending'[i].id[1]].live
                        /\ <<pending'[i].id[1], heap'[pending'[i].id[1]].seq>> = pending'[i].id
    BY <1>1, <1>4, QueueFacts DEF Id
  <2>3. {e[2] : e \in timers_'} \cap {e[2] : e \in expired'} = {}
    <3>1. \A d \in timers_', e \in expired' : d[2] # e[2]
      BY <1>1, QueueFacts
    <3> QED BY <3>1, DisjointAddrs
  <2> QED BY <2>1, <2>2, <2>3 DEF NoDanglingTimer, Adds, Id
<1>13. CancelSticks' /\ ArmedForEarliest'
  BY <1>1 DEF CancelSticks, ArmedForEarliest
<1> QED BY <1>6, <1>7, <1>8, <1>9, <1>10, <1>11, <1>12, <1>13

\* reset() puts back the repeating timers that were not cancelled, and deletes
\* the others.
LEMMA ResetStep ==
  ASSUME IInv, TypeOK', Reset
  PROVE  IInv'
<1> USE DEF IInv
<1>1. /\ pc' = "idle" /\ expired' = {}
      /\ UNCHANGED <<now, numCreated, cancelingTimers_, readNow, pending, ids, cancelled, throws>>
      /\ pc = "calling"
  BY DEF Reset
<1>2. /\ Again \subseteq Addrs /\ Over \subseteq Addrs
      /\ \A a \in Addrs :
            /\ heap'[a].live <=> heap[a].live /\ a \notin Over
            /\ heap'[a].seq = heap[a].seq
            /\ heap'[a].expiration =
                  IF a \in Again THEN readNow + heap[a].interval ELSE heap[a].expiration
      /\ timers_' = timers_ \cup {<<readNow + heap[a].interval, a>> : a \in Again}
      /\ activeTimers_' = activeTimers_ \cup {Id(a) : a \in Again}
  BY ResetSets
<1>3. \A a \in Addrs : Id(a)' = Id(a)
  BY <1>2 DEF Id
<1>4. /\ \A a \in Again : \E e \in expired : e[2] = a
      /\ \A a \in Over : \E e \in expired : e[2] = a
      /\ \A a \in Again : a \notin Over /\ Id(a) \notin cancelingTimers_
  BY DEF Again, Over, Deletes, Restarts
<1>5. /\ \A a \in Again : heap[a].live /\ Id(a) \notin cancelled /\ \A e \in timers_ : e[2] # a
      /\ \A a \in Over : \A e \in timers_ : e[2] # a
      /\ \A i \in Adds : pending[i].id[1] \notin Again /\ pending[i].id[1] \notin Over
  BY <1>4, QueueFacts DEF CancelInv, PendingInv
<1>6. Adds' = Adds
  BY <1>1 DEF Adds
\* An entry is an old one, or that of a Timer started again.
<1>7. \A e \in timers_' : \/ e \in timers_ /\ e[2] \in Addrs /\ e[2] \notin Again /\ e[2] \notin Over
                          \/ e[2] \in Again /\ e = <<readNow + heap[e[2]].interval, e[2]>>
  <2>1. \A e \in timers_ : e[2] \in Addrs /\ e[2] \notin Again /\ e[2] \notin Over
    BY <1>5, QueueFacts
  <2> DEFINE new == {<<readNow + heap[a].interval, a>> : a \in Again}
  <2>2. \A e \in new : e[2] \in Again /\ e = <<readNow + heap[e[2]].interval, e[2]>>
    OBVIOUS
  <2>3. timers_' = timers_ \cup new
    BY <1>2
  <2> HIDE DEF new
  <2> QED BY <2>1, <2>2, <2>3
<1>8. ClockInv'
  <2>1. \A a \in Addrs : heap[a].interval \in Nat /\ readNow \in Nat /\ readNow >= 1
    BY <1>1 DEF TypeOK, ClockInv
  <2>2. \A a \in Addrs : heap'[a].live => heap'[a].expiration >= 1
    BY <1>2, <2>1 DEF ClockInv
  <2> QED BY <1>1, <2>2 DEF ClockInv
<1>9. BatchInv'
  BY <1>1 DEF BatchInv
<1>10. PendingInv'
  BY <1>1, <1>5, <1>6, <1>7 DEF PendingInv
<1>11. FreshInv'
  BY <1>1, <1>2 DEF FreshInv
<1>12. CancelInv'
  BY <1>1, <1>6 DEF CancelInv
<1>13. SetsAgree'
  <2>1. \A e \in timers_' : Id(e[2])' \in activeTimers_'
    BY <1>2, <1>3, <1>7, QueueFacts
  <2>2. \A i \in activeTimers_' : \E e \in timers_' : i = Id(e[2])'
    <3> SUFFICES ASSUME NEW i \in activeTimers_' PROVE \E e \in timers_' : i = Id(e[2])'
      OBVIOUS
    <3>1. CASE i \in activeTimers_
      <4>1. PICK e \in timers_ : i = Id(e[2])
        BY <3>1, QueueFacts
      <4> QED BY <1>2, <1>3, <4>1, QueueFacts
    <3>2. CASE i \notin activeTimers_
      <4>1. PICK a \in Again : i = Id(a)
        BY <1>2, <3>2
      <4>2. <<readNow + heap[a].interval, a>> \in timers_' /\ <<readNow + heap[a].interval, a>>[2] = a
        BY <1>2
      <4> QED BY <1>2, <1>3, <4>1, <4>2
    <3> QED BY <3>1, <3>2
  <2>3. activeTimers_' = {<<e[2], heap'[e[2]].seq>> : e \in timers_'}
    BY <2>1, <2>2, SameTimers DEF Id
  <2>4. \A e \in timers_' : e[1] = heap'[e[2]].expiration
    BY <1>2, <1>7, QueueFacts
  <2>5. \A d, e \in timers_' : d[2] = e[2] => d = e
    BY <1>7, QueueFacts
  <2> QED BY <2>3, <2>4, <2>5 DEF SetsAgree, Id
<1>14. NoDanglingTimer'
  <2>1. \A e \in timers_' \cup expired' : heap'[e[2]].live
    BY <1>1, <1>2, <1>4, <1>5, <1>7, QueueFacts
  <2>2. \A i \in Adds' : heap'[pending'[i].id[1]].live
                        /\ <<pending'[i].id[1], heap'[pending'[i].id[1]].seq>> = pending'[i].id
    <3>1. \A i \in Adds : heap[pending[i].id[1]].live /\ pending[i].id[1] \in Addrs
                         /\ <<pending[i].id[1], heap[pending[i].id[1]].seq>> = pending[i].id
      BY QueueFacts DEF Id
    <3> QED BY <1>1, <1>2, <1>5, <1>6, <3>1
  <2>3. {e[2] : e \in timers_'} \cap {e[2] : e \in expired'} = {}
    BY <1>1
  <2> QED BY <2>1, <2>2, <2>3 DEF NoDanglingTimer, Adds, Id
<1>15. CancelSticks'
  BY <1>1, <1>2, <1>5 DEF CancelSticks
<1>16. ArmedForEarliest'
  BY <1>1, ResetTimerfd DEF ArmedForEarliest
<1> QED BY <1>8, <1>9, <1>10, <1>11, <1>12, <1>13, <1>14, <1>15, <1>16

-----------------------------------------------------------------------------
(* The invariant and its theorems.                                         *)

LEMMA InvInit == Init => IInv
<1> SUFFICES ASSUME Init PROVE IInv
  OBVIOUS
<1> USE DEF Init
<1>1. TypeOK
  <2>1. callingExpiredTimers_ \in BOOLEAN /\ timerReady \in BOOLEAN
    BY Zenon
  <2>2. heap \in [Addrs -> [live : BOOLEAN, seq : Nat, expiration : Int, interval : Nat]]
    OBVIOUS
  <2>3. timerfd \in Int /\ pending \in Seq(Ops) /\ tpc \in [Threads -> TimerIds \cup {NoTimer}]
    BY DEF Disarmed
  <2> QED BY <2>1, <2>2, <2>3 DEF TypeOK
<1>2. ClockInv /\ BatchInv /\ PendingInv /\ FreshInv /\ CancelInv
  BY DEF ClockInv, BatchInv, PendingInv, Adds, FreshInv, CancelInv
<1>3. SetsAgree /\ NoDanglingTimer /\ CancelSticks /\ ArmedForEarliest
  BY DEF SetsAgree, NoDanglingTimer, CancelSticks, ArmedForEarliest
<1> QED BY <1>1, <1>2, <1>3 DEF IInv

LEMMA InvStep == IInv /\ [Next]_vars => IInv'
<1> SUFFICES ASSUME IInv, [Next]_vars PROVE IInv'
  OBVIOUS
<1>0. TypeOK /\ TypeOK'
  BY TypeStep DEF IInv
<1>1. CASE UNCHANGED vars
  BY <1>0, <1>1, QuietStep DEF vars, sets, callVars, IInv, FreshInv
<1>2. CASE Tick
  BY <1>0, <1>2, QuietStep DEF Tick, sets, callVars, IInv, FreshInv
<1>3. CASE PollTimerfd
  BY <1>0, <1>3, QuietStep DEF PollTimerfd, sets, callVars, IInv, FreshInv
<1>4. CASE RunPending
  <2> DEFINE id == Head(pending).id
  <2>1. /\ 1 \in DOMAIN pending /\ pending[1] = Head(pending)
        /\ \A i \in DOMAIN pending' : i + 1 \in DOMAIN pending /\ i \in Nat
                                      /\ pending'[i] = pending[i + 1]
        /\ \A i \in DOMAIN pending' : i # 0
    <3>1. pending \in Seq(Ops) /\ pending # <<>> /\ pending' = Tail(pending)
      BY <1>0, <1>4 DEF RunPending, TypeOK
    <3>2. pending' \in Seq(Ops)
      BY <1>0 DEF TypeOK
    <3> QED BY <3>1, <3>2, TailOfPending
  <2>2. id \in TimerIds /\ id[1] \in Addrs /\ id[2] \in Nat /\ id = <<id[1], id[2]>>
    BY <1>0, <2>1, PendingType DEF TimerIds
  <2>3. UNCHANGED <<now, numCreated, pc, expired, callingExpiredTimers_, readNow, ids, throws>>
    BY <1>4 DEF RunPending
  <2>4. CASE Head(pending).op = "add"
    <3>1. AddTimerInLoop(id[1], id[2], heap[id[1]].expiration)
          /\ UNCHANGED <<heap, cancelingTimers_, cancelled>>
      BY <1>4, <2>4 DEF RunPending
    <3>2. 1 \in Adds
      BY <2>1, <2>4 DEF Adds
    <3>3. heap[id[1]].live /\ heap[id[1]].seq = id[2]
      <4>1. heap[id[1]].live /\ <<id[1], heap[id[1]].seq>> = id
        BY <2>1, <3>2, QueueFacts DEF Id
      <4> QED BY <2>2, <4>1
    <3>4. heap[id[1]].expiration \in Int /\ heap[id[1]].expiration >= 1
      BY <1>0, <2>2, <3>3 DEF TypeOK, IInv, ClockInv
    <3>5. \A e \in timers_ \cup expired : e[2] # id[1]
      BY <2>1, <3>2 DEF IInv, PendingInv
    <3>6. <<id[1], id[2]>> \notin cancelled
      BY <2>1, <2>2, <3>2 DEF IInv, CancelInv
    <3>7. id[2] <= numCreated /\ \A i \in ids : i[2] <= numCreated
      BY <2>1 DEF IInv, FreshInv
    <3>8. \A i \in Adds' : pending'[i].id[1] # id[1]
      <4>1. \A i \in Adds' : i + 1 \in Adds /\ i + 1 # 1 /\ pending'[i] = pending[i + 1]
        BY <2>1 DEF Adds
      <4> QED BY <2>1, <3>2, <4>1 DEF IInv, PendingInv
    <3>9. numCreated' = numCreated /\ numCreated \in Nat /\ ids' = ids
      BY <1>0, <2>3 DEF TypeOK
    <3> HIDE DEF id
    <3> DEFINE w == heap[id[1]].expiration
    <3>10. /\ AddTimerInLoop(id[1], id[2], w) /\ w \in Int /\ w >= 1
           /\ heap'[id[1]].live /\ heap'[id[1]].seq = id[2] /\ heap'[id[1]].expiration = w
           /\ \A b \in Addrs : b # id[1] => heap'[b] = heap[b]
      BY <3>1, <3>3, <3>4
    <3> HIDE DEF w
    <3> QED BY <1>0, <2>1, <2>2, <2>3, <3>1, <3>5, <3>6, <3>7, <3>8, <3>9, <3>10, AddStep
  <2>5. CASE Head(pending).op = "cancel"
    <3>1. CancelInLoop(id) /\ UNCHANGED timerfd
      BY <1>4, <2>5 DEF RunPending
    <3>2. id[2] <= numCreated
      BY <2>1 DEF IInv, FreshInv
    <3> HIDE DEF id
    <3> QED BY <1>0, <2>1, <2>2, <2>3, <3>1, <3>2, CancelStep
  <2> QED BY <1>0, <2>1, <2>4, <2>5, PendingType
<1>5. CASE HandleRead
  BY <1>0, <1>5, HandleReadStep
<1>6. CASE RunReturns
  BY <1>0, <1>6, QuietStep DEF RunReturns, sets, IInv, FreshInv
<1>7. CASE Reset
  BY <1>0, <1>7, ResetStep
<1>8. ASSUME NEW e \in toRun, RunTimer(e) PROVE IInv'
  BY <1>0, <1>8, QuietStep DEF RunTimer, sets, IInv, FreshInv
<1>9. CASE RunThrows
  BY <1>0, <1>9, QuietStep DEF RunThrows, sets, IInv, FreshInv
<1>10. ASSUME NEW a \in Addrs, NEW when \in 1..MaxTime, NEW interval \in Intervals,
              LoopAddTimer(a, when, interval)
       PROVE  IInv'
  <2> DEFINE seq == numCreated + 1
  <2>1. when \in Int /\ when >= 1 /\ interval \in Nat
    BY TimerConstants
  <2>2. NewTimer(a, when, interval) /\ AddTimerInLoop(a, seq, when) /\ ids' = ids \cup {<<a, seq>>}
    BY <1>10 DEF LoopAddTimer
  <2>3. UNCHANGED <<now, pc, expired, cancelingTimers_, callingExpiredTimers_, cancelled, readNow,
                    throws>> /\ pending' = pending
    BY <1>10 DEF LoopAddTimer, callVars
  <2>4. /\ ~heap[a].live
        /\ heap'[a].live /\ heap'[a].seq = seq /\ heap'[a].expiration = when
        /\ \A b \in Addrs : b # a => heap'[b] = heap[b]
        /\ numCreated' = seq /\ seq \in Nat /\ numCreated \in Nat /\ numCreated < seq
    <3>1. numCreated \in Nat /\ seq \in Nat /\ numCreated < seq
      BY <1>0 DEF TypeOK
    <3> QED BY <1>0, <2>1, <2>2, <3>1, NewTimerFacts
  <2>5. /\ \A e \in timers_ \cup expired : e[2] # a
        /\ \A i \in Adds' : pending'[i].id[1] # a
    <3>1. Adds' = Adds
      BY <2>3 DEF Adds
    <3> QED BY <2>3, <2>4, <3>1, QueueFacts
  <2>6. \A i \in ids \cup cancelled : i[2] \in Nat /\ i[2] <= numCreated
    BY <1>0 DEF IInv, FreshInv, TypeOK, TimerIds
  <2>7. <<a, seq>> \notin cancelled
    BY <2>4, <2>6
  <2>8. \A i \in ids' : i[2] <= numCreated'
    BY <2>2, <2>4, <2>6
  <2>9. \A i \in DOMAIN pending' : i \in Nat /\ i + 0 \in DOMAIN pending /\ pending'[i] = pending[i + 0]
    BY <1>0, <2>3 DEF TypeOK
  <2> HIDE DEF seq
  <2>10. seq <= numCreated' /\ numCreated <= numCreated' /\ 0 \in {0, 1}
    BY <2>4
  <2> QED BY <1>0, <2>1, <2>2, <2>3, <2>4, <2>5, <2>7, <2>8, <2>9, <2>10, AddStep
<1>11. ASSUME NEW a \in Addrs, NEW when \in 1..MaxTime, NEW interval \in Intervals,
              NEW t \in Threads, AddTimer(t, a, when, interval)
       PROVE  IInv'
  BY <1>0, <1>11, CreateStep
<1>12. ASSUME NEW t \in Threads, AddTimerReturns(t) PROVE IInv'
  <2>1. tpc[t][1] \in Addrs
    BY <1>0, <1>12 DEF AddTimerReturns, TypeOK, TimerIds
  <2>2. PICK seq \in {heap[tpc[t][1]].seq} \cup {s \in {0} : ~heap[tpc[t][1]].live} :
             ids' = ids \cup {<<tpc[t][1], seq>>}
    BY <1>12 DEF AddTimerReturns
  <2>3. seq <= numCreated
    BY <1>0, <2>1, <2>2 DEF IInv, FreshInv, TypeOK
  <2>4. \A id \in ids' : id[2] <= numCreated
    BY <2>2, <2>3 DEF IInv, FreshInv
  <2> QED BY <1>0, <1>12, <2>4, QuietStep DEF AddTimerReturns, sets, callVars
<1>13. ASSUME NEW id \in ids, LoopCancel(id) PROVE IInv'
  <2>1. id \in TimerIds /\ id[2] <= numCreated
    BY <1>0 DEF IInv, FreshInv, TypeOK
  <2>2. CancelInLoop(id) /\ pending' = pending
        /\ UNCHANGED <<now, numCreated, pc, expired, callingExpiredTimers_, readNow, timerfd, ids,
                       throws>>
    BY <1>13 DEF LoopCancel
  <2>3. \A i \in DOMAIN pending' : i \in Nat /\ i + 0 \in DOMAIN pending /\ pending'[i] = pending[i + 0]
    BY <1>0, <2>2 DEF TypeOK
  <2>4. 0 \in {0, 1}
    OBVIOUS
  <2> QED BY <1>0, <2>1, <2>2, <2>3, <2>4, CancelStep
<1>14. ASSUME NEW id \in ids, NEW t \in Threads, Cancel(t, id) PROVE IInv'
  <2> DEFINE f == [op |-> "cancel", id |-> id]
  <2>1. id \in TimerIds /\ id[2] <= numCreated
    BY <1>0 DEF IInv, FreshInv, TypeOK
  <2>2. f \in Ops /\ f.op = "cancel" /\ f.id = id
    BY <2>1 DEF Ops
  <2>3. pending \in Seq(Ops) /\ pending' = Append(pending, f)
    BY <1>0, <1>14 DEF Cancel, TypeOK
  <2> HIDE DEF f
  <2>4. \A i \in DOMAIN pending' : \/ i \in DOMAIN pending /\ pending'[i] = pending[i]
                                   \/ pending'[i].op = "cancel" /\ pending'[i].id[2] <= numCreated
    BY <2>1, <2>2, <2>3, AppendToPending
  <2>5. \A i \in ids' : i[2] <= numCreated
    BY <1>14 DEF Cancel, IInv, FreshInv
  <2> QED BY <1>0, <1>14, <2>4, <2>5, QuietStep DEF Cancel, sets, callVars
<1> QED
  BY <1>1, <1>2, <1>3, <1>4, <1>5, <1>6, <1>7, <1>8, <1>9, <1>10, <1>11, <1>12, <1>13, <1>14
  DEF Next, LoopStep

\* The inductive invariant holds in every behaviour of the timer queue.
THEOREM Invariant == Spec => []IInv
BY InvInit, InvStep, PTL DEF Spec

\* Every variable of TimerQueue keeps its type.
THEOREM TypeCorrect == Spec => []TypeOK
<1>1. IInv => TypeOK
  BY DEF IInv
<1> QED BY <1>1, Invariant, PTL

\* insert, cancelInLoop, getExpired and reset() keep timers_ and activeTimers_
\* in step: the same Timers, each once, under the expiration and the sequence
\* the Timer has.
THEOREM QueueSetsAgree == Spec => []SetsAgree
<1>1. IInv => SetsAgree
  BY DEF IInv
<1> QED BY <1>1, Invariant, PTL

\* No raw Timer pointer in timers_, in the batch of handleRead or bound in a
\* queued addTimerInLoop outlives its Timer, whatever callbacks cancel.
THEOREM NothingDangles == Spec => []NoDanglingTimer
<1>1. IInv => NoDanglingTimer
  BY DEF IInv
<1> QED BY <1>1, Invariant, PTL

\* What cancelInLoop has cancelled, reset() and insert never put back.
THEOREM CancelIsFinal == Spec => []CancelSticks
<1>1. IInv => CancelSticks
  BY DEF IInv
<1> QED BY <1>1, Invariant, PTL

\* While no callback has thrown, insert and reset() leave the timerfd armed, and
\* not later than the earliest entry needs.
THEOREM TimerfdCoversEarliest == Spec => []ArmedForEarliest
<1>1. IInv => ArmedForEarliest
  BY DEF IInv
<1> QED BY <1>1, Invariant, PTL

\* handleRead runs the callback of no timer that is not due.
THEOREM CallbacksNeverEarly == Spec => NeverEarly
<1>1. IInv => \A e \in toRun : e[1] <= now
  BY DEF IInv, TypeOK, BatchInv
<1>2. IInv => (\A e \in toRun : e \notin toRun' /\ current' = e => e[1] <= now)
  BY <1>1
<1> QED BY <1>2, Invariant, PTL DEF NeverEarly
=============================================================================
