---------------------------- MODULE FunctorQueue ----------------------------
(***************************************************************************)
(* What an EventLoop promises to the callers of queueInLoop: the functors  *)
(* are executed one at a time, in the order in which they were queued, and *)
(* none is executed twice.  The only way a functor is lost is that a       *)
(* functor before it threw, which drops a run of functors behind it.       *)
(* Threads, wake-ups and batches do not exist at this level.               *)
(***************************************************************************)
EXTENDS Naturals, Sequences, Functions

CONSTANT Functors

VARIABLES queue,  \* functors queued and not yet taken, oldest first
          left,   \* functors that left the queue, in the order they left
          lost    \* the ones among them that were dropped without running

fvars == <<queue, left, lost>>

FInit == queue = <<>> /\ left = <<>> /\ lost = {}

Submit(f) ==
    /\ f \notin Range(left) \cup Range(queue)
    /\ queue' = Append(queue, f)
    /\ UNCHANGED <<left, lost>>

Execute ==
    /\ queue # <<>>
    /\ left' = Append(left, Head(queue))
    /\ queue' = Tail(queue)
    /\ UNCHANGED lost

\* The functor at the head throws; the k - 1 functors behind it are lost.
Abort(k) ==
    /\ left' = left \o SubSeq(queue, 1, k)
    /\ queue' = SubSeq(queue, k + 1, Len(queue))
    /\ lost' = lost \cup Range(SubSeq(queue, 2, k))

FNext ==
    \/ \E f \in Functors : Submit(f)
    \/ Execute
    \/ \E k \in 1..Len(queue) : Abort(k)

FSpec == FInit /\ [][FNext]_fvars
=============================================================================
