---------------------------- MODULE MCTimerQueue ----------------------------
(* Model-checking instances of TimerQueue. *)
EXTENDS TimerQueue, TLC

\* Addresses and threads are interchangeable: no action depends on which of
\* several timers with the same expiration comes first.
Symmetry == Permutations(Addrs) \cup Permutations(Threads)
=============================================================================
