---------------------------- MODULE MCEventLoop -----------------------------
(* Model-checking instances of EventLoop. *)
EXTENDS EventLoop, TLC

\* Threads do not tell functors apart and functors do not tell threads apart.
Symmetry == Permutations(Threads) \cup Permutations(Functors)
=============================================================================
