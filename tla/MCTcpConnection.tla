-------------------------- MODULE MCTcpConnection ---------------------------
(* Model-checking instances of TcpConnection. *)
EXTENDS TcpConnection, TLC

Symmetry == Permutations(Msgs) \cup Permutations(Threads)
=============================================================================
