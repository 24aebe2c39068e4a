---------------------------- MODULE MCNetServer ----------------------------
(* Model-checking instances of NetServer. *)
EXTENDS NetServer

Symmetry == Permutations(Conns)
=============================================================================
