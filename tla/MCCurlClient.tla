---------------------------- MODULE MCCurlClient ----------------------------
(* Model-checking instances of CurlClient.  Threads and requests are           *)
(* interchangeable; CurlManagers are not, as total_req_ counts through them.   *)
(* NextRequest may choose any request nobody holds: a permutation that leaves  *)
(* the others alone maps one choice to another.                                *)
EXTENDS CurlClient, TLC

Symmetry == Permutations(Users) \cup Permutations(Objects)
=============================================================================
