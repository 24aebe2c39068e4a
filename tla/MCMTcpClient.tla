---------------------------- MODULE MCMTcpClient ----------------------------
(* Model-checking instances of MTcpClient. *)
EXTENDS MTcpClient
=============================================================================
