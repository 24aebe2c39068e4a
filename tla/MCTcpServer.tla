---------------------------- MODULE MCTcpServer ----------------------------
(* Model-checking instances of TcpServer. *)
EXTENDS TcpServer
=============================================================================
