---------------------------- MODULE MCConnector ----------------------------
(* Model-checking instances of Connector. *)
EXTENDS Connector
=============================================================================
