---------------------------- MODULE MCTcpListener ----------------------------
(* TcpListener with two clients. *)
EXTENDS TcpListener

CONSTANTS c1, c2

MCConnections == {c1, c2}
=============================================================================
