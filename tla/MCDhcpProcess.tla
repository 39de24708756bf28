---------------------------- MODULE MCDhcpProcess ----------------------------
(* DhcpProcess with two datagrams and one connection to the command port. *)
EXTENDS DhcpProcess

CONSTANT k1

MCConnections == {k1}
MCEmptyDatagrams == {}
=============================================================================
