---------------------------- MODULE MCDhcpServer ----------------------------
(* DhcpServer with a pool of two addresses, more clients than addresses, and  *)
(* one client that may start or renew a second transaction.                   *)
EXTENDS DhcpServer, TLC

CONSTANTS c1, c2, c3

MCClients == {c1, c2, c3}
MCIncluded == {1, 2}
MCXidsOf == (c1 :> {1, 2}) @@ (c2 :> {1}) @@ (c3 :> {3})
MCNoIp == SpaceSize
=============================================================================
