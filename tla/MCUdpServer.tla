----------------------------- MODULE MCUdpServer -----------------------------
(* UdpServer with a few datagrams, the second of them empty. *)
EXTENDS UdpServer

MCEmptyDatagrams == {2}
=============================================================================
