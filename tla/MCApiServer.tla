----------------------------- MODULE MCApiServer -----------------------------
(* ApiServer with four callers and two connections. *)
EXTENDS ApiServer

CONSTANTS t1, t2, t3, t4, k1, k2

MCCallers == {t1, t2, t3, t4}
MCConnections == {k1, k2}
=============================================================================
