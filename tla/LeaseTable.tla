------------------------------ MODULE LeaseTable ------------------------------
(***************************************************************************)
(* What an address pool promises: a table of who has which address and     *)
(* which address is kept for whom.  Nothing is said about how an address   *)
(* is chosen, about ranges, or about the maps that index the table.        *)
(***************************************************************************)
EXTENDS Naturals

CONSTANTS SpaceSize, Macs, NoIp, NoMac

VARIABLES
    lease,          \* the address each client has, NoIp if none
    reservedFor     \* the client each address is kept for, NoMac if none

tableVars == <<lease, reservedFor>>

Ips == 0 .. (SpaceSize - 1)

HeldBy(ip, mac) == lease[mac] = ip

TableInit ==
    /\ lease = [mac \in Macs |-> NoIp]
    /\ reservedFor = [ip \in Ips |-> NoMac]

\* An address nobody has may be kept for a client.
Reserve(ip, mac) ==
    /\ reservedFor[ip] = NoMac
    /\ \A other \in Macs : ~HeldBy(ip, other)
    /\ reservedFor' = [reservedFor EXCEPT ![ip] = mac]
    /\ UNCHANGED lease

Unreserve(ip) ==
    /\ reservedFor[ip] # NoMac
    /\ reservedFor' = [reservedFor EXCEPT ![ip] = NoMac]
    /\ UNCHANGED lease

\* A client gets an address nobody else has: one kept for it at any time, one kept
\* for nobody only if it has none yet.
Grant(ip, mac) ==
    /\ \A other \in Macs \ {mac} : ~HeldBy(ip, other)
    /\ \/ reservedFor[ip] = mac
       \/ reservedFor[ip] = NoMac /\ lease[mac] = NoIp
    /\ lease' = [lease EXCEPT ![mac] = ip]
    /\ UNCHANGED reservedFor

TableNext == \E ip \in Ips :
    \/ Unreserve(ip)
    \/ \E mac \in Macs : Reserve(ip, mac) \/ Grant(ip, mac)

Spec == TableInit /\ [][TableNext]_tableVars
=============================================================================
