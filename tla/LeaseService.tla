----------------------------- MODULE LeaseService -----------------------------
(***************************************************************************)
(* What the DHCP service promises its clients: who has which address for   *)
(* good, and which address a client may come to use.  Nothing is said      *)
(* about messages, their losses and repetitions, or about how the service  *)
(* finds a client's lease again.                                           *)
(***************************************************************************)
EXTENDS Naturals

CONSTANTS
    Clients, Included,
    Partners,           \* the clients whose leases a client may be given for its own
    Unspecified, NoIp

VARIABLES
    lease,      \* the address each client has, NoIp if none
    address     \* the address each client uses, NoIp if none

serviceVars == <<lease, address>>

LeasesOf(clients) == {lease[c] : c \in clients} \ {NoIp}

ServiceInit ==
    /\ lease = [c \in Clients |-> NoIp]
    /\ address = [c \in Clients |-> NoIp]

\* A client gets an address of the pool that nobody has, once and for ever.
Lend(c) ==
    /\ lease[c] = NoIp
    /\ \E ip \in Included \ LeasesOf(Clients) : lease' = [lease EXCEPT ![c] = ip]
    /\ UNCHANGED address

\* A client that uses no address comes to use a lease.
Bind(c) ==
    /\ address[c] = NoIp
    /\ \E ip \in LeasesOf(Partners[c]) : address' = [address EXCEPT ![c] = ip]
    /\ UNCHANGED lease

\* One that renews may also be told 0.0.0.0.
Rebind(c) ==
    /\ address[c] # NoIp
    /\ \E ip \in LeasesOf(Partners[c]) \cup {Unspecified} : address' = [address EXCEPT ![c] = ip]
    /\ UNCHANGED lease

Leave(c) ==
    /\ address' = [address EXCEPT ![c] = NoIp]
    /\ UNCHANGED lease

ServiceNext == \E c \in Clients : Lend(c) \/ Bind(c) \/ Rebind(c) \/ Leave(c)

Spec == ServiceInit /\ [][ServiceNext]_serviceVars
=============================================================================
