------------------------------ MODULE DhcpServer ------------------------------
(***************************************************************************)
(* The serve loop of the DHCP service, dhcp/src/main.cpp:131-164, with its *)
(* address pool (module AddressPool) and the clients it serves.            *)
(*                                                                         *)
(* The loop handles one datagram at a time and nothing else touches the    *)
(* pool or `xids`, so handling a datagram is one action.  No exception is  *)
(* caught: whatever throws ends the process, and `status` says what did.   *)
(*                                                                         *)
(* The network is the set of messages ever sent in each direction: any of  *)
(* them may be received now, later, again or never, so UDP's losses,       *)
(* duplicates and reorderings, a client's retransmissions and the order of *)
(* the receive queue (module UdpServer) are all covered.  The clients are  *)
(* not part of the repository: they follow RFC 2131, which                 *)
(* dhcp/README.md names as the protocol.                                   *)
(***************************************************************************)
EXTENDS Naturals, FiniteSets

CONSTANTS
    SpaceSize,          \* number of IPv4 addresses
    Included,           \* the addresses of the pool
    Clients,            \* hardware addresses of the clients
    XidsOf,             \* the transaction ids each client may use
    NoIp, NoMac

Addresses == 0 .. (SpaceSize - 1)
Unspecified == 0        \* IPv4Address(), what a std::map inserts by default
Xids == UNION {XidsOf[c] : c \in Clients}

ASSUME SpaceAssumption ==
    SpaceSize \in Nat \ {0} /\ Included \subseteq Addresses \ {Unspecified}
ASSUME NullAssumption == NoMac \notin Clients /\ NoIp \notin Addresses
\* A client does not know the ids that others draw: XidsOf[c] and XidsOf[d] may meet.
ASSUME XidAssumption == \A c \in Clients : XidsOf[c] # {}

VARIABLES
    takenIp, takenMac,  \* the pool's leases; nothing else in the pool changes
    xids,               \* the addresses handed out, by transaction id
    status,             \* "running", or the call whose exception ended the process
    requests, replies,  \* every message sent to, and by, the server
    phase, xid, address \* of each client

poolVars == <<takenIp, takenMac>>
clientVars == <<phase, xid, address>>
vars == <<poolVars, xids, status, requests, replies, clientVars>>

Pool == INSTANCE AddressPool WITH
    Macs <- Clients, included <- Included, excluded <- {},
    reservedIp <- [ip \in 0 .. (SpaceSize - 1) |-> NoMac],
    reservedMac <- [c \in Clients |-> NoIp],
    cache <- [c \in Clients |-> NoIp],
    OptionCodes <- {}, OptionValues <- {}, NoOption <- NoIp, options <- << >>

\* `supported` is FALSE when the message carries an option that
\* options_descriptions does not list: the DhcpMessage constructor throws then.
Requests == [type : {"DISCOVER", "REQUEST", "RELEASE"}, xid : Xids, mac : Clients,
             supported : BOOLEAN]
Replies == [type : {"OFFER", "ACK"}, xid : Xids, mac : Clients, yiaddr : Addresses]
Statuses == {"running", "parse", "get_address", "send_to"}
Phases == {"init", "selecting", "requesting", "bound", "renewing"}

TypeOK ==
    /\ takenIp \in [Addresses -> Clients \cup {NoMac}]
    /\ takenMac \in [Clients -> Addresses \cup {NoIp}]
    /\ xids \in [Xids -> Addresses \cup {NoIp}]
    /\ status \in Statuses
    /\ requests \subseteq Requests /\ replies \subseteq Replies
    /\ phase \in [Clients -> Phases]
    /\ xid \in [Clients -> Xids]
    /\ address \in [Clients -> Addresses \cup {NoIp}]

Init ==
    /\ takenIp = [ip \in Addresses |-> NoMac]
    /\ takenMac = [c \in Clients |-> NoIp]
    /\ xids = [x \in Xids |-> NoIp]
    /\ status = "running" /\ requests = {} /\ replies = {}
    /\ phase = [c \in Clients |-> "init"]
    /\ xid \in {f \in [Clients -> Xids] : \A c \in Clients : f[c] \in XidsOf[c]}
    /\ address = [c \in Clients |-> NoIp]

-----------------------------------------------------------------------------
(* The serve loop *)

\* send_to throws: no socket, no broadcast address of the interface, no sending.
SendThrows == status' = "send_to"

Reply(type, m, ip) ==
    \/ /\ replies' = replies \cup {[type |-> type, xid |-> m.xid, mac |-> m.mac, yiaddr |-> ip]}
       /\ UNCHANGED status
    \/ SendThrows /\ UNCHANGED replies

Received(m) == status = "running" /\ m \in requests

ParseThrows(m) ==
    /\ Received(m) /\ ~m.supported
    /\ status' = "parse"
    /\ UNCHANGED <<poolVars, xids, requests, replies, clientVars>>

ServeDiscoverForgettingXid(m) ==
    /\ Received(m) /\ m.supported /\ m.type = "DISCOVER"
    /\ Pool!GetAddress(m.mac)
    /\ Reply("OFFER", m, takenMac'[m.mac])
    /\ UNCHANGED <<xids, requests, clientVars>>

\* The address is remembered under the transaction id before the offer is sent.
ServeDiscover(m) ==
    /\ Received(m) /\ m.supported /\ m.type = "DISCOVER"
    /\ Pool!GetAddress(m.mac)
    /\ xids' = [xids EXCEPT ![m.xid] = takenMac'[m.mac]]
    /\ Reply("OFFER", m, xids'[m.xid])
    /\ UNCHANGED <<requests, clientVars>>

PoolThrowsAtFirstTaken(m) ==
    /\ Received(m) /\ m.supported /\ m.type = "DISCOVER" /\ ~Pool!IsMacTaken(m.mac)
    /\ \E ip \in Included : Pool!IsAddressTaken(ip) /\ \A other \in Included : ip <= other
    /\ status' = "get_address"
    /\ UNCHANGED <<poolVars, xids, requests, replies, clientVars>>

PoolThrows(m) ==
    /\ Received(m) /\ m.supported /\ m.type = "DISCOVER"
    /\ ~\E ip \in Addresses : Pool!Returns(m.mac, ip)
    /\ status' = "get_address"
    /\ UNCHANGED <<poolVars, xids, requests, replies, clientVars>>

ServeRequestWithoutAnswer(m) ==
    /\ Received(m) /\ m.supported /\ m.type = "REQUEST"
    /\ xids' = [xids EXCEPT ![m.xid] = IF @ = NoIp THEN Unspecified ELSE @]
    /\ UNCHANGED <<poolVars, status, requests, replies, clientVars>>

\* Only the transaction id is looked up; an unknown one is inserted with 0.0.0.0.
ServeRequest(m) ==
    /\ Received(m) /\ m.supported /\ m.type = "REQUEST"
    /\ xids' = [xids EXCEPT ![m.xid] = IF @ = NoIp THEN Unspecified ELSE @]
    /\ Reply("ACK", m, xids'[m.xid])
    /\ UNCHANGED <<poolVars, requests, clientVars>>

\* DECLINE, RELEASE and INFORM fall through both branches.
Ignore(m) ==
    /\ Received(m) /\ m.supported /\ m.type = "RELEASE"
    /\ UNCHANGED vars

Serve(m) == ServeDiscover(m) \/ ServeRequest(m)

-----------------------------------------------------------------------------
(* The clients *)

SendRequest(c, type, x, supported) ==
    requests' = requests \cup
        {[type |-> type, xid |-> x, mac |-> c, supported |-> supported]}

\* An id the client has not used itself.
FreshXid(c, x) == x \in XidsOf[c] /\ \A m \in requests : m.mac = c => m.xid # x

\* A client starts, or starts again after losing its state, with a new transaction.
Discover(c) == \E x \in XidsOf[c], supported \in BOOLEAN :
    /\ FreshXid(c, x)
    /\ SendRequest(c, "DISCOVER", x, supported)
    /\ phase' = [phase EXCEPT ![c] = "selecting"]
    /\ xid' = [xid EXCEPT ![c] = x]
    /\ address' = [address EXCEPT ![c] = NoIp]
    /\ UNCHANGED <<poolVars, xids, status, replies>>

AcceptOffer(c) == \E r \in replies :
    /\ phase[c] = "selecting" /\ r.type = "OFFER" /\ r.mac = c /\ r.xid = xid[c]
    /\ SendRequest(c, "REQUEST", xid[c], TRUE)
    /\ phase' = [phase EXCEPT ![c] = "requesting"]
    /\ UNCHANGED <<poolVars, xids, status, replies, xid, address>>

AcceptAck(c) == \E r \in replies :
    /\ phase[c] \in {"requesting", "renewing"} /\ r.type = "ACK" /\ r.mac = c /\ r.xid = xid[c]
    /\ phase' = [phase EXCEPT ![c] = "bound"]
    /\ address' = [address EXCEPT ![c] = r.yiaddr]
    /\ UNCHANGED <<poolVars, xids, status, requests, replies, xid>>

\* A bound client renews its lease: a REQUEST in a transaction of its own.
Renew(c) == \E x \in XidsOf[c] :
    /\ phase[c] = "bound" /\ FreshXid(c, x)
    /\ SendRequest(c, "REQUEST", x, TRUE)
    /\ phase' = [phase EXCEPT ![c] = "renewing"]
    /\ xid' = [xid EXCEPT ![c] = x]
    /\ UNCHANGED <<poolVars, xids, status, replies, address>>

Release(c) ==
    /\ phase[c] = "bound"
    /\ SendRequest(c, "RELEASE", xid[c], TRUE)
    /\ phase' = [phase EXCEPT ![c] = "init"]
    /\ address' = [address EXCEPT ![c] = NoIp]
    /\ UNCHANGED <<poolVars, xids, status, replies, xid>>

Client(c) == Discover(c) \/ AcceptOffer(c) \/ AcceptAck(c) \/ Renew(c) \/ Release(c)

Next ==
    \/ \E m \in requests :
          ParseThrows(m) \/ PoolThrows(m) \/ Ignore(m) \/ ServeDiscover(m) \/ ServeRequest(m)
    \/ \E c \in Clients : Client(c)

Spec == Init /\ [][Next]_vars

(* The loop keeps polling, a message that is retransmitted often enough     *)
(* arrives, and a client takes an answer it waits for.  Sending never has   *)
(* to fail, and nothing is assumed about when clients start, renew or       *)
(* release.                                                                 *)
Answered(m) == Serve(m) /\ UNCHANGED status

Fairness ==
    /\ \A m \in Requests : WF_vars(ParseThrows(m) \/ PoolThrows(m) \/ Answered(m))
    /\ \A c \in Clients : WF_vars(AcceptOffer(c) \/ AcceptAck(c))

FairSpec == Spec /\ Fairness

-----------------------------------------------------------------------------
(* Properties *)

\* `xids` is keyed by the transaction id alone: the clients whose transactions share
\* entries of it with those of c, c among them.
UsersOf(x) == {c \in Clients : x \in XidsOf[c]}
Sharing(c) == UNION {UsersOf(x) : x \in XidsOf[c]}
LeasesUnder(x) == {takenMac[c] : c \in UsersOf(x)} \ {NoIp}

\* However messages are lost, repeated and reordered, two clients are bound to the same
\* address only if both share a transaction id with one client, which may be either of
\* them: where ids do not collide, addresses are unique.
OneHolder == \A c, d \in Clients :
    (c # d /\ address[c] \notin {NoIp, Unspecified} /\ address[c] = address[d])
        => Sharing(c) \cap Sharing(d) # {}

\* What is remembered under a transaction id is the lease of a client that uses the
\* id, or 0.0.0.0 when a REQUEST came before any DISCOVER.
XidIsLease == \A x \in Xids : xids[x] \in {NoIp, Unspecified} \cup LeasesUnder(x)

\* A late or repeated answer is as good as a fresh one: an address the server ever
\* offered is still that client's lease; one it ever acknowledged is still the lease of
\* a client of the transaction, and of that very client if no other uses the id.
RepliesStayTrue == \A r \in replies :
    IF r.type = "OFFER" THEN r.yiaddr = takenMac[r.mac]
    ELSE r.yiaddr \in {Unspecified} \cup LeasesUnder(r.xid)

\* A client that went through DISCOVER and OFFER has a lease by the time it sends its
\* REQUEST, and its transaction is known: 0.0.0.0 is not what it will be acknowledged.
BoundAfterOffer == \A c \in Clients : phase[c] = "requesting" =>
    takenMac[c] # NoIp /\ xids[xid[c]] \in LeasesUnder(xid[c])

\* An id is used by the client it belongs to.
IdsKept ==
    /\ \A m \in requests : m.xid \in XidsOf[m.mac]
    /\ \A r \in replies : r.xid \in XidsOf[r.mac]
    /\ \A c \in Clients : xid[c] \in XidsOf[c]

\* A lease is an address of the pool and is recorded there, and what is recorded is a
\* lease.
LeaseKept ==
    /\ \A c \in Clients : takenMac[c] # NoIp =>
          takenMac[c] \in Included /\ takenIp[takenMac[c]] = c
    /\ \A ip \in Addresses : takenIp[ip] # NoMac => takenMac[takenIp[ip]] = ip

\* get_address threw: every address is taken, and stays so, as nothing is served after.
FullAtDeath == status = "get_address" => \A ip \in Included : takenIp[ip] # NoMac

\* Before an offer is sent its address is under the transaction id, where another
\* client's may replace it, but nothing else.
OfferIsRecorded == \A r \in replies :
    r.type = "OFFER" => xids[r.xid] \in LeasesUnder(r.xid)

\* What a client is bound to is the lease of a client that shares one of its ids.
AddressIsLease == \A c \in Clients :
    address[c] \in {NoIp, Unspecified} \cup UNION {LeasesUnder(x) : x \in XidsOf[c]}

\* Nothing is acknowledged that was not requested.
AckIsAnswer == \A r \in replies : r.type = "ACK" =>
    \E m \in requests : m.type = "REQUEST" /\ m.mac = r.mac /\ m.xid = r.xid

\* A client requests nothing in a transaction before it has accepted the offer.
NoRequestYet == \A c \in Clients, m \in requests :
    phase[c] = "selecting" /\ m.mac = c /\ m.xid = xid[c] => m.type # "REQUEST"

\* The server thus answers the REQUEST of a first binding when the lease is recorded:
\* only a client that renews can be acknowledged 0.0.0.0.
FirstAckIsLease == \A c \in Clients, r \in replies :
    phase[c] = "requesting" /\ r.type = "ACK" /\ r.mac = c /\ r.xid = xid[c] =>
        r.yiaddr \in LeasesUnder(xid[c])

\* A client that is bound uses an address.
BoundHasAddress == \A c \in Clients :
    phase[c] \in {"bound", "renewing"} => address[c] # NoIp

\* The inductive invariant behind OneHolder: a lease never changes, what `xids` and the
\* answers on their way say remains true, and so does what clients learn from them.
IInv ==
    /\ TypeOK /\ IdsKept /\ LeaseKept
    /\ XidIsLease /\ RepliesStayTrue /\ OfferIsRecorded /\ BoundAfterOffer
    /\ AckIsAnswer /\ NoRequestYet /\ FirstAckIsLease /\ BoundHasAddress
    /\ AddressIsLease /\ FullAtDeath

\* What the server promises its clients: a lease of their own for ever, and no other
\* address to use but a lease of a client that shares a transaction id, nor 0.0.0.0
\* unless they renew.
Service == INSTANCE LeaseService WITH
    lease <- takenMac, Partners <- [c \in Clients |-> Sharing(c)]

ImplementsLeaseService == Service!Spec

\* The process dies for want of addresses only when each of them is leased to a
\* client of its own; whether those clients still use them does not matter.
PoolDeathOnlyWhenFull == status = "get_address" =>
    Cardinality({c \in Clients : takenMac[c] \in Included}) = Cardinality(Included)

\* A client that asks for an address gets one, or the process has died.
ClientIsServed == \A c \in Clients :
    (phase[c] = "selecting") ~> (phase[c] = "bound" \/ status # "running")

\* RFC 2131, which dhcp/README.md:4 gives as the protocol: a DHCPACK carries the
\* address the client may use.
AckCarriesAddress == \A r \in replies : r.type = "ACK" => r.yiaddr # Unspecified
=============================================================================
