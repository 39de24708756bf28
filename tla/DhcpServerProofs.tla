-------------------------- MODULE DhcpServerProofs --------------------------
(***************************************************************************)
(* Proofs about the serve loop, for any pool, any clients and any choice   *)
(* of transaction ids, however messages are lost, repeated and reordered.  *)
(*                                                                         *)
(* Everything rests on one observation: a lease, once given, is never      *)
(* changed (LeaseIsFixed).  What `xids`, the answers on their way and the  *)
(* clients say about leases can thus be late but not wrong, and OneHolder  *)
(* follows because a leased address is recorded for one client             *)
(* (LeaseKept).                                                            *)
(***************************************************************************)
EXTENDS DhcpServer, FiniteSetTheorems, WellFoundedInduction, TLAPS

USE SpaceAssumption, NullAssumption, XidAssumption

-----------------------------------------------------------------------------
(* The pool *)

\* get_address gives the client an address and changes nobody's lease, the client's own
\* included; the new entry is visible in both maps.
LEMMA LeaseIsFixed ==
    ASSUME TypeOK, LeaseKept, NEW c \in Clients, Pool!GetAddress(c)
    PROVE  /\ takenIp' \in [Addresses -> Clients \cup {NoMac}]
           /\ takenMac' \in [Clients -> Addresses \cup {NoIp}]
           /\ takenMac'[c] \in Addresses
           /\ \A d \in Clients : takenMac[d] # NoIp => takenMac'[d] = takenMac[d]
           /\ LeaseKept'
  <1> USE DEF TypeOK
  <1>1. PICK ip \in Addresses :
            /\ Pool!Returns(c, ip)
            /\ takenMac' = [takenMac EXCEPT ![c] = ip]
            /\ takenIp' = IF takenMac[c] # NoIp THEN takenIp ELSE [takenIp EXCEPT ![ip] = c]
    BY DEF Pool!GetAddress, Pool!IsMacTaken, Pool!IsMacReserved, Pool!Addresses, Addresses
  <1>2. CASE takenMac[c] # NoIp
    <2>1. ip = takenMac[c]
      BY <1>1, <1>2 DEF Pool!Returns, Pool!IsMacReserved, Pool!IsMacTaken
    <2> QED
      BY <1>1, <1>2, <2>1 DEF LeaseKept
  <1>3. CASE takenMac[c] = NoIp
    <2>1. ip \in Included /\ takenIp[ip] = NoMac
      BY <1>1, <1>3 DEF Pool!Returns, Pool!IsMacReserved, Pool!IsMacTaken, Pool!IsMacCached,
                        Pool!FirstFree, Pool!Free, Pool!IsAddressIncluded,
                        Pool!IsAddressTaken
    <2>2. \A d \in Clients : takenMac[d] # ip
      BY <2>1 DEF LeaseKept
    <2>3. \A d \in Clients : takenMac'[d] # NoIp =>
              takenMac'[d] \in Included /\ takenIp'[takenMac'[d]] = d
      BY <1>1, <1>3, <2>1, <2>2 DEF LeaseKept
    <2>4. \A other \in Addresses : takenIp'[other] # NoMac =>
              takenMac'[takenIp'[other]] = other
      BY <1>1, <1>3, <2>1 DEF LeaseKept
    <2> QED
      BY <1>1, <1>3, <2>3, <2>4 DEF LeaseKept
  <1> QED
    BY <1>2, <1>3

\* As leases stay, whatever is the lease of a client of a transaction remains so.
LEMMA LeasesOnlyGrow ==
    ASSUME \A d \in Clients : takenMac[d] # NoIp => takenMac'[d] = takenMac[d]
    PROVE  \A x \in Xids : LeasesUnder(x) \subseteq LeasesUnder(x)'
  <1> SUFFICES ASSUME NEW x \in Xids, NEW ip \in LeasesUnder(x)
               PROVE  ip \in LeasesUnder(x)'
    OBVIOUS
  <1>1. PICK d \in UsersOf(x) : takenMac[d] = ip /\ ip # NoIp
    BY DEF LeasesUnder
  <1>2. takenMac'[d] = ip
    BY <1>1 DEF UsersOf
  <1> QED
    BY <1>1, <1>2 DEF LeasesUnder, UsersOf

\* An id a client uses is one of the ids, and it is among the id's users.
LEMMA UserOfItsIds ==
    ASSUME NEW c \in Clients, NEW x \in XidsOf[c]
    PROVE  x \in Xids /\ c \in UsersOf(x)
  BY DEF Xids, UsersOf

-----------------------------------------------------------------------------
(* The serve loop *)

LEMMA InitEstablishesIInv == Init => IInv
  <1> SUFFICES ASSUME Init PROVE IInv
    OBVIOUS
  <1> USE DEF Init
  <1>1. TypeOK
    BY DEF TypeOK, Statuses, Phases
  <1>2. IdsKept /\ LeaseKept /\ XidIsLease /\ RepliesStayTrue /\ OfferIsRecorded
    BY DEF IdsKept, LeaseKept, XidIsLease, RepliesStayTrue, OfferIsRecorded
  <1>4. FullAtDeath
    BY DEF FullAtDeath
  <1>3. BoundAfterOffer /\ AddressIsLease
    BY DEF BoundAfterOffer, AddressIsLease
  <1>5. AckIsAnswer /\ NoRequestYet /\ FirstAckIsLease /\ BoundHasAddress
    BY DEF AckIsAnswer, NoRequestYet, FirstAckIsLease, BoundHasAddress
  <1> QED
    BY <1>1, <1>2, <1>3, <1>4, <1>5 DEF IInv

\* The client is offered the address that is its lease from now on.
LEMMA ServeDiscoverKeeps ==
    ASSUME IInv, NEW m \in requests, ServeDiscover(m)
    PROVE  IInv'
  <1> DEFINE ip == takenMac'[m.mac]
             offer == [type |-> "OFFER", xid |-> m.xid, mac |-> m.mac, yiaddr |-> ip]
  <1> USE DEF IInv
  <1>1. m.mac \in Clients /\ m.xid \in XidsOf[m.mac] /\ m.xid \in Xids
    BY UserOfItsIds DEF TypeOK, Requests, IdsKept
  <1>2. /\ takenIp' \in [Addresses -> Clients \cup {NoMac}]
        /\ takenMac' \in [Clients -> Addresses \cup {NoIp}]
        /\ ip \in Addresses
        /\ \A d \in Clients : takenMac[d] # NoIp => takenMac'[d] = takenMac[d]
        /\ LeaseKept'
    BY <1>1, LeaseIsFixed DEF ServeDiscover
  <1>3. \A x \in Xids : LeasesUnder(x) \subseteq LeasesUnder(x)'
    BY <1>2, LeasesOnlyGrow
  <1>4. ip \in LeasesUnder(m.xid)'
    BY <1>1, <1>2, UserOfItsIds DEF LeasesUnder, UsersOf
  <1>5. /\ xids' = [xids EXCEPT ![m.xid] = ip]
        /\ replies' = replies \/ replies' = replies \cup {offer}
        /\ status' \in Statuses \ {"get_address"}
        /\ UNCHANGED <<requests, clientVars>>
    <2>1. xids' = [xids EXCEPT ![m.xid] = ip] /\ UNCHANGED <<requests, clientVars>>
      BY DEF ServeDiscover
    <2>2. xids'[m.xid] = ip
      BY <1>1, <2>1 DEF TypeOK
    <2> QED
      BY <2>1, <2>2 DEF ServeDiscover, Received, Reply, SendThrows, Statuses
  <1>6. TypeOK'
    <2>1. offer \in Replies
      BY <1>1, <1>2 DEF Replies
    <2> QED
      BY <1>1, <1>2, <1>5, <2>1 DEF TypeOK, clientVars
  <1> HIDE DEF ip
  <1>7. IdsKept'
    BY <1>1, <1>5 DEF IdsKept, clientVars
  <1>8. XidIsLease'
    BY <1>1, <1>3, <1>4, <1>5 DEF XidIsLease, TypeOK
  <1>9. RepliesStayTrue'
    <2> SUFFICES ASSUME NEW r \in replies'
                 PROVE  IF r.type = "OFFER" THEN r.yiaddr = takenMac'[r.mac]
                        ELSE r.yiaddr \in {Unspecified} \cup LeasesUnder(r.xid)'
      BY DEF RepliesStayTrue, LeasesUnder, UsersOf
    <2>1. CASE r = offer
      BY <2>1 DEF ip
    <2>2. CASE r \in replies
      <3>1. r.mac \in Clients /\ r.xid \in Xids /\ r.yiaddr \in Addresses
        BY <2>2 DEF TypeOK, Replies
      <3> QED
        BY <1>2, <1>3, <2>2, <3>1 DEF RepliesStayTrue
    <2> QED
      BY <1>5, <2>1, <2>2
  <1>10. OfferIsRecorded'
    <2> SUFFICES ASSUME NEW r \in replies', r.type = "OFFER"
                 PROVE  xids'[r.xid] \in LeasesUnder(r.xid)'
      BY DEF OfferIsRecorded, LeasesUnder, UsersOf
    <2>1. CASE r.xid = m.xid
      BY <1>1, <1>4, <1>5, <2>1 DEF TypeOK
    <2>2. CASE r \in replies /\ r.xid # m.xid
      <3>1. r.xid \in Xids
        BY <2>2 DEF TypeOK, Replies
      <3> QED
        BY <1>3, <1>5, <2>2, <3>1 DEF OfferIsRecorded, TypeOK
    <2> QED
      BY <1>5, <2>1, <2>2
  <1>11. BoundAfterOffer'
    <2> SUFFICES ASSUME NEW c \in Clients, phase[c] = "requesting",
                        NEW x \in Xids, x = xid[c]
                 PROVE  takenMac'[c] # NoIp /\ xids'[x] \in LeasesUnder(x)'
      BY <1>5 DEF BoundAfterOffer, clientVars, LeasesUnder, UsersOf, TypeOK
    <2>1. takenMac[c] # NoIp /\ xids[x] \in LeasesUnder(x)
      BY DEF BoundAfterOffer
    <2>2. takenMac'[c] # NoIp
      BY <1>2, <2>1 DEF TypeOK
    <2>3. CASE x = m.xid
      <3>1. xids'[x] = ip
        BY <1>1, <1>5, <2>3 DEF TypeOK
      <3> QED
        BY <1>4, <2>2, <2>3, <3>1
    <2>4. CASE x # m.xid
      <3>1. xids'[x] = xids[x]
        BY <1>5, <2>4 DEF TypeOK
      <3> QED
        BY <1>3, <2>1, <2>2, <3>1
    <2> QED
      BY <2>3, <2>4
  <1>12. AddressIsLease'
    <2> SUFFICES ASSUME NEW c \in Clients
                 PROVE  address[c] \in {NoIp, Unspecified}
                            \cup UNION {LeasesUnder(x)' : x \in XidsOf[c]}
      BY <1>5 DEF AddressIsLease, clientVars, LeasesUnder, UsersOf
    <2>1. \A x \in XidsOf[c] : LeasesUnder(x) \subseteq LeasesUnder(x)'
      BY <1>3, UserOfItsIds
    <2> QED
      BY <2>1 DEF AddressIsLease
  <1>13. AckIsAnswer' /\ NoRequestYet' /\ BoundHasAddress'
    BY <1>5 DEF AckIsAnswer, NoRequestYet, BoundHasAddress, clientVars
  <1>14. FirstAckIsLease'
    <2> SUFFICES ASSUME NEW c \in Clients, NEW r \in replies', NEW x \in Xids, x = xid[c],
                        phase[c] = "requesting", r.type = "ACK", r.mac = c, r.xid = x
                 PROVE  r.yiaddr \in LeasesUnder(x)'
      BY <1>5 DEF FirstAckIsLease, clientVars, LeasesUnder, UsersOf, TypeOK
    <2>1. r \in replies
      BY <1>5
    <2>2. r.yiaddr \in LeasesUnder(x)
      BY <2>1 DEF FirstAckIsLease
    <2> QED
      BY <1>3, <2>2
  <1> QED
    BY <1>2, <1>5, <1>6, <1>7, <1>8, <1>9, <1>10, <1>11, <1>12, <1>13, <1>14
    DEF FullAtDeath

\* An id that is looked up is acknowledged with what was offered under it, or with
\* 0.0.0.0, which is inserted then.
LEMMA ServeRequestKeeps ==
    ASSUME IInv, NEW m \in requests, ServeRequest(m)
    PROVE  IInv'
  <1> DEFINE ip == IF xids[m.xid] = NoIp THEN Unspecified ELSE xids[m.xid]
             ack == [type |-> "ACK", xid |-> m.xid, mac |-> m.mac, yiaddr |-> ip]
  <1> USE DEF IInv
  <1>1. m.mac \in Clients /\ m.xid \in XidsOf[m.mac] /\ m.xid \in Xids
    BY UserOfItsIds DEF TypeOK, Requests, IdsKept
  <1>2. ip \in Addresses /\ ip \in {Unspecified} \cup LeasesUnder(m.xid)
    BY <1>1 DEF TypeOK, XidIsLease, Unspecified, Addresses
  <1>3. /\ xids' = [xids EXCEPT ![m.xid] = ip]
        /\ replies' = replies \/ replies' = replies \cup {ack}
        /\ status' \in Statuses \ {"get_address"}
        /\ UNCHANGED <<poolVars, requests, clientVars>>
    <2>1. xids' = [xids EXCEPT ![m.xid] = ip] /\ UNCHANGED <<poolVars, requests, clientVars>>
      BY DEF ServeRequest
    <2>2. xids'[m.xid] = ip
      BY <1>1, <2>1 DEF TypeOK
    <2> QED
      BY <2>1, <2>2 DEF ServeRequest, Received, Reply, SendThrows, Statuses
  <1>4. \A x \in Xids : xids[x] # NoIp => xids'[x] = xids[x]
    BY <1>1, <1>3 DEF TypeOK
  <1>5. xids' \in [Xids -> Addresses \cup {NoIp}] /\ xids'[m.xid] = ip
        /\ \A x \in Xids : x # m.xid => xids'[x] = xids[x]
    BY <1>1, <1>2, <1>3 DEF TypeOK
  <1> HIDE DEF ip
  <1>6. TypeOK'
    <2>1. ack \in Replies
      BY <1>1, <1>2 DEF Replies
    <2> QED
      BY <1>3, <1>5, <2>1 DEF TypeOK, clientVars, poolVars
  <1>7. IdsKept' /\ LeaseKept' /\ AddressIsLease'
    BY <1>1, <1>3 DEF IdsKept, LeaseKept, AddressIsLease, LeasesUnder, UsersOf, clientVars,
                      poolVars
  <1>8. XidIsLease'
    BY <1>2, <1>3, <1>5 DEF XidIsLease, LeasesUnder, UsersOf, poolVars
  <1>9. RepliesStayTrue'
    BY <1>1, <1>2, <1>3 DEF RepliesStayTrue, LeasesUnder, UsersOf, poolVars
  <1>10. OfferIsRecorded'
    <2> SUFFICES ASSUME NEW r \in replies', r.type = "OFFER"
                 PROVE  xids'[r.xid] \in LeasesUnder(r.xid)
      BY <1>3 DEF OfferIsRecorded, LeasesUnder, UsersOf, poolVars
    <2>1. r \in replies
      BY <1>3
    <2>2. r.xid \in Xids /\ xids[r.xid] \in LeasesUnder(r.xid)
      BY <2>1 DEF OfferIsRecorded, TypeOK, Replies
    <2>3. xids[r.xid] # NoIp
      BY <2>2 DEF LeasesUnder
    <2> QED
      BY <1>4, <2>2, <2>3
  <1>11. BoundAfterOffer'
    <2> SUFFICES ASSUME NEW c \in Clients, phase[c] = "requesting"
                 PROVE  takenMac[c] # NoIp /\ xids'[xid[c]] \in LeasesUnder(xid[c])
      BY <1>3 DEF BoundAfterOffer, clientVars, poolVars, LeasesUnder, UsersOf
    <2>1. /\ takenMac[c] # NoIp /\ xid[c] \in Xids
          /\ xids[xid[c]] \in LeasesUnder(xid[c])
      BY DEF BoundAfterOffer, TypeOK
    <2>2. xids[xid[c]] # NoIp
      BY <2>1 DEF LeasesUnder
    <2> QED
      BY <1>4, <2>1, <2>2
  <1>12. AckIsAnswer' /\ NoRequestYet' /\ BoundHasAddress'
    <2>1. m.type = "REQUEST"
      BY DEF ServeRequest
    <2> QED
      BY <1>3, <2>1 DEF AckIsAnswer, NoRequestYet, BoundHasAddress, clientVars
  <1>13. FirstAckIsLease'
    <2> SUFFICES ASSUME NEW c \in Clients, NEW r \in replies',
                        phase[c] = "requesting", r.type = "ACK", r.mac = c, r.xid = xid[c]
                 PROVE  r.yiaddr \in LeasesUnder(xid[c])
      BY <1>3 DEF FirstAckIsLease, clientVars, poolVars, LeasesUnder, UsersOf
    <2>1. CASE r \in replies
      BY <2>1 DEF FirstAckIsLease
    <2>2. CASE r = ack
      <3>1. m.xid = xid[c]
        BY <2>2
      <3>2. xids[m.xid] \in LeasesUnder(m.xid)
        BY <3>1 DEF BoundAfterOffer
      <3>3. xids[m.xid] # NoIp
        BY <3>2 DEF LeasesUnder
      <3>4. r.yiaddr = xids[m.xid]
        BY <2>2, <3>3 DEF ip
      <3> QED
        BY <3>1, <3>2, <3>4
    <2> QED
      BY <1>3, <2>1, <2>2
  <1> QED
    BY <1>3, <1>6, <1>7, <1>8, <1>9, <1>10, <1>11, <1>12, <1>13 DEF FullAtDeath

\* get_address throws only when every address of the pool is taken: a client without a
\* lease gets the first free address if there is one.
LEMMA ThrowsWhenFull ==
    ASSUME TypeOK, NEW c \in Clients, \A ip \in Addresses : ~Pool!Returns(c, ip)
    PROVE  \A ip \in Included : takenIp[ip] # NoMac
  <1> DEFINE free == {ip \in Addresses : Pool!Free(ip)}
  <1>1. takenMac[c] = NoIp
    BY DEF Pool!Returns, Pool!IsMacReserved, Pool!IsMacTaken, TypeOK
  <1>2. \A ip \in Addresses : ~Pool!FirstFree(ip)
    BY <1>1 DEF Pool!Returns, Pool!IsMacReserved, Pool!IsMacTaken, Pool!IsMacCached
  <1>3. free = {}
    <2> SUFFICES ASSUME free # {}
                 PROVE  FALSE
      OBVIOUS
    <2>1. free \in SUBSET Nat
      BY DEF Addresses
    <2>2. PICK ip \in free : \A other \in free : <<other, ip>> \notin OpToRel(<, Nat)
      <3>1. IsWellFoundedOn(OpToRel(<, Nat), Nat)
        BY NatLessThanWellFounded
      <3> HIDE DEF free
      <3> QED
        BY <2>1, <3>1, WFMin
    <2>3. \A other \in free : ip <= other
      <3>1. \A m, n \in Nat : m < n => <<m, n>> \in OpToRel(<, Nat)
        BY DEF OpToRel
      <3>2. ASSUME NEW other \in free
            PROVE  ip <= other
        <4>1. ip \in Nat /\ other \in Nat /\ ~(other < ip)
          BY <2>1, <2>2, <3>1
        <4> QED
          BY <4>1
      <3> QED
        BY <3>2
    <2> QED
      BY <1>2, <2>3 DEF Pool!FirstFree, Pool!Addresses, Addresses
  <1>4. \A ip \in Included : ip \in Addresses /\ ~Pool!Free(ip)
    BY <1>3
  <1> QED
    BY <1>4 DEF Pool!Free, Pool!IsAddressIncluded, Pool!IsAddressTaken, Pool!IsAddressReserved,
                Addresses

\* An exception ends the process, and nothing else that the invariant is about changes.
LEMMA ThrowKeeps ==
    ASSUME IInv, NEW m \in requests, ParseThrows(m) \/ PoolThrows(m)
    PROVE  IInv'
  <1>1. status' \in Statuses /\ UNCHANGED <<poolVars, xids, requests, replies, clientVars>>
    BY DEF ParseThrows, PoolThrows, Statuses
  <1>2. FullAtDeath'
    <2>1. CASE ParseThrows(m)
      BY <2>1 DEF ParseThrows, FullAtDeath
    <2>2. CASE PoolThrows(m)
      <3>1. m.mac \in Clients
        BY DEF IInv, TypeOK, Requests
      <3>2. \A ip \in Included : takenIp[ip] # NoMac
        BY <2>2, <3>1, ThrowsWhenFull DEF PoolThrows, IInv
      <3> QED
        BY <1>1, <3>2 DEF FullAtDeath, poolVars
    <2> QED
      BY <2>1, <2>2
  <1> QED
    BY <1>1, <1>2 DEF IInv, TypeOK, IdsKept, LeaseKept, XidIsLease, RepliesStayTrue,
                      OfferIsRecorded, BoundAfterOffer, AckIsAnswer, NoRequestYet,
                      FirstAckIsLease, BoundHasAddress, AddressIsLease, LeasesUnder, UsersOf,
                      poolVars, clientVars

-----------------------------------------------------------------------------
(* The clients *)

\* What a client does leaves alone what the server knows and has said.
LEMMA ClientLeavesServerAlone ==
    ASSUME IInv, UNCHANGED <<poolVars, xids, status, replies>>
    PROVE  LeaseKept' /\ XidIsLease' /\ RepliesStayTrue' /\ OfferIsRecorded'
           /\ FullAtDeath'
  BY DEF IInv, FullAtDeath, LeaseKept, XidIsLease, RepliesStayTrue, OfferIsRecorded,
         LeasesUnder, UsersOf, poolVars

\* What it sends takes nothing back that was requested.
LEMMA SendingKeepsAnswers ==
    ASSUME IInv, requests \subseteq requests', UNCHANGED replies
    PROVE  AckIsAnswer'
  BY DEF IInv, AckIsAnswer

\* It sends nothing but messages under an id of its own.
LEMMA SentUnderOwnId ==
    ASSUME IInv, NEW c \in Clients, NEW x \in XidsOf[c], NEW supported \in BOOLEAN,
           NEW type \in {"DISCOVER", "REQUEST", "RELEASE"},
           SendRequest(c, type, x, supported)
    PROVE  requests' \subseteq Requests /\ \A m \in requests' : m.xid \in XidsOf[m.mac]
  <1>1. [type |-> type, xid |-> x, mac |-> c, supported |-> supported] \in Requests
    BY UserOfItsIds DEF Requests
  <1> QED
    BY <1>1 DEF SendRequest, IInv, TypeOK, IdsKept

\* An offer means that the client has a lease and that its transaction is known.
LEMMA ClientKeeps ==
    ASSUME IInv, NEW c \in Clients, Client(c)
    PROVE  IInv'
  <1> USE DEF IInv
  <1>1. xid[c] \in XidsOf[c] /\ xid[c] \in Xids
    BY UserOfItsIds DEF IdsKept, TypeOK
  <1>2. CASE Discover(c)
    <2>1. PICK x \in XidsOf[c], supported \in BOOLEAN :
              /\ FreshXid(c, x)
              /\ SendRequest(c, "DISCOVER", x, supported)
              /\ phase' = [phase EXCEPT ![c] = "selecting"]
              /\ xid' = [xid EXCEPT ![c] = x]
              /\ address' = [address EXCEPT ![c] = NoIp]
              /\ UNCHANGED <<poolVars, xids, status, replies>>
      BY <1>2 DEF Discover
    <2>2. requests' \subseteq Requests /\ \A m \in requests' : m.xid \in XidsOf[m.mac]
      BY <2>1, SentUnderOwnId
    <2>3. TypeOK' /\ IdsKept'
      BY <2>1, <2>2, UserOfItsIds DEF TypeOK, IdsKept, poolVars, Phases
    <2>4. BoundAfterOffer' /\ AddressIsLease'
      BY <2>1 DEF TypeOK, BoundAfterOffer, AddressIsLease, LeasesUnder, UsersOf, poolVars
    <2>5. AckIsAnswer'
      BY <2>1, SendingKeepsAnswers DEF SendRequest
    <2>6. NoRequestYet' /\ FirstAckIsLease' /\ BoundHasAddress'
      BY <2>1 DEF TypeOK, FreshXid, SendRequest, NoRequestYet, FirstAckIsLease,
                  BoundHasAddress, LeasesUnder, UsersOf, poolVars
    <2> QED
      BY <2>1, <2>3, <2>4, <2>5, <2>6, ClientLeavesServerAlone
  <1>3. CASE AcceptOffer(c)
    <2>1. PICK r \in replies :
              /\ phase[c] = "selecting" /\ r.type = "OFFER" /\ r.mac = c /\ r.xid = xid[c]
              /\ SendRequest(c, "REQUEST", xid[c], TRUE)
              /\ phase' = [phase EXCEPT ![c] = "requesting"]
              /\ UNCHANGED <<poolVars, xids, status, replies, xid, address>>
      BY <1>3 DEF AcceptOffer
    <2>2. requests' \subseteq Requests /\ \A m \in requests' : m.xid \in XidsOf[m.mac]
      BY <1>1, <2>1, SentUnderOwnId
    <2>3. TypeOK' /\ IdsKept'
      BY <2>1, <2>2 DEF TypeOK, IdsKept, poolVars, Phases
    <2>4. takenMac[c] # NoIp /\ xids[xid[c]] \in LeasesUnder(xid[c])
      BY <2>1 DEF RepliesStayTrue, OfferIsRecorded, TypeOK, Replies
    <2>5. BoundAfterOffer' /\ AddressIsLease'
      BY <2>1, <2>4 DEF TypeOK, BoundAfterOffer, AddressIsLease, LeasesUnder, UsersOf, poolVars
    <2>6. AckIsAnswer'
      BY <2>1, SendingKeepsAnswers DEF SendRequest
    <2>7. NoRequestYet' /\ BoundHasAddress'
      BY <2>1 DEF TypeOK, SendRequest, NoRequestYet, BoundHasAddress
    <2>8. \A a \in replies : ~(a.type = "ACK" /\ a.mac = c /\ a.xid = xid[c])
      BY <2>1 DEF AckIsAnswer, NoRequestYet
    <2>9. FirstAckIsLease'
      BY <2>1, <2>8 DEF TypeOK, FirstAckIsLease, LeasesUnder, UsersOf, poolVars
    <2> QED
      BY <2>1, <2>3, <2>5, <2>6, <2>7, <2>9, ClientLeavesServerAlone
  <1>4. CASE AcceptAck(c)
    <2>1. PICK r \in replies :
              /\ r.type = "ACK" /\ r.mac = c /\ r.xid = xid[c]
              /\ phase' = [phase EXCEPT ![c] = "bound"]
              /\ address' = [address EXCEPT ![c] = r.yiaddr]
              /\ UNCHANGED <<poolVars, xids, status, requests, replies, xid>>
      BY <1>4 DEF AcceptAck
    <2>2. r.yiaddr \in Addresses /\ r.yiaddr \in {Unspecified} \cup LeasesUnder(xid[c])
      BY <2>1 DEF RepliesStayTrue, TypeOK, Replies
    <2>3. TypeOK' /\ IdsKept'
      BY <2>1, <2>2 DEF TypeOK, IdsKept, poolVars, Phases
    <2>4. BoundAfterOffer' /\ AddressIsLease'
      BY <1>1, <2>1, <2>2 DEF TypeOK, BoundAfterOffer, AddressIsLease, LeasesUnder, UsersOf,
                              poolVars
    <2>5. AckIsAnswer'
      BY <2>1 DEF AckIsAnswer
    <2>6. NoRequestYet' /\ FirstAckIsLease' /\ BoundHasAddress'
      BY <2>1, <2>2 DEF TypeOK, NoRequestYet, FirstAckIsLease, BoundHasAddress,
                        LeasesUnder, UsersOf, poolVars
    <2> QED
      BY <2>1, <2>3, <2>4, <2>5, <2>6, ClientLeavesServerAlone
  <1>5. CASE Renew(c)
    <2>1. PICK x \in XidsOf[c] :
              /\ phase[c] = "bound"
              /\ SendRequest(c, "REQUEST", x, TRUE)
              /\ phase' = [phase EXCEPT ![c] = "renewing"]
              /\ xid' = [xid EXCEPT ![c] = x]
              /\ UNCHANGED <<poolVars, xids, status, replies, address>>
      BY <1>5 DEF Renew
    <2>2. requests' \subseteq Requests /\ \A m \in requests' : m.xid \in XidsOf[m.mac]
      BY <2>1, SentUnderOwnId
    <2>3. TypeOK' /\ IdsKept'
      BY <2>1, <2>2, UserOfItsIds DEF TypeOK, IdsKept, poolVars, Phases
    <2>4. BoundAfterOffer' /\ AddressIsLease'
      BY <2>1 DEF TypeOK, BoundAfterOffer, AddressIsLease, LeasesUnder, UsersOf, poolVars
    <2>5. AckIsAnswer'
      BY <2>1, SendingKeepsAnswers DEF SendRequest
    <2>6. NoRequestYet' /\ FirstAckIsLease' /\ BoundHasAddress'
      BY <2>1 DEF TypeOK, SendRequest, NoRequestYet, FirstAckIsLease, BoundHasAddress,
                  LeasesUnder, UsersOf, poolVars
    <2> QED
      BY <2>1, <2>3, <2>4, <2>5, <2>6, ClientLeavesServerAlone
  <1>6. CASE Release(c)
    <2>1. /\ SendRequest(c, "RELEASE", xid[c], TRUE)
          /\ phase' = [phase EXCEPT ![c] = "init"]
          /\ address' = [address EXCEPT ![c] = NoIp]
          /\ UNCHANGED <<poolVars, xids, status, replies, xid>>
      BY <1>6 DEF Release
    <2>2. requests' \subseteq Requests /\ \A m \in requests' : m.xid \in XidsOf[m.mac]
      BY <1>1, <2>1, SentUnderOwnId
    <2>3. TypeOK' /\ IdsKept'
      BY <2>1, <2>2 DEF TypeOK, IdsKept, poolVars, Phases
    <2>4. BoundAfterOffer' /\ AddressIsLease'
      BY <2>1 DEF TypeOK, BoundAfterOffer, AddressIsLease, LeasesUnder, UsersOf, poolVars
    <2>5. AckIsAnswer'
      BY <2>1, SendingKeepsAnswers DEF SendRequest
    <2>6. NoRequestYet' /\ FirstAckIsLease' /\ BoundHasAddress'
      BY <2>1 DEF TypeOK, SendRequest, NoRequestYet, FirstAckIsLease, BoundHasAddress,
                  LeasesUnder, UsersOf, poolVars
    <2> QED
      BY <2>1, <2>3, <2>4, <2>5, <2>6, ClientLeavesServerAlone
  <1> QED
    BY <1>2, <1>3, <1>4, <1>5, <1>6 DEF Client

-----------------------------------------------------------------------------
(* The theorems *)

\* However messages are lost, repeated and reordered, the invariant holds.
THEOREM InvariantHolds == Spec => []IInv
  <1>1. Init => IInv
    BY InitEstablishesIInv
  <1>2. IInv /\ [Next]_vars => IInv'
    <2> SUFFICES ASSUME IInv, [Next]_vars
                 PROVE  IInv'
      OBVIOUS
    <2>1. ASSUME UNCHANGED vars
          PROVE  IInv'
      BY <2>1 DEF vars, IInv, TypeOK, IdsKept, LeaseKept, XidIsLease, RepliesStayTrue,
                  OfferIsRecorded, FullAtDeath, BoundAfterOffer, AckIsAnswer,
                  NoRequestYet, FirstAckIsLease, BoundHasAddress, AddressIsLease,
                  LeasesUnder, UsersOf, poolVars, clientVars
    <2>2. ASSUME NEW m \in requests, ParseThrows(m) \/ PoolThrows(m)
          PROVE  IInv'
      BY <2>2, ThrowKeeps
    <2>3. ASSUME NEW m \in requests, Ignore(m)
          PROVE  IInv'
      BY <2>1, <2>3 DEF Ignore
    <2>4. ASSUME NEW m \in requests, ServeDiscover(m)
          PROVE  IInv'
      BY <2>4, ServeDiscoverKeeps
    <2>5. ASSUME NEW m \in requests, ServeRequest(m)
          PROVE  IInv'
      BY <2>5, ServeRequestKeeps
    <2>6. ASSUME NEW c \in Clients, Client(c)
          PROVE  IInv'
      BY <2>6, ClientKeeps
    <2> QED
      BY <2>1, <2>2, <2>3, <2>4, <2>5, <2>6 DEF Next
  <1> QED
    BY <1>1, <1>2, PTL DEF Spec

\* Two clients have one address only if a client's transaction id is shared by each of
\* them: the address is the lease of one client, and what either of them was told came
\* under an id of that client.
THEOREM OneHolderHolds == Spec => []OneHolder
  <1>1. IInv => OneHolder
    <2> SUFFICES ASSUME IInv, NEW c \in Clients, NEW d \in Clients,
                        address[c] \notin {NoIp, Unspecified}, address[c] = address[d]
                 PROVE  Sharing(c) \cap Sharing(d) # {}
      BY DEF OneHolder
    <2>1. PICK x \in XidsOf[c], e \in Clients :
             e \in UsersOf(x) /\ takenMac[e] = address[c]
      BY DEF IInv, AddressIsLease, LeasesUnder, UsersOf
    <2>2. PICK y \in XidsOf[d], f \in Clients :
             f \in UsersOf(y) /\ takenMac[f] = address[c]
      BY DEF IInv, AddressIsLease, LeasesUnder, UsersOf
    <2>3. e = f
      BY <2>1, <2>2 DEF IInv, LeaseKept, UsersOf
    <2> QED
      BY <2>1, <2>2, <2>3 DEF Sharing
  <1> QED
    BY <1>1, InvariantHolds, PTL

\* A late or repeated answer says what a fresh one would.
THEOREM RepliesStayTrueHolds == Spec => []RepliesStayTrue
  <1>1. IInv => RepliesStayTrue
    BY DEF IInv
  <1> QED
    BY <1>1, InvariantHolds, PTL

\* A client that goes through DISCOVER, OFFER and REQUEST is not acknowledged 0.0.0.0.
THEOREM BoundAfterOfferHolds == Spec => []BoundAfterOffer
  <1>1. IInv => BoundAfterOffer
    BY DEF IInv
  <1> QED
    BY <1>1, InvariantHolds, PTL

\* The process dies for want of addresses only when as many clients have a lease as
\* there are addresses: takenIp maps the addresses one to one to the clients.
THEOREM PoolDeathOnlyWhenFullHolds == Spec => []PoolDeathOnlyWhenFull
  <1>1. IInv => PoolDeathOnlyWhenFull
    <2> SUFFICES ASSUME IInv, status = "get_address"
                 PROVE  Cardinality({c \in Clients : takenMac[c] \in Included})
                            = Cardinality(Included)
      BY DEF PoolDeathOnlyWhenFull
    <2> DEFINE holders == {c \in Clients : takenMac[c] \in Included}
               holderOf == [ip \in Included |-> takenIp[ip]]
    <2>1. \A ip \in Included : takenIp[ip] \in holders /\ takenMac[takenIp[ip]] = ip
      BY DEF IInv, TypeOK, LeaseKept, FullAtDeath
    <2>2. \A c \in holders : takenIp[takenMac[c]] = c
      BY DEF IInv, LeaseKept
    <2>3. holderOf \in [Included -> holders]
      BY <2>1
    <2>4. \A ip, other \in Included : holderOf[ip] = holderOf[other] => ip = other
      BY <2>1
    <2>5. \A c \in holders : \E ip \in Included : holderOf[ip] = c
      BY <2>2
    <2> HIDE DEF holders, holderOf
    <2>6. ExistsBijection(Included, holders)
      BY <2>3, <2>4, <2>5 DEF ExistsBijection, Bijection, Injection, Surjection, IsInjective
    <2>7. IsFiniteSet(Included)
      <3>1. IsFiniteSet(0 .. (SpaceSize - 1))
        BY FS_Interval
      <3> QED
        BY <3>1, FS_Subset DEF Addresses
    <2>8. Cardinality(holders) = Cardinality(Included)
      BY <2>6, <2>7, FS_Bijection
    <2> QED
      BY <2>8 DEF holders
  <1> QED
    BY <1>1, InvariantHolds, PTL

-----------------------------------------------------------------------------
(* The promise *)

\* What a client may be told under an id it uses is the lease of a client that shares
\* the id, hence an address the service may give it.
LEMMA LeasesOfPartners ==
    ASSUME NEW c \in Clients, NEW x \in XidsOf[c]
    PROVE  LeasesUnder(x) \subseteq Service!LeasesOf([d \in Clients |-> Sharing(d)][c])
  <1>1. UsersOf(x) \subseteq Sharing(c)
    BY DEF Sharing
  <1> QED
    BY <1>1 DEF LeasesUnder, Service!LeasesOf

\* get_address gives a client that has no lease a free address of the pool, and changes
\* nothing otherwise.
LEMMA GetAddressLends ==
    ASSUME IInv, NEW c \in Clients, Pool!GetAddress(c), UNCHANGED address
    PROVE  Service!Lend(c) \/ UNCHANGED Service!serviceVars
  <1> USE DEF IInv, TypeOK
  <1>1. PICK ip \in Addresses :
            Pool!Returns(c, ip) /\ takenMac' = [takenMac EXCEPT ![c] = ip]
    BY DEF Pool!GetAddress, Pool!Addresses, Addresses
  <1>2. CASE takenMac[c] # NoIp
    <2>1. ip = takenMac[c]
      BY <1>1, <1>2 DEF Pool!Returns, Pool!IsMacReserved, Pool!IsMacTaken
    <2>2. takenMac' = takenMac
      BY <1>1, <2>1
    <2> QED
      BY <2>2 DEF Service!serviceVars
  <1>3. CASE takenMac[c] = NoIp
    <2>1. ip \in Included /\ takenIp[ip] = NoMac
      BY <1>1, <1>3 DEF Pool!Returns, Pool!IsMacReserved, Pool!IsMacTaken, Pool!IsMacCached,
                        Pool!FirstFree, Pool!Free, Pool!IsAddressIncluded,
                        Pool!IsAddressTaken
    <2>2. ip \notin Service!LeasesOf(Clients)
      BY <2>1 DEF LeaseKept, Service!LeasesOf
    <2> QED
      BY <1>1, <1>3, <2>1, <2>2 DEF Service!Lend
  <1> QED
    BY <1>2, <1>3

\* What a client that waits for an acknowledgement is told is a lease, and 0.0.0.0 only
\* if it has an address already.
LEMMA AcceptAckBinds ==
    ASSUME IInv, NEW c \in Clients, AcceptAck(c)
    PROVE  Service!Bind(c) \/ Service!Rebind(c)
  <1> USE DEF IInv, TypeOK
  <1>1. PICK r \in replies :
            /\ phase[c] \in {"requesting", "renewing"} /\ r.type = "ACK"
            /\ r.mac = c /\ r.xid = xid[c]
            /\ address' = [address EXCEPT ![c] = r.yiaddr]
            /\ UNCHANGED takenMac
    BY DEF AcceptAck, poolVars
  <1>2. xid[c] \in XidsOf[c]
    BY DEF IdsKept
  <1>3. LeasesUnder(xid[c]) \subseteq Service!LeasesOf([d \in Clients |-> Sharing(d)][c])
    BY <1>2, LeasesOfPartners
  <1>4. CASE address[c] = NoIp
    <2>1. phase[c] = "requesting"
      BY <1>1, <1>4 DEF BoundHasAddress
    <2>2. r.yiaddr \in LeasesUnder(xid[c])
      BY <1>1, <2>1 DEF FirstAckIsLease
    <2> QED
      BY <1>1, <1>3, <1>4, <2>2 DEF Service!Bind
  <1>5. CASE address[c] # NoIp
    <2>1. r.yiaddr \in {Unspecified} \cup LeasesUnder(xid[c])
      BY <1>1 DEF RepliesStayTrue
    <2> QED
      BY <1>1, <1>3, <1>5, <2>1 DEF Service!Rebind
  <1> QED
    BY <1>4, <1>5

\* The serve loop keeps the promise: whatever arrives, and whatever a client makes of the
\* answers, a lease is given once and for ever, to one client, and no client comes to use
\* an address that is not the lease of a client it shares a transaction id with, but for
\* the 0.0.0.0 that a renewing client may be told.
THEOREM ServerImplementsLeaseService == Spec => ImplementsLeaseService
  <1>1. Init => Service!ServiceInit
    BY DEF Init, Service!ServiceInit
  <1>2. IInv /\ [Next]_vars => [Service!ServiceNext]_(Service!serviceVars)
    <2> SUFFICES ASSUME IInv, [Next]_vars
                 PROVE  Service!ServiceNext \/ UNCHANGED Service!serviceVars
      OBVIOUS
    <2> USE DEF Service!ServiceNext
    <2>1. CASE UNCHANGED vars
      BY <2>1 DEF vars, poolVars, clientVars, Service!serviceVars
    <2>2. ASSUME NEW m \in requests,
                 ParseThrows(m) \/ PoolThrows(m) \/ Ignore(m) \/ ServeRequest(m)
          PROVE  UNCHANGED Service!serviceVars
      BY <2>2 DEF ParseThrows, PoolThrows, Ignore, ServeRequest, vars, poolVars, clientVars,
                  Service!serviceVars
    <2>3. ASSUME NEW m \in requests, ServeDiscover(m)
          PROVE  Service!ServiceNext \/ UNCHANGED Service!serviceVars
      <3>1. m.mac \in Clients
        BY DEF IInv, TypeOK, Requests
      <3> QED
        BY <2>3, <3>1, GetAddressLends DEF ServeDiscover, clientVars
    <2>4. ASSUME NEW c \in Clients, Discover(c) \/ Release(c)
          PROVE  Service!Leave(c)
      BY <2>4 DEF Discover, Release, poolVars, Service!Leave
    <2>5. ASSUME NEW c \in Clients, AcceptAck(c)
          PROVE  Service!Bind(c) \/ Service!Rebind(c)
      BY <2>5, AcceptAckBinds
    <2>6. ASSUME NEW c \in Clients, AcceptOffer(c) \/ Renew(c)
          PROVE  UNCHANGED Service!serviceVars
      BY <2>6 DEF AcceptOffer, Renew, poolVars, Service!serviceVars
    <2> QED
      BY <2>1, <2>2, <2>3, <2>4, <2>5, <2>6 DEF Next, Client
  <1> QED
    BY <1>1, <1>2, InvariantHolds, PTL DEF Spec, ImplementsLeaseService, Service!Spec

\* What the promise alone maintains: a lease has one client, and what a client uses is
\* the lease of a client it shares a transaction id with.
PromiseKept ==
    /\ takenMac \in [Clients -> Included \cup {NoIp}]
    /\ address \in [Clients -> Included \cup {NoIp, Unspecified}]
    /\ \A c, d \in Clients : takenMac[c] # NoIp /\ takenMac[c] = takenMac[d] => c = d
    /\ \A c \in Clients : address[c] \notin {NoIp, Unspecified} =>
          \E e \in Sharing(c) : takenMac[e] = address[c]

\* The promise suffices: whatever serves its clients so, by whatever messages, never lets
\* two of them use one address unless each shares a transaction id with the same client.
THEOREM PromiseGivesOneHolder == ImplementsLeaseService => []OneHolder
  <1>1. Service!ServiceInit => PromiseKept
    BY DEF Service!ServiceInit, PromiseKept
  <1>2. PromiseKept /\ [Service!ServiceNext]_(Service!serviceVars) => PromiseKept'
    <2> SUFFICES ASSUME PromiseKept, [Service!ServiceNext]_(Service!serviceVars)
                 PROVE  PromiseKept'
      OBVIOUS
    <2> USE DEF PromiseKept
    <2>1. CASE UNCHANGED Service!serviceVars
      BY <2>1 DEF Service!serviceVars, Sharing, UsersOf
    <2>2. ASSUME NEW c \in Clients, Service!Lend(c)
          PROVE  PromiseKept'
      <3>1. PICK ip \in Included :
                /\ ip \notin Service!LeasesOf(Clients)
                /\ takenMac[c] = NoIp /\ takenMac' = [takenMac EXCEPT ![c] = ip]
                /\ UNCHANGED address
        BY <2>2 DEF Service!Lend
      <3>2. \A d \in Clients : takenMac[d] # ip
        <4>1. ip # NoIp
          OBVIOUS
        <4> QED
          BY <3>1, <4>1 DEF Service!LeasesOf
      <3> QED
        BY <3>1, <3>2 DEF Sharing, UsersOf
    <2>3. ASSUME NEW c \in Clients, Service!Bind(c) \/ Service!Rebind(c)
          PROVE  PromiseKept'
      <3>1. PICK ip \in Service!LeasesOf(Sharing(c)) \cup {Unspecified} :
                address' = [address EXCEPT ![c] = ip] /\ UNCHANGED takenMac
        BY <2>3 DEF Service!Bind, Service!Rebind
      <3>2. Sharing(c) \subseteq Clients
        BY DEF Sharing, UsersOf
      <3>3. ip = Unspecified \/ \E e \in Sharing(c) : takenMac[e] = ip /\ ip # NoIp
        BY <3>1 DEF Service!LeasesOf
      <3>4. ip \in Included \cup {Unspecified}
        BY <3>2, <3>3
      <3> QED
        BY <3>1, <3>3, <3>4
    <2>4. ASSUME NEW c \in Clients, Service!Leave(c)
          PROVE  PromiseKept'
      BY <2>4 DEF Service!Leave, Sharing, UsersOf
    <2> QED
      BY <2>1, <2>2, <2>3, <2>4 DEF Service!ServiceNext
  <1>3. PromiseKept => OneHolder
    <2> SUFFICES ASSUME PromiseKept, NEW c \in Clients, NEW d \in Clients,
                        address[c] \notin {NoIp, Unspecified}, address[c] = address[d]
                 PROVE  Sharing(c) \cap Sharing(d) # {}
      BY DEF OneHolder
    <2>1. PICK e \in Sharing(c) : takenMac[e] = address[c]
      BY DEF PromiseKept
    <2>2. PICK f \in Sharing(d) : takenMac[f] = address[c]
      BY DEF PromiseKept
    <2>3. e = f
      BY <2>1, <2>2 DEF PromiseKept, Sharing, UsersOf
    <2> QED
      BY <2>1, <2>2, <2>3
  <1> QED
    BY <1>1, <1>2, <1>3, PTL DEF ImplementsLeaseService, Service!Spec
=============================================================================
