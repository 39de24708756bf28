-------------------------- MODULE AddressPoolProofs --------------------------
(***************************************************************************)
(* Proofs about the address pool, for any number of addresses and clients. *)
(*                                                                         *)
(* Everything rests on one inductive invariant, IInv.  NoDoubleLease is    *)
(* not inductive: that get_address does not hand out an address somebody   *)
(* has is decided by looking at takenIp, so LeaseIndexed must say that a   *)
(* lease is always visible there; that taking one's reservation does not   *)
(* erase somebody's entry needs ReservedIndexed and ReservationHonoured;   *)
(* and CacheEmpty keeps the cached lookup, which checks neither, dead.     *)
(***************************************************************************)
EXTENDS AddressPool, TLAPS

USE SpaceSizeAssumption, NullAssumption

-----------------------------------------------------------------------------
(* The invariant *)

\* A range, its ends swapped or not, holds addresses only.
LEMMA AddrRangeIsSubset ==
    ASSUME NEW first \in Addresses, NEW last \in Addresses
    PROVE  AddrRange(first, last) \subseteq Addresses
  BY DEF Addresses, AddrRange

\* A pool starts without leases, reservations or cached addresses.
LEMMA InitEstablishesIInv == Init => IInv
  <1> SUFFICES ASSUME NEW first \in Addresses, NEW last \in Addresses,
                      InitFromRange(first, last)
               PROVE  IInv
    BY DEF Init
  <1> USE DEF InitFromRange
  <1>1. TypeOK
    BY AddrRangeIsSubset DEF TypeOK, IpMap, MacMap
  <1>2. CacheEmpty /\ ReservedIndexed /\ LeaseIndexed /\ ReservationHonoured
    BY DEF CacheEmpty, IsMacCached, ReservedIndexed, IsMacReserved, LeaseIndexed,
           IsMacTaken, ReservationHonoured, IsAddressReserved
  <1> QED
    BY <1>1, <1>2 DEF IInv

\* What get_address returns is an address nobody else has an entry for, reserved for
\* nobody else, and the one the client has unless a reservation overrides it.
LEMMA ReturnedAddress ==
    ASSUME IInv, NEW mac \in Macs, NEW ip \in Addresses, Returns(mac, ip)
    PROVE  /\ takenIp[ip] \in {mac, NoMac}
           /\ reservedIp[ip] = mac \/ (reservedIp[ip] = NoMac /\ ~IsMacTaken(mac))
              \/ (IsMacTaken(mac) /\ ip = takenMac[mac])
           /\ (IsMacTaken(mac) /\ ~IsMacReserved(mac)) => (ip = takenMac[mac] /\ takenIp[ip] = mac)
           /\ IsMacReserved(mac) => (ip = reservedMac[mac] /\ reservedIp[ip] = mac)
  <1> USE DEF IInv, TypeOK, IpMap, MacMap
  <1>1. CASE IsMacReserved(mac)
    <2>1. ip = reservedMac[mac] /\ reservedIp[ip] = mac
      BY <1>1 DEF Returns, ReservedIndexed
    <2>2. takenIp[ip] \in {mac, NoMac}
      BY <2>1 DEF ReservationHonoured, IsAddressReserved, IsAddressTaken
    <2> QED
      BY <1>1, <2>1, <2>2
  <1>2. CASE ~IsMacReserved(mac) /\ IsMacTaken(mac)
    BY <1>2 DEF Returns, LeaseIndexed
  <1>3. CASE ~IsMacReserved(mac) /\ ~IsMacTaken(mac)
    BY <1>3 DEF Returns, CacheEmpty, FirstFree, Free, IsAddressReserved, IsAddressTaken
  <1> QED
    BY <1>1, <1>2, <1>3

\* No client has an address that takenIp has no entry for.
LEMMA LeasedElsewhere ==
    ASSUME IInv, NEW ip \in Addresses, ~IsAddressTaken(ip), NEW mac \in Macs
    PROVE  takenMac[mac] # ip
  BY DEF IInv, TypeOK, MacMap, LeaseIndexed, IsMacTaken, IsAddressTaken,
         Addresses

\* reserve_ip writes at an address that is neither reserved nor taken.
LEMMA ReserveIpKeepsIInv ==
    ASSUME IInv, NEW ip \in Addresses, NEW mac \in Macs, ReserveIp(ip, mac)
    PROVE  IInv'
  <1> USE DEF IInv, TypeOK, IpMap, MacMap, ReserveIp, ranges, leases
  <1>1. TypeOK'
    OBVIOUS
  <1>2. CacheEmpty' /\ LeaseIndexed'
    BY DEF CacheEmpty, IsMacCached, LeaseIndexed, IsMacTaken
  <1>3. ReservedIndexed'
    <2> SUFFICES ASSUME NEW m \in Macs, IsMacReserved(m)'
                 PROVE  reservedIp'[reservedMac'[m]] = m
      BY DEF ReservedIndexed
    <2>1. CASE m = mac
      BY <2>1
    <2>2. CASE m # mac
      \* the entry of m is not at ip, which was reserved for nobody
      BY <2>2 DEF ReservedIndexed, IsMacReserved, IsAddressReserved
    <2> QED
      BY <2>1, <2>2
  <1>4. ReservationHonoured'
    BY DEF ReservationHonoured, IsAddressReserved, IsAddressTaken
  <1> QED
    BY <1>1, <1>2, <1>3, <1>4

\* unreserve_ip erases the entry of the client recorded at the address, even if
\* that entry is for another address reserved later.
LEMMA UnreserveIpKeepsIInv ==
    ASSUME IInv, NEW ip \in Addresses, UnreserveIp(ip)
    PROVE  IInv'
  <1> USE DEF IInv, TypeOK, IpMap, MacMap, UnreserveIp, ranges, leases
  <1> DEFINE owner == reservedIp[ip]
  <1>1. owner \in Macs
    BY DEF IsAddressReserved
  <1>2. TypeOK'
    OBVIOUS
  <1>3. CacheEmpty' /\ LeaseIndexed'
    BY DEF CacheEmpty, IsMacCached, LeaseIndexed, IsMacTaken
  <1>4. ReservedIndexed'
    <2> SUFFICES ASSUME NEW m \in Macs, IsMacReserved(m)'
                 PROVE  reservedIp'[reservedMac'[m]] = m
      BY DEF ReservedIndexed
    <2>1. m # owner /\ reservedMac'[m] = reservedMac[m]
      BY <1>1 DEF IsMacReserved
    <2>2. reservedIp[reservedMac[m]] = m /\ reservedMac[m] # ip
      BY <2>1 DEF ReservedIndexed, IsMacReserved
    <2> QED
      BY <2>1, <2>2 DEF IsMacReserved
  <1>5. ReservationHonoured'
    BY DEF ReservationHonoured, IsAddressReserved, IsAddressTaken
  <1> QED
    BY <1>2, <1>3, <1>4, <1>5

\* get_address writes at an address nobody else has an entry for.
LEMMA GetAddressKeepsIInv ==
    ASSUME IInv, NEW mac \in Macs, GetAddress(mac)
    PROVE  IInv'
  <1> USE DEF IInv, TypeOK, IpMap, MacMap, ranges, reservations
  <1> PICK ip \in Addresses :
           /\ Returns(mac, ip)
           /\ takenMac' = [takenMac EXCEPT ![mac] = ip]
           /\ takenIp' = IF IsMacTaken(mac) /\ ~IsMacReserved(mac)
                         THEN takenIp ELSE [takenIp EXCEPT ![ip] = mac]
           /\ UNCHANGED <<ranges, reservations, cache, options>>
    BY DEF GetAddress
  <1>1. takenIp[ip] \in {mac, NoMac}
    BY ReturnedAddress
  \* on the path that does not write it, takenIp[ip] is mac already
  <1>2. takenIp' = [takenIp EXCEPT ![ip] = mac]
    <2>1. CASE IsMacTaken(mac) /\ ~IsMacReserved(mac)
      <3>1. takenIp[ip] = mac
        BY <2>1, ReturnedAddress
      <3> QED
        BY <2>1, <3>1
    <2> QED
      BY <2>1
  <1>3. TypeOK'
    BY <1>2
  <1>4. CacheEmpty' /\ ReservedIndexed'
    BY DEF CacheEmpty, IsMacCached, ReservedIndexed, IsMacReserved
  <1>5. LeaseIndexed'
    BY <1>1, <1>2 DEF LeaseIndexed, IsMacTaken
  <1>6. ReservationHonoured'
    <2>1. reservedIp[ip] \in {mac, NoMac}
      <3>1. reservedIp[ip] # NoMac /\ takenIp[ip] = mac => reservedIp[ip] = mac
        BY DEF ReservationHonoured, IsAddressReserved, IsAddressTaken
      <3> QED
        BY <3>1, ReturnedAddress
    <2> QED
      BY <1>2, <2>1 DEF ReservationHonoured, IsAddressReserved, IsAddressTaken
  <1> QED
    BY <1>3, <1>4, <1>5, <1>6

\* The calls that leave every map of reservations and leases alone.
LEMMA QuietStepKeepsIInv ==
    ASSUME IInv, UNCHANGED <<reservations, leases, cache>>,
           included' \subseteq Addresses, excluded' \subseteq Addresses,
           options' \in [OptionCodes -> OptionValues \cup {NoOption}]
    PROVE  IInv'
  BY DEF IInv, TypeOK, CacheEmpty, IsMacCached, ReservedIndexed, IsMacReserved,
         LeaseIndexed, IsMacTaken, ReservationHonoured, IsAddressReserved,
         IsAddressTaken, reservations, leases

\* Every call, and a call that throws, preserves the invariant.
LEMMA StepKeepsIInv == IInv /\ [Next]_vars => IInv'
  <1> SUFFICES ASSUME IInv, [Next]_vars
               PROVE  IInv'
    OBVIOUS
  <1>1. ASSUME NEW first \in Addresses, NEW last \in Addresses,
               IncludeIpRange(first, last) \/ ExcludeIpRange(first, last)
        PROVE  IInv'
    <2>1. AddrRange(first, last) \subseteq Addresses
      BY AddrRangeIsSubset
    <2> QED
      BY <1>1, <2>1, QuietStepKeepsIInv DEF IncludeIpRange, ExcludeIpRange, IInv, TypeOK
  <1>2. ASSUME NEW ip \in Addresses, IncludeIp(ip) \/ ExcludeIp(ip)
        PROVE  IInv'
    BY <1>2, QuietStepKeepsIInv DEF IncludeIp, ExcludeIp, IInv, TypeOK
  <1>3. ASSUME NEW ip \in Addresses, NEW mac \in Macs, ReserveIp(ip, mac)
        PROVE  IInv'
    BY <1>3, ReserveIpKeepsIInv
  <1>4. ASSUME NEW ip \in Addresses, UnreserveIp(ip)
        PROVE  IInv'
    BY <1>4, UnreserveIpKeepsIInv
  <1>5. ASSUME NEW ip \in Addresses, ReleaseAddress(ip)
        PROVE  IInv'
    BY <1>5, QuietStepKeepsIInv DEF ReleaseAddress, vars, ranges, IInv, TypeOK
  <1>6. ASSUME NEW mac \in Macs, GetAddress(mac)
        PROVE  IInv'
    BY <1>6, GetAddressKeepsIInv
  <1>7. ASSUME NEW code \in OptionCodes, NEW value \in OptionValues, SetOption(code, value)
        PROVE  IInv'
    BY <1>7, QuietStepKeepsIInv DEF SetOption, ranges, IInv, TypeOK
  <1>8. ASSUME NEW code \in OptionCodes, RemoveOption(code)
        PROVE  IInv'
    BY <1>8, QuietStepKeepsIInv DEF RemoveOption, ranges, IInv, TypeOK
  <1>9. CASE UNCHANGED vars
    BY <1>9, QuietStepKeepsIInv DEF vars, ranges, IInv, TypeOK
  <1> QED
    BY <1>1, <1>2, <1>3, <1>4, <1>5, <1>6, <1>7, <1>8, <1>9 DEF Next

-----------------------------------------------------------------------------
(* Theorems *)

\* The invariant of the pool holds after any sequence of calls.
THEOREM InvariantHolds == Spec => []IInv
  BY InitEstablishesIInv, StepKeepsIInv, PTL DEF Spec

\* Addresses stay addresses: no call writes outside the maps' types.
THEOREM TypeCorrect == Spec => []TypeOK
  <1>1. IInv => TypeOK
    BY DEF IInv
  <1> QED
    BY <1>1, InvariantHolds, PTL

\* Two clients never have the same address.
THEOREM NoDoubleLeaseHolds == Spec => []NoDoubleLease
  <1>1. IInv => NoDoubleLease
    BY DEF IInv, NoDoubleLease, LeaseIndexed, IsMacTaken
  <1> QED
    BY <1>1, InvariantHolds, PTL

\* A reserved address is taken by nobody but the client it is reserved for.
THEOREM ReservationHonouredHolds == Spec => []ReservationHonoured
  <1>1. IInv => ReservationHonoured
    BY DEF IInv
  <1> QED
    BY <1>1, InvariantHolds, PTL

\* A lease changes only to the address reserved for the client, and never ends.
THEOREM LeaseStableHolds == Spec => LeaseStable
  <1> DEFINE Stable == \A mac \in Macs :
        IsMacTaken(mac) => takenMac'[mac] \in {takenMac[mac], reservedMac[mac]} \ {NoIp}
  <1>1. ASSUME IInv, Next
        PROVE  Stable
    <2>1. ASSUME NEW mac \in Macs, GetAddress(mac)
          PROVE  Stable
      <3>1. PICK ip \in Addresses :
              Returns(mac, ip) /\ takenMac' = [takenMac EXCEPT ![mac] = ip]
        BY <2>1 DEF GetAddress
      <3>2. IsMacTaken(mac) => ip \in {takenMac[mac], reservedMac[mac]} \ {NoIp}
        BY <1>1, <3>1, ReturnedAddress DEF Addresses
      <3> QED
        BY <1>1, <3>1, <3>2 DEF IInv, TypeOK, MacMap, IsMacTaken
    <2>2. CASE takenMac' = takenMac
      BY <2>2 DEF IsMacTaken
    <2> QED
      BY <1>1, <2>1, <2>2 DEF Next, IncludeIpRange, ExcludeIpRange, IncludeIp, ExcludeIp,
         ReserveIp, UnreserveIp, ReleaseAddress, SetOption, RemoveOption, leases, vars
  <1>2. IInv /\ [Next]_vars => [Stable]_vars
    BY <1>1
  <1> QED
    BY <1>2, InvariantHolds, PTL DEF Spec, LeaseStable

\* An address once handed to a client is never handed to another one.
THEOREM EntryPermanentHolds == Spec => EntryPermanent
  <1> DEFINE Permanent == \A ip \in Addresses :
        IsAddressTaken(ip) => takenIp'[ip] = takenIp[ip]
  <1>1. ASSUME IInv, Next
        PROVE  Permanent
    <2>1. ASSUME NEW mac \in Macs, GetAddress(mac)
          PROVE  Permanent
      <3>1. PICK ip \in Addresses :
              /\ Returns(mac, ip)
              /\ takenIp' = IF IsMacTaken(mac) /\ ~IsMacReserved(mac)
                            THEN takenIp ELSE [takenIp EXCEPT ![ip] = mac]
        BY <2>1 DEF GetAddress
      <3>2. takenIp[ip] \in {mac, NoMac}
        BY <1>1, <3>1, ReturnedAddress
      <3> QED
        BY <1>1, <3>1, <3>2 DEF IInv, TypeOK, IpMap, IsAddressTaken
    <2>2. CASE takenIp' = takenIp
      BY <2>2
    <2> QED
      BY <1>1, <2>1, <2>2 DEF Next, IncludeIpRange, ExcludeIpRange, IncludeIp, ExcludeIp,
         ReserveIp, UnreserveIp, ReleaseAddress, SetOption, RemoveOption, leases, vars
  <1>2. IInv /\ [Next]_vars => [Permanent]_vars
    BY <1>1
  <1> QED
    BY <1>2, InvariantHolds, PTL DEF Spec, EntryPermanent

\* The pool implements the table of leases and reservations: a call that changes
\* nothing the table shows is a stutter, every other one a step of the table.
THEOREM PoolImplementsLeaseTable == Spec => ImplementsLeaseTable
  <1>1. Init => Table!TableInit
    BY DEF Init, InitFromRange, Table!TableInit, Addresses, Table!Ips
  <1>2. ASSUME IInv, [Next]_vars
        PROVE  [Table!TableNext]_(Table!tableVars)
    <2> USE DEF Table!tableVars
    <2>1. ASSUME NEW ip \in Addresses, NEW mac \in Macs, ReserveIp(ip, mac)
          PROVE  Table!TableNext
      <3>1. \A other \in Macs : takenMac[other] # ip
        BY <1>2, <2>1, LeasedElsewhere DEF ReserveIp
      <3>2. Table!Reserve(ip, mac)
        BY <2>1, <3>1 DEF ReserveIp, IsAddressReserved, Table!Reserve, Table!HeldBy, leases
      <3> QED
        BY <3>2 DEF Table!TableNext, Table!Ips, Addresses
    <2>2. ASSUME NEW ip \in Addresses, UnreserveIp(ip)
          PROVE  Table!TableNext
      <3>1. Table!Unreserve(ip)
        BY <2>2 DEF UnreserveIp, IsAddressReserved, Table!Unreserve, leases
      <3> QED
        BY <3>1 DEF Table!TableNext, Table!Ips, Addresses
    <2>3. ASSUME NEW mac \in Macs, GetAddress(mac)
          PROVE  Table!TableNext \/ UNCHANGED Table!tableVars
      <3>1. PICK ip \in Addresses :
              /\ Returns(mac, ip)
              /\ takenMac' = [takenMac EXCEPT ![mac] = ip]
              /\ reservedIp' = reservedIp
        BY <2>3 DEF GetAddress, reservations
      <3>2. CASE IsMacTaken(mac) /\ ip = takenMac[mac]
        BY <1>2, <3>1, <3>2 DEF IInv, TypeOK, MacMap
      <3>3. CASE ~(IsMacTaken(mac) /\ ip = takenMac[mac])
        <4>1. \A other \in Macs \ {mac} : takenMac[other] # ip
          BY <1>2, <3>1, ReturnedAddress, LeasedElsewhere
             DEF IInv, LeaseIndexed, IsMacTaken, Addresses, IsAddressTaken
        <4>2. reservedIp[ip] = mac \/ (reservedIp[ip] = NoMac /\ takenMac[mac] = NoIp)
          BY <1>2, <3>1, <3>3, ReturnedAddress DEF IsMacTaken
        <4>3. Table!Grant(ip, mac)
          BY <3>1, <4>1, <4>2 DEF Table!Grant, Table!HeldBy
        <4> QED
          BY <4>3 DEF Table!TableNext, Table!Ips, Addresses
      <3> QED
        BY <3>2, <3>3
    <2>4. CASE UNCHANGED <<takenMac, reservedIp>>
      BY <2>4
    <2> QED
      BY <1>2, <2>1, <2>2, <2>3, <2>4 DEF Next, IncludeIpRange, ExcludeIpRange, IncludeIp,
         ExcludeIp, ReleaseAddress, SetOption, RemoveOption, leases, reservations, vars
  <1> QED
    BY <1>1, <1>2, InvariantHolds, PTL DEF Spec, ImplementsLeaseTable, Table!Spec
=============================================================================
