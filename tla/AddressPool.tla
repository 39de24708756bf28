----------------------------- MODULE AddressPool -----------------------------
(***************************************************************************)
(* The DHCP address pool, dhcp/src/AddressPool.{hpp,cpp}.                  *)
(*                                                                         *)
(* One action per public member function.  A std::map is a total function  *)
(* with a null value (NoIp, NoMac, NoOption) for the keys that are absent. *)
(* A call that throws writes no member first, so it changes nothing and is *)
(* a stuttering step here: the guards are the conditions under which the   *)
(* call returns normally.                                                  *)
(*                                                                         *)
(* Operators named after a slip (...WithoutXCheck, ...OffByOne) are         *)
(* variants of the operator they precede that the specification does not   *)
(* use: the properties below are shown to fail when they replace it.       *)
(***************************************************************************)
EXTENDS Naturals

CONSTANTS
    SpaceSize,      \* number of IPv4 addresses: 2^32 in the program
    Macs,           \* hardware addresses of the clients
    NoIp, NoMac,    \* "the key is not in the map"
    OptionCodes, OptionValues, NoOption

ASSUME SpaceSizeAssumption == SpaceSize \in Nat \ {0}
ASSUME NullAssumption == NoMac \notin Macs /\ NoIp \notin 0..(SpaceSize - 1)

VARIABLES
    included, excluded,         \* std::set<IPv4Address>
    reservedIp, reservedMac,    \* ip -> mac and mac -> ip, "kept together"
    takenIp, takenMac,          \* ip -> mac and mac -> ip, "kept together" too
    cache,                      \* mac -> ip
    options                     \* option code -> option

ranges == <<included, excluded>>
reservations == <<reservedIp, reservedMac>>
leases == <<takenIp, takenMac>>
vars == <<ranges, reservations, leases, cache, options>>

\* IPv4Address, ordered by its value as an unsigned integer.
Addresses == 0 .. (SpaceSize - 1)

IpMap == [Addresses -> Macs \cup {NoMac}]
MacMap == [Macs -> Addresses \cup {NoIp}]

TypeOK ==
    /\ included \subseteq Addresses
    /\ excluded \subseteq Addresses
    /\ reservedIp \in IpMap
    /\ reservedMac \in MacMap
    /\ takenIp \in IpMap
    /\ takenMac \in MacMap
    /\ cache \in MacMap
    /\ options \in [OptionCodes -> OptionValues \cup {NoOption}]

-----------------------------------------------------------------------------
(* Address ranges *)

\* What "while (current != last) { ...; current++; }" and the final call for
\* `last` walk over.  ++ wraps at the end of the address space, so a range whose
\* ends are swapped is everything but the addresses strictly between them.
AddrRange(first, last) ==
    IF first <= last THEN first .. last
                     ELSE (first .. (SpaceSize - 1)) \cup (0 .. last)

-----------------------------------------------------------------------------
(* Lookups *)

IsAddressIncluded(ip) == ip \in included
IsAddressReserved(ip) == reservedIp[ip] # NoMac
IsMacReserved(mac) == reservedMac[mac] # NoIp
IsAddressTaken(ip) == takenIp[ip] # NoMac
IsMacTaken(mac) == takenMac[mac] # NoIp
IsMacCached(mac) == cache[mac] # NoIp

FreeWithoutTakenCheck(ip) == IsAddressIncluded(ip) /\ ~IsAddressReserved(ip)

FreeWithoutReservedCheck(ip) == IsAddressIncluded(ip) /\ ~IsAddressTaken(ip)

Free(ip) == IsAddressIncluded(ip) /\ ~IsAddressReserved(ip) /\ ~IsAddressTaken(ip)

\* std::set iterates in ascending order: the loop stops at the least free address.
FirstFree(ip) == Free(ip) /\ \A other \in Addresses : Free(other) => ip <= other

ReturnsWithoutTakenCheck(mac, ip) ==
    IF IsMacReserved(mac) THEN ip = reservedMac[mac] ELSE FirstFree(ip)

\* get_address(mac) returns ip: the reservation, else the lease the client already
\* has, else its cached address, else the first free one; otherwise it throws.
Returns(mac, ip) ==
    IF IsMacReserved(mac) THEN ip = reservedMac[mac]
    ELSE IF IsMacTaken(mac) THEN ip = takenMac[mac]
    ELSE IF IsMacCached(mac) THEN ip = cache[mac]
    ELSE FirstFree(ip)

\* The constructed pool: the addresses from `first` to `last`, and empty maps.
InitFromRange(first, last) ==
    /\ included = AddrRange(first, last)
    /\ excluded = {}
    /\ reservedIp = [ip \in Addresses |-> NoMac]
    /\ reservedMac = [mac \in Macs |-> NoIp]
    /\ takenIp = [ip \in Addresses |-> NoMac]
    /\ takenMac = [mac \in Macs |-> NoIp]
    /\ cache = [mac \in Macs |-> NoIp]
    /\ options = [code \in OptionCodes |-> NoOption]

Init == \E first, last \in Addresses : InitFromRange(first, last)

-----------------------------------------------------------------------------
(* Operations *)

IncludeIpRange(first, last) ==
    /\ included' = included \cup AddrRange(first, last)
    /\ excluded' = excluded \ AddrRange(first, last)
    /\ UNCHANGED <<reservations, leases, cache, options>>

ExcludeIpRange(first, last) ==
    /\ included' = included \ AddrRange(first, last)
    /\ excluded' = excluded \cup AddrRange(first, last)
    /\ UNCHANGED <<reservations, leases, cache, options>>

IncludeIp(ip) ==
    /\ included' = included \cup {ip}
    /\ excluded' = excluded \ {ip}
    /\ UNCHANGED <<reservations, leases, cache, options>>

ExcludeIp(ip) ==
    /\ included' = included \ {ip}
    /\ excluded' = excluded \cup {ip}
    /\ UNCHANGED <<reservations, leases, cache, options>>

ReserveIpWithoutTakenCheck(ip, mac) ==
    /\ IsAddressIncluded(ip)
    /\ ~IsAddressReserved(ip)
    /\ reservedIp' = [reservedIp EXCEPT ![ip] = mac]
    /\ reservedMac' = [reservedMac EXCEPT ![mac] = ip]
    /\ UNCHANGED <<ranges, leases, cache, options>>

\* Nothing looks at what is already reserved for, or leased to, `mac`.
ReserveIp(ip, mac) ==
    /\ IsAddressIncluded(ip)
    /\ ~IsAddressReserved(ip)
    /\ ~IsAddressTaken(ip)
    /\ reservedIp' = [reservedIp EXCEPT ![ip] = mac]
    /\ reservedMac' = [reservedMac EXCEPT ![mac] = ip]
    /\ UNCHANGED <<ranges, leases, cache, options>>

UnreserveIpKeepingMac(ip) ==
    /\ IsAddressReserved(ip)
    /\ reservedIp' = [reservedIp EXCEPT ![ip] = NoMac]
    /\ UNCHANGED <<reservedMac, ranges, leases, cache, options>>

UnreserveIp(ip) ==
    /\ IsAddressReserved(ip)
    /\ reservedMac' = [reservedMac EXCEPT ![reservedIp[ip]] = NoIp]
    /\ reservedIp' = [reservedIp EXCEPT ![ip] = NoMac]
    /\ UNCHANGED <<ranges, leases, cache, options>>

\* Every path writes the client's entry and the address's entry, except the renewal
\* of a lease, which only returns what takenMac holds.
GetAddress(mac) == \E ip \in Addresses :
    /\ Returns(mac, ip)
    /\ takenMac' = [takenMac EXCEPT ![mac] = ip]
    /\ takenIp' = IF IsMacTaken(mac) /\ ~IsMacReserved(mac)
                  THEN takenIp ELSE [takenIp EXCEPT ![ip] = mac]
    /\ UNCHANGED <<ranges, reservations, cache, options>>

\* The body of release_address is empty.
ReleaseAddress(ip) == ip \in Addresses /\ UNCHANGED vars

SetOption(code, value) ==
    /\ options' = [options EXCEPT ![code] = value]
    /\ UNCHANGED <<ranges, reservations, leases, cache>>

RemoveOption(code) ==
    /\ options' = [options EXCEPT ![code] = NoOption]
    /\ UNCHANGED <<ranges, reservations, leases, cache>>

Next ==
    \/ \E first, last \in Addresses :
          IncludeIpRange(first, last) \/ ExcludeIpRange(first, last)
    \/ \E ip \in Addresses : IncludeIp(ip) \/ ExcludeIp(ip)
    \/ \E ip \in Addresses, mac \in Macs : ReserveIp(ip, mac)
    \/ \E ip \in Addresses : UnreserveIp(ip) \/ ReleaseAddress(ip)
    \/ \E mac \in Macs : GetAddress(mac)
    \/ \E code \in OptionCodes, value \in OptionValues : SetOption(code, value)
    \/ \E code \in OptionCodes : RemoveOption(code)

Spec == Init /\ [][Next]_vars

-----------------------------------------------------------------------------
(* Properties *)

\* Two clients never have the same address, whatever is reserved, unreserved,
\* included or excluded between their get_address calls.
NoDoubleLease == \A m1, m2 \in Macs :
    (IsMacTaken(m1) /\ takenMac[m1] = takenMac[m2]) => m1 = m2

\* An address that is both reserved and taken is taken by the client it is
\* reserved for: reserve_ip and the search for a free address each look at one
\* of the two maps only at the moment of the call.
ReservationHonoured == \A ip \in Addresses :
    (IsAddressReserved(ip) /\ IsAddressTaken(ip)) => reservedIp[ip] = takenIp[ip]

\* A client that has an address keeps it: no later call gives it another one,
\* unless that address is reserved for it, and none takes the lease away.
LeaseStable == [][\A mac \in Macs :
    IsMacTaken(mac) => takenMac'[mac] \in {takenMac[mac], reservedMac[mac]} \ {NoIp}]_vars

\* An address once handed to a client is never handed to another one, not even
\* after the first has moved to an address reserved for it: release_address does
\* nothing, and no path of get_address overwrites the entry of another client.
EntryPermanent == [][\A ip \in Addresses :
    IsAddressTaken(ip) => takenIp'[ip] = takenIp[ip]]_vars

\* Of the two reserved maps, which AddressPool.hpp:31-32 wants kept together, only
\* this direction is kept: a client's reservation is also recorded at the address.
\* The other is lost when a client that has two addresses reserved loses one of them:
\* unreserve_ip erases the client's entry, and the other address stays reserved for a
\* client that is_address_reserved says has no reservation.
ReservedIndexed == \A mac \in Macs :
    IsMacReserved(mac) => reservedIp[reservedMac[mac]] = mac

\* The taken maps agree in this direction only, too: a client's lease is also recorded
\* at the address, which is what keeps the address from being handed out again.  The
\* other direction is lost when a client moves to an address reserved for it.
LeaseIndexed == \A mac \in Macs :
    IsMacTaken(mac) => takenIp[takenMac[mac]] = mac

\* No operation fills the cache, although AddressPool.cpp:71 says that get_address
\* does, so its third lookup never succeeds.  The lookup does not look whether the
\* cached address is taken: what follows about leases holds because of this.
CacheEmpty == \A mac \in Macs : ~IsMacCached(mac)

\* The inductive invariant behind the properties above.
IInv == TypeOK /\ CacheEmpty /\ ReservedIndexed /\ LeaseIndexed /\ ReservationHonoured

\* What the pool promises its callers, as a table of leases and reservations: every
\* call is a step of the table or changes nothing the table shows.
Table == INSTANCE LeaseTable WITH lease <- takenMac, reservedFor <- reservedIp

ImplementsLeaseTable == Table!Spec
=============================================================================
