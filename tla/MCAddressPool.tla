---------------------------- MODULE MCAddressPool ----------------------------
(* AddressPool on a space of three addresses and three clients. *)
EXTENDS AddressPool, TLC

CONSTANTS m1, m2, m3, code1, value1

MCMacs == {m1, m2, m3}
MCOptionCodes == {code1}
MCOptionValues == {value1}
MCNoIp == SpaceSize

\* The loop of the range operations as it is written: visit `current`, then ++ with
\* the wrap of a fixed-width counter, until the last address is reached.
Walk[current, last \in Addresses] ==
    IF current = last THEN {last}
    ELSE {current} \cup Walk[(current + 1) % SpaceSize, last]

ASSUME RangeIsWalk ==
    \A first, last \in Addresses : AddrRange(first, last) = Walk[first, last]
=============================================================================
