-------------------------------- MODULE MCCli --------------------------------
(* Cli with lines of up to seven characters: long enough for every command    *)
(* but the longest, with a superfluous word and without.  The longest one is  *)
(* there to begin with, as typed where MaxLine allows it; it may be entered,  *)
(* or erased character by character and entered.                              *)
EXTENDS Cli

MCTyped == {"ip", "address", "show", "10.0.0.1"}
MCCharacters == MCTyped \cup {"dhcp", "pool", "create"}
MCIPv4 == {"10.0.0.1"}

PoolCreate == <<"dhcp", SPACE, "pool", SPACE, SPACE, "create", SPACE,
                "10.0.0.1", SPACE, "10.0.0.1", SPACE>>

MCInit ==
    \/ Init
    \/ /\ input = PoolCreate /\ cursor = Len(PoolCreate) /\ status = "running"
       /\ entered = << >> /\ ran = Nothing
       /\ at = 1 /\ node = << >> /\ stack = << >>

\* New characters are typed on lines of the words in MCTyped only.
MCNext == Next /\ (Len(input') > Len(input) => ToSet(input') \subseteq MCTyped \cup {SPACE})

MCSpec == MCInit /\ [][MCNext]_vars
==============================================================================
