----------------------------- MODULE TextParsers -----------------------------
(***************************************************************************)
(* The readers of short texts, all built on a WrapperForParsing:           *)
(*   check        cli/src/Command.cpp, parse_ipv4_address                  *)
(*   constructor  cli/src/ip_addresses.cpp, IPv4Address::IPv4Address: runs *)
(*                on the words that the check accepts                      *)
(*   service      dhcp/src/IpAddress.cpp, IPv4Address::IPv4Address         *)
(*   mask         dhcp/src/IpAddress.cpp, IPv4SubnetMask::IPv4SubnetMask   *)
(*   pattern      cli/src/Command.cpp, Command::parse_pattern              *)
(* and IPv4SubnetMask::from_prefix, whose input is a number.               *)
(*                                                                         *)
(* The first four read the same text, one after the other, and a turn of   *)
(* a reader's loop is one action; a mask that the fourth accepts is also   *)
(* made by from_prefix, from the number of its ones.  What differs between *)
(* the readers is what can go wrong: which of them want a digit, a dot,    *)
(* the end of the text, and how wide the integer is in which they collect  *)
(* one.                                                                    *)
(*                                                                         *)
(* Everything is scaled: an address has Octets numbers of OctetBits bits,  *)
(* written in a base of |DOMAIN DigitValue|.                               *)
(***************************************************************************)
EXTENDS Integers, FiniteSets, SequencesExt

CONSTANTS
    DigitValue,         \* the digits, and what they stand for
    Letters, Names,     \* letters, and the variable elements a pattern may have
    EOT,                \* WrapperForParsing::EOT, a character like any other
    Octets, OctetBits,
    IntMax,             \* the largest int
    SizeMod,            \* size_t wraps at this value
    MaxAddress, MaxPattern  \* bounds on the length of a text

\* 2 to the n, as a recursive function: the provers know nothing of ^.
TwoTo[n \in Nat] == IF n = 0 THEN 1 ELSE 2 * TwoTo[n - 1]

ASSUME WidthAssumption ==
    /\ Octets \in Nat \ {0} /\ OctetBits \in Nat \ {0} /\ TwoTo[OctetBits] <= IntMax + 1
    /\ IntMax \in Nat /\ SizeMod \in Nat /\ IntMax < SizeMod
    /\ MaxAddress \in Nat /\ MaxPattern \in Nat
ASSUME DigitsAssumption ==
    /\ IsFiniteSet(DOMAIN DigitValue) /\ \A d \in DOMAIN DigitValue : DigitValue[d] \in Nat
    /\ {".", EOT} \cap DOMAIN DigitValue = {} /\ EOT # "."
ASSUME NamesAssumption == << >> \notin Names
ASSUME LettersAssumption ==
    /\ " " \notin Letters
    /\ EOT \notin Letters \cup DOMAIN DigitValue \cup {" ", "<", ">"}

VARIABLES
    text,           \* what is read
    prefix,         \* the argument of from_prefix
    reader, rest, read,     \* who reads, from where on, and what it has read
    accepted, refused, broken,  \* the readers that ended, and how
    value           \* what each reader made of the text

input == <<text, prefix>>
outcome == <<accepted, refused, broken, value>>
vars == <<input, reader, rest, read, outcome>>

Digits == DOMAIN DigitValue
Radix == Cardinality(Digits)
MaxOctet == TwoTo[OctetBits] - 1
AddressReaders == {"check", "constructor", "service", "mask"}
Readers == AddressReaders \cup {"pattern", "prefix"}
AddressChars == Digits \cup {".", "x", EOT}
PatternChars == Letters \cup Digits \cup {" ", "<", ">", EOT}

Init ==
    /\ \/ reader = "check" /\ text \in SeqOf(AddressChars, MaxAddress) /\ prefix = 0
       \/ reader = "pattern" /\ text \in SeqOf(PatternChars, MaxPattern) /\ prefix = 0
       \/ reader = "prefix" /\ text = << >> /\ prefix \in -1 .. Octets * OctetBits + 1
    /\ rest = text /\ read = << >>
    /\ accepted = {} /\ refused = {} /\ broken = {}
    /\ value = [r \in Readers |-> << >>]

-----------------------------------------------------------------------------
(* WrapperForParsing: `ch` is the first character of what is left, and EOT   *)
(* at the end; there get_next() changes nothing.                             *)

Ch(s) == IF s = << >> THEN EOT ELSE Head(s)
GetNext(s) == IF s = << >> THEN s ELSE Tail(s)

RunLength(s, chars) == CHOOSE n \in 0 .. Len(s) :
    (\A i \in 1 .. n : s[i] \in chars) /\ (n = Len(s) \/ s[n + 1] \notin chars)
Leading(s, chars) == SubSeq(s, 1, RunLength(s, chars))
After(s, chars) == SubSeq(s, RunLength(s, chars) + 1, Len(s))

-----------------------------------------------------------------------------
(* Octets *)

Numeral(digits) ==
    LET n[i \in 0 .. Len(digits)] ==
            IF i = 0 THEN 0 ELSE n[i - 1] * Radix + DigitValue[digits[i]]
    IN  n[Len(digits)]

\* The service collects a number in a size_t, the CLI in an int, whose overflow is
\* undefined: any int may come out.
Collects(r, digits) ==
    IF r \in {"service", "mask"} THEN {Numeral(digits) % SizeMod}
    ELSE IF Numeral(digits) <= IntMax THEN {Numeral(digits)}
    ELSE (-IntMax - 1) .. IntMax

MaskOctets == {MaxOctet + 1 - TwoTo[i] : i \in 0 .. OctetBits - 1}

AdmitsWithoutDigit(r, digits, number) ==
    /\ number \in 0 .. MaxOctet
    /\ r = "mask" => number \in MaskOctets /\ (read # << >> => Last(read) = MaxOctet)

AdmitsAnyMaskOctet(r, digits, number) ==
    /\ r = "check" => digits # << >>
    /\ number \in 0 .. MaxOctet
    /\ r = "mask" => number \in MaskOctets

\* Only the check wants a digit; only the octets above are allowed in a mask, and
\* nothing may follow one that is not full.
Admits(r, digits, number) ==
    /\ r = "check" => digits # << >>
    /\ number \in 0 .. MaxOctet
    /\ r = "mask" => number \in MaskOctets /\ (read # << >> => Last(read) = MaxOctet)

EndsSloppily(r, s) == r # "service" => Ch(s) = EOT \/ r = "constructor"

\* The constructor does not look at what follows the last number.
Ends(r, s) == r = "constructor" \/ Ch(s) = EOT

-----------------------------------------------------------------------------
(* The readers of addresses *)

\* The constructor is called if the check succeeds; the service is another program.
Successor(r, ok) ==
    IF r = "check" THEN IF ok THEN "constructor" ELSE "service"
    ELSE IF r = "constructor" THEN "service"
    ELSE IF r = "service" THEN "mask"
    ELSE IF r = "mask" /\ ok THEN "prefix" ELSE "none"

NextReads(ok) ==
    /\ reader' = Successor(reader, ok)
    /\ rest' = text /\ read' = << >>
    /\ UNCHANGED text

Ended(ok) == NextReads(ok) /\ UNCHANGED prefix

Refuse == refused' = refused \cup {reader} /\ Ended(FALSE) /\ UNCHANGED <<accepted, broken, value>>

AtOctet == reader \in AddressReaders /\ Len(read) < Octets
AtEnd == reader \in AddressReaders /\ Len(read) = Octets
LastOctet == Len(read) = Octets - 1
Number == Leading(rest, Digits)
AfterNumber == After(rest, Digits)
DotMissing == ~LastOctet /\ Ch(AfterNumber) # "."

\* The service goes one character further after every octet, the last one included.
ReadOctet ==
    /\ AtOctet /\ ~DotMissing
    /\ \E n \in Collects(reader, Number) :
          Admits(reader, Number, n) /\ read' = Append(read, n)
    /\ rest' = IF LastOctet /\ reader # "service" THEN AfterNumber ELSE GetNext(AfterNumber)
    /\ UNCHANGED <<input, reader, outcome>>

RefuseOctet ==
    /\ AtOctet
    /\ DotMissing \/ \E n \in Collects(reader, Number) : ~Admits(reader, Number, n)
    /\ Refuse

AcceptAddress ==
    /\ AtEnd /\ reader # "mask" /\ Ends(reader, rest)
    /\ accepted' = accepted \cup {reader}
    /\ value' = [value EXCEPT ![reader] = read]
    /\ Ended(TRUE)
    /\ UNCHANGED <<refused, broken>>

RefuseEnd == AtEnd /\ ~Ends(reader, rest) /\ Refuse

\* The service adds the character to the text of the message as one adds to a pointer:
\* beyond the end of the message what happens is undefined.
BreakAtEnd ==
    /\ AtEnd /\ ~Ends(reader, rest) /\ reader \in {"service", "mask"}
    /\ broken' = broken \cup {reader}
    /\ Ended(FALSE)
    /\ UNCHANGED <<accepted, refused, value>>

-----------------------------------------------------------------------------
(* Command::parse_pattern *)

Blanks == {" "}
FixedWord(s) == [element |-> [fixed |-> TRUE, word |-> Leading(s, Letters)],
                 left |-> After(s, Letters)]
VariableName(s) == Leading(Tail(s), Letters \cup Digits)
AfterName(s) == After(Tail(s), Letters \cup Digits)

ElementsOverrunning(s) ==
    IF Ch(s) \in Letters THEN {FixedWord(s)}
    ELSE IF Ch(s) = "<" /\ VariableName(s) \in Names
    THEN {[element |-> [fixed |-> FALSE, word |-> VariableName(s)],
           left |-> GetNext(AfterName(s))]}
    ELSE {}

\* The element that begins here and what is left after it; none if the parser throws.
Elements(s) ==
    IF Ch(s) \in Letters THEN {FixedWord(s)}
    ELSE IF Ch(s) = "<" /\ VariableName(s) \in Names /\ Ch(AfterName(s)) = ">"
    THEN {[element |-> [fixed |-> FALSE, word |-> VariableName(s)],
           left |-> GetNext(AfterName(s))]}
    ELSE {}

AtElement == reader = "pattern" /\ Ch(rest) # EOT

\* Blanks are skipped before an element and not after it.
ReadElement ==
    /\ AtElement
    /\ \E e \in Elements(After(rest, Blanks)) :
          read' = Append(read, e.element) /\ rest' = e.left
    /\ UNCHANGED <<input, reader, outcome>>

RefuseElement == AtElement /\ Elements(After(rest, Blanks)) = {} /\ Refuse

AcceptPattern ==
    /\ reader = "pattern" /\ Ch(rest) = EOT
    /\ accepted' = accepted \cup {reader}
    /\ value' = [value EXCEPT ![reader] = read]
    /\ Ended(TRUE)
    /\ UNCHANGED <<refused, broken>>

-----------------------------------------------------------------------------
(* Masks: to_prefix, the constructor's end and from_prefix *)

\* 128u, the highest bit of an octet
FirstBit == TwoTo[OctetBits - 1]

\* The loop sets a bit and shifts it, within the lowest octet of the number, until
\* nothing of it is left.
BitsOf(p) ==
    LET mask[i \in 0 .. p] ==
            IF i = 0 THEN 0 ELSE mask[i - 1] + FirstBit \div TwoTo[i - 1]
    IN  mask[p]

\* The mask in network order
OctetsOf(number) ==
    [k \in 1 .. Octets |-> (number \div TwoTo[OctetBits * (Octets - k)]) % TwoTo[OctetBits]]

ToPrefix(octets) == Cardinality({bit \in (1 .. Octets) \X (0 .. OctetBits - 1) :
    (octets[bit[1]] \div TwoTo[bit[2]]) % 2 = 1})

\* The mask's constructor checks the octets and stores none of them: the mask has those
\* that its memory held before.
AcceptMask ==
    /\ AtEnd /\ reader = "mask" /\ Ends(reader, rest)
    /\ accepted' = accepted \cup {reader}
    /\ \E octets \in [1 .. Octets -> 0 .. MaxOctet] : value' = [value EXCEPT ![reader] = octets]
    /\ prefix' = ToPrefix(read)
    /\ NextReads(TRUE)
    /\ UNCHANGED <<refused, broken>>

FromPrefix ==
    /\ reader = "prefix" /\ prefix \in 0 .. Octets * OctetBits
    /\ accepted' = accepted \cup {reader}
    /\ value' = [value EXCEPT ![reader] = OctetsOf(BitsOf(prefix))]
    /\ Ended(TRUE)
    /\ UNCHANGED <<refused, broken>>

RefusePrefix == reader = "prefix" /\ prefix \notin 0 .. Octets * OctetBits /\ Refuse

Next ==
    \/ ReadOctet \/ RefuseOctet \/ AcceptAddress \/ RefuseEnd \/ BreakAtEnd
    \/ ReadElement \/ RefuseElement \/ AcceptPattern
    \/ AcceptMask \/ FromPrefix \/ RefusePrefix

Spec == Init /\ [][Next]_vars

-----------------------------------------------------------------------------
(* What a text says, independently of the readers *)

CharAt(t, i) == IF i <= Len(t) THEN t[i] ELSE EOT

\* The text begins with numbers, perhaps empty, and a dot between any two: number k is
\* its part from Begin(ends, k) to ends[k].
Begin(ends, k) == IF k = 1 THEN 1 ELSE ends[k - 1] + 2
Part(t, ends, k) == SubSeq(t, Begin(ends, k), ends[k])
WritesNumber(t, ends, k) ==
    /\ Begin(ends, k) <= ends[k] + 1
    /\ \A i \in Begin(ends, k) .. ends[k] : t[i] \in Digits
    /\ IF k < Octets THEN CharAt(t, ends[k] + 1) = "." ELSE CharAt(t, ends[k] + 1) \notin Digits

Writings(t) == {ends \in [1 .. Octets -> 0 .. Len(t)] :
                  \A k \in 1 .. Octets : WritesNumber(t, ends, k)}
Numbers(t, ends) == [k \in 1 .. Octets |-> Numeral(Part(t, ends, k))]

\* The text is an address: numbers that are octets, and nothing behind them.
IsAddress(t) == \E ends \in Writings(t) :
    /\ \A k \in 1 .. Octets : Part(t, ends, k) # << >> /\ Numbers(t, ends)[k] \in 0 .. MaxOctet
    /\ CharAt(t, ends[Octets] + 1) = EOT

Overflows(t) == \E i, j \in 1 .. Len(t) :
    (\A k \in i .. j : t[k] \in Digits) /\ Numeral(SubSeq(t, i, j)) > IntMax

-----------------------------------------------------------------------------
(* Properties *)

\* The CLI checks a word with one function and reads it with another, and the service
\* has a third reader of such texts.  Unless an integer overflows, the check lets
\* through exactly the dotted numbers that are octets, and what it lets through is the
\* same address to the other two; the service, which steps over one character, refuses
\* it if that is an EOT within the text.
CheckedWordIsRead == ("service" \in accepted \cup refused \cup broken /\ ~Overflows(text)) =>
    /\ "check" \in accepted <=> IsAddress(text)
    /\ "check" \in accepted =>
          /\ "constructor" \in accepted /\ value["constructor"] = value["check"]
          /\ \/ "service" \in accepted /\ value["service"] = value["check"]
             \/ \E i \in 1 .. Len(text) : text[i] = EOT

\* The service is laxer than the check, but no more than this: an address it accepts
\* is the one written, a missing number counting as 0, and at most one character
\* behind it is passed over.  The readers of the service fail in an undefined way only
\* behind an address.
AcceptedIsWritten ==
    /\ "service" \in accepted /\ ~Overflows(text) => \E ends \in Writings(text) :
          value["service"] = Numbers(text, ends) /\ CharAt(text, ends[Octets] + 2) = EOT
    /\ broken # {} => Writings(text) # {}

\* The constructor of a mask looks at one octet after another: a text that it accepts is
\* written to its end and says a run of ones followed by zeros, whatever becomes of it.
MaskOf(ones) == OctetsOf(TwoTo[Octets * OctetBits] - TwoTo[Octets * OctetBits - ones])
MaskTextIsContiguous == "mask" \in accepted /\ ~Overflows(text) =>
    \E ends \in Writings(text) :
        /\ CharAt(text, ends[Octets] + 1) = EOT
        /\ \E ones \in 1 .. Octets * OctetBits : Numbers(text, ends) = MaskOf(ones)

\* Each element of a pattern that is accepted is written in it, one behind the other:
\* element i from at[i] to EndOf(...).  The rest are blanks, none of them at the end.
Written(element) == IF element.fixed THEN element.word ELSE <<"<">> \o element.word \o <<">">>
EndOf(elements, at, i) == at[i] + Len(Written(elements[i])) - 1
WrittenIn(t, elements, at, n) ==
    /\ \A i \in DOMAIN at :
          /\ EndOf(elements, at, i) \in at[i] .. n
          /\ SubSeq(t, at[i], EndOf(elements, at, i)) = Written(elements[i])
    /\ \A i, j \in DOMAIN at : i < j => EndOf(elements, at, i) < at[j]
    /\ \A c \in 1 .. n :
          t[c] \in Blanks \/ \E i \in DOMAIN at : c \in at[i] .. EndOf(elements, at, i)
    /\ n > 0 => t[n] \notin Blanks

PatternIsKept == "pattern" \in accepted => \E n \in 0 .. Len(text) :
    /\ \A c \in 1 .. n : text[c] # EOT
    /\ CharAt(text, n + 1) = EOT
    /\ \E at \in [DOMAIN value["pattern"] -> 1 .. Len(text)] :
          WrittenIn(text, value["pattern"], at, n)

\* A mask that its constructor accepts as a text, and from_prefix as the number of its
\* ones, is made by one of the two.
AMaskIsMade == {"mask", "prefix"} \subseteq accepted =>
    \E r \in {"mask", "prefix"} : value[r] = MaskOf(prefix)
=============================================================================
