----------------------------- MODULE DhcpMessage -----------------------------
(***************************************************************************)
(* How a datagram becomes a DHCP message and a message a datagram:         *)
(* dhcp/src/DhcpMessage.cpp, DhcpOption.cpp and endians.hpp, on the path   *)
(* main() of dhcp/src/main.cpp takes: the server parses a request,         *)
(* dispatches on option 53, builds an answer and serialises it; a client   *)
(* then reads the answer, with the same parser.                            *)
(*                                                                         *)
(* The options part is modelled byte by byte, one action per turn of the   *)
(* parser's loop; of the fixed header only what decides the control flow   *)
(* is kept.  Multi-byte integers are kept as their bytes in network order. *)
(* Where the code reads outside the datagram its behaviour is undefined:   *)
(* `status` becomes "undefined" and nothing is modelled after that.        *)
(***************************************************************************)
EXTENDS Naturals, Sequences, SequencesExt

CONSTANTS
    Fields,         \* the option fields requests are made of; see FieldAssumption
    MaxFields,      \* bound on the fields of a request
    MaxCut,         \* bound on the bytes missing at the end of a request
    LittleEndian    \* of the host: TRUE on the platforms the build supports

Byte == 0 .. 255

\* `sound` says whether RFC 2132, which dhcp/README.md:7 names, allows the field.
ASSUME FieldAssumption == \A f \in Fields :
    /\ f.code \in Byte /\ f.sound \in BOOLEAN
    /\ f.payload \in Seq(Byte) /\ Len(f.payload) \in Byte
ASSUME BoundsAssumption == MaxFields \in Nat /\ MaxCut \in Nat /\ LittleEndian \in BOOLEAN

VARIABLES
    header,         \* the kind of datagram: what the first 240 bytes are
    fields,         \* the options the sender has written,
    wire, starts,   \* their bytes, and where each field begins, and the next one would
    cut,            \* how many bytes are missing at the end
    party,          \* who is reading: "server" or "client"
    rest,           \* the bytes the parser's iterator has not passed
    options,        \* the options parsed so far
    status

sender == <<header, fields, wire, starts, cut>>
vars == <<sender, party, rest, options, status>>

Pad == 0
End == 255

\* Shorter than 236 bytes, not Ethernet, without options, a wrong magic cookie, an
\* answer of another server (op is BOOTREPLY), a client's request.
Headers == {"short", "hardware", "bare", "cookie", "reply", "request"}
Statuses == {"writing", "received", "parsing", "parsed", "ignored", "threw", "undefined"}

-----------------------------------------------------------------------------
(* options_descriptions *)

PayloadTypes == [
    SUBNET_MASK |-> {1},
    INT_32 |-> {2},
    IP_ADDRESS |-> {16, 28, 32, 50, 54} \cup (3 .. 11) \cup (69 .. 76)
                   \cup {41, 42, 44, 45, 48, 49, 65, 68},
    STRING |-> {12, 14, 15, 17, 18, 40, 47, 56, 60, 64, 66, 67},
    UINT_16 |-> {13, 22, 25, 26, 57},
    FLAG |-> {19, 20, 27, 29, 30, 31, 34, 36, 39},
    IP_ADDRESS_WITH_SUBNET_MASK |-> {21},
    UINT_8 |-> {23, 37},
    UINT_32 |-> {24, 35, 38, 51, 58, 59},
    TWO_IP_ADDRESSES |-> {33},
    VENDOR_SPECIFIC_FIELD |-> {43},
    UINT_ENUM |-> {46, 52, 53},
    BYTE_ARRAY |-> {55, 61}]

Codes == UNION {PayloadTypes[t] : t \in DOMAIN PayloadTypes}
TypeOf(code) == CHOOSE t \in DOMAIN PayloadTypes : code \in PayloadTypes[t]

\* get_one_element_payload_length_in_bytes, for the types read in elements; the
\* others are read in one piece.
ElementSize ==
    [t \in DOMAIN PayloadTypes \ {"STRING", "VENDOR_SPECIFIC_FIELD", "BYTE_ARRAY"} |->
        CASE t \in {"SUBNET_MASK", "INT_32", "IP_ADDRESS", "UINT_32"} -> 4
          [] t \in {"IP_ADDRESS_WITH_SUBNET_MASK", "TWO_IP_ADDRESSES"} -> 8
          [] t \in {"UINT_8", "FLAG", "UINT_ENUM"} -> 1
          [] t = "UINT_16" -> 2]
InOnePiece(code) == TypeOf(code) \notin DOMAIN ElementSize

\* The codes whose payload_length is VARIABLE_DHCP_OPTION_LENGTH: lists, and what is
\* read in one piece.  Any other option is exactly one element long.
VariableLength ==
    {code \in Codes : InOnePiece(code)} \cup {21, 25, 33}
    \cup (PayloadTypes.IP_ADDRESS \ {16, 28, 32, 50, 54})
FixedLength(code) == ElementSize[TypeOf(code)]

Constrained == {22, 23, 26, 37, 46, 52, 53, 57}

AllowedFromMinExclusive == [code \in Constrained |->
    CASE code \in {22, 57} -> 577 .. 65535 [] code = 26 -> 69 .. 65535
      [] code \in {23, 37} -> 1 .. 255
      [] code = 46 -> {1, 2, 4, 8} [] code = 52 -> {1, 2, 3} [] code = 53 -> 1 .. 8]

\* The IntConstraints, and how is_correct_uint tests them; other integers are free.
Allowed == [code \in Constrained |->
    CASE code \in {22, 57} -> 576 .. 65535 [] code = 26 -> 68 .. 65535
      [] code \in {23, 37} -> 1 .. 255
      [] code = 46 -> {1, 2, 4, 8} [] code = 52 -> {1, 2, 3} [] code = 53 -> 1 .. 8]

MinByteArray == [code \in {55, 61} |-> IF code = 55 THEN 1 ELSE 2]

\* network_to_host_endian; the integers that are constrained have one or two bytes.
ValueOf(bytes) == IF Len(bytes) = 1 THEN bytes[1] ELSE 256 * bytes[1] + bytes[2]

-----------------------------------------------------------------------------
(* DhcpOption *)

Option(code, length, values) == [code |-> code, length |-> length, values |-> values]

\* The values the constructor's loop reads; an empty payload has none.
Elements(code, payload) ==
    IF payload = << >> THEN << >>
    ELSE IF InOnePiece(code) THEN <<payload>>
    ELSE LET n == FixedLength(code)
         IN  [i \in 1 .. Len(payload) \div n |-> SubSeq(payload, (i - 1) * n + 1, i * n)]

\* The constructor throws before it reads the payload: the code is not described
\* (map::at), or the length is not the described one.
Refused(code, length) ==
    code \notin Codes \/ (code \notin VariableLength /\ length # FixedLength(code))

\* The loop ends when its iterator equals payload_end, which it steps over if the
\* payload is not a whole number of elements.
Misaligned(code, length) ==
    ~InOnePiece(code) /\ length % FixedLength(code) # 0

\* A value that violates its constraint, or a byte array that is too short.  An
\* empty payload is never tested.
Forbidden(code, payload) == payload # << >> /\
    \/ code \in DOMAIN Allowed /\ ValueOf(payload) \notin Allowed[code]
    \/ code \in DOMAIN MinByteArray /\ Len(payload) < MinByteArray[code]

\* dhcp_option_field_real_value_to_network_data copies integers as they lie in memory.
\* (A FLAG has no branch there; no answer of the server carries one.)
NetworkData(code, value) ==
    IF LittleEndian /\ TypeOf(code) \in {"INT_32", "UINT_32", "UINT_16"}
    THEN Reverse(value) ELSE value

\* The values one behind the other: they have one size.
ValuesData(o) ==
    LET size == Len(o.values[1])
    IN  IF o.values = << >> THEN << >>
        ELSE [i \in 1 .. size * Len(o.values) |->
                 NetworkData(o.code, o.values[((i - 1) \div size) + 1])[((i - 1) % size) + 1]]

OptionDataWithDescribedLength(o) ==
    <<o.code, IF o.code \in VariableLength THEN 255 ELSE FixedLength(o.code)>>
    \o ValuesData(o)

\* to_network_data
OptionData(o) ==
    <<o.code, IF o.code \in VariableLength THEN o.length ELSE FixedLength(o.code)>>
    \o ValuesData(o)

-----------------------------------------------------------------------------
(* The sender of the request, and the start of the DhcpMessage constructor *)

FieldData(f) ==
    IF f.code \in {Pad, End} THEN <<f.code>> ELSE <<f.code, Len(f.payload)>> \o f.payload

TypeOK ==
    /\ header \in Headers
    /\ fields \in Seq(Fields) /\ wire \in Seq(Byte) /\ starts \in Seq(Nat \ {0})
    /\ cut \in 0 .. Len(wire)
    /\ party \in {"server", "client"}
    /\ rest \in Seq(Byte)
    /\ options \in Seq([code : Codes, length : Byte, values : Seq(Seq(Byte))])
    /\ status \in Statuses

Init ==
    /\ header \in Headers
    /\ fields = << >> /\ wire = << >> /\ starts = <<1>> /\ cut = 0
    /\ party = "server" /\ rest = << >> /\ options = << >> /\ status = "writing"

Write(f) ==
    /\ status = "writing" /\ header \in {"reply", "request"} /\ Len(fields) < MaxFields
    /\ fields' = Append(fields, f)
    /\ wire' = wire \o FieldData(f)
    /\ starts' = Append(starts, Len(wire') + 1)
    /\ UNCHANGED <<header, cut, party, rest, options, status>>

\* The datagram may be cut short.
Send ==
    /\ status = "writing" /\ status' = "received"
    /\ cut' \in 0 .. MaxCut /\ cut' <= Len(wire)
    /\ rest' = SubSeq(wire, 1, Len(wire) - cut')
    /\ UNCHANGED <<header, fields, wire, starts, party, options>>

ReadHeader ==
    /\ status = "received"
    /\ status' = CASE header \in {"short", "hardware", "cookie"} -> "threw"
                   [] header = "bare" -> "parsed"
                   [] header \in {"reply", "request"} -> "parsing"
    /\ UNCHANGED <<sender, party, rest, options>>

-----------------------------------------------------------------------------
(* The loop of the DhcpMessage constructor *)

ReadEnd ==
    /\ status = "parsing" /\ (rest # << >> => Head(rest) = End)
    /\ status' = "parsed"
    /\ UNCHANGED <<sender, party, rest, options>>

ReadPad ==
    /\ status = "parsing" /\ rest # << >> /\ Head(rest) = Pad
    /\ rest' = Tail(rest)
    /\ UNCHANGED <<sender, party, options, status>>

AtOption == status = "parsing" /\ rest # << >> /\ Head(rest) \notin {Pad, End}
Code == Head(rest)
Length == rest[2]
Payload == SubSeq(rest, 3, 2 + Length)
NoLength == Len(rest) = 1
Overruns == Len(rest) < 2 + Length \/ Misaligned(Code, Length)

AfterOptionOffByOne == SubSeq(rest, 2 + Length, Len(rest))
AfterOption == SubSeq(rest, 3 + Length, Len(rest))

ReadOption ==
    /\ AtOption /\ ~NoLength /\ ~Refused(Code, Length)
    /\ ~Overruns /\ ~Forbidden(Code, Payload)
    /\ options' = Append(options, Option(Code, Length, Elements(Code, Payload)))
    /\ rest' = AfterOption
    /\ UNCHANGED <<sender, party, status>>

ReadThrows ==
    /\ AtOption /\ ~NoLength
    /\ ~Refused(Code, Length) => (~Overruns /\ Forbidden(Code, Payload))
    /\ status' = "threw"
    /\ UNCHANGED <<sender, party, rest, options>>

ReadOutside ==
    /\ AtOption
    /\ ~NoLength => (~Refused(Code, Length) /\ Overruns)
    /\ status' = "undefined"
    /\ UNCHANGED <<sender, party, rest, options>>

-----------------------------------------------------------------------------
(* The dispatch in main(), make_offer and make_acknowledge *)

\* find_if
MessageTypes == {i \in DOMAIN options : options[i].code = 53}
FirstType == ValueOf(options[Min(MessageTypes)].values[1])
DISCOVER == 1
OFFER == 2
REQUEST == 3
ACK == 5

LeaseTime == <<0, 1, 81, 128>>      \* 86400

Made(code, payload) == Option(code, Len(payload), Elements(code, payload))
Answer(type) == <<
    Made(53, <<type>>), Made(1, <<255, 255, 255, 0>>),
    Made(3, <<172, 18, 1, 1>>), Made(51, LeaseTime)>>

Handled == status = "parsed" /\ party = "server"

Ignore ==
    /\ Handled
    /\ header # "reply" => (MessageTypes # {} /\ FirstType \notin {DISCOVER, REQUEST})
    /\ status' = "ignored"
    /\ UNCHANGED <<sender, party, rest, options>>

\* find_if returned end(), which is dereferenced.
NoMessageType ==
    /\ Handled /\ header # "reply" /\ MessageTypes = {}
    /\ status' = "undefined"
    /\ UNCHANGED <<sender, party, rest, options>>

\* The answer is serialised, with an end option, and sent.  The client reads it.
Reply(received, type) ==
    /\ Handled /\ header # "reply" /\ MessageTypes # {} /\ FirstType = received
    /\ party' = "client" /\ status' = "parsing" /\ options' = << >>
    /\ LET data(i) == OptionData(Answer(type)[i])
       IN  rest' = data(1) \o data(2) \o data(3) \o data(4) \o <<End>>
    /\ UNCHANGED sender

Offer == Reply(DISCOVER, OFFER)
Acknowledge == Reply(REQUEST, ACK)

Parse == ReadEnd \/ ReadPad \/ ReadOption \/ ReadThrows \/ ReadOutside

Next ==
    \/ (\E f \in Fields : Write(f)) \/ Send
    \/ ReadHeader \/ Parse \/ Ignore \/ NoMessageType \/ Offer \/ Acknowledge

Spec == Init /\ [][Next]_vars

-----------------------------------------------------------------------------
(* Properties *)

\* The options read are those of the sender's first k fields, padding left out, in
\* their order: the i-th one is made from field of[i].
MadeFrom(k, of) ==
    /\ \A i, j \in 1 .. Len(options) : i < j => of[i] < of[j]
    /\ \A i \in 1 .. Len(options) :
          LET f == fields[of[i]] IN f.code # Pad /\ options[i] = Made(f.code, f.payload)
    /\ \A l \in 1 .. k : fields[l].code # Pad => \E i \in 1 .. Len(options) : of[i] = l

\* The parser stands at the beginning of field k + 1, or behind the last one, and no
\* end option is behind it.
AtField(k) ==
    /\ rest = SubSeq(wire, starts[k + 1], Len(wire) - cut)
    /\ starts[k + 1] <= Len(wire) - cut + 1
    /\ \A l \in 1 .. k : fields[l].code # End

\* The parser never loses its place: at every turn of its loop it stands at the
\* beginning of one of the sender's fields, with the options before it read in order,
\* even if the end of the datagram is missing.
FramingKept ==
    (party = "server" /\ status \in {"received", "parsing", "parsed"}) =>
        \E k \in 0 .. Len(fields) :
            AtField(k) /\ \E of \in [1 .. Len(options) -> 1 .. k] : MadeFrom(k, of)

\* The fields before the first end option.
Meant == {i \in 1 .. Len(fields) : \A j \in 1 .. i : fields[j].code # End}

\* A whole request whose options RFC 2132 allows neither kills the server nor makes
\* it read outside the datagram, unless it says nowhere what kind of message it is.
SoundRequestIsRead ==
    (header = "request" /\ cut = 0 /\ \A i \in Meant : fields[i].sound) =>
        /\ status # "threw"
        /\ status = "undefined" => \A i \in Meant : fields[i].code # 53

\* The server's own answers can be read: the options they were made of arrive, in
\* order and, but for the lease time, with their values.
ReplyIsRead == party = "client" =>
    /\ status \notin {"threw", "undefined"}
    /\ status = "parsed" => \E type \in {OFFER, ACK} :
          /\ Len(options) = 4
          /\ SubSeq(options, 1, 3) = SubSeq(Answer(type), 1, 3)
          /\ options[4].code = 51

\* A lease time is sent in network order, as the test message of main.cpp:115 has it:
\* the client is told the 86400 seconds that make_offer put into option 51.
LeaseTimeSurvives == (party = "client" /\ status = "parsed") =>
    \A o \in ToSet(options) : o.code = 51 => o.values = <<LeaseTime>>
=============================================================================
