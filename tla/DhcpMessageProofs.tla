-------------------------- MODULE DhcpMessageProofs --------------------------
(***************************************************************************)
(* Proofs about the option parser, for requests of any length and answers  *)
(* of either kind.                                                         *)
(***************************************************************************)
EXTENDS DhcpMessage, SequenceTheorems, TLAPS

-----------------------------------------------------------------------------
(* The inductive invariant *)

\* The sender's fields lie one behind the other in the datagram.
WireKept ==
    /\ Len(starts) = Len(fields) + 1
    /\ starts[1] = 1 /\ starts[Len(fields) + 1] = Len(wire) + 1
    /\ \A k \in 1 .. Len(fields) :
          LET data == FieldData(fields[k])
          IN  /\ starts[k + 1] = starts[k] + Len(data) /\ starts[k + 1] <= Len(wire) + 1
              /\ \A i \in 1 .. Len(data) : wire[starts[k] + i - 1] = data[i]

\* Nothing is read or cut while the sender writes.
WritingKept ==
    /\ status = "writing" => cut = 0
    /\ status \in {"writing", "received"} => options = << >> /\ party = "server"
    /\ header \notin {"reply", "request"} => fields = << >>

\* What the server has not parsed begins with an end option.
EndKept ==
    (party = "server" /\ status = "parsed") => (rest = << >> \/ Head(rest) = End)

\* The codes of an answer's options, and their payloads as they are sent
AnswerCode(i) == <<53, 1, 3, 51>>[i]
AnswerPayload(type, i) ==
    CASE i = 1 -> <<type>>
      [] i = 2 -> <<255, 255, 255, 0>>
      [] i = 3 -> <<172, 18, 1, 1>>
      [] i = 4 -> NetworkData(51, LeaseTime)
Arrived(type, i) == Made(AnswerCode(i), AnswerPayload(type, i))
AnswerData(type, i) ==
    <<AnswerCode(i), Len(AnswerPayload(type, i))>> \o AnswerPayload(type, i)

\* The answer from its i-th option on, with the end option
AnswerFrom(type, i) ==
    IF i = 5 THEN <<End>>
    ELSE IF i = 4 THEN AnswerData(type, 4) \o <<End>>
    ELSE IF i = 3 THEN AnswerData(type, 3) \o (AnswerData(type, 4) \o <<End>>)
    ELSE IF i = 2 THEN AnswerData(type, 2) \o (AnswerData(type, 3) \o
                          (AnswerData(type, 4) \o <<End>>))
    ELSE AnswerData(type, 1) \o (AnswerData(type, 2) \o
            (AnswerData(type, 3) \o (AnswerData(type, 4) \o <<End>>)))

\* The client has read the first i - 1 options of an answer, and stands before the next.
AnswerRead(type, i) ==
    /\ rest = AnswerFrom(type, i)
    /\ Len(options) = i - 1 /\ \A j \in 1 .. i - 1 : options[j] = Arrived(type, j)
    /\ status = "parsed" => i = 5
ReplyKept == party = "client" =>
    /\ status \in {"parsing", "parsed"}
    /\ \E type \in {OFFER, ACK} : \E i \in 1 .. 5 : AnswerRead(type, i)

IInv == TypeOK /\ WireKept /\ WritingKept /\ FramingKept /\ EndKept /\ ReplyKept

-----------------------------------------------------------------------------
(* options_descriptions *)

Types == {"SUBNET_MASK", "INT_32", "IP_ADDRESS", "STRING", "UINT_16", "FLAG",
          "IP_ADDRESS_WITH_SUBNET_MASK", "UINT_8", "UINT_32", "TWO_IP_ADDRESSES",
          "VENDOR_SPECIFIC_FIELD", "UINT_ENUM", "BYTE_ARRAY"}

LEMMA TypesOfPayloads == DOMAIN PayloadTypes = Types
  BY DEF PayloadTypes, Types

LEMMA CodeHasType ==
    ASSUME NEW code \in Codes
    PROVE  TypeOf(code) \in Types /\ code \in PayloadTypes[TypeOf(code)]
  <1>1. \E t \in DOMAIN PayloadTypes : code \in PayloadTypes[t]
    BY DEF Codes
  <1> QED
    BY <1>1, TypesOfPayloads DEF TypeOf

LEMMA ElementSizes ==
    ASSUME NEW code \in Codes, ~InOnePiece(code)
    PROVE  FixedLength(code) \in {1, 2, 4, 8}
  <1> DEFINE t == TypeOf(code)
  <1>1. t \in Types \ {"STRING", "VENDOR_SPECIFIC_FIELD", "BYTE_ARRAY"}
    BY TypesOfPayloads, CodeHasType DEF InOnePiece, ElementSize
  <1> HIDE DEF t
  <1>2. ElementSize[t] \in {1, 2, 4, 8}
    BY <1>1, TypesOfPayloads DEF ElementSize, Types
  <1> QED
    BY <1>2 DEF FixedLength, t

\* The descriptions of the four options an answer carries
LEMMA AnswerTypes ==
    /\ TypeOf(53) = "UINT_ENUM" /\ TypeOf(1) = "SUBNET_MASK"
    /\ TypeOf(3) = "IP_ADDRESS" /\ TypeOf(51) = "UINT_32"
    /\ {1, 3, 51, 53} \subseteq Codes
  <1>1. \A t \in Types : 53 \in PayloadTypes[t] <=> t = "UINT_ENUM"
    BY DEF PayloadTypes, Types
  <1>2. \A t \in Types : 1 \in PayloadTypes[t] <=> t = "SUBNET_MASK"
    BY DEF PayloadTypes, Types
  <1>3. \A t \in Types : 3 \in PayloadTypes[t] <=> t = "IP_ADDRESS"
    BY DEF PayloadTypes, Types
  <1>4. \A t \in Types : 51 \in PayloadTypes[t] <=> t = "UINT_32"
    BY DEF PayloadTypes, Types
  <1>5. {"UINT_ENUM", "SUBNET_MASK", "IP_ADDRESS", "UINT_32"} \subseteq Types
    BY DEF Types
  <1>6. {1, 3, 51, 53} \subseteq Codes
    BY <1>1, <1>2, <1>3, <1>4, <1>5, TypesOfPayloads DEF Codes
  <1> QED
    BY <1>1, <1>2, <1>3, <1>4, <1>6, CodeHasType

LEMMA AnswerSizes ==
    /\ FixedLength(53) = 1 /\ FixedLength(1) = 4 /\ FixedLength(3) = 4 /\ FixedLength(51) = 4
    /\ \A code \in {1, 3, 51, 53} : ~InOnePiece(code)
    /\ 53 \notin VariableLength /\ 1 \notin VariableLength /\ 51 \notin VariableLength
    /\ 3 \in VariableLength
  <1>1. \A code \in {1, 3, 51, 53} : ~InOnePiece(code)
    BY AnswerTypes, TypesOfPayloads DEF InOnePiece, ElementSize, Types
  <1>2. /\ ElementSize["UINT_ENUM"] = 1 /\ ElementSize["SUBNET_MASK"] = 4
        /\ ElementSize["IP_ADDRESS"] = 4 /\ ElementSize["UINT_32"] = 4
    BY TypesOfPayloads DEF ElementSize, Types
  <1>3. PayloadTypes.IP_ADDRESS \cap {1, 51, 53} = {} /\ 3 \in PayloadTypes.IP_ADDRESS
    BY DEF PayloadTypes
  <1> QED
    BY <1>1, <1>2, <1>3, AnswerTypes DEF FixedLength, VariableLength

\* The values an option is made of are sequences of bytes.
LEMMA ElementsTyped ==
    ASSUME NEW code \in Codes, NEW payload \in Seq(Byte)
    PROVE  Elements(code, payload) \in Seq(Seq(Byte))
  <1>1. CASE payload = << >>
    BY <1>1 DEF Elements
  <1>2. CASE payload # << >> /\ InOnePiece(code)
    BY <1>2 DEF Elements
  <1>3. CASE payload # << >> /\ ~InOnePiece(code)
    <2> DEFINE n == FixedLength(code)
               m == Len(payload) \div n
               piece(i) == SubSeq(payload, (i - 1) * n + 1, i * n)
    <2>1. n \in {1, 2, 4, 8} /\ Len(payload) \in Nat
      BY <1>3, ElementSizes
    <2> HIDE DEF n
    <2>2. m \in Nat
      BY <2>1
    <2>3. ASSUME NEW i \in 1 .. m
          PROVE  piece(i) \in Seq(Byte)
      <3>1. (i - 1) * n + 1 \in Nat \ {0} /\ i * n \in Nat /\ i * n <= Len(payload)
        <4>1. CASE n = 1
          BY <2>1, <4>1
        <4>2. CASE n = 2
          BY <2>1, <4>2
        <4>3. CASE n = 4
          BY <2>1, <4>3
        <4>4. CASE n = 8
          BY <2>1, <4>4
        <4> QED
          BY <2>1, <4>1, <4>2, <4>3, <4>4
      <3> DEFINE from == (i - 1) * n + 1
                 to == i * n
      <3> HIDE DEF from, to
      <3>2. \A j \in from .. to : payload[j] \in Byte
        BY <2>1, <3>1 DEF from, to
      <3>3. SubSeq(payload, from, to) \in Seq(Byte)
        BY <3>1, <3>2 DEF from, to
      <3> QED
        BY <3>3 DEF from, to
    <2>4. Elements(code, payload) = [i \in 1 .. m |-> piece(i)]
      BY <1>3 DEF Elements, n
    <2> HIDE DEF m, piece
    <2> QED
      BY <2>2, <2>3, <2>4
  <1> QED
    BY <1>1, <1>2, <1>3

-----------------------------------------------------------------------------
(* The sender *)

\* What is left of a part of a sequence when its first elements are dropped
LEMMA DropFirst ==
    ASSUME NEW S, NEW w \in Seq(S), NEW a \in Nat \ {0}, NEW e \in Nat,
           e <= Len(w), a <= e + 1
    PROVE  LET r == SubSeq(w, a, e)
           IN  /\ r \in Seq(S) /\ Len(r) = e - a + 1
               /\ \A i \in 1 .. Len(r) : r[i] = w[a + i - 1]
               /\ \A d \in 0 .. Len(r) : SubSeq(r, d + 1, Len(r)) = SubSeq(w, a + d, e)
  <1> DEFINE r == SubSeq(w, a, e)
             n == e - a + 1
  <1>1. r \in Seq(S) /\ Len(r) = n /\ \A i \in 1 .. n : r[i] = w[a + i - 1]
    OBVIOUS
  <1>2. n \in Nat
    OBVIOUS
  <1> HIDE DEF r
  <1>3. ASSUME NEW d \in 0 .. n
        PROVE  SubSeq(r, d + 1, n) = SubSeq(w, a + d, e)
    <2> DEFINE s == SubSeq(r, d + 1, n)
               t == SubSeq(w, a + d, e)
    <2>1. s \in Seq(S) /\ Len(s) = n - d /\ \A i \in 1 .. n - d : s[i] = r[d + i]
      BY <1>1, <1>2
    <2>2. t \in Seq(S) /\ Len(t) = n - d /\ \A i \in 1 .. n - d : t[i] = w[a + d + i - 1]
      <3> DEFINE b == a + d
      <3>1. b \in Nat \ {0} /\ b <= e + 1 /\ e - b + 1 = n - d
        OBVIOUS
      <3> HIDE DEF b
      <3>2. LET u == SubSeq(w, b, e)
            IN  u \in Seq(S) /\ Len(u) = n - d /\ \A i \in 1 .. n - d : u[i] = w[b + i - 1]
        BY <3>1
      <3> QED
        BY <3>2 DEF b
    <2> HIDE DEF s, t
    <2>3. ASSUME NEW i \in 1 .. n - d
          PROVE  s[i] = t[i]
      <3>1. d + i \in 1 .. n /\ a + (d + i) - 1 = a + d + i - 1
        BY <1>2
      <3>2. r[d + i] = w[a + (d + i) - 1]
        BY <1>1, <3>1
      <3> QED
        BY <2>1, <2>2, <3>1, <3>2
    <2>4. \A i \in 1 .. Len(s) : s[i] = t[i]
      BY <2>1, <2>3
    <2> QED
      BY <2>1, <2>2, <2>4, SeqEqual DEF s, t
  <1> QED
    BY <1>1, <1>3 DEF r

LEMMA FieldDataTyped ==
    ASSUME NEW f \in Fields
    PROVE  /\ FieldData(f) \in Seq(Byte) /\ Len(FieldData(f)) \in Nat \ {0}
           /\ FieldData(f)[1] = f.code
           /\ f.code \in {Pad, End} => Len(FieldData(f)) = 1
           /\ f.code \notin {Pad, End} =>
                 /\ Len(FieldData(f)) = 2 + Len(f.payload)
                 /\ FieldData(f)[2] = Len(f.payload)
                 /\ \A i \in 1 .. Len(f.payload) : FieldData(f)[2 + i] = f.payload[i]
  <1>1. /\ f.code \in Byte /\ f.payload \in Seq(Byte)
        /\ Len(f.payload) \in Byte /\ Len(f.payload) \in Nat
    <2>1. f.code \in Byte /\ f.payload \in Seq(Byte) /\ Len(f.payload) \in Byte
      BY FieldAssumption
    <2>2. Len(f.payload) \in Nat
      BY <2>1
    <2> QED
      BY <2>1, <2>2
  <1>2. CASE f.code \in {Pad, End}
    <2>1. FieldData(f) = <<f.code>>
      BY <1>2 DEF FieldData
    <2> QED
      BY <1>1, <1>2, <2>1
  <1>3. CASE f.code \notin {Pad, End}
    <2> DEFINE h == <<f.code, Len(f.payload)>>
               p == f.payload
    <2>1. h \in Seq(Byte) /\ Len(h) = 2 /\ h[1] = f.code /\ h[2] = Len(f.payload)
      BY <1>1
    <2>2. FieldData(f) = h \o p
      BY <1>3 DEF FieldData
    <2> HIDE DEF h
    <2>3. /\ h \o p \in Seq(Byte) /\ Len(h \o p) = 2 + Len(p)
          /\ \A i \in 1 .. 2 + Len(p) : (h \o p)[i] = IF i <= 2 THEN h[i] ELSE p[i - 2]
      <3>1. /\ h \o p \in Seq(Byte) /\ Len(h \o p) = Len(h) + Len(p)
            /\ \A i \in 1 .. Len(h) + Len(p) :
                  (h \o p)[i] = IF i <= Len(h) THEN h[i] ELSE p[i - Len(h)]
        BY <1>1, <2>1, ConcatProperties
      <3> QED
        BY <2>1, <3>1
    <2>4. \A i \in 1 .. Len(p) : (h \o p)[2 + i] = p[i]
      BY <1>1, <2>3
    <2>5. (h \o p)[1] = f.code /\ (h \o p)[2] = Len(p)
      BY <1>1, <2>1, <2>3
    <2> QED
      BY <1>1, <1>3, <2>2, <2>3, <2>4, <2>5
  <1> QED
    BY <1>2, <1>3

\* What the parser finds at the beginning of field k + 1
LEMMA AtFieldReads ==
    ASSUME TypeOK, WireKept, NEW k \in 0 .. Len(fields), AtField(k), rest # << >>
    PROVE  /\ k + 1 \in 1 .. Len(fields)
           /\ LET f == fields[k + 1]
                  next == starts[k + 2]
                  end == Len(wire) - cut
              IN  /\ f \in Fields /\ Head(rest) = f.code
                  /\ f.code \in {Pad, End} =>
                        next <= end + 1 /\ Tail(rest) = SubSeq(wire, next, end)
                  /\ f.code \notin {Pad, End} =>
                        /\ ~NoLength => Length = Len(f.payload)
                        /\ (~NoLength /\ Len(rest) >= 2 + Len(f.payload)) =>
                              /\ Payload = f.payload
                              /\ next <= end + 1 /\ AfterOption = SubSeq(wire, next, end)
                        /\ cut = 0 => ~NoLength /\ Len(rest) >= 2 + Len(f.payload)
  <1> DEFINE f == fields[k + 1]
             a == starts[k + 1]
             next == starts[k + 2]
             end == Len(wire) - cut
             data == FieldData(f)
  <1>1. /\ wire \in Seq(Byte) /\ Len(wire) \in Nat /\ cut \in 0 .. Len(wire)
        /\ fields \in Seq(Fields) /\ Len(fields) \in Nat
        /\ starts \in Seq(Nat \ {0}) /\ Len(starts) = Len(fields) + 1
    BY DEF TypeOK, WireKept
  <1>2. a \in Nat \ {0} /\ end \in 0 .. Len(wire) /\ a <= end + 1
        /\ rest = SubSeq(wire, a, end)
    BY <1>1 DEF AtField
  <1> HIDE DEF a, end
  <1>3. /\ rest \in Seq(Byte) /\ Len(rest) = end - a + 1
        /\ \A i \in 1 .. Len(rest) : rest[i] = wire[a + i - 1]
        /\ \A d \in 0 .. Len(rest) : SubSeq(rest, d + 1, Len(rest)) = SubSeq(wire, a + d, end)
    BY <1>1, <1>2, DropFirst
  <1>4. Len(rest) \in Nat \ {0}
    BY <1>3
  <1>5. k # Len(fields)
    <2> SUFFICES ASSUME k = Len(fields)
                 PROVE  FALSE
      OBVIOUS
    <2>1. a = Len(wire) + 1
      BY DEF WireKept, a
    <2>2. Len(rest) = end - a + 1
      BY <1>3
    <2> QED
      BY <1>1, <1>2, <1>4, <2>1, <2>2
  <1>6. k + 1 \in 1 .. Len(fields) /\ f \in Fields /\ k + 1 + 1 = k + 2
    BY <1>1, <1>5
  <1>7. next = a + Len(data) /\ next <= Len(wire) + 1
        /\ \A i \in 1 .. Len(data) : wire[a + i - 1] = data[i]
    BY <1>6 DEF WireKept, a
  <1>8. /\ data \in Seq(Byte) /\ Len(data) \in Nat \ {0} /\ data[1] = f.code
        /\ f.code \in {Pad, End} => Len(data) = 1
        /\ f.code \notin {Pad, End} =>
              /\ Len(data) = 2 + Len(f.payload) /\ data[2] = Len(f.payload)
              /\ \A i \in 1 .. Len(f.payload) : data[2 + i] = f.payload[i]
        /\ f.payload \in Seq(Byte) /\ Len(f.payload) \in Nat
    <2>1. f \in Fields
      BY <1>6
    <2>2. f.payload \in Seq(Byte)
      BY <2>1, FieldAssumption
    <2>3. Len(f.payload) \in Nat
      BY <2>2
    <2> HIDE DEF f
    <2> QED
      BY <2>1, <2>2, <2>3, FieldDataTyped
  <1> HIDE DEF next, data, f
  <1>9. ASSUME NEW i \in 1 .. Len(rest), i <= Len(data)
        PROVE  rest[i] = data[i]
    <2>1. i \in 1 .. Len(data)
      BY <1>4, <1>8, <1>9
    <2> QED
      BY <1>3, <1>7, <2>1
  <1>10. Head(rest) = f.code
    <2>1. Head(rest) = rest[1]
      BY <1>3, <1>4
    <2>2. 1 \in 1 .. Len(rest) /\ 1 <= Len(data)
      BY <1>4, <1>8
    <2> QED
      BY <1>8, <1>9, <2>1, <2>2
  <1>11. ASSUME f.code \in {Pad, End}
         PROVE  next <= end + 1 /\ Tail(rest) = SubSeq(wire, next, end)
    <2>1. next = a + 1
      BY <1>7, <1>8, <1>11
    <2>2. Len(rest) = end - a + 1
      BY <1>3
    <2>3. next <= end + 1
      BY <1>2, <1>4, <2>1, <2>2
    <2>4. SubSeq(rest, 1 + 1, Len(rest)) = SubSeq(wire, a + 1, end)
      <3>1. 1 \in 0 .. Len(rest)
        BY <1>4
      <3> QED
        BY <1>3, <3>1
    <2>5. Tail(rest) = SubSeq(rest, 2, Len(rest))
      BY <1>3, <1>4, TailIsSubSeq
    <2>6. Tail(rest) = SubSeq(wire, a + 1, end)
      <3>1. 1 + 1 = 2
        OBVIOUS
      <3> QED
        BY <2>4, <2>5, <3>1
    <2> QED
      BY <2>1, <2>3, <2>6
  <1>12. ASSUME f.code \notin {Pad, End}, ~NoLength
         PROVE  Length = Len(f.payload)
    <2>1. 2 \in 1 .. Len(rest) /\ 2 <= Len(data)
      <3>1. Len(rest) # 1
        BY <1>12 DEF NoLength
      <3>2. 2 <= Len(data)
        <4> DEFINE n == Len(f.payload)
        <4>1. Len(data) = 2 + n /\ n \in Nat
          BY <1>8, <1>12
        <4> HIDE DEF n
        <4> QED
          BY <4>1
      <3>3. 2 \in 1 .. Len(rest)
        <4> DEFINE m == Len(rest)
        <4>1. m \in Nat \ {0} /\ m # 1
          BY <1>4, <3>1
        <4> HIDE DEF m
        <4>2. 2 \in 1 .. m
          BY <4>1
        <4> QED
          BY <4>2 DEF m
      <3> QED
        BY <3>2, <3>3
    <2>2. rest[2] = data[2]
      BY <1>9, <2>1
    <2> QED
      BY <1>8, <1>12, <2>2 DEF Length
  <1>13. ASSUME f.code \notin {Pad, End}, ~NoLength, Len(rest) >= 2 + Len(f.payload)
         PROVE  /\ Payload = f.payload
                /\ next <= end + 1 /\ AfterOption = SubSeq(wire, next, end)
    <2> DEFINE n == Len(f.payload)
    <2>1. Length = n /\ n \in Nat /\ Len(rest) >= 2 + n /\ Len(data) = 2 + n
      BY <1>8, <1>12, <1>13
    <2>2. f.payload \in Seq(Byte) /\ \A i \in 1 .. n : data[2 + i] = f.payload[i]
      BY <1>8, <1>13
    <2>3. Len(f.payload) = n /\ Len(rest) = end - a + 1
      BY <1>3
    <2> HIDE DEF n
    <2>4. next = a + (2 + n) /\ next <= end + 1
      BY <1>2, <1>4, <1>7, <2>1, <2>3
    <2>5. SubSeq(rest, (2 + n) + 1, Len(rest)) = SubSeq(wire, a + (2 + n), end)
      <3>1. 2 + n \in 0 .. Len(rest)
        BY <1>4, <2>1
      <3> QED
        BY <1>3, <3>1
    <2>6. AfterOption = SubSeq(wire, next, end)
      <3>1. (2 + n) + 1 = 3 + n
        BY <2>1
      <3> QED
        BY <2>1, <2>4, <2>5, <3>1 DEF AfterOption
    <2>7. Payload = f.payload
      <3> DEFINE s == SubSeq(rest, 3, 2 + n)
      <3>1. s \in Seq(Byte) /\ Len(s) = n /\ \A i \in 1 .. n : s[i] = rest[2 + i]
        BY <1>3, <2>1
      <3> HIDE DEF s
      <3>2. ASSUME NEW i \in 1 .. n
            PROVE  s[i] = f.payload[i]
        <4>1. 2 + i \in 1 .. Len(rest) /\ 2 + i <= Len(data)
          BY <1>4, <2>1
        <4>2. rest[2 + i] = data[2 + i]
          BY <1>9, <4>1
        <4> QED
          BY <2>2, <3>1, <4>2
      <3>3. s = f.payload
        BY <2>2, <2>3, <3>1, <3>2, SeqEqual
      <3> QED
        BY <2>1, <3>3 DEF Payload, s
    <2> QED
      BY <2>4, <2>6, <2>7
  <1>14. ASSUME f.code \notin {Pad, End}, cut = 0
         PROVE  ~NoLength /\ Len(rest) >= 2 + Len(f.payload)
    <2>1. end = Len(wire)
      BY <1>1, <1>14 DEF end
    <2>2. next = a + (2 + Len(f.payload))
      BY <1>7, <1>8, <1>14
    <2>3. Len(rest) = end - a + 1 /\ next <= Len(wire) + 1
      BY <1>3, <1>7
    <2> DEFINE n == Len(f.payload)
               m == Len(rest)
    <2>4. n \in Nat
      BY <1>8
    <2>5. m >= 2 + n /\ m # 1
      <3>1. m = end - a + 1 /\ next = a + (2 + n) /\ next <= end + 1
        BY <2>1, <2>2, <2>3
      <3> HIDE DEF n, m
      <3> QED
        BY <1>2, <2>4, <3>1
    <2> QED
      BY <2>5 DEF NoLength
  <1> QED
    BY <1>6, <1>10, <1>11, <1>12, <1>13, <1>14 DEF f, next, end

-----------------------------------------------------------------------------
(* The answers *)

\* A payload of one element is read as one value, and is not refused.
LEMMA OneValueRead ==
    ASSUME NEW code \in Codes, ~InOnePiece(code), NEW payload \in Seq(Byte),
           Len(payload) = FixedLength(code)
    PROVE  /\ Elements(code, payload) = <<payload>>
           /\ ~Refused(code, Len(payload)) /\ ~Misaligned(code, Len(payload))
  <1> DEFINE n == FixedLength(code)
  <1>1. n \in {1, 2, 4, 8} /\ Len(payload) = n
    BY ElementSizes
  <1>2. payload # << >> /\ Len(payload) \div n = 1 /\ n % n = 0
    <2>1. n \div n = 1 /\ n % n = 0
      <3> HIDE DEF n
      <3>1. CASE n = 1
        BY <3>1
      <3>2. CASE n = 2
        BY <3>2
      <3>3. CASE n = 4
        BY <3>3
      <3>4. CASE n = 8
        BY <3>4
      <3> QED
        BY <1>1, <3>1, <3>2, <3>3, <3>4
    <2>2. payload # << >>
      <3>1. Len(<< >>) = 0
        OBVIOUS
      <3> QED
        BY <1>1, <3>1
    <2> QED
      BY <1>1, <2>1, <2>2
  <1>3. Elements(code, payload) =
            [i \in 1 .. 1 |-> SubSeq(payload, (i - 1) * n + 1, i * n)]
    BY <1>2 DEF Elements
  <1> HIDE DEF n
  <1>4. SubSeq(payload, (1 - 1) * n + 1, 1 * n) = payload
    <2>1. (1 - 1) * n + 1 = 1 /\ 1 * n = Len(payload)
      BY <1>1
    <2>2. SubSeq(payload, 1, Len(payload)) = payload
      BY SubSeqFull
    <2> QED
      BY <2>1, <2>2
  <1>5. Elements(code, payload) = [i \in 1 .. 1 |-> payload]
    BY <1>3, <1>4
  <1>6. [i \in 1 .. 1 |-> payload] = <<payload>>
    OBVIOUS
  <1> QED
    BY <1>1, <1>2, <1>5, <1>6 DEF Refused, Misaligned, n

\* Such an option is sent as its code, its length and the bytes of its value.
LEMMA OneValueSent ==
    ASSUME NEW code \in Codes, ~InOnePiece(code), NEW payload \in Seq(Byte),
           Len(payload) = FixedLength(code), FixedLength(code) \in {1, 4},
           NetworkData(code, payload) \in Seq(Byte),
           Len(NetworkData(code, payload)) = Len(payload)
    PROVE  OptionData(Made(code, payload)) =
               <<code, Len(payload)>> \o NetworkData(code, payload)
  <1> DEFINE o == Made(code, payload)
             n == Len(payload)
             sent == NetworkData(code, payload)
  <1>1. o.code = code /\ o.length = n /\ o.values = <<payload>>
    BY OneValueRead DEF Made, Option
  <1>2. n \in {1, 4} /\ n = FixedLength(code)
    OBVIOUS
  <1>3. Len(o.values) = 1 /\ o.values[1] = payload /\ o.values # << >>
    BY <1>1
  <1> HIDE DEF o
  <1>4. ValuesData(o) =
            [i \in 1 .. n * 1 |->
                NetworkData(code, o.values[((i - 1) \div n) + 1])[((i - 1) % n) + 1]]
    BY <1>1, <1>3 DEF ValuesData
  <1> HIDE DEF n, sent
  <1>5. n * 1 = n /\ \A i \in 1 .. n : (i - 1) \div n = 0 /\ (i - 1) % n = i - 1
    <2>1. CASE n = 1
      BY <2>1
    <2>2. CASE n = 4
      BY <2>2
    <2> QED
      BY <1>2, <2>1, <2>2
  <1>6. ValuesData(o) = [i \in 1 .. n |-> sent[i]]
    <2>1. ASSUME NEW i \in 1 .. n
          PROVE  NetworkData(code, o.values[((i - 1) \div n) + 1])[((i - 1) % n) + 1] = sent[i]
      <3>1. ((i - 1) \div n) + 1 = 1 /\ ((i - 1) % n) + 1 = i
        <4> DEFINE q == (i - 1) \div n
                   m == (i - 1) % n
        <4>1. q = 0 /\ m = i - 1 /\ i \in Int
          BY <1>2, <1>5
        <4> HIDE DEF q, m
        <4>2. q + 1 = 1 /\ m + 1 = i
          BY <4>1
        <4> QED
          BY <4>2 DEF q, m
      <3> QED
        BY <1>3, <3>1 DEF sent
    <2> QED
      BY <1>4, <1>5, <2>1
  <1>7. [i \in 1 .. n |-> sent[i]] = sent
    BY DEF n, sent
  <1> QED
    BY <1>1, <1>2, <1>6, <1>7 DEF OptionData, o, n, sent

\* However the host orders the lease time's bytes, four are sent.
LEMMA LeaseTimeSent ==
    NetworkData(51, LeaseTime) \in Seq(Byte) /\ Len(NetworkData(51, LeaseTime)) = 4
  <1>1. LeaseTime \in Seq(Byte) /\ Len(LeaseTime) = 4
    BY DEF LeaseTime, Byte
  <1>2. Reverse(LeaseTime) \in Seq(Byte) /\ Len(Reverse(LeaseTime)) = 4
    <2>1. ASSUME NEW k \in 1 .. 4
          PROVE  LeaseTime[(4 - k) + 1] \in Byte
      <3> DEFINE l == (4 - k) + 1
      <3>1. l \in 1 .. 4
        OBVIOUS
      <3> HIDE DEF l
      <3>2. LeaseTime[l] \in Byte
        BY <1>1, <3>1, ElementOfSeq
      <3> QED
        BY <3>2 DEF l
    <2>2. Reverse(LeaseTime) = [k \in 1 .. 4 |-> LeaseTime[(4 - k) + 1]]
      BY <1>1 DEF Reverse
    <2> QED
      BY <2>1, <2>2
  <1> QED
    BY <1>1, <1>2 DEF NetworkData

\* The options of an answer
LEMMA AnswerOptions ==
    ASSUME NEW type \in {OFFER, ACK}, NEW i \in 1 .. 4
    PROVE  LET code == AnswerCode(i)
               payload == AnswerPayload(type, i)
           IN  /\ code \in {1, 3, 51, 53} /\ code \in Codes /\ ~InOnePiece(code)
               /\ payload \in Seq(Byte) /\ Len(payload) = FixedLength(code)
               /\ Len(payload) \in {1, 4}
               /\ ~Forbidden(code, payload)
  <1> USE DEF AnswerCode, AnswerPayload, OFFER, ACK, Byte
  <1>1. CASE i = 1
    <2>1. <<type>> \in Seq(Byte) /\ Len(<<type>>) = 1 /\ ValueOf(<<type>>) = type
      BY DEF ValueOf
    <2>2. ~Forbidden(53, <<type>>)
      <3>1. Allowed[53] = 1 .. 8 /\ DOMAIN MinByteArray = {55, 61}
        BY DEF Allowed, Constrained, MinByteArray
      <3>2. type \in 1 .. 8
        OBVIOUS
      <3> QED
        BY <2>1, <3>1, <3>2 DEF Forbidden
    <2> QED
      BY <1>1, <2>1, <2>2, AnswerTypes, AnswerSizes
  <1>2. \A payload : ~Forbidden(1, payload) /\ ~Forbidden(3, payload) /\ ~Forbidden(51, payload)
    <2>1. DOMAIN Allowed = Constrained /\ DOMAIN MinByteArray = {55, 61}
      BY DEF Allowed, MinByteArray
    <2>2. \A code \in {1, 3, 51} : code \notin DOMAIN Allowed /\ code \notin DOMAIN MinByteArray
      BY <2>1 DEF Constrained
    <2> QED
      BY <2>2 DEF Forbidden
  <1>3. CASE i = 2
    BY <1>2, <1>3, AnswerTypes, AnswerSizes
  <1>4. CASE i = 3
    BY <1>2, <1>4, AnswerTypes, AnswerSizes
  <1>5. CASE i = 4
    <2>3. NetworkData(51, LeaseTime) \in Seq(Byte) /\ Len(NetworkData(51, LeaseTime)) = 4
      BY LeaseTimeSent
    <2>4. AnswerCode(i) = 51 /\ AnswerPayload(type, i) = NetworkData(51, LeaseTime)
      BY <1>5
    <2>5. 51 \in {1, 3, 51, 53} /\ 51 \in Codes /\ ~InOnePiece(51) /\ FixedLength(51) = 4
      BY AnswerTypes, AnswerSizes
    <2> DEFINE sent == NetworkData(51, LeaseTime)
    <2> HIDE DEF AnswerCode, AnswerPayload, sent
    <2>6. ~Forbidden(51, sent)
      BY <1>2
    <2>7. sent \in Seq(Byte) /\ Len(sent) = 4 /\ AnswerPayload(type, i) = sent
      BY <2>3, <2>4 DEF sent
    <2> QED
      BY <2>4, <2>5, <2>6, <2>7
  <1> QED
    BY <1>1, <1>3, <1>4, <1>5

\* What Reply sends for each option of its answer
LEMMA AnswerSent ==
    ASSUME NEW type \in {OFFER, ACK}
    PROVE  /\ OptionData(Answer(type)[1]) = AnswerData(type, 1)
           /\ OptionData(Answer(type)[2]) = AnswerData(type, 2)
           /\ OptionData(Answer(type)[3]) = AnswerData(type, 3)
           /\ OptionData(Answer(type)[4]) = AnswerData(type, 4)
  <1>0. /\ {1, 3, 51, 53} \subseteq Codes /\ \A code \in {1, 3, 51, 53} : ~InOnePiece(code)
        /\ FixedLength(53) = 1 /\ FixedLength(1) = 4 /\ FixedLength(3) = 4 /\ FixedLength(51) = 4
    BY AnswerTypes, AnswerSizes
  <1>1. OptionData(Answer(type)[1]) = AnswerData(type, 1)
    <2>1. <<type>> \in Seq(Byte) /\ Len(<<type>>) = 1
      BY DEF Byte, OFFER, ACK
    <2>2. NetworkData(53, <<type>>) = <<type>>
      BY AnswerTypes DEF NetworkData
    <2>3. OptionData(Made(53, <<type>>)) = <<53, 1>> \o <<type>>
      BY <1>0, <2>1, <2>2, OneValueSent
    <2> QED
      BY <2>1, <2>3 DEF Answer, AnswerData, AnswerCode, AnswerPayload
  <1>2. OptionData(Answer(type)[2]) = AnswerData(type, 2)
    <2> DEFINE p == <<255, 255, 255, 0>>
    <2>1. p \in Seq(Byte) /\ Len(p) = 4
      BY DEF Byte
    <2> HIDE DEF p
    <2>2. NetworkData(1, p) = p
      BY AnswerTypes DEF NetworkData
    <2>3. OptionData(Made(1, p)) = <<1, 4>> \o p
      BY <1>0, <2>1, <2>2, OneValueSent
    <2> QED
      BY <2>1, <2>3 DEF Answer, AnswerData, AnswerCode, AnswerPayload, p
  <1>3. OptionData(Answer(type)[3]) = AnswerData(type, 3)
    <2> DEFINE p == <<172, 18, 1, 1>>
    <2>1. p \in Seq(Byte) /\ Len(p) = 4
      BY DEF Byte
    <2> HIDE DEF p
    <2>2. NetworkData(3, p) = p
      BY AnswerTypes DEF NetworkData
    <2>3. OptionData(Made(3, p)) = <<3, 4>> \o p
      BY <1>0, <2>1, <2>2, OneValueSent
    <2> QED
      BY <2>1, <2>3 DEF Answer, AnswerData, AnswerCode, AnswerPayload, p
  <1>4. OptionData(Answer(type)[4]) = AnswerData(type, 4)
    <2>1. LeaseTime \in Seq(Byte) /\ Len(LeaseTime) = 4
      BY DEF LeaseTime, Byte
    <2>2. NetworkData(51, LeaseTime) \in Seq(Byte) /\ Len(NetworkData(51, LeaseTime)) = 4
      BY LeaseTimeSent
    <2>3. OptionData(Made(51, LeaseTime)) = <<51, 4>> \o NetworkData(51, LeaseTime)
      <3>1. 51 \in Codes /\ ~InOnePiece(51) /\ FixedLength(51) = 4
        BY <1>0
      <3> DEFINE p == LeaseTime
      <3>2. p \in Seq(Byte) /\ Len(p) = 4
        BY <2>1
      <3>3. NetworkData(51, p) \in Seq(Byte) /\ Len(NetworkData(51, p)) = 4
        BY <2>2
      <3> HIDE DEF p
      <3>4. OptionData(Made(51, p)) = <<51, Len(p)>> \o NetworkData(51, p)
        BY <3>1, <3>2, <3>3, OneValueSent
      <3> QED
        BY <3>2, <3>4 DEF p
    <2>4. AnswerCode(4) = 51 /\ AnswerPayload(type, 4) = NetworkData(51, LeaseTime)
      BY DEF AnswerCode, AnswerPayload
    <2>5. Answer(type)[4] = Made(51, LeaseTime)
      BY DEF Answer
    <2>6. AnswerData(type, 4) = <<51, 4>> \o NetworkData(51, LeaseTime)
      BY <2>2, <2>4 DEF AnswerData
    <2> QED
      BY <2>3, <2>5, <2>6
  <1> QED
    BY <1>1, <1>2, <1>3, <1>4

\* The parser before an option that is wholly there
LEMMA OptionAhead ==
    ASSUME NEW code \in Byte, NEW payload \in Seq(Byte), Len(payload) \in Byte,
           NEW more \in Seq(Byte),
           rest = (<<code, Len(payload)>> \o payload) \o more
    PROVE  /\ rest # << >> /\ Head(rest) = code /\ ~NoLength /\ Length = Len(payload)
           /\ Len(rest) >= 2 + Len(payload)
           /\ Payload = payload /\ AfterOption = more
  <1> DEFINE n == Len(payload)
             m == Len(more)
             h == <<code, n>>
             d == h \o payload
  <1>1. n \in Nat /\ m \in Nat
    OBVIOUS
  <1>2. h \in Seq(Byte) /\ Len(h) = 2 /\ h[1] = code /\ h[2] = n
    <2>1. n \in Byte
      OBVIOUS
    <2> HIDE DEF n
    <2> QED
      BY <2>1
  <1>3. payload \in Seq(Byte) /\ more \in Seq(Byte) /\ Len(payload) = n /\ Len(more) = m
    OBVIOUS
  <1> HIDE DEF h
  <1>4. /\ d \in Seq(Byte) /\ Len(d) = 2 + n
        /\ d[1] = code /\ d[2] = n
        /\ \A i \in 1 .. n : d[2 + i] = payload[i]
    <2>1. /\ d \in Seq(Byte) /\ Len(d) = Len(h) + n
          /\ \A i \in 1 .. Len(h) + n : d[i] = IF i <= Len(h) THEN h[i] ELSE payload[i - Len(h)]
      BY <1>2, <1>3, ConcatProperties
    <2>2. \A i \in 1 .. 2 + n : d[i] = IF i <= 2 THEN h[i] ELSE payload[i - 2]
      BY <1>2, <2>1
    <2> HIDE DEF n, d
    <2>3. ASSUME NEW i \in 1 .. n
          PROVE  d[2 + i] = payload[i]
      <3>1. 2 + i \in 1 .. 2 + n /\ ~(2 + i <= 2) /\ (2 + i) - 2 = i
        BY <1>1
      <3> QED
        BY <2>2, <3>1
    <2> QED
      BY <1>1, <1>2, <2>1, <2>2, <2>3
  <1>5. rest = d \o more
    BY DEF h
  <1> HIDE DEF d, n, m
  <1>6. /\ rest \in Seq(Byte) /\ Len(rest) = (2 + n) + m
        /\ \A i \in 1 .. 2 + n : rest[i] = d[i]
        /\ \A i \in 1 .. m : rest[(2 + n) + i] = more[i]
    <2>1. /\ rest \in Seq(Byte) /\ Len(rest) = Len(d) + m
          /\ \A i \in 1 .. Len(d) + m : rest[i] = IF i <= Len(d) THEN d[i] ELSE more[i - Len(d)]
      <3>1. d \in Seq(Byte) /\ more \in Seq(Byte) /\ Len(more) = m
        BY <1>3, <1>4
      <3> QED
        BY <1>5, <3>1, ConcatProperties
    <2>2. \A i \in 1 .. (2 + n) + m : rest[i] = IF i <= 2 + n THEN d[i] ELSE more[i - (2 + n)]
      BY <1>4, <2>1
    <2>3. ASSUME NEW i \in 1 .. m
          PROVE  rest[(2 + n) + i] = more[i]
      <3>1. /\ (2 + n) + i \in 1 .. (2 + n) + m /\ ~((2 + n) + i <= 2 + n)
            /\ ((2 + n) + i) - (2 + n) = i
        BY <1>1
      <3> QED
        BY <2>2, <3>1
    <2>4. ASSUME NEW i \in 1 .. 2 + n
          PROVE  rest[i] = d[i]
      <3>1. i \in 1 .. (2 + n) + m /\ i <= 2 + n
        BY <1>1
      <3> QED
        BY <2>2, <3>1
    <2> QED
      BY <1>4, <2>1, <2>3, <2>4
  <1>7. Len(rest) >= 2 + n /\ Len(rest) # 1 /\ Len(rest) \in Nat \ {0}
    BY <1>1, <1>6
  <1>8. rest # << >> /\ Head(rest) = code
    <2>1. rest # << >>
      <3>1. Len(<< >>) = 0
        OBVIOUS
      <3> QED
        BY <1>7, <3>1
    <2>2. Head(rest) = rest[1]
      BY <1>6, <2>1
    <2>3. rest[1] = d[1]
      BY <1>1, <1>6
    <2> QED
      BY <1>4, <2>1, <2>2, <2>3
  <1>9. ~NoLength /\ Length = n
    <2>1. rest[2] = d[2]
      BY <1>1, <1>6
    <2> QED
      BY <1>4, <1>7, <2>1 DEF NoLength, Length
  <1>10. Payload = payload
    <2> DEFINE s == SubSeq(rest, 3, 2 + n)
    <2>1. s \in Seq(Byte) /\ Len(s) = n /\ \A i \in 1 .. n : s[i] = rest[2 + i]
      <3>1. rest \in Seq(Byte)
        BY <1>6
      <3>2. 2 + n \in Nat /\ 2 + n <= Len(rest) /\ 3 <= (2 + n) + 1 /\ (2 + n) - 3 + 1 = n
        BY <1>1, <1>7
      <3>3. /\ s \in Seq(Byte) /\ Len(s) = n /\ \A i \in 1 .. n : s[i] = rest[3 + i - 1]
        <4> DEFINE e == 2 + n
        <4>1. 3 \in Nat \ {0} /\ e \in Nat /\ e <= Len(rest) /\ 3 <= e + 1 /\ e - 3 + 1 = n
          BY <3>2
        <4> HIDE DEF e
        <4>2. LET u == SubSeq(rest, 3, e)
              IN  u \in Seq(Byte) /\ Len(u) = n /\ \A i \in 1 .. n : u[i] = rest[3 + i - 1]
          BY <3>1, <4>1, DropFirst
        <4> QED
          BY <4>2 DEF e
      <3>4. \A i \in 1 .. n : 3 + i - 1 = 2 + i
        BY <1>1
      <3> QED
        BY <3>3, <3>4
    <2> HIDE DEF s
    <2>2. ASSUME NEW i \in 1 .. n
          PROVE  s[i] = payload[i]
      <3>1. 2 + i \in 1 .. 2 + n
        BY <1>1
      <3> QED
        BY <1>4, <1>6, <2>1, <3>1
    <2>3. s = payload
      BY <1>3, <2>1, <2>2, SeqEqual DEF n
    <2> QED
      BY <1>9, <2>3 DEF Payload, s
  <1>11. AfterOption = more
    <2> DEFINE e == Len(rest)
               s == SubSeq(rest, 3 + n, e)
    <2>1. e = (2 + n) + m
      BY <1>6
    <2>2. s \in Seq(Byte) /\ Len(s) = m /\ \A i \in 1 .. m : s[i] = rest[(3 + n) + i - 1]
      <3> DEFINE b == 3 + n
                 u == SubSeq(rest, b, e)
      <3>1. rest \in Seq(Byte) /\ Len(rest) = e
        BY <1>6
      <3> HIDE DEF e
      <3>2. e \in Nat /\ b \in Nat \ {0} /\ b <= e + 1 /\ e - b + 1 = m
        BY <1>1, <2>1
      <3> HIDE DEF b
      <3>3. u \in Seq(Byte) /\ Len(u) = m /\ \A i \in 1 .. m : u[i] = rest[b + i - 1]
        BY <3>1, <3>2
      <3> QED
        BY <3>3 DEF b
    <2> HIDE DEF s
    <2>3. ASSUME NEW i \in 1 .. m
          PROVE  s[i] = more[i]
      <3>1. (3 + n) + i - 1 = (2 + n) + i
        BY <1>1
      <3> QED
        BY <1>6, <2>2, <3>1
    <2>4. s = more
      BY <1>3, <2>2, <2>3, SeqEqual DEF m
    <2> QED
      BY <1>9, <2>4 DEF AfterOption, s
  <1> QED
    BY <1>7, <1>8, <1>9, <1>10, <1>11 DEF n

\* The options of the answer, one behind the other, are the answer.
LEMMA AnswerAssembled ==
    ASSUME NEW type \in {OFFER, ACK}
    PROVE  /\ LET data(i) == OptionData(Answer(type)[i])
              IN  data(1) \o data(2) \o data(3) \o data(4) \o <<End>> = AnswerFrom(type, 1)
           /\ \A i \in 1 .. 4 :
                 /\ AnswerData(type, i) \in Seq(Byte) /\ AnswerFrom(type, i + 1) \in Seq(Byte)
                 /\ AnswerFrom(type, i) = AnswerData(type, i) \o AnswerFrom(type, i + 1)
           /\ AnswerFrom(type, 1) \in Seq(Byte)
  <1>1. ASSUME NEW i \in 1 .. 4
        PROVE  AnswerData(type, i) \in Seq(Byte)
    <2> DEFINE code == AnswerCode(i)
               payload == AnswerPayload(type, i)
    <2>1. code \in {1, 3, 51, 53} /\ payload \in Seq(Byte) /\ Len(payload) \in {1, 4}
      BY AnswerOptions
    <2> HIDE DEF code, payload
    <2>2. <<code, Len(payload)>> \in Seq(Byte)
      BY <2>1 DEF Byte
    <2>3. <<code, Len(payload)>> \o payload \in Seq(Byte)
      BY <2>1, <2>2, ConcatProperties
    <2> QED
      BY <2>3 DEF AnswerData, code, payload
  <1> DEFINE a == AnswerData(type, 1)
             b == AnswerData(type, 2)
             c == AnswerData(type, 3)
             d == AnswerData(type, 4)
             e == <<End>>
  <1>2. /\ a \in Seq(Byte) /\ b \in Seq(Byte) /\ c \in Seq(Byte) /\ d \in Seq(Byte)
        /\ e \in Seq(Byte)
    BY <1>1 DEF End, Byte
  <1>3. /\ AnswerFrom(type, 5) = e /\ AnswerFrom(type, 4) = d \o e
        /\ AnswerFrom(type, 3) = c \o (d \o e)
        /\ AnswerFrom(type, 2) = b \o (c \o (d \o e))
        /\ AnswerFrom(type, 1) = a \o (b \o (c \o (d \o e)))
    BY DEF AnswerFrom
  <1> HIDE DEF a, b, c, d, e
  <1>4. /\ d \o e \in Seq(Byte) /\ c \o (d \o e) \in Seq(Byte)
        /\ b \o (c \o (d \o e)) \in Seq(Byte) /\ a \o (b \o (c \o (d \o e))) \in Seq(Byte)
        /\ a \o b \o c \o d \o e = a \o (b \o (c \o (d \o e)))
    <2>1. \A x, y, z \in Seq(Byte) : (x \o y) \o z = x \o (y \o z)
      <3> TAKE x, y, z \in Seq(Byte)
      <3> QED
        BY ConcatAssociative
    <2>2. \A x, y \in Seq(Byte) : x \o y \in Seq(Byte)
      BY ConcatProperties
    <2>3. d \o e \in Seq(Byte) /\ a \o b \in Seq(Byte)
      BY <1>2, <2>2, Zenon
    <2>4. c \o (d \o e) \in Seq(Byte) /\ (a \o b) \o c \in Seq(Byte)
      BY <1>2, <2>2, <2>3, Zenon
    <2>5. b \o (c \o (d \o e)) \in Seq(Byte)
      BY <1>2, <2>2, <2>4, Zenon
    <2>6. a \o (b \o (c \o (d \o e))) \in Seq(Byte)
      BY <1>2, <2>2, <2>5, Zenon
    <2>7. a \o (b \o (c \o (d \o e))) = (a \o b) \o (c \o (d \o e))
      <3> DEFINE z == c \o (d \o e)
      <3>1. a \in Seq(Byte) /\ b \in Seq(Byte) /\ z \in Seq(Byte)
        BY <1>2, <2>4
      <3> HIDE DEF z
      <3>2. (a \o b) \o z = a \o (b \o z)
        BY <2>1, <3>1, Zenon
      <3> QED
        BY <3>2 DEF z
    <2>8. (a \o b) \o (c \o (d \o e)) = ((a \o b) \o c) \o (d \o e)
      <3> DEFINE x == a \o b
                 z == d \o e
      <3>1. x \in Seq(Byte) /\ c \in Seq(Byte) /\ z \in Seq(Byte)
        BY <1>2, <2>3
      <3> HIDE DEF x, z
      <3>2. (x \o c) \o z = x \o (c \o z)
        BY <2>1, <3>1, Zenon
      <3> QED
        BY <3>2 DEF x, z
    <2>9. ((a \o b) \o c) \o (d \o e) = (((a \o b) \o c) \o d) \o e
      <3> DEFINE x == (a \o b) \o c
      <3>1. x \in Seq(Byte) /\ d \in Seq(Byte) /\ e \in Seq(Byte)
        BY <1>2, <2>4
      <3> HIDE DEF x
      <3>2. (x \o d) \o e = x \o (d \o e)
        BY <2>1, <3>1, Zenon
      <3> QED
        BY <3>2 DEF x
    <2> QED
      BY <2>3, <2>4, <2>5, <2>6, <2>7, <2>8, <2>9, Zenon
  <1>6. LET data(i) == OptionData(Answer(type)[i])
        IN  data(1) \o data(2) \o data(3) \o data(4) \o <<End>> = AnswerFrom(type, 1)
    BY <1>3, <1>4, AnswerSent DEF a, b, c, d, e
  <1>7. ASSUME NEW i \in 1 .. 4
        PROVE  /\ AnswerFrom(type, i + 1) \in Seq(Byte)
               /\ AnswerFrom(type, i) = AnswerData(type, i) \o AnswerFrom(type, i + 1)
    <2>1. CASE i = 1
      <3>1. i + 1 = 2
        BY <2>1
      <3> QED
        BY <1>2, <1>3, <1>4, <2>1, <3>1, Zenon DEF a
    <2>2. CASE i = 2
      <3>1. i + 1 = 3
        BY <2>2
      <3> QED
        BY <1>2, <1>3, <1>4, <2>2, <3>1, Zenon DEF b
    <2>3. CASE i = 3
      <3>1. i + 1 = 4
        BY <2>3
      <3> QED
        BY <1>2, <1>3, <1>4, <2>3, <3>1, Zenon DEF c
    <2>4. CASE i = 4
      <3>1. i + 1 = 5
        BY <2>4
      <3> QED
        BY <1>2, <1>3, <1>4, <2>4, <3>1, Zenon DEF d
    <2> QED
      BY <2>1, <2>2, <2>3, <2>4
  <1> QED
    BY <1>1, <1>3, <1>4, <1>6, <1>7

\* The client before the i-th option of the answer, or before the end option
LEMMA ClientReads ==
    ASSUME NEW type \in {OFFER, ACK}, NEW i \in 1 .. 5, AnswerRead(type, i)
    PROVE  /\ i = 5 => rest # << >> /\ Head(rest) = End
           /\ i # 5 =>
                 /\ rest # << >> /\ Head(rest) \notin {Pad, End} /\ ~NoLength
                 /\ ~Refused(Code, Length) /\ ~Overruns /\ ~Forbidden(Code, Payload)
                 /\ Option(Code, Length, Elements(Code, Payload)) = Arrived(type, i)
                 /\ AfterOption = AnswerFrom(type, i + 1)
  <1>1. CASE i = 5
    BY <1>1 DEF AnswerRead, AnswerFrom
  <1>2. CASE i # 5
    <2> DEFINE code == AnswerCode(i)
               payload == AnswerPayload(type, i)
               more == AnswerFrom(type, i + 1)
    <2>1. i \in 1 .. 4
      BY <1>2
    <2>2. /\ code \in {1, 3, 51, 53} /\ code \in Codes /\ ~InOnePiece(code)
          /\ payload \in Seq(Byte) /\ Len(payload) = FixedLength(code)
          /\ Len(payload) \in {1, 4} /\ ~Forbidden(code, payload)
      BY <2>1, AnswerOptions
    <2>3. more \in Seq(Byte) /\ rest = (<<code, Len(payload)>> \o payload) \o more
      BY <2>1, AnswerAssembled DEF AnswerRead, AnswerData
    <2>4. Arrived(type, i) = Option(code, Len(payload), Elements(code, payload))
      BY DEF Arrived, Made
    <2> HIDE DEF code, payload, more
    <2>5. code \in Byte /\ Len(payload) \in Byte /\ code \notin {Pad, End}
      BY <2>2 DEF Byte, Pad, End
    <2>6. /\ rest # << >> /\ Head(rest) = code /\ ~NoLength /\ Length = Len(payload)
          /\ Len(rest) >= 2 + Len(payload)
          /\ Payload = payload /\ AfterOption = more
      <3>1. payload \in Seq(Byte)
        BY <2>2
      <3> QED
        BY <2>3, <2>5, <3>1, OptionAhead
    <2>7. ~Refused(code, Len(payload)) /\ ~Misaligned(code, Len(payload))
      BY <2>2, OneValueRead
    <2>8. ~(Len(rest) < 2 + Length)
      <3>1. Len(payload) \in Nat /\ Len(rest) \in Nat
        BY <2>2, <2>6
      <3> QED
        BY <2>6, <3>1
    <2> QED
      BY <1>2, <2>2, <2>4, <2>5, <2>6, <2>7, <2>8 DEF Overruns, Code, more
  <1> QED
    BY <1>1, <1>2

-----------------------------------------------------------------------------
(* Every step keeps the invariant *)

LEMMA InitEstablishesIInv == Init => IInv
  <1> SUFFICES ASSUME Init
               PROVE  IInv
    OBVIOUS
  <1> USE DEF Init
  <1>1. /\ Len(<< >>) = 0 /\ << >> \in Seq(Fields) /\ << >> \in Seq(Byte)
        /\ <<1>> \in Seq(Nat \ {0}) /\ Len(<<1>>) = 1 /\ <<1>>[1] = 1
    OBVIOUS
  <1>2. TypeOK
    BY <1>1 DEF TypeOK, Statuses
  <1>3. WireKept
    BY <1>1 DEF WireKept
  <1> QED
    BY <1>2, <1>3 DEF IInv, WritingKept, FramingKept, EndKept, ReplyKept

\* One more field is appended: the ones before it stay where they are.
LEMMA WriteKeepsWire ==
    ASSUME TypeOK, WireKept, NEW f \in Fields, Write(f)
    PROVE  /\ fields' \in Seq(Fields) /\ wire' \in Seq(Byte) /\ starts' \in Seq(Nat \ {0})
           /\ WireKept'
  <1> DEFINE data == FieldData(f)
             n == Len(fields)
             m == Len(wire)
             d == Len(data)
  <1>1. /\ fields \in Seq(Fields) /\ wire \in Seq(Byte) /\ starts \in Seq(Nat \ {0})
        /\ n \in Nat /\ m \in Nat /\ Len(starts) = n + 1
    BY DEF TypeOK, WireKept
  <1>2. data \in Seq(Byte) /\ d \in Nat \ {0}
    BY FieldDataTyped
  <1>3. /\ fields' = Append(fields, f) /\ wire' = wire \o data
        /\ starts' = Append(starts, Len(wire') + 1)
    BY DEF Write
  <1>4. /\ fields' \in Seq(Fields) /\ Len(fields') = n + 1
        /\ \A k \in 1 .. n : fields'[k] = fields[k]
        /\ fields'[n + 1] = f
    BY <1>1, <1>3
  <1> HIDE DEF data
  <1>5. /\ wire' \in Seq(Byte) /\ Len(wire') = m + d
        /\ \A i \in 1 .. m + d : wire'[i] = IF i <= m THEN wire[i] ELSE data[i - m]
    BY <1>1, <1>2, <1>3, ConcatProperties
  <1>6. Len(wire') + 1 \in Nat \ {0}
    BY <1>5
  <1>7. /\ starts' \in Seq(Nat \ {0}) /\ Len(starts') = n + 2
        /\ \A k \in 1 .. n + 1 : starts'[k] = starts[k]
        /\ starts'[n + 2] = Len(wire') + 1
    BY <1>1, <1>3, <1>6
  <1> HIDE DEF n, m, d
  <1>8. starts[1] = 1 /\ starts[n + 1] = m + 1
    BY DEF WireKept, n, m
  <1>9. starts'[1] = 1 /\ starts'[n + 2] = Len(wire') + 1 /\ starts'[n + 1] = m + 1
    BY <1>1, <1>7, <1>8
  <1>10. ASSUME NEW k \in 1 .. n + 1
         PROVE  LET h == FieldData(fields'[k])
                IN  /\ starts'[k + 1] = starts'[k] + Len(h) /\ starts'[k + 1] <= Len(wire') + 1
                    /\ \A i \in 1 .. Len(h) : wire'[starts'[k] + i - 1] = h[i]
    <2>1. CASE k = n + 1
      <3>1. FieldData(fields'[k]) = data
        BY <1>4, <2>1 DEF data
      <3>2. k + 1 = n + 2
        BY <1>1, <2>1
      <3>3. starts'[k + 1] = m + d + 1 /\ starts'[k] = m + 1
        BY <1>5, <1>9, <2>1, <3>2
      <3>4. ASSUME NEW i \in 1 .. d
            PROVE  wire'[(m + 1) + i - 1] = data[i]
        <4>1. (m + 1) + i - 1 \in 1 .. m + d /\ ~((m + 1) + i - 1 <= m)
              /\ ((m + 1) + i - 1) - m = i
          BY <1>1, <1>2
        <4> QED
          BY <1>5, <4>1
      <3>5. m + d + 1 = (m + 1) + d /\ m + d + 1 <= Len(wire') + 1
        BY <1>1, <1>2, <1>5
      <3> QED
        BY <3>1, <3>3, <3>4, <3>5 DEF d
    <2>2. CASE k # n + 1
      <3>1. k \in 1 .. n /\ k \in 1 .. n + 1 /\ k + 1 \in 1 .. n + 1
        BY <1>1, <2>2
      <3> DEFINE h == FieldData(fields[k])
                 a == starts[k]
      <3>2. /\ starts[k + 1] = a + Len(h) /\ starts[k + 1] <= m + 1
            /\ \A i \in 1 .. Len(h) : wire[a + i - 1] = h[i]
        BY <3>1 DEF WireKept, n, m
      <3>3. a \in Nat \ {0} /\ Len(h) \in Nat
        <4>1. fields[k] \in Fields
          BY <1>1, <3>1 DEF n
        <4> QED
          BY <1>1, <3>1, <4>1, FieldDataTyped
      <3>4. fields'[k] = fields[k] /\ starts'[k] = a /\ starts'[k + 1] = starts[k + 1]
        BY <1>4, <1>7, <3>1
      <3> HIDE DEF a, h
      <3>5. ASSUME NEW i \in 1 .. Len(h)
            PROVE  wire'[a + i - 1] = h[i]
        <4>1. a + i - 1 \in 1 .. m + d /\ a + i - 1 <= m
          BY <1>1, <1>2, <3>2, <3>3
        <4> QED
          BY <1>5, <3>2, <4>1
      <3>6. starts[k + 1] <= Len(wire') + 1
        BY <1>1, <1>2, <1>5, <3>2, <3>3
      <3> QED
        BY <3>2, <3>4, <3>5, <3>6 DEF h
    <2> QED
      BY <2>1, <2>2
  <1>11. WireKept'
    BY <1>4, <1>7, <1>9, <1>10, <1>1 DEF WireKept
  <1> QED
    BY <1>4, <1>5, <1>7, <1>11

LEMMA WriteKeeps ==
    ASSUME IInv, NEW f \in Fields, Write(f)
    PROVE  IInv'
  <1> USE DEF IInv
  <1>1. /\ fields' \in Seq(Fields) /\ wire' \in Seq(Byte) /\ starts' \in Seq(Nat \ {0})
        /\ WireKept'
    BY WriteKeepsWire
  <1>2. /\ status = "writing" /\ header \in {"reply", "request"}
        /\ UNCHANGED <<header, cut, party, rest, options, status>>
    BY DEF Write
  <1>3. cut = 0 /\ options = << >> /\ party = "server"
    BY <1>2 DEF WritingKept
  <1>4. TypeOK'
    <2>1. cut' \in 0 .. Len(wire')
      BY <1>1, <1>2, <1>3
    <2> QED
      BY <1>1, <1>2, <2>1 DEF TypeOK
  <1>5. WritingKept'
    BY <1>2, <1>3 DEF WritingKept
  <1> QED
    BY <1>1, <1>2, <1>3, <1>4, <1>5 DEF FramingKept, EndKept, ReplyKept

LEMMA SendKeeps ==
    ASSUME IInv, Send
    PROVE  IInv'
  <1> USE DEF IInv
  <1> DEFINE end == Len(wire) - cut'
  <1>1. /\ status = "writing" /\ status' = "received"
        /\ cut' \in 0 .. Len(wire) /\ rest' = SubSeq(wire, 1, end)
        /\ UNCHANGED <<header, fields, wire, starts, party, options>>
    BY BoundsAssumption DEF Send, TypeOK
  <1>2. options = << >> /\ party = "server" /\ Len(options) = 0
    <2>1. options = << >> /\ party = "server"
      BY <1>1 DEF WritingKept
    <2>2. Len(<< >>) = 0
      OBVIOUS
    <2> QED
      BY <2>1, <2>2
  <1>3. wire \in Seq(Byte) /\ Len(wire) \in Nat /\ end \in 0 .. Len(wire)
    BY <1>1 DEF TypeOK
  <1>4. rest' \in Seq(Byte)
    <2> HIDE DEF end
    <2> QED
      BY <1>1, <1>3
  <1>5. TypeOK'
    BY <1>1, <1>4 DEF TypeOK, Statuses
  <1>6. WireKept' /\ WritingKept'
    <2>1. /\ status' = "received" /\ header' = header /\ fields' = fields /\ wire' = wire
          /\ starts' = starts /\ options' = << >> /\ party' = "server"
      BY <1>1, <1>2
    <2>2. WireKept'
      BY <2>1 DEF WireKept
    <2>3. WritingKept'
      BY <2>1 DEF WritingKept
    <2> QED
      BY <2>2, <2>3
  <1>7. FramingKept'
    <2>1. 0 \in 0 .. Len(fields') /\ 0 + 1 = 1 /\ starts'[1] = 1
      BY <1>1 DEF TypeOK, WireKept
    <2>2. AtField(0)'
      <3>1. rest' = SubSeq(wire', starts'[1], Len(wire') - cut')
        BY <1>1, <2>1
      <3>2. starts'[1] <= Len(wire') - cut' + 1
        BY <1>1, <1>3, <2>1
      <3>3. \A l \in 1 .. 0 : fields'[l].code # End
        OBVIOUS
      <3> QED
        BY <2>1, <3>1, <3>2, <3>3 DEF AtField
    <2> DEFINE of == [i \in 1 .. 0 |-> i]
    <2>3. of \in [1 .. Len(options') -> 1 .. 0]
      BY <1>1, <1>2
    <2>4. MadeFrom(0, of)'
      BY <1>1, <1>2 DEF MadeFrom
    <2> HIDE DEF of
    <2>5. \E g \in [1 .. Len(options') -> 1 .. 0] : MadeFrom(0, g)'
      BY <2>3, <2>4
    <2> QED
      BY <2>1, <2>2, <2>5 DEF FramingKept
  <1> QED
    BY <1>1, <1>2, <1>5, <1>6, <1>7 DEF EndKept, ReplyKept

\* Who leaves the datagram and the options alone leaves the parser where it is.
LEMMA FramingStands ==
    ASSUME FramingKept, party = "server", status \in {"received", "parsing", "parsed"},
           UNCHANGED <<sender, rest, options>>
    PROVE  FramingKept'
  <1>1. PICK k \in 0 .. Len(fields) :
            AtField(k) /\ \E of \in [1 .. Len(options) -> 1 .. k] : MadeFrom(k, of)
    BY DEF FramingKept
  <1>2. PICK of \in [1 .. Len(options) -> 1 .. k] : MadeFrom(k, of)
    BY <1>1
  <1>3. AtField(k)'
    BY <1>1 DEF AtField, sender
  <1>4. MadeFrom(k, of)'
    BY <1>2 DEF MadeFrom, sender
  <1>5. k \in 0 .. Len(fields') /\ of \in [1 .. Len(options') -> 1 .. k]
    BY DEF sender
  <1> QED
    BY <1>3, <1>4, <1>5 DEF FramingKept

LEMMA ReadHeaderKeeps ==
    ASSUME IInv, ReadHeader
    PROVE  IInv'
  <1> USE DEF IInv
  <1>1. /\ status = "received" /\ UNCHANGED <<sender, party, rest, options>>
        /\ status' \in {"threw", "parsed", "parsing"} /\ header \in Headers
        /\ status' = "parsed" => header = "bare"
    BY DEF ReadHeader, TypeOK, Headers
  <1>2. options = << >> /\ party = "server"
    BY <1>1 DEF WritingKept
  <1>3. TypeOK' /\ WireKept' /\ WritingKept'
    BY <1>1, <1>2 DEF TypeOK, WireKept, WritingKept, Statuses, sender
  <1>4. FramingKept'
    BY <1>1, <1>2, FramingStands
  <1>5. EndKept'
    <2> SUFFICES ASSUME status' = "parsed"
                 PROVE  rest = << >>
      BY <1>1 DEF EndKept
    <2>1. fields = << >>
      BY <1>1 DEF WritingKept
    <2>2. Len(fields) = 0
      BY <2>1
    <2>3. starts[1] = 1 /\ Len(wire) + 1 = 1 /\ wire \in Seq(Byte) /\ cut \in 0 .. Len(wire)
      BY <2>2 DEF WireKept, TypeOK
    <2>4. PICK k \in 0 .. Len(fields) : AtField(k)
      BY <1>1, <1>2 DEF FramingKept
    <2>5. k + 1 = 1 /\ Len(wire) - cut = 0
      BY <2>2, <2>3, <2>4
    <2>6. rest = SubSeq(wire, 1, 0)
      BY <2>3, <2>4, <2>5 DEF AtField
    <2> QED
      BY <2>3, <2>6
  <1> QED
    BY <1>1, <1>2, <1>3, <1>4, <1>5 DEF ReplyKept

\* The parser steps over field k + 1 and stands at the next one.
LEMMA NextField ==
    ASSUME NEW k \in 0 .. Len(fields), AtField(k), Len(fields) \in Nat,
           k + 1 \in 1 .. Len(fields), fields[k + 1].code # End, UNCHANGED sender,
           starts[k + 2] <= Len(wire) - cut + 1,
           rest' = SubSeq(wire, starts[k + 2], Len(wire) - cut)
    PROVE  k + 1 \in 0 .. Len(fields') /\ AtField(k + 1)'
  <1>1. /\ fields' = fields /\ wire' = wire /\ starts' = starts /\ cut' = cut
        /\ (k + 1) + 1 = k + 2 /\ k + 1 \in 0 .. Len(fields')
    BY DEF sender
  <1>2. ASSUME NEW l \in 1 .. k + 1
        PROVE  fields[l].code # End
    <2>1. l = k + 1 \/ l \in 1 .. k
      OBVIOUS
    <2> QED
      BY <2>1 DEF AtField
  <1>3. starts'[(k + 1) + 1] = starts[k + 2]
    BY <1>1
  <1> QED
    BY <1>1, <1>2, <1>3 DEF AtField

LEMMA ReadPadKeepsFraming ==
    ASSUME IInv, party = "server", ReadPad
    PROVE  FramingKept'
  <1> USE DEF IInv
  <1>1. /\ status = "parsing" /\ rest # << >> /\ Head(rest) = Pad /\ rest' = Tail(rest)
        /\ UNCHANGED <<sender, party, options, status>> /\ fields' = fields
    BY DEF ReadPad, sender
  <1>2. PICK k \in 0 .. Len(fields) :
            AtField(k) /\ \E of \in [1 .. Len(options) -> 1 .. k] : MadeFrom(k, of)
    BY <1>1 DEF FramingKept
  <1>3. PICK of \in [1 .. Len(options) -> 1 .. k] : MadeFrom(k, of)
    BY <1>2
  <1>4. /\ k + 1 \in 1 .. Len(fields) /\ Len(fields) \in Nat /\ fields[k + 1].code = Pad
        /\ starts[k + 2] <= Len(wire) - cut + 1
        /\ rest' = SubSeq(wire, starts[k + 2], Len(wire) - cut)
    <2>1. Len(fields) \in Nat
      BY DEF TypeOK
    <2> QED
      BY <1>1, <1>2, <2>1, AtFieldReads
  <1>5. k + 1 \in 0 .. Len(fields') /\ AtField(k + 1)'
    <2>1. Pad # End
      BY DEF Pad, End
    <2>2. fields[k + 1].code # End /\ UNCHANGED sender
      BY <1>1, <1>4, <2>1
    <2> QED
      BY <1>2, <1>4, <2>2, NextField
  <1>6. of \in [1 .. Len(options') -> 1 .. k + 1]
    BY <1>1, <1>3, <1>4
  <1>7. MadeFrom(k + 1, of)'
    <2>1. ASSUME NEW l \in 1 .. k + 1, fields[l].code # Pad
          PROVE  \E i \in 1 .. Len(options) : of[i] = l
      <3>1. l \in 1 .. k
        BY <1>4, <2>1
      <3> QED
        BY <1>3, <2>1, <3>1 DEF MadeFrom
    <2> QED
      BY <1>1, <1>3, <2>1 DEF MadeFrom
  <1> QED
    BY <1>5, <1>6, <1>7 DEF FramingKept

LEMMA ReadOptionKeepsFraming ==
    ASSUME IInv, party = "server", ReadOption
    PROVE  FramingKept'
  <1> USE DEF IInv
  <1> DEFINE n == Len(options)
             o == Option(Code, Length, Elements(Code, Payload))
  <1>1. /\ status = "parsing" /\ rest # << >> /\ Head(rest) \notin {Pad, End} /\ ~NoLength
        /\ ~(Len(rest) < 2 + Length) /\ options' = Append(options, o) /\ rest' = AfterOption
        /\ UNCHANGED <<sender, party, status>> /\ fields' = fields
    BY DEF ReadOption, AtOption, Overruns, sender
  <1>2. PICK k \in 0 .. Len(fields) :
            AtField(k) /\ \E of \in [1 .. n -> 1 .. k] : MadeFrom(k, of)
    BY <1>1 DEF FramingKept
  <1>3. PICK of \in [1 .. n -> 1 .. k] : MadeFrom(k, of)
    BY <1>2
  <1> DEFINE f == fields[k + 1]
  <1>4. /\ k + 1 \in 1 .. Len(fields) /\ Len(fields) \in Nat /\ n \in Nat
        /\ f \in Fields /\ f.code = Code /\ f.code \notin {Pad, End}
        /\ ~NoLength /\ Length = Len(f.payload)
    <2>1. Len(fields) \in Nat /\ n \in Nat
      BY DEF TypeOK
    <2> QED
      BY <1>1, <1>2, <2>1, AtFieldReads DEF Code
  <1>5. Len(rest) >= 2 + Len(f.payload)
    <2>1. Len(rest) \in Nat /\ Len(f.payload) \in Nat
      BY <1>4, FieldAssumption DEF TypeOK
    <2> QED
      BY <1>1, <1>4, <2>1
  <1>6. /\ Payload = f.payload /\ starts[k + 2] <= Len(wire) - cut + 1
        /\ rest' = SubSeq(wire, starts[k + 2], Len(wire) - cut)
    BY <1>1, <1>2, <1>4, <1>5, AtFieldReads
  <1>7. k + 1 \in 0 .. Len(fields') /\ AtField(k + 1)'
    BY <1>1, <1>2, <1>4, <1>6, NextField
  <1>8. o = Made(f.code, f.payload)
    BY <1>4, <1>6 DEF Made
  <1>9. /\ Len(options') = n + 1 /\ options'[n + 1] = o
        /\ \A i \in 1 .. n : options'[i] = options[i]
    <2>1. options \in Seq([code : Codes, length : Byte, values : Seq(Seq(Byte))])
      BY DEF TypeOK
    <2> HIDE DEF o
    <2> QED
      BY <1>1, <2>1
  <1> HIDE DEF n, o
  <1>10. PICK g \in [1 .. n + 1 -> 1 .. k + 1] :
             g[n + 1] = k + 1 /\ \A i \in 1 .. n : g[i] = of[i]
    <2> DEFINE h == [i \in 1 .. n + 1 |-> IF i = n + 1 THEN k + 1 ELSE of[i]]
    <2>1. h \in [1 .. n + 1 -> 1 .. k + 1] /\ h[n + 1] = k + 1
      BY <1>3, <1>4
    <2>2. \A i \in 1 .. n : h[i] = of[i]
      BY <1>4
    <2> HIDE DEF h
    <2> QED
      BY <2>1, <2>2
  <1>11. \A i \in 1 .. n : of[i] \in 1 .. k /\ g[i] = of[i] /\ i \in 1 .. n + 1
    BY <1>3, <1>4, <1>10
  <1>12. MadeFrom(k + 1, g)'
    <2>1. ASSUME NEW i \in 1 .. n + 1, NEW j \in 1 .. n + 1, i < j
          PROVE  g[i] < g[j]
      <3>1. i \in 1 .. n
        BY <1>4, <2>1
      <3>2. CASE j = n + 1
        BY <1>4, <1>10, <1>11, <3>1, <3>2
      <3>3. CASE j \in 1 .. n
        <4>1. of[i] < of[j]
          BY <1>3, <2>1, <3>1, <3>3 DEF MadeFrom, n
        <4> QED
          BY <1>11, <3>1, <3>3, <4>1
      <3> QED
        BY <1>4, <3>2, <3>3
    <2>2. ASSUME NEW i \in 1 .. n + 1
          PROVE  LET h == fields[g[i]]
                 IN  h.code # Pad /\ options'[i] = Made(h.code, h.payload)
      <3>1. CASE i = n + 1
        BY <1>4, <1>8, <1>9, <1>10, <3>1
      <3>2. CASE i \in 1 .. n
        BY <1>3, <1>9, <1>11, <3>2 DEF MadeFrom, n
      <3> QED
        BY <1>4, <3>1, <3>2
    <2>3. ASSUME NEW l \in 1 .. k + 1, fields[l].code # Pad
          PROVE  \E i \in 1 .. n + 1 : g[i] = l
      <3>1. CASE l = k + 1
        BY <1>4, <1>10, <3>1
      <3>2. CASE l \in 1 .. k
        <4>1. PICK i \in 1 .. n : of[i] = l
          BY <1>3, <2>3, <3>2 DEF MadeFrom, n
        <4> QED
          BY <1>11, <4>1
      <3> QED
        BY <1>4, <3>1, <3>2
    <2> QED
      BY <1>1, <1>9, <2>1, <2>2, <2>3 DEF MadeFrom
  <1>13. g \in [1 .. Len(options') -> 1 .. k + 1]
    BY <1>9, <1>10
  <1> QED
    BY <1>7, <1>12, <1>13 DEF FramingKept

LEMMA ReadOptionKeepsTypes ==
    ASSUME TypeOK, ReadOption
    PROVE  TypeOK'
  <1> DEFINE n == Len(rest)
             o == Option(Code, Length, Elements(Code, Payload))
             Options == [code : Codes, length : Byte, values : Seq(Seq(Byte))]
  <1>1. /\ rest # << >> /\ n # 1 /\ ~Refused(Code, Length)
        /\ ~(n < 2 + Length) /\ options' = Append(options, o) /\ rest' = AfterOption
        /\ UNCHANGED <<sender, party, status>>
    BY DEF ReadOption, AtOption, NoLength, Overruns
  <1>2. rest \in Seq(Byte) /\ n \in Nat /\ options \in Seq(Options)
    BY DEF TypeOK
  <1>3. n >= 2
    <2>1. n # 0
      BY <1>1, <1>2, EmptySeq
    <2> HIDE DEF n
    <2> QED
      BY <1>1, <1>2, <2>1
  <1>4. Length \in Byte /\ Length \in Nat
    <2>1. 2 \in 1 .. n
      BY <1>2, <1>3
    <2>2. rest[2] \in Byte
      BY <1>2, <2>1
    <2> QED
      BY <2>2 DEF Length, Byte
  <1>5. Code \in Codes
    BY <1>1 DEF Refused
  <1>6. Payload \in Seq(Byte)
    <2>1. 3 \in Nat \ {0} /\ 2 + Length \in Nat /\ 2 + Length <= n /\ 3 <= (2 + Length) + 1
      BY <1>1, <1>2, <1>4
    <2> QED
      BY <1>2, <2>1, DropFirst DEF Payload
  <1>7. AfterOption \in Seq(Byte)
    <2>1. 3 + Length \in Nat \ {0} /\ 3 + Length <= n + 1 /\ n <= Len(rest)
      BY <1>1, <1>2, <1>4
    <2> QED
      BY <1>2, <2>1, DropFirst DEF AfterOption
  <1>8. Elements(Code, Payload) \in Seq(Seq(Byte))
    BY <1>5, <1>6, ElementsTyped
  <1>9. o \in Options
    BY <1>4, <1>5, <1>8 DEF Option
  <1> HIDE DEF o, Options
  <1>10. options' \in Seq(Options)
    BY <1>1, <1>2, <1>9
  <1> QED
    BY <1>1, <1>7, <1>10 DEF TypeOK, Options, sender

LEMMA ParseKeepsTypes ==
    ASSUME TypeOK, Parse
    PROVE  TypeOK'
  <1>1. CASE ReadPad
    <2>1. Tail(rest) \in Seq(Byte)
      BY <1>1 DEF ReadPad, TypeOK
    <2> QED
      BY <1>1, <2>1 DEF ReadPad, TypeOK, sender
  <1>2. CASE ReadEnd
    BY <1>2 DEF ReadEnd, TypeOK, Statuses, sender
  <1>3. CASE ReadThrows
    BY <1>3 DEF ReadThrows, TypeOK, Statuses, sender
  <1>4. CASE ReadOutside
    BY <1>4 DEF ReadOutside, TypeOK, Statuses, sender
  <1> QED
    BY <1>1, <1>2, <1>3, <1>4, ReadOptionKeepsTypes DEF Parse

\* Where the parser of the server is kept by every turn of its loop.
LEMMA ServerParseKeeps ==
    ASSUME IInv, Parse, party = "server"
    PROVE  IInv'
  <1> USE DEF IInv
  <1>1. status = "parsing" /\ UNCHANGED <<sender, party>>
    BY DEF Parse, ReadEnd, ReadPad, ReadOption, ReadThrows, ReadOutside, AtOption
  <1>2. /\ status' \in {"parsing", "parsed", "threw", "undefined"}
        /\ status' = "parsed" => ReadEnd
        /\ status' = "parsing" => ReadPad \/ ReadOption
    BY <1>1 DEF Parse, ReadEnd, ReadPad, ReadOption, ReadThrows, ReadOutside
  <1>3. TypeOK'
    BY ParseKeepsTypes
  <1>4. WireKept' /\ WritingKept'
    BY <1>1, <1>2 DEF WireKept, WritingKept, sender
  <1>5. FramingKept'
    <2>1. CASE status' \in {"threw", "undefined"}
      BY <2>1 DEF FramingKept
    <2>2. CASE ReadEnd
      <3>1. UNCHANGED <<sender, rest, options>>
        BY <2>2 DEF ReadEnd
      <3> QED
        BY <1>1, <3>1, FramingStands
    <2> QED
      BY <1>2, <2>1, <2>2, ReadPadKeepsFraming, ReadOptionKeepsFraming
  <1>6. EndKept'
    BY <1>2 DEF EndKept, ReadEnd
  <1>7. ReplyKept'
    BY <1>1 DEF ReplyKept
  <1> QED
    BY <1>3, <1>4, <1>5, <1>6, <1>7

\* Every option of an answer is accepted, and the end option ends it.
LEMMA ClientParseKeeps ==
    ASSUME IInv, Parse, party = "client"
    PROVE  IInv'
  <1> USE DEF IInv
  <1>1. status = "parsing" /\ UNCHANGED <<sender, party>>
    BY DEF Parse, ReadEnd, ReadPad, ReadOption, ReadThrows, ReadOutside, AtOption
  <1>2. PICK type \in {OFFER, ACK}, i \in 1 .. 5 : AnswerRead(type, i)
    BY DEF ReplyKept
  <1>3. /\ i = 5 => rest # << >> /\ Head(rest) = End
        /\ i # 5 =>
              /\ rest # << >> /\ Head(rest) \notin {Pad, End} /\ ~NoLength
              /\ ~Refused(Code, Length) /\ ~Overruns /\ ~Forbidden(Code, Payload)
              /\ Option(Code, Length, Elements(Code, Payload)) = Arrived(type, i)
              /\ AfterOption = AnswerFrom(type, i + 1)
    BY <1>2, ClientReads
  <1>4. TypeOK'
    BY ParseKeepsTypes
  <1>5. CASE i = 5
    <2>1. ReadEnd
      BY <1>3, <1>5 DEF Parse, ReadPad, ReadOption, ReadThrows, ReadOutside, AtOption, Pad, End
    <2>2. status' = "parsed" /\ rest' = rest /\ options' = options
      BY <2>1 DEF ReadEnd
    <2>3. AnswerRead(type, 5)'
      BY <1>2, <1>5, <2>2 DEF AnswerRead
    <2>4. ReplyKept'
      BY <2>2, <2>3 DEF ReplyKept
    <2> QED
      BY <1>1, <1>4, <2>2, <2>4 DEF WireKept, WritingKept, FramingKept, EndKept, sender
  <1>6. CASE i # 5
    <2>1. ReadOption
      BY <1>3, <1>6 DEF Parse, ReadPad, ReadEnd, ReadThrows, ReadOutside, AtOption
    <2>2. /\ status' = "parsing" /\ rest' = AnswerFrom(type, i + 1)
          /\ options' = Append(options, Arrived(type, i))
      BY <1>1, <1>3, <1>6, <2>1 DEF ReadOption
    <2>3. AnswerRead(type, i + 1)'
      <3> DEFINE o == Arrived(type, i)
                 n == Len(options)
      <3>1. /\ options \in Seq([code : Codes, length : Byte, values : Seq(Seq(Byte))])
            /\ n = i - 1 /\ \A j \in 1 .. i - 1 : options[j] = Arrived(type, j)
        BY <1>2 DEF TypeOK, AnswerRead
      <3> HIDE DEF o
      <3>2. /\ Len(options') = n + 1 /\ options'[n + 1] = o
            /\ \A j \in 1 .. n : options'[j] = options[j]
        BY <2>2, <3>1 DEF o
      <3> HIDE DEF n
      <3>3. n + 1 = i /\ (i + 1) - 1 = i /\ i \in Nat
        BY <1>2, <3>1
      <3>4. ASSUME NEW j \in 1 .. i
            PROVE  options'[j] = Arrived(type, j)
        <4>1. CASE j = i
          BY <3>2, <3>3, <4>1 DEF o
        <4>2. CASE j # i
          <5>1. j \in 1 .. i - 1 /\ j \in 1 .. n
            BY <3>1, <3>3, <4>2
          <5> QED
            BY <3>1, <3>2, <5>1
        <4> QED
          BY <4>1, <4>2
      <3> QED
        BY <2>2, <3>2, <3>3, <3>4 DEF AnswerRead
    <2>4. ReplyKept'
      <3>1. i + 1 \in 1 .. 5
        BY <1>2, <1>6
      <3> QED
        BY <2>2, <2>3, <3>1 DEF ReplyKept
    <2> QED
      BY <1>1, <1>4, <2>2, <2>4 DEF WireKept, WritingKept, FramingKept, EndKept, sender
  <1> QED
    BY <1>5, <1>6

LEMMA ReplyKeeps ==
    ASSUME IInv, NEW received, NEW type \in {OFFER, ACK}, Reply(received, type)
    PROVE  IInv'
  <1> USE DEF IInv
  <1>1. /\ party' = "client" /\ status' = "parsing" /\ options' = << >> /\ UNCHANGED sender
        /\ LET data(i) == OptionData(Answer(type)[i])
           IN  rest' = data(1) \o data(2) \o data(3) \o data(4) \o <<End>>
        /\ status = "parsed"
    BY DEF Reply, Handled
  <1>2. rest' = AnswerFrom(type, 1) /\ rest' \in Seq(Byte)
    BY <1>1, AnswerAssembled
  <1>3. TypeOK'
    BY <1>1, <1>2 DEF TypeOK, Statuses, sender
  <1>4. AnswerRead(type, 1)'
    <2>1. Len(options') = 1 - 1 /\ 1 .. 1 - 1 = {}
      BY <1>1
    <2> QED
      BY <1>1, <1>2, <2>1 DEF AnswerRead
  <1>5. ReplyKept'
    <2>1. 1 \in 1 .. 5
      OBVIOUS
    <2> QED
      BY <1>1, <1>4, <2>1 DEF ReplyKept
  <1> QED
    BY <1>1, <1>3, <1>5 DEF WireKept, WritingKept, FramingKept, EndKept, sender

\* The server gives up: the datagram is another server's, or says nothing it answers.
LEMMA GiveUpKeeps ==
    ASSUME IInv, Ignore \/ NoMessageType
    PROVE  IInv'
  <1> USE DEF IInv
  <1>1. /\ party = "server" /\ status' \in {"ignored", "undefined"}
        /\ UNCHANGED <<sender, party, rest, options>>
    BY DEF Ignore, NoMessageType, Handled
  <1> QED
    BY <1>1 DEF TypeOK, Statuses, WireKept, WritingKept, FramingKept, EndKept, ReplyKept, sender

LEMMA StutterKeeps ==
    ASSUME IInv, UNCHANGED vars
    PROVE  IInv'
  <1> USE DEF IInv
  <1>1. UNCHANGED <<header, fields, wire, starts, cut, party, rest, options, status>>
    BY DEF vars, sender
  <1>2. TypeOK' /\ WireKept' /\ WritingKept' /\ EndKept'
    BY <1>1 DEF TypeOK, WireKept, WritingKept, EndKept
  <1>3. FramingKept'
    BY <1>1, FramingStands DEF FramingKept, sender
  <1>4. ReplyKept'
    BY <1>1 DEF ReplyKept, AnswerRead
  <1> QED
    BY <1>2, <1>3, <1>4

LEMMA NextKeepsIInv == IInv /\ [Next]_vars => IInv'
  <1> SUFFICES ASSUME IInv, [Next]_vars
               PROVE  IInv'
    OBVIOUS
  <1>1. ASSUME NEW f \in Fields, Write(f)
        PROVE  IInv'
    BY <1>1, WriteKeeps
  <1>2. CASE Send
    BY <1>2, SendKeeps
  <1>3. CASE ReadHeader
    BY <1>3, ReadHeaderKeeps
  <1>4. CASE Parse
    <2>1. party \in {"server", "client"}
      BY DEF IInv, TypeOK
    <2> QED
      BY <1>4, <2>1, ServerParseKeeps, ClientParseKeeps
  <1>5. CASE Ignore \/ NoMessageType
    BY <1>5, GiveUpKeeps
  <1>6. CASE Offer
    BY <1>6, ReplyKeeps DEF Offer
  <1>7. CASE Acknowledge
    BY <1>7, ReplyKeeps DEF Acknowledge
  <1>8. CASE UNCHANGED vars
    BY <1>8, StutterKeeps
  <1> QED
    BY <1>1, <1>2, <1>3, <1>4, <1>5, <1>6, <1>7, <1>8 DEF Next

-----------------------------------------------------------------------------
(* The theorems *)

\* The invariant holds in every reachable state.
THEOREM InvariantHolds == Spec => []IInv
  <1> QED
    BY InitEstablishesIInv, NextKeepsIInv, PTL DEF Spec

\* The server's parser (DhcpMessage.cpp:49-84) never loses its place in a request.
THEOREM FramingKeptHolds == Spec => []FramingKept
  <1>1. IInv => FramingKept
    BY DEF IInv
  <1> QED
    BY <1>1, InvariantHolds, PTL

\* A client that reads an answer with this parser gets to its end, and has the options
\* the answer was made of, the lease time's value aside.
THEOREM ReplyIsReadHolds == Spec => []ReplyIsRead
  <1>1. IInv => ReplyIsRead
    <2> SUFFICES ASSUME IInv, party = "client"
                 PROVE  /\ status \notin {"threw", "undefined"}
                        /\ status = "parsed" => \E type \in {OFFER, ACK} :
                              /\ Len(options) = 4
                              /\ SubSeq(options, 1, 3) = SubSeq(Answer(type), 1, 3)
                              /\ options[4].code = 51
      BY DEF ReplyIsRead
    <2>1. status \in {"parsing", "parsed"}
      BY DEF IInv, ReplyKept
    <2>2. ASSUME status = "parsed"
          PROVE  \E type \in {OFFER, ACK} :
                     /\ Len(options) = 4
                     /\ SubSeq(options, 1, 3) = SubSeq(Answer(type), 1, 3)
                     /\ options[4].code = 51
      <3>1. PICK type \in {OFFER, ACK}, i \in 1 .. 5 : AnswerRead(type, i)
        BY DEF IInv, ReplyKept
      <3>2. Len(options) = 4 /\ \A j \in 1 .. 4 : options[j] = Arrived(type, j)
        <4>1. i = 5
          BY <2>2, <3>1 DEF AnswerRead
        <4>2. i - 1 = 4
          BY <4>1
        <4> QED
          BY <3>1, <4>2 DEF AnswerRead
      <3>3. options[4].code = 51
        <4>1. options[4] = Arrived(type, 4)
          BY <3>2
        <4> QED
          BY <4>1 DEF Arrived, Made, Option, AnswerCode
      <3>4. SubSeq(options, 1, 3) = SubSeq(Answer(type), 1, 3)
        <4> DEFINE whole == Answer(type)
        <4>1. /\ whole[1] = Arrived(type, 1) /\ whole[2] = Arrived(type, 2)
              /\ whole[3] = Arrived(type, 3)
          BY DEF Answer, Arrived, AnswerCode, AnswerPayload
        <4> HIDE DEF whole
        <4>2. \A j \in 1 .. 3 : options[j] = whole[j]
          <5> TAKE j \in 1 .. 3
          <5>1. j = 1 \/ j = 2 \/ j = 3
            OBVIOUS
          <5> QED
            BY <3>2, <4>1, <5>1
        <4>3. SubSeq(options, 1, 3) = [j \in 1 .. 3 |-> options[j]]
          OBVIOUS
        <4>4. SubSeq(whole, 1, 3) = [j \in 1 .. 3 |-> whole[j]]
          OBVIOUS
        <4> QED
          BY <4>2, <4>3, <4>4 DEF whole
      <3> QED
        BY <3>2, <3>3, <3>4
    <2> QED
      BY <2>1, <2>2
  <1> QED
    BY <1>1, InvariantHolds, PTL

-----------------------------------------------------------------------------
(* Sound requests *)

\* The constructor of DhcpOption accepts the field, or the parser does not ask it.
Accepted(f) ==
    f.code \in {Pad, End} \/
        /\ ~Refused(f.code, Len(f.payload)) /\ ~Misaligned(f.code, Len(f.payload))
        /\ ~Forbidden(f.code, f.payload)

SoundIsAccepted == \A f \in Fields : f.sound => Accepted(f)

\* A request whose fields before the first end option are all sound
SoundRequest == header = "request" /\ cut = 0 /\ \A i \in Meant : fields[i].sound

\* The parser stands before an option of a sound request: it reads it.
LEMMA SoundOptionIsRead ==
    ASSUME SoundIsAccepted, IInv, SoundRequest, party = "server", AtOption
    PROVE  ~ReadThrows /\ ~ReadOutside
  <1> USE DEF IInv
  <1>1. status = "parsing" /\ rest # << >> /\ Head(rest) \notin {Pad, End}
    BY DEF AtOption
  <1>2. PICK k \in 0 .. Len(fields) : AtField(k)
    BY <1>1 DEF FramingKept
  <1> DEFINE f == fields[k + 1]
  <1>3. /\ k + 1 \in 1 .. Len(fields) /\ f \in Fields /\ f.code = Code
        /\ f.code \notin {Pad, End} /\ ~NoLength /\ Length = Len(f.payload)
        /\ Len(rest) >= 2 + Len(f.payload) /\ Payload = f.payload
    BY <1>1, <1>2, AtFieldReads DEF Code, SoundRequest
  <1>4. f.sound
    <2>1. ASSUME NEW j \in 1 .. k + 1
          PROVE  fields[j].code # End
      <3>1. j = k + 1 \/ j \in 1 .. k
        OBVIOUS
      <3> QED
        BY <1>2, <1>3, <3>1 DEF AtField
    <2>2. k + 1 \in Meant
      BY <1>3, <2>1 DEF Meant
    <2> QED
      BY <2>2 DEF SoundRequest
  <1>5. /\ ~Refused(Code, Length) /\ ~Misaligned(Code, Length) /\ ~Forbidden(Code, Payload)
    BY <1>3, <1>4 DEF SoundIsAccepted, Accepted
  <1>6. ~(Len(rest) < 2 + Length)
    <2>1. Len(rest) \in Nat /\ Len(f.payload) \in Nat
      BY <1>3, FieldAssumption DEF TypeOK
    <2> QED
      BY <1>3, <2>1
  <1> QED
    BY <1>3, <1>5, <1>6 DEF ReadThrows, ReadOutside, Overruns

\* The parser has read all that is meant when it stops.
LEMMA WholeRequestIsParsed ==
    ASSUME IInv, party = "server", status = "parsed", cut = 0, NEW i \in Meant,
           fields[i].code # Pad
    PROVE  \E l \in DOMAIN options : options[l].code = fields[i].code
  <1> USE DEF IInv
  <1>1. PICK k \in 0 .. Len(fields) :
            AtField(k) /\ \E of \in [1 .. Len(options) -> 1 .. k] : MadeFrom(k, of)
    BY DEF FramingKept
  <1>2. PICK of \in [1 .. Len(options) -> 1 .. k] : MadeFrom(k, of)
    BY <1>1
  <1>3. /\ Len(fields) \in Nat /\ Len(wire) \in Nat /\ starts \in Seq(Nat \ {0})
        /\ Len(starts) = Len(fields) + 1 /\ wire \in Seq(Byte) /\ fields \in Seq(Fields)
    BY DEF TypeOK, WireKept
  <1>4. i \in 1 .. Len(fields) /\ \A j \in 1 .. i : fields[j].code # End
    BY DEF Meant
  <1>5. i <= k
    <2> SUFFICES ASSUME ~(i <= k)
                 PROVE  FALSE
      OBVIOUS
    <2>1. k + 1 \in 1 .. Len(fields) /\ k + 1 \in 1 .. i /\ k + 1 \in 1 .. Len(starts)
          /\ k + 2 \in 1 .. Len(starts) /\ (k + 1) + 1 = k + 2
      BY <1>3, <1>4
    <2>2. CASE rest # << >>
      <3>1. fields[k + 1].code = End
        BY <1>1, <2>2, AtFieldReads DEF EndKept
      <3> QED
        BY <1>4, <2>1, <3>1
    <2>3. CASE rest = << >>
      <3> DEFINE a == starts[k + 1]
                 next == starts[k + 2]
                 m == Len(wire)
      <3>1. a \in Nat \ {0} /\ next \in Nat \ {0} /\ m \in Nat
        BY <1>3, <2>1
      <3>2. rest = SubSeq(wire, a, m) /\ a <= m + 1
        BY <1>1, <1>3 DEF AtField
      <3>3. next > a /\ next <= m + 1
        <4> DEFINE d == Len(FieldData(fields[k + 1]))
        <4>1. next = a + d /\ next <= m + 1
          BY <2>1 DEF WireKept
        <4>2. d \in Nat \ {0}
          <5>1. fields[k + 1] \in Fields
            BY <1>3, <2>1
          <5> QED
            BY <5>1, FieldDataTyped
        <4> HIDE DEF a, next, m, d
        <4> QED
          BY <3>1, <4>1, <4>2
      <3> HIDE DEF a, next
      <3>4. Len(rest) = m - a + 1
        BY <1>3, <3>1, <3>2, DropFirst
      <3>5. Len(rest) = 0
        BY <2>3
      <3> HIDE DEF m
      <3> QED
        BY <3>1, <3>3, <3>4, <3>5
    <2> QED
      BY <2>2, <2>3
  <1>6. i \in 1 .. k
    BY <1>4, <1>5
  <1>7. PICK l \in 1 .. Len(options) : of[l] = i
    BY <1>2, <1>6 DEF MadeFrom
  <1>8. options[l] = Made(fields[i].code, fields[i].payload)
    BY <1>2, <1>7 DEF MadeFrom
  <1>9. l \in DOMAIN options
    BY <1>7 DEF TypeOK
  <1> QED
    BY <1>8, <1>9 DEF Made, Option

LEMMA NextKeepsSound ==
    ASSUME SoundIsAccepted, IInv, IInv', SoundRequestIsRead, [Next]_vars
    PROVE  SoundRequestIsRead'
  <1> SUFFICES ASSUME SoundRequest'
               PROVE  /\ status' # "threw"
                      /\ status' = "undefined" => \A i \in Meant' : fields[i]'.code # 53
    BY DEF SoundRequestIsRead, SoundRequest
  <1>1. CASE UNCHANGED sender
    <2>1. SoundRequest /\ Meant' = Meant /\ fields' = fields
      BY <1>1 DEF SoundRequest, Meant, sender
    <2>2. /\ status # "threw"
          /\ status = "undefined" => \A i \in Meant : fields[i].code # 53
      BY <2>1 DEF SoundRequestIsRead, SoundRequest
    <2>3. CASE status' = status
      BY <2>1, <2>2, <2>3
    <2>4. CASE status' # status /\ NoMessageType
      <3>1. status = "parsed" /\ party = "server" /\ MessageTypes = {} /\ cut = 0
        BY <2>1, <2>4 DEF NoMessageType, Handled, SoundRequest
      <3>2. ASSUME NEW i \in Meant, fields[i].code = 53
            PROVE  FALSE
        <4>1. \E l \in DOMAIN options : options[l].code = 53
          BY <3>1, <3>2, WholeRequestIsParsed DEF Pad
        <4> QED
          BY <3>1, <4>1 DEF MessageTypes
      <3> QED
        BY <2>1, <2>4, <3>2 DEF NoMessageType
    <2>5. CASE status' # status /\ Parse
      <3>1. status = "parsing"
        BY <2>5 DEF Parse, ReadEnd, ReadPad, ReadOption, ReadThrows, ReadOutside, AtOption
      <3>2. ASSUME ReadThrows \/ ReadOutside
            PROVE  FALSE
        <4>1. AtOption /\ party' = party /\ status' \in {"threw", "undefined"}
          BY <3>2 DEF ReadThrows, ReadOutside
        <4>2. party # "client"
          BY <4>1 DEF IInv, ReplyKept
        <4>3. party = "server"
          BY <4>2 DEF IInv, TypeOK
        <4> QED
          BY <2>1, <3>2, <4>1, <4>3, SoundOptionIsRead
      <3>3. status' = "parsed"
        BY <2>5, <3>1, <3>2 DEF Parse, ReadEnd, ReadPad, ReadOption
      <3> QED
        BY <3>3
    <2>6. CASE status' # status /\ ~NoMessageType /\ ~Parse
      <3>1. status' \notin {"threw", "undefined"}
        BY <1>1, <2>1, <2>6 DEF Next, vars, Write, Send, ReadHeader, Ignore, Offer,
               Acknowledge, Reply, SoundRequest
      <3> QED
        BY <3>1
    <2> QED
      BY <2>3, <2>4, <2>5, <2>6
  <1>2. CASE ~UNCHANGED sender
    <2>1. (\E f \in Fields : Write(f)) \/ Send
      BY <1>2 DEF Next, vars, ReadHeader, Parse, ReadEnd, ReadPad, ReadOption, ReadThrows,
             ReadOutside, Ignore, NoMessageType, Offer, Acknowledge, Reply
    <2>2. status' \in {"writing", "received"}
      BY <2>1 DEF Write, Send
    <2> QED
      BY <2>2
  <1> QED
    BY <1>1, <1>2

\* A whole request whose fields the option table accepts is read to its end, whatever
\* their number and order, and its message type is found.  That the table accepts what
\* RFC 2132 allows is the hypothesis: of the fields TLC takes, SoundRequestIsRead's run
\* shows it.
THEOREM SoundRequestIsReadHolds ==
    ASSUME SoundIsAccepted
    PROVE  Spec => []SoundRequestIsRead
  <1>1. Init => SoundRequestIsRead
    BY DEF Init, SoundRequestIsRead
  <1>2. IInv /\ IInv' /\ SoundRequestIsRead /\ [Next]_vars => SoundRequestIsRead'
    BY NextKeepsSound
  <1> QED
    BY <1>1, <1>2, InvariantHolds, PTL DEF Spec
=============================================================================
