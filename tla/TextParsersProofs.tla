-------------------------- MODULE TextParsersProofs --------------------------
(***************************************************************************)
(* Proofs about the readers of texts, for addresses of any size, in any    *)
(* base, and texts of any length.                                          *)
(***************************************************************************)
EXTENDS TextParsers, SequenceTheorems, FiniteSetTheorems, WellFoundedInduction, TLAPS

-----------------------------------------------------------------------------
(* Least elements and induction over sets of naturals.  The library states   *)
(* induction for operators, which the provers cannot instantiate; WFMin      *)
(* states it for sets, and is enough.                                        *)

\* A set of naturals that is not empty has a least element.
LEMMA LeastNatural ==
    ASSUME NEW S \in SUBSET Nat, S # {}
    PROVE  \E n \in S : \A m \in S : n <= m
  <1> DEFINE R == OpToRel(<, Nat)
  <1>1. IsWellFoundedOn(R, Nat)
    BY NatLessThanWellFounded
  <1>2. \A m, n \in Nat : m < n => <<m, n>> \in R
    BY DEF OpToRel
  <1> HIDE DEF R
  <1>3. PICK n \in S : \A m \in S : ~(<<m, n>> \in R)
    BY <1>1, WFMin
  <1>4. ASSUME NEW m \in S
        PROVE  n <= m
    <2>1. ~(m < n)
      BY <1>2, <1>3
    <2> QED
      BY <2>1
  <1> QED
    BY <1>4

\* What holds of 0, and of n + 1 when it holds of n, holds of every natural.
LEMMA SetInduction ==
    ASSUME NEW S, 0 \in S, \A n \in Nat : n \in S => n + 1 \in S
    PROVE  Nat \subseteq S
  <1> SUFFICES ASSUME Nat \ S # {}
               PROVE  FALSE
    OBVIOUS
  <1>1. PICK n \in Nat \ S : \A m \in Nat \ S : n <= m
    BY LeastNatural
  <1>2. n - 1 \in Nat /\ n - 1 \in S
    BY <1>1
  <1> QED
    BY <1>1, <1>2

-----------------------------------------------------------------------------
(* The number that digits stand for *)

LEMMA RadixType == Radix \in Nat
  BY DigitsAssumption, FS_CardinalityType DEF Radix, Digits

LEMMA Product ==
    ASSUME NEW a \in Nat, NEW b \in Nat
    PROVE  a * b \in Nat
  OBVIOUS

LEMMA NumeralType ==
    ASSUME NEW s \in Seq(Digits)
    PROVE  Numeral(s) \in Nat
  <1> DEFINE N == 0 .. Len(s)
             Digit(i) == DigitValue[s[i]]
             Extends(f, i) == f[i] = IF i = 0 THEN 0 ELSE f[i - 1] * Radix + Digit(i)
             Begins(m) == \E f \in [0 .. m -> Nat] : \A i \in 0 .. m : Extends(f, i)
             Begun == {m \in Nat : m \in N => Begins(m)}
  <1>1. Len(s) \in Nat /\ \A i \in 1 .. Len(s) : Digit(i) \in Nat
    BY DigitsAssumption DEF Digits
  <1> HIDE DEF Digit
  <1>2. 0 \in Begun
    <2> DEFINE f == [i \in 0 .. 0 |-> 0]
    <2>1. f \in [0 .. 0 -> Nat] /\ \A i \in 0 .. 0 : Extends(f, i)
      OBVIOUS
    <2> QED
      BY <2>1
  <1>3. ASSUME NEW m \in Nat, m \in Begun
        PROVE  m + 1 \in Begun
    <2> HIDE DEF Begins
    <2> SUFFICES ASSUME m + 1 \in N
                 PROVE  Begins(m + 1)
      OBVIOUS
    <2>1. m \in N
      BY <1>1
    <2>2. PICK f \in [0 .. m -> Nat] : \A i \in 0 .. m : Extends(f, i)
      BY <1>3, <2>1 DEF Begins
    <2> DEFINE next == f[m] * Radix + Digit(m + 1)
               g == [i \in 0 .. m + 1 |-> IF i = m + 1 THEN next ELSE f[i]]
    <2>3. f[m] \in Nat /\ Digit(m + 1) \in Nat
      BY <1>1
    <2>4. f[m] * Radix \in Nat
      BY <2>3, RadixType, Product
    <2>5. next \in Nat
      BY <2>3, <2>4
    <2>6. next = f[m] * Radix + Digit(m + 1)
      OBVIOUS
    <2> HIDE DEF next
    <2>7. g \in [0 .. m + 1 -> Nat]
      BY <2>5
    <2>8. ASSUME NEW i \in 0 .. m + 1
          PROVE  Extends(g, i)
      <3>1. CASE i = m + 1
        BY <2>6, <3>1
      <3>2. CASE i # m + 1
        <4>1. i \in 0 .. m /\ (i # 0 => i - 1 \in 0 .. m /\ i - 1 # m + 1)
          BY <3>2
        <4>2. g[i] = f[i] /\ (i # 0 => g[i - 1] = f[i - 1])
          BY <4>1
        <4> QED
          BY <2>2, <4>1, <4>2
      <3> QED
        BY <3>1, <3>2
    <2> QED
      BY <2>7, <2>8 DEF Begins
  <1>4. Len(s) \in Begun
    BY <1>1, <1>2, <1>3, SetInduction
  <1>5. PICK f \in [N -> Nat] : \A i \in N : Extends(f, i)
    BY <1>1, <1>4
  <1> DEFINE Recursive(g) ==
               g = [i \in N |-> IF i = 0 THEN 0 ELSE g[i - 1] * Radix + DigitValue[s[i]]]
             numeral == CHOOSE g : Recursive(g)
  <1>6. Recursive(f)
    BY <1>5 DEF Digit
  <1>7. Recursive(numeral)
    BY <1>6
  <1>8. Numeral(s) = numeral[Len(s)]
    BY DEF Numeral
  <1> HIDE DEF numeral
  <1> DEFINE Good == {m \in Nat : m \in N => numeral[m] \in Nat}
  <1>9. 0 \in Good
    BY <1>7
  <1>10. ASSUME NEW m \in Nat, m \in Good
         PROVE  m + 1 \in Good
    <2> SUFFICES ASSUME m + 1 \in N
                 PROVE  numeral[m + 1] \in Nat
      OBVIOUS
    <2>1. m \in N /\ m + 1 # 0 /\ m + 1 - 1 = m
      BY <1>1
    <2>2. numeral[m] \in Nat /\ Digit(m + 1) \in Nat
      BY <1>1, <1>10, <2>1
    <2>3. numeral[m + 1] = numeral[m] * Radix + Digit(m + 1)
      BY <1>7, <2>1 DEF Digit
    <2>4. numeral[m] * Radix \in Nat
      BY <2>2, RadixType, Product
    <2> QED
      BY <2>2, <2>3, <2>4
  <1>11. Len(s) \in Good
    BY <1>1, <1>9, <1>10, SetInduction
  <1> QED
    BY <1>1, <1>8, <1>11

LEMMA NumeralOfNothing == Numeral(<< >>) = 0
  <1> DEFINE Recursive(g) ==
        g = [i \in 0 .. 0 |-> IF i = 0 THEN 0 ELSE g[i - 1] * Radix + DigitValue[<< >>[i]]]
             numeral == CHOOSE g : Recursive(g)
  <1>1. Len(<< >>) = 0
    OBVIOUS
  <1>2. Recursive([i \in 0 .. 0 |-> 0])
    OBVIOUS
  <1>3. Recursive(numeral)
    BY <1>2
  <1>4. Numeral(<< >>) = numeral[0]
    BY <1>1 DEF Numeral
  <1> HIDE DEF numeral
  <1> QED
    BY <1>3, <1>4

-----------------------------------------------------------------------------
(* Parts of a sequence, and runs of characters in it *)

\* What is left of a part of a sequence when it is cut again
LEMMA PartOfRest ==
    ASSUME NEW S, NEW w \in Seq(S), NEW b \in 1 .. Len(w) + 1
    PROVE  LET r == SubSeq(w, b, Len(w))
           IN  /\ r \in Seq(S) /\ Len(r) = Len(w) - b + 1
               /\ \A i \in 1 .. Len(r) : r[i] = w[b + i - 1]
               /\ \A m \in 1 .. Len(r) + 1 : \A n \in m - 1 .. Len(r) :
                     SubSeq(r, m, n) = SubSeq(w, b + m - 1, b + n - 1)
  <1> DEFINE l == Len(w)
             r == SubSeq(w, b, l)
             c == l - b + 1
  <1>1. l \in Nat /\ b \in 1 .. l + 1 /\ c \in Nat
    OBVIOUS
  <1>2. r \in Seq(S) /\ Len(r) = c /\ \A i \in 1 .. c : r[i] = w[b + i - 1]
    OBVIOUS
  <1>3. \A i \in 1 .. l : w[i] \in S
    OBVIOUS
  <1>4. c = l - b + 1
    OBVIOUS
  <1> HIDE DEF r, l, c
  <1>5. ASSUME NEW m \in 1 .. c + 1, NEW n \in m - 1 .. c
        PROVE  SubSeq(r, m, n) = SubSeq(w, b + m - 1, b + n - 1)
    <2> DEFINE bm == b + m - 1
               bn == b + n - 1
               s == SubSeq(r, m, n)
               t == SubSeq(w, bm, bn)
    <2>1. bm \in Int /\ bn \in Int /\ bn - bm + 1 = n - m + 1
          /\ \A i \in bm .. bn : i \in 1 .. l
      BY <1>1, <1>4
    <2>2. \A i \in 1 .. n - m + 1 : m + i - 1 \in 1 .. c /\ b + (m + i - 1) - 1 = bm + i - 1
      BY <1>1
    <2> HIDE DEF bm, bn
    <2>3. s \in Seq(S) /\ Len(s) = (IF m <= n THEN n - m + 1 ELSE 0)
          /\ \A i \in 1 .. n - m + 1 : s[i] = r[m + i - 1]
      <3>1. \A i \in m .. n : r[i] \in S
        BY <1>1, <1>2
      <3>2. m \in Int /\ n \in Int
        BY <1>1
      <3> QED
        BY <3>1, <3>2, SubSeqProperties
    <2>4. t \in Seq(S) /\ Len(t) = (IF bm <= bn THEN bn - bm + 1 ELSE 0)
          /\ \A i \in 1 .. bn - bm + 1 : t[i] = w[bm + i - 1]
      <3>1. \A i \in bm .. bn : w[i] \in S
        BY <1>3, <2>1
      <3> QED
        BY <2>1, <3>1, SubSeqProperties
    <2> HIDE DEF s, t
    <2>5. Len(s) = n - m + 1 /\ Len(t) = n - m + 1
      BY <1>1, <2>1, <2>3, <2>4
    <2>6. ASSUME NEW i \in 1 .. n - m + 1
          PROVE  s[i] = t[i]
      <3>1. r[m + i - 1] = w[b + (m + i - 1) - 1]
        BY <1>2, <2>2
      <3>2. t[i] = w[bm + i - 1]
        BY <2>1, <2>4
      <3> QED
        BY <2>2, <2>3, <3>1, <3>2
    <2>7. \A i \in 1 .. Len(s) : s[i] = t[i]
      BY <2>5, <2>6
    <2> QED
      BY <2>3, <2>4, <2>5, <2>7, SeqEqual DEF s, t, bm, bn
  <1> QED
    BY <1>2, <1>4, <1>5 DEF r, l

LEMMA RunLengthFound ==
    ASSUME NEW S, NEW s \in Seq(S), NEW chars
    PROVE  /\ RunLength(s, chars) \in 0 .. Len(s)
           /\ \A i \in 1 .. RunLength(s, chars) : s[i] \in chars
           /\ RunLength(s, chars) = Len(s) \/ s[RunLength(s, chars) + 1] \notin chars
  <1> DEFINE Stops == {n \in 0 .. Len(s) : n = Len(s) \/ s[n + 1] \notin chars}
             IsRun(n) == /\ \A i \in 1 .. n : s[i] \in chars
                         /\ n = Len(s) \/ s[n + 1] \notin chars
  <1>1. Len(s) \in Nat
    OBVIOUS
  <1>2. Len(s) \in Stops /\ Stops \in SUBSET Nat
    BY <1>1
  <1>3. PICK n \in Stops : \A m \in Stops : n <= m
    BY <1>2, LeastNatural
  <1>4. ASSUME NEW i \in 1 .. n
        PROVE  s[i] \in chars
    <2>1. i - 1 \in 0 .. Len(s) /\ i - 1 < n /\ i - 1 # Len(s) /\ (i - 1) + 1 = i
      BY <1>1, <1>2
    <2>2. i - 1 \notin Stops
      <3> HIDE DEF Stops
      <3>1. n \in Nat /\ i \in Nat
        BY <1>2
      <3>2. ~(n <= i - 1)
        BY <2>1, <3>1
      <3> QED
        BY <1>3, <3>2
    <2> QED
      BY <2>1, <2>2
  <1>5. n \in 0 .. Len(s) /\ IsRun(n)
    BY <1>4
  <1>6. RunLength(s, chars) = CHOOSE m \in 0 .. Len(s) : IsRun(m)
    BY DEF RunLength
  <1> QED
    BY <1>5, <1>6

AllChars == AddressChars \cup PatternChars

\* What is left of the text from character i on
From(t, i) == SubSeq(t, i, Len(t))

LEMMA RestOfText ==
    ASSUME NEW t \in Seq(AllChars), NEW i \in 1 .. Len(t) + 2
    PROVE  /\ From(t, i) \in Seq(AllChars) /\ (From(t, i) = << >> <=> i > Len(t))
           /\ Ch(From(t, i)) = CharAt(t, i)
           /\ i <= Len(t) + 1 => GetNext(From(t, i)) = From(t, i + 1)
           /\ i <= Len(t) => Tail(From(t, i)) = From(t, i + 1)
  <1> DEFINE l == Len(t)
  <1>1. l \in Nat /\ \A j \in i .. l : t[j] \in AllChars
    OBVIOUS
  <1>2. CASE i > l
    <2>1. From(t, i) = << >> /\ (i = l + 1 => From(t, i + 1) = << >>)
      BY <1>1, <1>2, SubSeqEmpty DEF From
    <2>2. Ch(From(t, i)) = EOT /\ GetNext(From(t, i)) = << >>
      BY <2>1 DEF Ch, GetNext
    <2>3. CharAt(t, i) = EOT
      BY <1>1, <1>2 DEF CharAt
    <2>4. From(t, i) \in Seq(AllChars)
      BY <2>1
    <2> QED
      BY <1>1, <1>2, <2>1, <2>2, <2>3, <2>4
  <1>3. CASE i <= l
    <2>1. i \in 1 .. l /\ l \in i .. l
      BY <1>1, <1>3
    <2>2. Head(From(t, i)) = t[i] /\ Tail(From(t, i)) = From(t, i + 1)
      BY <2>1, HeadTailOfSubSeq DEF From
    <2>3. From(t, i) \in Seq(AllChars) /\ Len(From(t, i)) = l - i + 1
      BY <1>1, <2>1, SubSeqProperties DEF From
    <2>4. From(t, i) # << >>
      BY <2>1, <2>3
    <2>5. Ch(From(t, i)) = t[i] /\ GetNext(From(t, i)) = From(t, i + 1)
      BY <2>2, <2>4 DEF Ch, GetNext
    <2>6. CharAt(t, i) = t[i]
      BY <1>3 DEF CharAt
    <2> QED
      BY <1>1, <1>3, <2>2, <2>3, <2>4, <2>5, <2>6
  <1> QED
    BY <1>1, <1>2, <1>3

\* The characters i to e of the text are of those, and the next one is not.
RunEnds(t, i, e, chars) ==
    /\ e \in i - 1 .. Len(t)
    /\ \A j \in i .. e : t[j] \in chars
    /\ CharAt(t, e + 1) \notin chars

LEMMA RunIsRead ==
    ASSUME NEW t \in Seq(AllChars), NEW i \in 1 .. Len(t) + 1, NEW chars, EOT \notin chars
    PROVE  \E e \in i - 1 .. Len(t) :
              /\ RunEnds(t, i, e, chars)
              /\ Leading(From(t, i), chars) = SubSeq(t, i, e)
              /\ After(From(t, i), chars) = From(t, e + 1)
  <1> DEFINE l == Len(t)
             r == From(t, i)
             n == RunLength(r, chars)
             e == i - 1 + n
  <1>1. /\ r \in Seq(AllChars) /\ Len(r) = l - i + 1
        /\ \A j \in 1 .. Len(r) : r[j] = t[i + j - 1]
        /\ \A m \in 1 .. Len(r) + 1 : \A k \in m - 1 .. Len(r) :
              SubSeq(r, m, k) = SubSeq(t, i + m - 1, i + k - 1)
    <2>1. r = SubSeq(t, i, Len(t))
      BY DEF From
    <2> HIDE DEF r
    <2>2. PICK b \in 1 .. Len(t) + 1 : b = i
      OBVIOUS
    <2>3. LET q == SubSeq(t, b, Len(t))
          IN  /\ q \in Seq(AllChars) /\ Len(q) = Len(t) - b + 1
              /\ \A j \in 1 .. Len(q) : q[j] = t[b + j - 1]
              /\ \A m \in 1 .. Len(q) + 1 : \A k \in m - 1 .. Len(q) :
                    SubSeq(q, m, k) = SubSeq(t, b + m - 1, b + k - 1)
      BY PartOfRest
    <2> QED
      BY <2>1, <2>2, <2>3
  <1>2. l \in Nat /\ i \in 1 .. l + 1
    OBVIOUS
  <1>3. /\ n \in 0 .. Len(r) /\ \A j \in 1 .. n : r[j] \in chars
        /\ n = Len(r) \/ r[n + 1] \notin chars
    BY <1>1, RunLengthFound
  <1>4. Leading(r, chars) = SubSeq(r, 1, n) /\ After(r, chars) = SubSeq(r, n + 1, Len(r))
    BY DEF Leading, After
  <1> HIDE DEF r, n
  <1> DEFINE c == Len(r)
  <1>5. c = l - i + 1 /\ c = Len(r) /\ c \in Nat
    BY <1>1, <1>2
  <1> HIDE DEF c
  <1>6. e \in i - 1 .. l
    BY <1>2, <1>3, <1>5
  <1>7. ASSUME NEW j \in i .. e
        PROVE  t[j] \in chars
    <2>1. j - i + 1 \in 1 .. n /\ j - i + 1 \in 1 .. Len(r) /\ i + (j - i + 1) - 1 = j
      BY <1>1, <1>2, <1>3
    <2>2. r[j - i + 1] = t[i + (j - i + 1) - 1]
      BY <1>1, <2>1
    <2> QED
      BY <1>3, <2>1, <2>2
  <1>8. CharAt(t, e + 1) \notin chars
    <2>1. CASE n = Len(r)
      <3>1. e = l
        BY <1>1, <1>2, <2>1
      <3>2. CharAt(t, e + 1) = EOT
        BY <1>2, <3>1 DEF CharAt
      <3> QED
        BY <3>2
    <2>2. CASE n # Len(r)
      <3>1. n + 1 \in 1 .. Len(r) /\ i + (n + 1) - 1 = e + 1 /\ e + 1 <= l
        <4>1. n \in 0 .. c /\ n # c
          BY <1>3, <1>5, <2>2
        <4>2. n + 1 \in 1 .. c /\ i + (n + 1) - 1 = e + 1 /\ e + 1 <= l
          BY <1>2, <1>5, <4>1
        <4> QED
          BY <1>5, <4>2
      <3>2. r[n + 1] = t[e + 1]
        <4>1. r[n + 1] = t[i + (n + 1) - 1]
          BY <1>1, <3>1
        <4> QED
          BY <3>1, <4>1
      <3>3. CharAt(t, e + 1) = t[e + 1]
        BY <3>1 DEF CharAt
      <3> QED
        BY <1>3, <2>2, <3>2, <3>3
    <2> QED
      BY <2>1, <2>2
  <1>9. Leading(r, chars) = SubSeq(t, i, e)
    <2>1. 1 \in 1 .. Len(r) + 1 /\ n \in 1 - 1 .. Len(r) /\ i + 1 - 1 = i /\ i + n - 1 = e
      BY <1>1, <1>2, <1>3
    <2>2. SubSeq(r, 1, n) = SubSeq(t, i + 1 - 1, i + n - 1)
      BY <1>1, <2>1
    <2> QED
      BY <1>4, <2>1, <2>2
  <1>10. After(r, chars) = From(t, e + 1)
    <2> DEFINE m == n + 1
    <2>1. /\ m \in 1 .. c + 1 /\ c \in m - 1 .. c
          /\ i + m - 1 = e + 1 /\ i + c - 1 = l
      BY <1>2, <1>3, <1>5
    <2>2. m = n + 1
      OBVIOUS
    <2> HIDE DEF m
    <2>3. SubSeq(r, m, c) = SubSeq(t, i + m - 1, i + c - 1)
      BY <1>1, <1>5, <2>1
    <2> QED
      BY <1>4, <1>5, <2>1, <2>2, <2>3 DEF From
  <1> QED
    BY <1>6, <1>7, <1>8, <1>9, <1>10 DEF RunEnds, r

LEMMA OneRun ==
    ASSUME NEW t \in Seq(AllChars), NEW i \in Nat \ {0}, NEW chars, NEW e, NEW f,
           RunEnds(t, i, e, chars), RunEnds(t, i, f, chars)
    PROVE  e = f
  <1>1. Len(t) \in Nat
    OBVIOUS
  <1>2. ASSUME NEW a, NEW b, RunEnds(t, i, a, chars), RunEnds(t, i, b, chars), a < b
        PROVE  FALSE
    <2>1. a \in Int /\ b \in Int /\ a + 1 \in i .. b /\ a + 1 <= Len(t)
      BY <1>1, <1>2 DEF RunEnds
    <2>2. t[a + 1] \in chars
      BY <1>2, <2>1 DEF RunEnds
    <2>3. CharAt(t, a + 1) = t[a + 1]
      BY <2>1 DEF CharAt
    <2> QED
      BY <1>2, <2>2, <2>3 DEF RunEnds
  <1>3. ~(e < f) /\ ~(f < e)
    BY <1>2
  <1>4. e \in Int /\ f \in Int
    BY <1>1 DEF RunEnds
  <1> QED
    BY <1>3, <1>4

-----------------------------------------------------------------------------
(* Writings of an address in a text, whole and in part *)

AllEnds(t) == [1 .. Octets -> 0 .. Len(t)]

\* Where a reader stands that has read k numbers
Position(r, ends, k) ==
    IF k = 0 THEN 1 ELSE IF k = Octets /\ r # "service" THEN ends[k] + 1 ELSE ends[k] + 2

\* The numbers are what the reader makes of the first ones that the text begins with.
ReadFrom(t, r, ends, numbers) == \A k \in 1 .. Len(numbers) :
    /\ WritesNumber(t, ends, k)
    /\ numbers[k] \in Collects(r, Part(t, ends, k)) /\ numbers[k] \in 0 .. MaxOctet
    /\ r = "check" => Part(t, ends, k) # << >>

LEMMA DigitsApart == "." \notin Digits /\ EOT \notin Digits /\ EOT # "."
  BY DigitsAssumption DEF Digits

LEMMA NumberEnds ==
    ASSUME NEW t \in Seq(AllChars), NEW ends \in AllEnds(t), NEW k \in 1 .. Octets,
           WritesNumber(t, ends, k)
    PROVE  /\ Begin(ends, k) \in 1 .. Len(t) + 1
           /\ RunEnds(t, Begin(ends, k), ends[k], Digits)
           /\ k < Octets => ends[k] < Len(t)
  <1>1. Len(t) \in Nat /\ Octets \in Nat
    BY WidthAssumption
  <1>2. ends[k] \in 0 .. Len(t) /\ (k # 1 => ends[k - 1] \in 0 .. Len(t))
    BY <1>1 DEF AllEnds
  <1>3. Begin(ends, k) \in 1 .. Len(t) + 1
    BY <1>1, <1>2 DEF Begin, WritesNumber
  <1>4. ends[k] \in Begin(ends, k) - 1 .. Len(t)
    BY <1>1, <1>2, <1>3 DEF WritesNumber
  <1>5. CharAt(t, ends[k] + 1) \notin Digits
    BY DigitsApart DEF WritesNumber
  <1>6. k < Octets => ends[k] < Len(t)
    <2> SUFFICES ASSUME k < Octets, ~(ends[k] + 1 <= Len(t))
                 PROVE  FALSE
      BY <1>1, <1>2
    <2>1. CharAt(t, ends[k] + 1) = EOT
      BY DEF CharAt
    <2> QED
      BY <2>1, DigitsApart DEF WritesNumber
  <1> QED
    BY <1>3, <1>4, <1>5, <1>6 DEF RunEnds, WritesNumber

\* A text has one writing at most, as far as it goes.
LEMMA OneWriting ==
    ASSUME NEW t \in Seq(AllChars), NEW e \in AllEnds(t), NEW f \in AllEnds(t), NEW n \in 0 .. Octets,
           \A k \in 1 .. n : WritesNumber(t, e, k), \A k \in 1 .. n : WritesNumber(t, f, k)
    PROVE  \A k \in 1 .. n : e[k] = f[k]
  <1> DEFINE Differ == {k \in 1 .. n : e[k] # f[k]}
  <1> SUFFICES ASSUME Differ # {}
               PROVE  FALSE
    OBVIOUS
  <1>1. Octets \in Nat /\ n \in Nat
    BY WidthAssumption
  <1>2. PICK k \in Differ : \A m \in Differ : k <= m
    <2>1. Differ \in SUBSET Nat
      BY <1>1
    <2> QED
      BY <2>1, LeastNatural
  <1>3. k \in 1 .. n /\ k \in 1 .. Octets /\ k \in Nat
    BY <1>1
  <1>4. Begin(e, k) = Begin(f, k)
    <2>1. CASE k = 1
      BY <2>1 DEF Begin
    <2>2. CASE k # 1
      <3>1. k - 1 \in 1 .. n /\ ~(k <= k - 1)
        BY <1>1, <1>3, <2>2
      <3>2. k - 1 \notin Differ
        <4> HIDE DEF Differ
        <4> QED
          BY <1>2, <3>1
      <3>3. e[k - 1] = f[k - 1]
        BY <3>1, <3>2
      <3> QED
        BY <2>2, <3>3 DEF Begin
    <2> QED
      BY <2>1, <2>2
  <1>5. WritesNumber(t, e, k) /\ WritesNumber(t, f, k)
    BY <1>3
  <1>6. RunEnds(t, Begin(e, k), e[k], Digits) /\ RunEnds(t, Begin(e, k), f[k], Digits)
        /\ Begin(e, k) \in Nat \ {0}
    BY <1>3, <1>4, <1>5, NumberEnds
  <1>7. e[k] = f[k]
    BY <1>6, OneRun
  <1> QED
    BY <1>2, <1>7

LEMMA SamePosition ==
    ASSUME NEW e, NEW f, NEW n \in Nat, \A k \in 1 .. n : e[k] = f[k], NEW r
    PROVE  /\ n # 0 => Begin(e, n + 1) = Begin(f, n + 1)
           /\ Position(r, e, n) = Position(r, f, n)
  BY DEF Begin, Position

\* A reader that has not come to the last number stands at the beginning of the next.
LEMMA PositionOfNumber ==
    ASSUME NEW t \in Seq(AllChars), NEW ends \in AllEnds(t), NEW k \in 0 .. Octets - 1, NEW r,
           \A i \in 1 .. k : WritesNumber(t, ends, i)
    PROVE  Position(r, ends, k) = Begin(ends, k + 1) /\ Position(r, ends, k) \in 1 .. Len(t) + 1
  <1>1. Octets \in Nat /\ k \in Nat /\ k # Octets /\ Len(t) \in Nat
    BY WidthAssumption
  <1>2. Position(r, ends, k) = Begin(ends, k + 1)
    BY <1>1 DEF Position, Begin
  <1>3. CASE k = 0
    BY <1>1, <1>2, <1>3 DEF Position
  <1>4. CASE k # 0
    <2>1. k \in 1 .. Octets /\ k < Octets /\ k \in 1 .. k
      BY <1>1, <1>4
    <2>2. ends[k] < Len(t) /\ ends[k] \in 0 .. Len(t)
      BY <2>1, NumberEnds DEF AllEnds
    <2> QED
      BY <1>1, <1>2, <1>4, <2>2 DEF Position
  <1> QED
    BY <1>2, <1>3, <1>4

\* The next number is read to its end, and can be added to the writing.
LEMMA NextNumber ==
    ASSUME NEW t \in Seq(AllChars), NEW ends \in AllEnds(t), NEW k \in 0 .. Octets - 1,
           NEW r \in AddressReaders, \A i \in 1 .. k : WritesNumber(t, ends, i)
    PROVE  LET s == From(t, Position(r, ends, k))
           IN  \E e \in 0 .. Len(t) :
                  LET more == [ends EXCEPT ![k + 1] = e]
                  IN  /\ more \in AllEnds(t) /\ \A i \in 1 .. k : more[i] = ends[i]
                      /\ RunEnds(t, Begin(ends, k + 1), e, Digits)
                      /\ Begin(more, k + 1) = Begin(ends, k + 1) /\ more[k + 1] = e
                      /\ Leading(s, Digits) = Part(t, more, k + 1)
                      /\ After(s, Digits) = From(t, e + 1)
  <1> DEFINE b == Begin(ends, k + 1)
  <1>1. Octets \in Nat /\ k \in Nat /\ Len(t) \in Nat /\ k + 1 \in 1 .. Octets
    BY WidthAssumption
  <1>2. Position(r, ends, k) = b /\ b \in 1 .. Len(t) + 1
    BY PositionOfNumber
  <1>3. EOT \notin Digits
    BY DigitsApart
  <1>4. PICK e \in b - 1 .. Len(t) :
           /\ RunEnds(t, b, e, Digits)
           /\ Leading(From(t, b), Digits) = SubSeq(t, b, e)
           /\ After(From(t, b), Digits) = From(t, e + 1)
    <2> HIDE DEF b
    <2> QED
      BY <1>2, <1>3, RunIsRead
  <1> DEFINE more == [ends EXCEPT ![k + 1] = e]
  <1>5. e \in 0 .. Len(t)
    <2> HIDE DEF b
    <2> QED
      BY <1>1, <1>2
  <1>6. more \in AllEnds(t) /\ more[k + 1] = e
    BY <1>1, <1>5 DEF AllEnds
  <1>7. ASSUME NEW i \in 1 .. k
        PROVE  more[i] = ends[i]
    <2>1. i \in 1 .. Octets /\ i # k + 1
      BY <1>1
    <2> QED
      BY <2>1 DEF AllEnds
  <1>8. Begin(more, k + 1) = b
    <2>1. k # 0 => k \in 1 .. k /\ k + 1 - 1 = k /\ k + 1 # 1
      BY <1>1
    <2>2. k # 0 => more[k] = ends[k]
      BY <1>7, <2>1
    <2> HIDE DEF more
    <2> QED
      BY <1>1, <2>1, <2>2 DEF Begin
  <1>9. Part(t, more, k + 1) = SubSeq(t, b, e)
    BY <1>6, <1>8 DEF Part
  <1> QED
    BY <1>2, <1>4, <1>5, <1>6, <1>7, <1>8, <1>9

LEMMA WritingsAreEnds ==
    ASSUME NEW t
    PROVE  \A ends : ends \in Writings(t) <=>
              ends \in AllEnds(t) /\ \A k \in 1 .. Octets : WritesNumber(t, ends, k)
  BY DEF Writings, AllEnds

\* Without an overflow every reader makes the same of a number.
LEMMA NumberIsCollected ==
    ASSUME NEW t \in Seq(AllChars), ~Overflows(t), NEW r \in AddressReaders,
           NEW b \in 1 .. Len(t) + 1, NEW e, RunEnds(t, b, e, Digits)
    PROVE  LET part == SubSeq(t, b, e)
           IN  Numeral(part) \in Nat /\ Collects(r, part) = {Numeral(part)}
  <1> DEFINE part == SubSeq(t, b, e)
             n == Numeral(part)
  <1>1. Len(t) \in Nat /\ b \in Nat /\ e \in b - 1 .. Len(t) /\ b \in Int /\ e \in Int
    BY DEF RunEnds
  <1>2. part \in Seq(Digits)
    BY <1>1, SubSeqProperties DEF RunEnds
  <1>3. n \in Nat
    BY <1>2, NumeralType
  <1>4. n <= IntMax
    <2>1. CASE e < b
      <3>1. part = << >>
        BY <1>1, <2>1, SubSeqEmpty
      <3>2. n = 0
        BY <3>1, NumeralOfNothing
      <3> QED
        BY <3>2, WidthAssumption
    <2>2. CASE ~(e < b)
      <3>1. b \in 1 .. Len(t) /\ e \in 1 .. Len(t)
        BY <1>1, <2>2
      <3>2. ~(n > IntMax)
        BY <3>1 DEF Overflows, RunEnds
      <3> QED
        BY <1>3, <3>2, WidthAssumption
    <2> QED
      BY <2>1, <2>2
  <1> HIDE DEF n
  <1>5. n % SizeMod = n
    <2>1. n \in Nat /\ SizeMod \in Nat /\ n < SizeMod
      BY <1>3, <1>4, WidthAssumption
    <2> QED
      BY <2>1
  <1>6. Collects(r, part) = {n}
    BY <1>4, <1>5 DEF Collects, n
  <1> QED
    BY <1>3, <1>6 DEF n

\* Within an address every reader finds a number that is an octet, and a dot behind
\* each but the last.
LEMMA AddressAhead ==
    ASSUME NEW t \in Seq(AllChars), IsAddress(t), NEW ends \in AllEnds(t), NEW k \in 0 .. Octets - 1,
           \A i \in 1 .. k : WritesNumber(t, ends, i),
           NEW e, RunEnds(t, Begin(ends, k + 1), e, Digits)
    PROVE  LET part == SubSeq(t, Begin(ends, k + 1), e)
           IN  /\ part # << >> /\ Numeral(part) \in 0 .. MaxOctet
               /\ k + 1 < Octets => CharAt(t, e + 1) = "."
  <1>1. Octets \in Nat /\ k \in Nat /\ k \in 0 .. Octets /\ Len(t) \in Nat /\ k + 1 \in 1 .. Octets
    BY WidthAssumption
  <1>2. PICK w \in AllEnds(t) :
           /\ \A i \in 1 .. Octets : WritesNumber(t, w, i)
           /\ \A i \in 1 .. Octets :
                 Part(t, w, i) # << >> /\ Numbers(t, w)[i] \in 0 .. MaxOctet
    BY WritingsAreEnds DEF IsAddress
  <1>3. \A i \in 1 .. k : ends[i] = w[i]
    <2>1. \A i \in 1 .. k : WritesNumber(t, w, i)
      BY <1>1, <1>2
    <2> QED
      BY <1>1, <2>1, OneWriting
  <1>4. Begin(ends, k + 1) = Begin(w, k + 1)
    <2>1. CASE k = 0
      BY <2>1 DEF Begin
    <2>2. CASE k # 0
      BY <1>1, <1>3, <2>2, SamePosition
    <2> QED
      BY <2>1, <2>2
  <1>5. RunEnds(t, Begin(w, k + 1), w[k + 1], Digits) /\ Begin(w, k + 1) \in Nat \ {0}
    BY <1>1, <1>2, NumberEnds
  <1>6. e = w[k + 1]
    BY <1>4, <1>5, OneRun
  <1>7. SubSeq(t, Begin(ends, k + 1), e) = Part(t, w, k + 1)
    BY <1>4, <1>6 DEF Part
  <1>8. Part(t, w, k + 1) # << >> /\ Numbers(t, w)[k + 1] \in 0 .. MaxOctet
    BY <1>1, <1>2
  <1>9. Numbers(t, w)[k + 1] = Numeral(Part(t, w, k + 1))
    BY <1>1 DEF Numbers
  <1>10. k + 1 < Octets => CharAt(t, e + 1) = "."
    BY <1>1, <1>2, <1>6 DEF WritesNumber
  <1> QED
    BY <1>7, <1>8, <1>9, <1>10

LEMMA AddressEnds ==
    ASSUME NEW t \in Seq(AllChars), IsAddress(t), NEW ends \in Writings(t)
    PROVE  CharAt(t, ends[Octets] + 1) = EOT
  <1>1. PICK w \in Writings(t) : CharAt(t, w[Octets] + 1) = EOT
    BY DEF IsAddress
  <1>2. Octets \in 1 .. Octets /\ Octets \in 0 .. Octets
    BY WidthAssumption
  <1>3. ends[Octets] = w[Octets]
    BY <1>2, OneWriting, WritingsAreEnds
  <1> QED
    BY <1>1, <1>3

\* Two readers that reach the end of a number read the same of it.
LEMMA SameNumbers ==
    ASSUME NEW t \in Seq(AllChars), ~Overflows(t), NEW r \in AddressReaders,
           NEW ends \in AllEnds(t), NEW v \in Seq(0 .. MaxOctet), Len(v) = Octets,
           ReadFrom(t, r, ends, v)
    PROVE  ends \in Writings(t) /\ v = Numbers(t, ends)
  <1>1. Octets \in Nat /\ Len(t) \in Nat
    BY WidthAssumption
  <1>2. \A k \in 1 .. Octets : WritesNumber(t, ends, k) /\ v[k] \in Collects(r, Part(t, ends, k))
    BY DEF ReadFrom
  <1>3. ends \in Writings(t)
    BY <1>2, WritingsAreEnds
  <1>4. ASSUME NEW k \in 1 .. Octets
        PROVE  v[k] = Numeral(Part(t, ends, k))
    <2>1. Begin(ends, k) \in 1 .. Len(t) + 1 /\ RunEnds(t, Begin(ends, k), ends[k], Digits)
      BY <1>2, NumberEnds
    <2>2. Collects(r, Part(t, ends, k)) = {Numeral(Part(t, ends, k))}
      BY <2>1, NumberIsCollected DEF Part
    <2> QED
      BY <1>2, <2>2
  <1>5. v = [k \in 1 .. Octets |-> v[k]]
    OBVIOUS
  <1>6. v = Numbers(t, ends)
    BY <1>4, <1>5 DEF Numbers
  <1> QED
    BY <1>3, <1>6

LEMMA SameWriting ==
    ASSUME NEW t \in Seq(AllChars), NEW e \in Writings(t), NEW f \in Writings(t)
    PROVE  e = f
  <1>1. Octets \in 0 .. Octets
    BY WidthAssumption
  <1>2. e \in AllEnds(t) /\ f \in AllEnds(t) /\ \A k \in 1 .. Octets : e[k] = f[k]
    BY <1>1, OneWriting, WritingsAreEnds
  <1>3. e = [k \in 1 .. Octets |-> e[k]] /\ f = [k \in 1 .. Octets |-> f[k]]
    BY <1>2 DEF AllEnds
  <1> QED
    BY <1>2, <1>3

-----------------------------------------------------------------------------
(* The inductive invariant *)

TypeKept ==
    /\ text \in Seq(AllChars) /\ reader \in Readers \cup {"none"}
    /\ accepted \subseteq Readers /\ refused \subseteq Readers /\ broken \subseteq AddressReaders
    /\ value = [r \in Readers |-> value[r]]

\* What a reader of addresses has read is what the text begins with, and the rest is
\* what it has not read.
AddressKept == reader \in AddressReaders =>
    /\ read \in Seq(0 .. MaxOctet) /\ Len(read) <= Octets
    /\ \E ends \in AllEnds(text) :
          ReadFrom(text, reader, ends, read) /\ rest = From(text, Position(reader, ends, Len(read)))

\* What was accepted is written from the beginning of the text to its end, as far as
\* the reader looks.
WrittenAs(t, r, v) ==
    /\ v \in Seq(0 .. MaxOctet) /\ Len(v) = Octets
    /\ \E ends \in AllEnds(t) :
          /\ ReadFrom(t, r, ends, v)
          /\ r # "constructor" => CharAt(t, Position(r, ends, Octets)) = EOT
AcceptedKept == \A r \in AddressReaders \ {"mask"} :
    r \in accepted => WrittenAs(text, r, value[r])

BrokenKept == broken # {} => Writings(text) # {}

\* The readers that an address does not stop
AddressPasses == IsAddress(text) /\ ~Overflows(text) =>
    /\ {"check", "constructor"} \cap (refused \cup broken) = {}
    /\ "service" \in refused \cup broken => \E i \in 1 .. Len(text) : text[i] = EOT

\* Who has read before whom
ended == accepted \cup refused \cup broken
OrderKept ==
    /\ reader \in {"check", "pattern"} => ended = {}
    /\ reader = "constructor" => "check" \in accepted
    /\ reader = "service" \/ "service" \in ended =>
          "check" \in ended /\ ("check" \in accepted => "constructor" \in ended)

\* What the pattern's reader has read is written in the text up to where it stands.
Elems == [fixed : BOOLEAN, word : Seq(AllChars)]
ReadPattern(t, elements, n) ==
    /\ \A c \in 1 .. n : t[c] # EOT
    /\ \E at \in [DOMAIN elements -> 1 .. Len(t)] : WrittenIn(t, elements, at, n)
PatternKept == reader = "pattern" =>
    /\ read \in Seq(Elems)
    /\ \E n \in 0 .. Len(text) : rest = From(text, n + 1) /\ ReadPattern(text, read, n)

\* Octets that may be in a mask, nothing behind one that is not full: those of a text
\* that is accepted, and not those of the mask, which its constructor leaves alone
MaskSoFar(v) == \A k \in 1 .. Len(v) : v[k] \in MaskOctets /\ (k < Len(v) => v[k] = MaxOctet)
MaskKept ==
    /\ reader = "mask" => MaskSoFar(read)
    /\ "mask" \in accepted => \E v : WrittenAs(text, "mask", v) /\ MaskSoFar(v)

IInv ==
    /\ TypeKept /\ OrderKept
    /\ AddressKept /\ AcceptedKept /\ BrokenKept /\ AddressPasses
    /\ PatternKept /\ PatternIsKept
    /\ MaskKept

-----------------------------------------------------------------------------
(* The beginning, and the change from one reader to the next *)

LEMMA WholeText ==
    ASSUME NEW t \in Seq(AllChars)
    PROVE  From(t, 1) = t
  BY DEF From

LEMMA NothingRead ==
    ASSUME NEW t \in Seq(AllChars), NEW r
    PROVE  /\ << >> \in Seq(0 .. MaxOctet) /\ Len(<< >>) = 0
           /\ \E ends \in AllEnds(t) :
                 ReadFrom(t, r, ends, << >>) /\ t = From(t, Position(r, ends, Len(<< >>)))
  <1>1. Len(<< >>) = 0 /\ << >> \in Seq(0 .. MaxOctet)
    OBVIOUS
  <1> DEFINE ends == [k \in 1 .. Octets |-> 0]
  <1>2. ends \in AllEnds(t)
    BY DEF AllEnds
  <1> HIDE DEF ends
  <1>3. ReadFrom(t, r, ends, << >>)
    BY <1>1 DEF ReadFrom
  <1>4. t = From(t, Position(r, ends, 0))
    BY WholeText DEF Position
  <1> QED
    BY <1>1, <1>2, <1>3, <1>4

LEMMA NoElementRead ==
    ASSUME NEW t \in Seq(AllChars)
    PROVE  /\ << >> \in Seq(Elems) /\ 0 \in 0 .. Len(t)
           /\ t = From(t, 0 + 1) /\ ReadPattern(t, << >>, 0)
  <1>1. << >> \in Seq(Elems) /\ 0 \in 0 .. Len(t) /\ DOMAIN << >> = {}
    OBVIOUS
  <1> DEFINE at == [i \in {} |-> 1]
  <1>2. at \in [DOMAIN << >> -> 1 .. Len(t)]
    BY <1>1
  <1>3. WrittenIn(t, << >>, at, 0)
    BY DEF WrittenIn
  <1>4. ReadPattern(t, << >>, 0)
    <2> HIDE DEF at
    <2>1. \A c \in 1 .. 0 : t[c] # EOT
      OBVIOUS
    <2> QED
      BY <1>2, <1>3, <2>1, Zenon DEF ReadPattern
  <1>5. t = From(t, 0 + 1)
    BY WholeText
  <1> QED
    BY <1>1, <1>4, <1>5

LEMMA InitEstablishesIInv == Init => IInv
  <1> SUFFICES ASSUME Init
               PROVE  IInv
    OBVIOUS
  <1>1. text \in Seq(AllChars)
    <2>1. \A S, n : SeqOf(S, n) \subseteq Seq(S)
      BY DEF SeqOf
    <2>2. text \in Seq(AddressChars) \/ text \in Seq(PatternChars) \/ text = << >>
      BY <2>1 DEF Init
    <2>3. Seq(AddressChars) \subseteq Seq(AllChars) /\ Seq(PatternChars) \subseteq Seq(AllChars)
      BY DEF AllChars
    <2>4. << >> \in Seq(AllChars)
      OBVIOUS
    <2>5. CASE text = << >>
      BY <2>4, <2>5
    <2>6. CASE text \in Seq(AddressChars) \/ text \in Seq(PatternChars)
      BY <2>3, <2>6
    <2> QED
      BY <2>2, <2>5, <2>6
  <1>2. TypeKept
    BY <1>1 DEF Init, TypeKept, Readers, AddressReaders
  <1>3. OrderKept
    BY DEF Init, OrderKept, ended
  <1>4. AddressKept
    <2>1. Octets \in Nat /\ rest = text /\ read = << >>
      BY WidthAssumption DEF Init
    <2>2. /\ << >> \in Seq(0 .. MaxOctet) /\ Len(<< >>) = 0
          /\ \E ends \in AllEnds(text) : ReadFrom(text, reader, ends, << >>)
                /\ text = From(text, Position(reader, ends, Len(<< >>)))
      BY <1>1, NothingRead
    <2> QED
      BY <2>1, <2>2 DEF AddressKept
  <1>5. AcceptedKept /\ BrokenKept /\ AddressPasses /\ PatternIsKept /\ MaskKept
    BY DEF Init, AcceptedKept, BrokenKept, AddressPasses, PatternIsKept, MaskKept
  <1>6. PatternKept
    BY <1>1, NoElementRead DEF Init, PatternKept
  <1> QED
    BY <1>2, <1>3, <1>4, <1>5, <1>6 DEF IInv

\* The next reader begins at the beginning.
LEMMA NextReadsKeeps ==
    ASSUME TypeKept, reader \in Readers, NEW ok, NextReads(ok)
    PROVE  /\ text' = text /\ reader' = Successor(reader, ok)
           /\ reader' \in {"constructor", "service", "mask", "prefix", "none"}
           /\ AddressKept' /\ PatternKept' /\ MaskSoFar(read')
  <1>1. text' = text /\ rest' = text /\ read' = << >> /\ reader' = Successor(reader, ok)
    BY DEF NextReads
  <1>2. reader' \in {"constructor", "service", "mask", "prefix", "none"}
    BY <1>1 DEF Successor
  <1>3. AddressKept'
    <2>1. Octets \in Nat /\ text \in Seq(AllChars)
      BY WidthAssumption DEF TypeKept
    <2>2. /\ << >> \in Seq(0 .. MaxOctet) /\ Len(<< >>) = 0
          /\ \E ends \in AllEnds(text) : ReadFrom(text, reader', ends, << >>)
                /\ text = From(text, Position(reader', ends, Len(<< >>)))
      BY <2>1, NothingRead
    <2> QED
      BY <1>1, <2>1, <2>2 DEF AddressKept
  <1>4. PatternKept'
    BY <1>2 DEF PatternKept
  <1>5. MaskSoFar(<< >>)
    <2>1. Len(<< >>) = 0
      OBVIOUS
    <2> QED
      BY <2>1 DEF MaskSoFar
  <1> QED
    BY <1>1, <1>2, <1>3, <1>4, <1>5

\* A reader that stops keeps the invariant, if an address would not have stopped it.
LEMMA StopKeeps ==
    ASSUME IInv, reader \in Readers, Ended(FALSE), UNCHANGED <<accepted, value>>,
           \/ refused' = refused \cup {reader} /\ broken' = broken
           \/ /\ broken' = broken \cup {reader} /\ refused' = refused
              /\ reader \in AddressReaders /\ Writings(text) # {},
           IsAddress(text) /\ ~Overflows(text) =>
              /\ reader \notin {"check", "constructor"}
              /\ reader = "service" => \E i \in 1 .. Len(text) : text[i] = EOT
    PROVE  IInv'
  <1>1. /\ text' = text /\ reader' = Successor(reader, FALSE)
        /\ reader' \in {"constructor", "service", "mask", "prefix", "none"}
        /\ AddressKept' /\ PatternKept' /\ MaskSoFar(read')
    BY NextReadsKeeps DEF IInv, Ended
  <1>2. TypeKept'
    <2>1. refused' \subseteq Readers /\ broken' \subseteq AddressReaders
      BY DEF IInv, TypeKept
    <2> QED
      BY <1>1, <2>1 DEF IInv, TypeKept, Readers, AddressReaders
  <1>3. OrderKept'
    <2>1. ended' = ended \cup {reader}
      BY DEF ended
    <2> QED
      BY <1>1, <2>1 DEF IInv, OrderKept, Successor, ended
  <1>4. AcceptedKept'
    BY <1>1 DEF IInv, AcceptedKept
  <1>5. BrokenKept'
    BY <1>1 DEF IInv, BrokenKept
  <1>6. AddressPasses'
    BY <1>1 DEF IInv, AddressPasses
  <1>7. PatternIsKept' /\ MaskKept'
    BY <1>1 DEF IInv, PatternIsKept, MaskKept
  <1> QED
    BY <1>1, <1>2, <1>3, <1>4, <1>5, <1>6, <1>7 DEF IInv

PatternWritten(t, v) == \E n \in 0 .. Len(t) :
    CharAt(t, n + 1) = EOT /\ ReadPattern(t, v, n)

\* So does one that accepts what is written.
LEMMA AcceptKeeps ==
    ASSUME IInv, reader \in Readers, NextReads(TRUE), UNCHANGED <<refused, broken>>,
           accepted' = accepted \cup {reader}, NEW v, value' = [value EXCEPT ![reader] = v],
           reader \in AddressReaders \ {"mask"} => WrittenAs(text, reader, v),
           reader = "pattern" => PatternWritten(text, v),
           reader = "mask" => \E w : WrittenAs(text, "mask", w) /\ MaskSoFar(w)
    PROVE  IInv'
  <1>1. /\ text' = text /\ reader' = Successor(reader, TRUE)
        /\ reader' \in {"constructor", "service", "mask", "prefix", "none"}
        /\ AddressKept' /\ PatternKept' /\ MaskSoFar(read')
    BY NextReadsKeeps DEF IInv
  <1>2. value'[reader] = v /\ (\A r \in Readers \ {reader} : value'[r] = value[r])
        /\ value' = [r \in Readers |-> value'[r]]
    BY DEF IInv, TypeKept
  <1>3. TypeKept'
    <2>1. accepted' \subseteq Readers
      BY DEF IInv, TypeKept
    <2> QED
      BY <1>1, <1>2, <2>1 DEF IInv, TypeKept, Readers, AddressReaders
  <1>4. OrderKept'
    <2>1. ended' = ended \cup {reader}
      BY DEF ended
    <2> QED
      BY <1>1, <2>1 DEF IInv, OrderKept, Successor, ended
  <1>5. AcceptedKept'
    <2>1. AddressReaders \subseteq Readers
      BY DEF Readers
    <2>2. ASSUME NEW r \in AddressReaders \ {"mask"}, r \in accepted'
          PROVE  WrittenAs(text, r, value'[r])
      BY <1>2, <2>1, <2>2 DEF IInv, AcceptedKept
    <2> QED
      BY <1>1, <2>2 DEF AcceptedKept
  <1>6. BrokenKept' /\ AddressPasses'
    BY <1>1 DEF IInv, BrokenKept, AddressPasses
  <1>7. PatternIsKept'
    <2>1. "pattern" \in Readers
      BY DEF Readers
    <2>2. "pattern" \in accepted' => PatternWritten(text, value'["pattern"])
      <3>1. CASE reader = "pattern"
        BY <1>2, <3>1
      <3>2. CASE reader # "pattern"
        BY <1>2, <2>1, <3>2 DEF IInv, PatternIsKept, PatternWritten, ReadPattern
      <3> QED
        BY <3>1, <3>2
    <2> QED
      BY <1>1, <2>2 DEF PatternIsKept, PatternWritten, ReadPattern
  <1>8. MaskKept'
    BY <1>1 DEF IInv, MaskKept
  <1> QED
    BY <1>1, <1>3, <1>4, <1>5, <1>6, <1>7, <1>8 DEF IInv

-----------------------------------------------------------------------------
(* The readers of addresses *)

\* What a reader that has not come to the last number has before it
LEMMA OctetAhead ==
    ASSUME IInv, AtOctet
    PROVE  /\ Len(read) \in 0 .. Octets - 1 /\ Octets \in Nat /\ text \in Seq(AllChars)
           /\ \E ends, more \in AllEnds(text) : \E e \in 0 .. Len(text) :
                 /\ ReadFrom(text, reader, ends, read)
                 /\ \A i \in 1 .. Len(read) : WritesNumber(text, ends, i) /\ more[i] = ends[i]
                 /\ RunEnds(text, Begin(ends, Len(read) + 1), e, Digits)
                 /\ more[Len(read) + 1] = e
                 /\ Begin(more, Len(read) + 1) = Begin(ends, Len(read) + 1)
                 /\ Number = SubSeq(text, Begin(ends, Len(read) + 1), e)
                 /\ AfterNumber = From(text, e + 1) /\ Ch(AfterNumber) = CharAt(text, e + 1)
  <1>1. text \in Seq(AllChars) /\ reader \in AddressReaders /\ read \in Seq(0 .. MaxOctet)
        /\ Len(read) < Octets
    BY DEF IInv, TypeKept, AddressKept, AtOctet
  <1>2. Len(read) \in 0 .. Octets - 1 /\ Octets \in Nat
    BY <1>1, WidthAssumption
  <1> DEFINE k == Len(read)
  <1>3. PICK ends \in AllEnds(text) :
           ReadFrom(text, reader, ends, read) /\ rest = From(text, Position(reader, ends, k))
    BY <1>1 DEF IInv, AddressKept
  <1>4. \A i \in 1 .. k : WritesNumber(text, ends, i)
    BY <1>3 DEF ReadFrom
  <1>5. k \in 0 .. Octets - 1
    BY <1>2
  <1> HIDE DEF k
  <1>6. LET s == From(text, Position(reader, ends, k))
         IN  \E e \in 0 .. Len(text) :
                LET more == [ends EXCEPT ![k + 1] = e]
                IN  /\ more \in AllEnds(text) /\ \A i \in 1 .. k : more[i] = ends[i]
                    /\ RunEnds(text, Begin(ends, k + 1), e, Digits)
                    /\ Begin(more, k + 1) = Begin(ends, k + 1) /\ more[k + 1] = e
                    /\ Leading(s, Digits) = Part(text, more, k + 1)
                    /\ After(s, Digits) = From(text, e + 1)
    <2>1. PICK t \in Seq(AllChars) : t = text
      BY <1>1
    <2>2. PICK r \in AddressReaders : r = reader
      BY <1>1
    <2>3. LET s == From(t, Position(r, ends, k))
           IN  \E e \in 0 .. Len(t) :
                  LET more == [ends EXCEPT ![k + 1] = e]
                  IN  /\ more \in AllEnds(t) /\ \A i \in 1 .. k : more[i] = ends[i]
                      /\ RunEnds(t, Begin(ends, k + 1), e, Digits)
                      /\ Begin(more, k + 1) = Begin(ends, k + 1) /\ more[k + 1] = e
                      /\ Leading(s, Digits) = Part(t, more, k + 1)
                      /\ After(s, Digits) = From(t, e + 1)
      <3>1. \A i \in 1 .. k : WritesNumber(t, ends, i)
        BY <1>4, <2>1
      <3>2. ends \in AllEnds(t)
        BY <2>1
      <3> QED
        BY <1>5, <3>1, <3>2, NextNumber
    <2> QED
      BY <2>1, <2>2, <2>3
  <1>7. PICK e \in 0 .. Len(text) :
           LET more == [ends EXCEPT ![k + 1] = e]
           IN  /\ more \in AllEnds(text) /\ \A i \in 1 .. k : more[i] = ends[i]
               /\ RunEnds(text, Begin(ends, k + 1), e, Digits)
               /\ Begin(more, k + 1) = Begin(ends, k + 1) /\ more[k + 1] = e
               /\ Leading(rest, Digits) = Part(text, more, k + 1)
               /\ After(rest, Digits) = From(text, e + 1)
    BY <1>3, <1>6
  <1> DEFINE more == [ends EXCEPT ![k + 1] = e]
  <1>8. Number = SubSeq(text, Begin(ends, k + 1), e)
    BY <1>7 DEF Number, Part
  <1>9. AfterNumber = From(text, e + 1)
    BY <1>7 DEF AfterNumber
  <1>10. Ch(From(text, e + 1)) = CharAt(text, e + 1)
    <2>1. e + 1 \in 1 .. Len(text) + 2
      BY <1>1
    <2> QED
      BY <1>1, <2>1, RestOfText
  <1>11. more \in AllEnds(text) /\ \A i \in 1 .. k : WritesNumber(text, ends, i) /\ more[i] = ends[i]
    BY <1>4, <1>7
  <1>12. Begin(more, k + 1) = Begin(ends, k + 1) /\ more[k + 1] = e
         /\ RunEnds(text, Begin(ends, k + 1), e, Digits)
    BY <1>7
  <1> HIDE DEF more
  <1> QED
    BY <1>1, <1>2, <1>3, <1>8, <1>9, <1>10, <1>11, <1>12 DEF k

\* A mask goes on behind a full octet only.
LEMMA OctetAppended ==
    ASSUME NEW v \in Seq(0 .. MaxOctet), MaskSoFar(v), NEW n \in MaskOctets,
           v # << >> => Last(v) = MaxOctet
    PROVE  MaskSoFar(Append(v, n))
  <1>1. PICK l \in Nat : l = Len(v)
    OBVIOUS
  <1>2. Len(Append(v, n)) = l + 1 /\ Append(v, n)[l + 1] = n
        /\ \A k \in 1 .. l : Append(v, n)[k] = v[k]
    BY <1>1
  <1>3. l # 0 => v[l] = MaxOctet
    BY <1>1 DEF Last
  <1>4. ASSUME NEW k \in 1 .. l + 1
        PROVE  Append(v, n)[k] \in MaskOctets /\ (k < l + 1 => Append(v, n)[k] = MaxOctet)
    <2>1. CASE k = l + 1
      BY <1>2, <2>1
    <2>2. CASE k # l + 1
      <3>1. k \in 1 .. l
        BY <2>2
      <3>2. v[k] \in MaskOctets /\ (k < l => v[k] = MaxOctet)
        BY <1>1, <3>1 DEF MaskSoFar
      <3>3. v[k] = MaxOctet
        BY <1>3, <3>1, <3>2
      <3> QED
        BY <1>2, <3>1, <3>2, <3>3
    <2> QED
      BY <2>1, <2>2
  <1> QED
    BY <1>2, <1>4 DEF MaskSoFar

LEMMA ReadOctetKeeps ==
    ASSUME IInv, ReadOctet
    PROVE  IInv'
  <1>1. AtOctet /\ UNCHANGED <<text, prefix, reader, accepted, refused, broken, value>>
    BY DEF ReadOctet, input, outcome
  <1>2. TypeKept' /\ OrderKept' /\ AcceptedKept' /\ BrokenKept' /\ AddressPasses' /\ PatternIsKept'
    BY <1>1 DEF IInv, TypeKept, OrderKept, ended, AcceptedKept, BrokenKept, AddressPasses, PatternIsKept
  <1>3. reader \in AddressReaders /\ PatternKept'
    BY <1>1 DEF AtOctet, PatternKept, AddressReaders
  <1>4. AddressKept'
    <2>1. PICK k \in 0 .. Octets - 1 : k = Len(read)
      BY <1>1, OctetAhead
    <2>2. PICK t \in Seq(AllChars) : t = text
      BY <1>1, OctetAhead
    <2>3. Octets \in Nat /\ k \in Nat /\ Len(t) \in Nat
      BY WidthAssumption, <2>1
    <2>4. PICK ends, more \in AllEnds(t) : \E e \in 0 .. Len(t) :
             /\ ReadFrom(t, reader, ends, read)
             /\ \A i \in 1 .. k : WritesNumber(t, ends, i) /\ more[i] = ends[i]
             /\ RunEnds(t, Begin(ends, k + 1), e, Digits)
             /\ more[k + 1] = e /\ Begin(more, k + 1) = Begin(ends, k + 1)
             /\ Number = SubSeq(t, Begin(ends, k + 1), e)
             /\ AfterNumber = From(t, e + 1) /\ Ch(AfterNumber) = CharAt(t, e + 1)
      BY <1>1, <2>1, <2>2, OctetAhead
    <2> DEFINE e == more[k + 1]
    <2>5. /\ ReadFrom(t, reader, ends, read)
          /\ \A i \in 1 .. k : WritesNumber(t, ends, i) /\ more[i] = ends[i]
      BY <2>4
    <2>6. /\ RunEnds(t, Begin(ends, k + 1), e, Digits) /\ e \in 0 .. Len(t)
          /\ Begin(more, k + 1) = Begin(ends, k + 1)
          /\ Number = SubSeq(t, Begin(ends, k + 1), e)
          /\ AfterNumber = From(t, e + 1) /\ Ch(AfterNumber) = CharAt(t, e + 1)
      BY <2>4
    <2>7. PICK n \in Collects(reader, Number) :
             Admits(reader, Number, n) /\ read' = Append(read, n)
      BY DEF ReadOctet
    <2>8. n \in 0 .. MaxOctet /\ (reader = "check" => Number # << >>)
      BY <2>7 DEF Admits
    <2>9. read \in Seq(0 .. MaxOctet)
      BY <1>3 DEF IInv, AddressKept
    <2>10. /\ read' \in Seq(0 .. MaxOctet) /\ Len(read') = k + 1 /\ read'[k + 1] = n
           /\ \A i \in 1 .. k : read'[i] = read[i]
      <3> DEFINE Octet == 0 .. MaxOctet
      <3> HIDE DEF Octet
      <3>1. read \in Seq(Octet) /\ n \in Octet
        BY <2>8, <2>9 DEF Octet
      <3>2. read' \in Seq(Octet) /\ Len(read') = k + 1 /\ read'[k + 1] = n
            /\ \A i \in 1 .. k : read'[i] = read[i]
        BY <2>1, <2>7, <3>1
      <3> QED
        BY <3>2 DEF Octet
    <2>11. Number = Part(t, more, k + 1)
      BY <2>6 DEF Part
    <2>12. WritesNumber(t, more, k + 1)
      <3>1. Begin(more, k + 1) <= e + 1
        <4>1. k + 1 \in 1 .. Octets
          BY <2>1, <2>3
        <4>2. Begin(more, k + 1) \in Int
          <5>1. k # 0 => k \in 1 .. Octets
            BY <2>1, <2>3
          <5>2. k # 0 => more[k] \in 0 .. Len(t)
            BY <5>1 DEF AllEnds
          <5> QED
            BY <2>3, <5>2 DEF Begin
        <4> QED
          BY <2>6, <4>2 DEF RunEnds
      <3>2. \A i \in Begin(more, k + 1) .. e : t[i] \in Digits
        BY <2>6 DEF RunEnds
      <3>3. IF k + 1 < Octets THEN CharAt(t, e + 1) = "." ELSE CharAt(t, e + 1) \notin Digits
        <4>1. k + 1 < Octets => CharAt(t, e + 1) = "."
          BY <2>1, <2>3, <2>6 DEF ReadOctet, DotMissing, LastOctet
        <4>2. CharAt(t, e + 1) \notin Digits
          BY <2>6 DEF RunEnds
        <4> QED
          BY <4>1, <4>2
      <3> QED
        BY <3>1, <3>2, <3>3 DEF WritesNumber
    <2> HIDE DEF e
    <2>13. ASSUME NEW i \in 1 .. k
           PROVE  Begin(more, i) = Begin(ends, i) /\ more[i] = ends[i]
      <3>1. i # 1 => i - 1 \in 1 .. k
        BY <2>3
      <3>2. i # 1 => more[i - 1] = ends[i - 1]
        BY <2>5, <3>1
      <3> QED
        BY <2>5, <3>2 DEF Begin
    <2>14. ReadFrom(t, reader, more, read')
      <3> SUFFICES ASSUME NEW i \in 1 .. k + 1
                   PROVE  /\ WritesNumber(t, more, i)
                          /\ read'[i] \in Collects(reader, Part(t, more, i))
                          /\ read'[i] \in 0 .. MaxOctet
                          /\ reader = "check" => Part(t, more, i) # << >>
        BY <2>10 DEF ReadFrom
      <3>1. CASE i = k + 1
        BY <2>7, <2>8, <2>10, <2>11, <2>12, <3>1
      <3>2. CASE i # k + 1
        <4>1. i \in 1 .. k
          BY <2>3, <3>2
        <4>2. /\ WritesNumber(t, ends, i) /\ read[i] \in Collects(reader, Part(t, ends, i))
              /\ read[i] \in 0 .. MaxOctet /\ (reader = "check" => Part(t, ends, i) # << >>)
          BY <2>1, <2>5, <4>1 DEF ReadFrom
        <4>3. Part(t, more, i) = Part(t, ends, i) /\ (WritesNumber(t, ends, i) => WritesNumber(t, more, i))
          BY <2>13, <4>1 DEF Part, WritesNumber
        <4>4. read'[i] = read[i]
          BY <2>10, <4>1
        <4> QED
          BY <4>2, <4>3, <4>4
      <3> QED
        BY <3>1, <3>2
    <2>15. rest' = From(t, Position(reader, more, k + 1))
      <3>1. GetNext(From(t, e + 1)) = From(t, e + 2)
        <4>1. e + 1 \in 1 .. Len(t) + 2 /\ e + 1 <= Len(t) + 1 /\ e + 1 + 1 = e + 2
          BY <2>3, <2>6
        <4> QED
          BY <4>1, RestOfText
      <3>2. rest' = IF k + 1 = Octets /\ reader # "service" THEN From(t, e + 1) ELSE From(t, e + 2)
        <4>1. LastOctet <=> k + 1 = Octets
          BY <2>1, <2>3 DEF LastOctet
        <4> QED
          BY <2>6, <3>1, <4>1 DEF ReadOctet
      <3>3. k + 1 # 0
        BY <2>3
      <3> QED
        BY <3>2, <3>3 DEF Position, e
    <2>16. Len(read') <= Octets /\ text' = t /\ reader' = reader
      BY <1>1, <2>1, <2>2, <2>3, <2>10
    <2>17. rest' = From(t, Position(reader, more, Len(read')))
      BY <2>10, <2>15
    <2> QED
      BY <2>10, <2>14, <2>16, <2>17 DEF AddressKept
  <1>5. MaskKept'
    <2>1. PICK n : Admits(reader, Number, n) /\ read' = Append(read, n)
      BY DEF ReadOctet
    <2>2. PICK v \in Seq(0 .. MaxOctet) : v = read
      BY <1>3 DEF IInv, AddressKept
    <2>3. reader = "mask" => MaskSoFar(v)
      BY <2>2 DEF IInv, MaskKept
    <2>4. reader = "mask" => MaskSoFar(Append(v, n))
      BY <2>1, <2>2, <2>3, OctetAppended DEF Admits
    <2> QED
      BY <1>1, <2>1, <2>2, <2>4 DEF IInv, MaskKept
  <1> QED
    BY <1>2, <1>3, <1>4, <1>5 DEF IInv

LEMMA AddressOctetAdmitted ==
    ASSUME IInv, AtOctet, IsAddress(text), ~Overflows(text), reader # "mask"
    PROVE  ~DotMissing /\ \A n \in Collects(reader, Number) : Admits(reader, Number, n)
  <1>1. /\ Len(read) \in 0 .. Octets - 1 /\ Octets \in Nat /\ text \in Seq(AllChars)
        /\ \E ends \in AllEnds(text) : \E e \in 0 .. Len(text) :
                /\ \A i \in 1 .. Len(read) : WritesNumber(text, ends, i)
                /\ RunEnds(text, Begin(ends, Len(read) + 1), e, Digits)
                /\ Number = SubSeq(text, Begin(ends, Len(read) + 1), e)
                /\ Ch(AfterNumber) = CharAt(text, e + 1)
    BY OctetAhead
  <1>2. PICK k \in 0 .. Octets - 1 : k = Len(read)
    BY <1>1
  <1>3. PICK ends \in AllEnds(text), e \in 0 .. Len(text) :
           /\ \A i \in 1 .. k : WritesNumber(text, ends, i)
           /\ RunEnds(text, Begin(ends, k + 1), e, Digits)
           /\ Number = SubSeq(text, Begin(ends, k + 1), e)
           /\ Ch(AfterNumber) = CharAt(text, e + 1)
    BY <1>1, <1>2
  <1>4. /\ Number # << >> /\ Numeral(Number) \in 0 .. MaxOctet
        /\ k + 1 < Octets => Ch(AfterNumber) = "."
    <2>1. LET part == SubSeq(text, Begin(ends, k + 1), e)
          IN  /\ part # << >> /\ Numeral(part) \in 0 .. MaxOctet
              /\ k + 1 < Octets => CharAt(text, e + 1) = "."
      BY <1>1, <1>3, AddressAhead
    <2> QED
      BY <1>3, <2>1
  <1>5. ~DotMissing
    BY <1>1, <1>2, <1>4 DEF DotMissing, LastOctet
  <1>6. Collects(reader, Number) = {Numeral(Number)}
    <2>1. reader \in AddressReaders
      BY DEF AtOctet
    <2>2. PICK b \in 1 .. Len(text) + 1 : b = Begin(ends, k + 1)
      BY <1>1, <1>3, PositionOfNumber
    <2>3. RunEnds(text, b, e, Digits)
      BY <1>3, <2>2
    <2>4. Collects(reader, SubSeq(text, b, e)) = {Numeral(SubSeq(text, b, e))}
      BY <1>1, <2>1, <2>3, NumberIsCollected
    <2> QED
      BY <1>3, <2>2, <2>4
  <1>7. \A n \in Collects(reader, Number) : Admits(reader, Number, n)
    BY <1>4, <1>6 DEF Admits
  <1> QED
    BY <1>5, <1>7

LEMMA RefuseOctetKeeps ==
    ASSUME IInv, RefuseOctet
    PROVE  IInv'
  <1>1. AtOctet /\ Ended(FALSE) /\ refused' = refused \cup {reader}
        /\ UNCHANGED <<accepted, broken, value>>
    BY DEF RefuseOctet, Refuse
  <1>2. reader \in Readers
    BY <1>1 DEF AtOctet, Readers
  <1>3. IsAddress(text) /\ ~Overflows(text) => reader = "mask"
    BY <1>1, AddressOctetAdmitted DEF RefuseOctet
  <1> QED
    BY <1>1, <1>2, <1>3, StopKeeps

\* What a reader that has come to the end has behind it, and before it
LEMMA EndAhead ==
    ASSUME IInv, AtEnd
    PROVE  /\ text \in Seq(AllChars) /\ reader \in AddressReaders
           /\ read \in Seq(0 .. MaxOctet) /\ Len(read) = Octets /\ Octets \in Nat \ {0}
           /\ \E ends \in AllEnds(text) :
                 /\ ends \in Writings(text) /\ ReadFrom(text, reader, ends, read)
                 /\ Ch(rest) = CharAt(text, Position(reader, ends, Octets))
  <1>1. text \in Seq(AllChars) /\ reader \in AddressReaders /\ read \in Seq(0 .. MaxOctet)
        /\ Len(read) = Octets /\ Octets \in Nat \ {0}
    BY WidthAssumption DEF IInv, TypeKept, AddressKept, AtEnd
  <1>2. PICK ends \in AllEnds(text) :
           ReadFrom(text, reader, ends, read) /\ rest = From(text, Position(reader, ends, Octets))
    BY <1>1 DEF IInv, AddressKept
  <1>3. ends \in Writings(text)
    <2>1. \A k \in 1 .. Octets : WritesNumber(text, ends, k)
      BY <1>1, <1>2 DEF ReadFrom
    <2> QED
      BY <2>1, WritingsAreEnds
  <1>4. Position(reader, ends, Octets) \in 1 .. Len(text) + 2
    <2>1. ends[Octets] \in 0 .. Len(text) /\ Len(text) \in Nat
      BY <1>1 DEF AllEnds
    <2> QED
      BY <1>1, <2>1 DEF Position
  <1>5. Ch(rest) = CharAt(text, Position(reader, ends, Octets))
    BY <1>1, <1>2, <1>4, RestOfText
  <1> QED
    BY <1>1, <1>2, <1>3, <1>5

LEMMA AcceptAddressKeeps ==
    ASSUME IInv, AcceptAddress
    PROVE  IInv'
  <1>1. AtEnd /\ NextReads(TRUE) /\ accepted' = accepted \cup {reader} /\ Ends(reader, rest)
        /\ UNCHANGED <<refused, broken>> /\ value' = [value EXCEPT ![reader] = read]
    BY DEF AcceptAddress, Ended
  <1>2. reader \in Readers /\ reader \notin {"mask", "pattern"}
    BY <1>1 DEF AcceptAddress, AtEnd, Readers, AddressReaders
  <1>3. WrittenAs(text, reader, read)
    <2>1. /\ read \in Seq(0 .. MaxOctet) /\ Len(read) = Octets
          /\ \E ends \in AllEnds(text) : ReadFrom(text, reader, ends, read)
                 /\ Ch(rest) = CharAt(text, Position(reader, ends, Octets))
      BY <1>1, EndAhead
    <2>2. reader # "constructor" => Ch(rest) = EOT
      BY <1>1 DEF Ends
    <2> QED
      BY <2>1, <2>2 DEF WrittenAs
  <1> QED
    BY <1>1, <1>2, <1>3, AcceptKeeps

\* The octets read of a mask are written to the end of the text.
LEMMA AcceptMaskKeeps ==
    ASSUME IInv, AcceptMask
    PROVE  IInv'
  <1>1. AtEnd /\ NextReads(TRUE) /\ accepted' = accepted \cup {reader} /\ Ends(reader, rest)
        /\ reader = "mask" /\ UNCHANGED <<refused, broken>>
    BY DEF AcceptMask
  <1>2. PICK octets : value' = [value EXCEPT ![reader] = octets]
    BY DEF AcceptMask
  <1>3. reader \in Readers /\ reader # "pattern"
    BY <1>1 DEF Readers, AddressReaders
  <1>4. WrittenAs(text, "mask", read)
    <2>1. /\ read \in Seq(0 .. MaxOctet) /\ Len(read) = Octets
          /\ \E ends \in AllEnds(text) : ReadFrom(text, reader, ends, read)
                 /\ Ch(rest) = CharAt(text, Position(reader, ends, Octets))
      BY <1>1, EndAhead
    <2>2. Ch(rest) = EOT
      BY <1>1 DEF Ends
    <2> QED
      BY <1>1, <2>1, <2>2 DEF WrittenAs
  <1>5. MaskSoFar(read)
    BY <1>1 DEF IInv, MaskKept
  <1> QED
    BY <1>1, <1>2, <1>3, <1>4, <1>5, AcceptKeeps

\* Of an address, only the service does not see the end, when an EOT is in its way.
LEMMA AddressEndSeen ==
    ASSUME IInv, AtEnd, ~Ends(reader, rest)
    PROVE  /\ Writings(text) # {}
           /\ IsAddress(text) =>
                 /\ reader \notin {"check", "constructor"}
                 /\ reader = "service" => \E i \in 1 .. Len(text) : text[i] = EOT
  <1>1. PICK ends \in AllEnds(text) : ends \in Writings(text)
           /\ Ch(rest) = CharAt(text, Position(reader, ends, Octets))
    BY EndAhead
  <1>2. reader # "constructor" /\ CharAt(text, Position(reader, ends, Octets)) # EOT
    BY <1>1 DEF Ends
  <1>3. text \in Seq(AllChars) /\ Octets \in Nat \ {0} /\ Len(text) \in Nat
    BY EndAhead
  <1>4. ends[Octets] \in 0 .. Len(text)
    BY <1>3 DEF AllEnds
  <1>5. ASSUME IsAddress(text)
        PROVE  /\ reader # "check"
               /\ reader = "service" => \E i \in 1 .. Len(text) : text[i] = EOT
    <2>1. CharAt(text, ends[Octets] + 1) = EOT
      BY <1>1, <1>3, <1>5, AddressEnds
    <2>2. reader # "check"
      BY <1>2, <1>3, <2>1 DEF Position
    <2>3. ASSUME reader = "service"
          PROVE  \E i \in 1 .. Len(text) : text[i] = EOT
      <3>1. CharAt(text, ends[Octets] + 2) # EOT
        BY <1>2, <1>3, <2>3 DEF Position
      <3>2. ends[Octets] + 1 \in 1 .. Len(text)
        BY <1>3, <1>4, <3>1 DEF CharAt
      <3>3. text[ends[Octets] + 1] = EOT
        BY <1>3, <2>1, <3>2 DEF CharAt
      <3> QED
        BY <3>2, <3>3
    <2> QED
      BY <2>2, <2>3
  <1> QED
    BY <1>1, <1>2, <1>5

LEMMA RefuseEndKeeps ==
    ASSUME IInv, RefuseEnd
    PROVE  IInv'
  <1>1. AtEnd /\ ~Ends(reader, rest) /\ Ended(FALSE) /\ refused' = refused \cup {reader}
        /\ UNCHANGED <<accepted, broken, value>>
    BY DEF RefuseEnd, Refuse
  <1>2. reader \in Readers
    BY <1>1 DEF AtEnd, Readers
  <1> QED
    BY <1>1, <1>2, AddressEndSeen, StopKeeps

LEMMA BreakAtEndKeeps ==
    ASSUME IInv, BreakAtEnd
    PROVE  IInv'
  <1>1. AtEnd /\ ~Ends(reader, rest) /\ Ended(FALSE) /\ broken' = broken \cup {reader}
        /\ UNCHANGED <<accepted, refused, value>>
    BY DEF BreakAtEnd
  <1>2. reader \in Readers /\ reader \in AddressReaders
    BY <1>1 DEF AtEnd, Readers
  <1> QED
    BY <1>1, <1>2, AddressEndSeen, StopKeeps

-----------------------------------------------------------------------------
(* The reader of patterns *)

LEMMA CharsApart == EOT \notin Letters \cup Digits /\ EOT \notin Blanks /\ EOT # "<" /\ EOT # ">"
                    /\ " " \notin Letters
  BY LettersAssumption DEF Digits, Blanks

\* An element that is written behind others, and blanks, is added to them.
LEMMA ElementAdded ==
    ASSUME NEW t \in Seq(AllChars), NEW elements \in Seq(Elems), NEW n \in 0 .. Len(t),
           ReadPattern(t, elements, n),
           NEW e \in n .. Len(t), \A c \in n + 1 .. e : t[c] \in Blanks /\ t[c] # EOT,
           NEW m \in e + 1 .. Len(t), \A c \in e + 1 .. m : t[c] # EOT, t[m] \notin Blanks,
           NEW element \in Elems, Written(element) = SubSeq(t, e + 1, m)
    PROVE  ReadPattern(t, Append(elements, element), m)
  <1> DEFINE k == Len(elements)
             more == Append(elements, element)
  <1>1. /\ more \in Seq(Elems) /\ DOMAIN more = 1 .. k + 1 /\ DOMAIN elements = 1 .. k /\ k \in Nat
        /\ more[k + 1] = element /\ \A i \in 1 .. k : more[i] = elements[i]
    OBVIOUS
  <1> HIDE DEF more, k
  <1>2. Len(t) \in Nat /\ n \in Nat /\ e \in Nat /\ m \in Nat /\ n <= e /\ e < m /\ m <= Len(t)
    OBVIOUS
  <1>3. \A c \in 1 .. m : t[c] # EOT
    <2>1. \A c \in 1 .. n : t[c] # EOT
      BY DEF ReadPattern
    <2>2. \A c \in 1 .. m : c \in 1 .. n \/ c \in n + 1 .. e \/ c \in e + 1 .. m
      BY <1>2
    <2> QED
      BY <2>1, <2>2
  <1>4. PICK at \in [1 .. k -> 1 .. Len(t)] : WrittenIn(t, elements, at, n)
    BY <1>1 DEF ReadPattern
  <1> DEFINE here == [i \in 1 .. k + 1 |-> IF i = k + 1 THEN e + 1 ELSE at[i]]
  <1>5. /\ here \in [DOMAIN more -> 1 .. Len(t)] /\ DOMAIN here = 1 .. k + 1
        /\ here[k + 1] = e + 1 /\ \A i \in 1 .. k : here[i] = at[i]
    <2>1. e + 1 \in 1 .. Len(t)
      BY <1>2
    <2>2. k \in Nat
      BY <1>1
    <2>3. \A i \in 1 .. k : i # k + 1 /\ i \in 1 .. k + 1
      BY <2>2
    <2>4. \A i \in 1 .. k + 1 : i # k + 1 => i \in 1 .. k
      BY <2>2
    <2>5. k + 1 \in 1 .. k + 1 /\ DOMAIN more = 1 .. k + 1
      BY <1>1, <2>2
    <2> QED
      BY <2>1, <2>3, <2>4, <2>5
  <1> HIDE DEF here
  <1>6. EndOf(more, here, k + 1) = m
    <2>1. Len(Written(element)) = m - e
      <3>1. \A i \in e + 1 .. m : t[i] \in AllChars
        <4>1. \A i \in e + 1 .. m : i \in 1 .. Len(t)
          BY <1>2
        <4> QED
          BY <4>1
      <3>2. e + 1 \in Int /\ m \in Int /\ e + 1 <= m
        BY <1>2
      <3>3. Len(SubSeq(t, e + 1, m)) = m - (e + 1) + 1
        BY <3>1, <3>2, SubSeqProperties
      <3> QED
        BY <1>2, <3>3
    <2>2. EndOf(more, here, k + 1) = here[k + 1] + Len(Written(more[k + 1])) - 1
      BY DEF EndOf
    <2>3. EndOf(more, here, k + 1) = (e + 1) + (m - e) - 1
      BY <1>1, <1>5, <2>1, <2>2
    <2> HIDE DEF k
    <2> QED
      BY <1>2, <2>3
  <1>7. ASSUME NEW i \in 1 .. k
        PROVE  /\ EndOf(more, here, i) = EndOf(elements, at, i)
               /\ EndOf(elements, at, i) \in at[i] .. n /\ at[i] \in Nat /\ at[i] = here[i]
               /\ SubSeq(t, at[i], EndOf(elements, at, i)) = Written(elements[i])
    <2>1. EndOf(more, here, i) = EndOf(elements, at, i)
      BY <1>1, <1>5 DEF EndOf
    <2>2. i \in DOMAIN at /\ at[i] \in Nat
      BY <1>2, <1>4
    <2> QED
      BY <1>4, <1>5, <2>1, <2>2 DEF WrittenIn
  <1>8. ASSUME NEW i \in 1 .. k + 1
        PROVE  /\ EndOf(more, here, i) \in here[i] .. m
               /\ SubSeq(t, here[i], EndOf(more, here, i)) = Written(more[i])
    <2>1. CASE i = k + 1
      <3>1. EndOf(more, here, i) = m /\ here[i] = e + 1 /\ more[i] = element
        BY <1>1, <1>5, <1>6, <2>1
      <3>2. m \in e + 1 .. m
        BY <1>2
      <3> QED
        BY <3>1, <3>2
    <2>2. CASE i # k + 1
      <3>1. i \in 1 .. k
        BY <1>1, <2>2
      <3>2. EndOf(more, here, i) \in here[i] .. n
        BY <1>7, <3>1
      <3>3. here[i] \in Nat
        BY <1>7, <3>1
      <3>4. EndOf(more, here, i) \in here[i] .. m
        BY <1>2, <3>2, <3>3
      <3> QED
        BY <1>1, <1>7, <3>1, <3>4
    <2> QED
      BY <2>1, <2>2
  <1>9. ASSUME NEW i \in 1 .. k + 1, NEW j \in 1 .. k + 1, i < j
        PROVE  EndOf(more, here, i) < here[j]
    <2>1. i \in 1 .. k
      BY <1>1, <1>9
    <2>2. EndOf(more, here, i) = EndOf(elements, at, i) /\ EndOf(elements, at, i) \in at[i] .. n
          /\ at[i] \in Nat
      BY <1>7, <2>1
    <2>3. CASE j = k + 1
      BY <1>2, <1>5, <2>2, <2>3
    <2>4. CASE j # k + 1
      <3>1. j \in 1 .. k
        BY <1>1, <2>4
      <3>2. i \in DOMAIN at /\ j \in DOMAIN at /\ here[j] = at[j]
        BY <1>4, <1>5, <2>1, <3>1
      <3>3. EndOf(elements, at, i) < at[j]
        BY <1>4, <1>9, <3>2 DEF WrittenIn
      <3> QED
        BY <2>2, <3>2, <3>3
    <2> QED
      BY <2>3, <2>4
  <1>10. ASSUME NEW c \in 1 .. m
         PROVE  t[c] \in Blanks \/ \E i \in 1 .. k + 1 : c \in here[i] .. EndOf(more, here, i)
    <2>1. CASE c \in 1 .. n
      <3>1. t[c] \in Blanks \/ \E i \in 1 .. k : c \in at[i] .. EndOf(elements, at, i)
        BY <1>4, <2>1 DEF WrittenIn
      <3>2. ASSUME NEW i \in 1 .. k, c \in at[i] .. EndOf(elements, at, i)
            PROVE  i \in 1 .. k + 1 /\ c \in here[i] .. EndOf(more, here, i)
        <4>1. EndOf(more, here, i) = EndOf(elements, at, i) /\ at[i] = here[i]
          BY <1>7, <3>2
        <4>2. c \in here[i] .. EndOf(more, here, i)
          BY <3>2, <4>1
        <4> QED
          BY <1>1, <4>2
      <3> QED
        BY <3>1, <3>2
    <2>2. CASE c \in n + 1 .. e
      BY <2>2
    <2>3. CASE c \in e + 1 .. m
      <3>1. k + 1 \in 1 .. k + 1
        BY <1>1
      <3> QED
        BY <1>5, <1>6, <2>3, <3>1
    <2>4. c \in 1 .. n \/ c \in n + 1 .. e \/ c \in e + 1 .. m
      BY <1>2
    <2> QED
      BY <2>1, <2>2, <2>3, <2>4
  <1>11. WrittenIn(t, more, here, m)
    BY <1>5, <1>8, <1>9, <1>10 DEF WrittenIn
  <1>12. ReadPattern(t, more, m)
    BY <1>3, <1>5, <1>11 DEF ReadPattern
  <1> QED
    BY <1>12 DEF more

\* What the pattern's reader finds behind blanks is an element, written out.
LEMMA ElementIsWritten ==
    ASSUME NEW t \in Seq(AllChars), NEW b \in 1 .. Len(t) + 1, NEW found \in Elements(From(t, b))
    PROVE  /\ found.element \in Elems
           /\ \E m \in b .. Len(t) :
                 /\ Written(found.element) = SubSeq(t, b, m) /\ found.left = From(t, m + 1)
                 /\ t[m] \notin Blanks /\ \A c \in b .. m : t[c] # EOT
  <1> DEFINE s == From(t, b)
  <1>1. Len(t) \in Nat /\ b \in 1 .. Len(t) + 1 /\ b \in 1 .. Len(t) + 2 /\ Ch(s) = CharAt(t, b)
    BY RestOfText
  <1>2. b <= Len(t) => t[b] = Ch(s)
    BY <1>1 DEF CharAt
  <1>3. ~(b <= Len(t)) => Ch(s) = EOT
    BY <1>1 DEF CharAt
  <1>4. \A m \in b - 1 .. Len(t) : SubSeq(t, b, m) \in Seq(AllChars)
    <2>1. ASSUME NEW m \in b - 1 .. Len(t)
          PROVE  SubSeq(t, b, m) \in Seq(AllChars)
      <3>1. b \in Int /\ m \in Int /\ \A i \in b .. m : i \in 1 .. Len(t)
        BY <1>1
      <3>2. \A i \in b .. m : t[i] \in AllChars
        BY <3>1
      <3> QED
        BY <3>1, <3>2, SubSeqProperties
    <2> QED
      BY <2>1
  <1>5. CASE Ch(s) \in Letters
    <2>1. found = FixedWord(s)
      BY <1>5 DEF Elements
    <2>2. b \in 1 .. Len(t) /\ t[b] \in Letters
      <3>1. EOT \notin Letters
        BY CharsApart
      <3>2. b <= Len(t)
        BY <1>3, <1>5, <3>1
      <3> QED
        BY <1>1, <1>2, <1>5, <3>2
    <2>3. PICK m \in b - 1 .. Len(t) :
             /\ RunEnds(t, b, m, Letters)
             /\ Leading(s, Letters) = SubSeq(t, b, m) /\ After(s, Letters) = From(t, m + 1)
      <3>1. EOT \notin Letters
        BY CharsApart
      <3> QED
        BY <1>1, <3>1, RunIsRead
    <2>4. m \in b .. Len(t)
      <3>1. m # b - 1
        BY <1>1, <1>5, <2>2, <2>3 DEF RunEnds
      <3> QED
        BY <1>1, <3>1
    <2>5. \A c \in b .. m : t[c] \in Letters
      BY <2>3 DEF RunEnds
    <2>6. t[m] \notin Blanks /\ \A c \in b .. m : t[c] # EOT
      <3>1. m \in b .. m
        BY <1>1, <2>4
      <3> QED
        BY <2>5, <3>1, CharsApart DEF Blanks
    <2>7. found.element = [fixed |-> TRUE, word |-> SubSeq(t, b, m)] /\ found.left = From(t, m + 1)
      BY <2>1, <2>3 DEF FixedWord
    <2>8. found.element \in Elems /\ Written(found.element) = SubSeq(t, b, m)
      BY <1>4, <2>7 DEF Elems, Written
    <2> QED
      BY <2>4, <2>6, <2>7, <2>8
  <1>6. CASE Ch(s) \notin Letters
    <2>1. /\ Ch(s) = "<" /\ Ch(AfterName(s)) = ">"
          /\ found = [element |-> [fixed |-> FALSE, word |-> VariableName(s)],
                      left |-> GetNext(AfterName(s))]
      BY <1>6 DEF Elements
    <2>2. b \in 1 .. Len(t) /\ t[b] = "<"
      <3>1. EOT # "<"
        BY CharsApart
      <3>2. b <= Len(t)
        BY <1>3, <2>1, <3>1
      <3> QED
        BY <1>1, <1>2, <2>1, <3>2
    <2> DEFINE d == b + 1
    <2>3. d \in 1 .. Len(t) + 1 /\ d = b + 1
      BY <2>2
    <2>4. Tail(s) = From(t, d)
      BY <1>1, <2>2, RestOfText
    <2> HIDE DEF d
    <2>5. PICK f \in d - 1 .. Len(t) :
             /\ RunEnds(t, d, f, Letters \cup Digits)
             /\ VariableName(s) = SubSeq(t, d, f) /\ AfterName(s) = From(t, f + 1)
      <3>1. EOT \notin Letters \cup Digits
        BY CharsApart
      <3>2. \E f \in d - 1 .. Len(t) :
               /\ RunEnds(t, d, f, Letters \cup Digits)
               /\ Leading(From(t, d), Letters \cup Digits) = SubSeq(t, d, f)
               /\ After(From(t, d), Letters \cup Digits) = From(t, f + 1)
        BY <2>3, <3>1, RunIsRead
      <3>3. VariableName(s) = Leading(From(t, d), Letters \cup Digits)
            /\ AfterName(s) = After(From(t, d), Letters \cup Digits)
        BY <2>4 DEF VariableName, AfterName
      <3> QED
        BY <3>2, <3>3
    <2>6. f + 1 \in b + 1 .. Len(t) /\ t[f + 1] = ">" /\ GetNext(AfterName(s)) = From(t, f + 2)
          /\ f \in Nat
      <3>1. f \in Nat /\ f >= b /\ f + 1 \in 1 .. Len(t) + 2 /\ f + 1 <= Len(t) + 1
        BY <1>1, <2>2, <2>3
      <3>2. CharAt(t, f + 1) = ">" /\ GetNext(From(t, f + 1)) = From(t, f + 1 + 1)
        BY <2>1, <2>5, <3>1, RestOfText
      <3>3. f + 1 <= Len(t) /\ t[f + 1] = ">"
        BY <3>2, CharsApart DEF CharAt
      <3>4. f + 1 + 1 = f + 2
        BY <3>1
      <3> QED
        BY <1>1, <2>5, <3>1, <3>2, <3>3, <3>4
    <2> DEFINE m == f + 1
    <2>7. m \in b + 1 .. Len(t) /\ t[m] = ">" /\ found.left = From(t, m + 1) /\ m = f + 1
      <3>1. f + 2 = m + 1
        BY <2>6
      <3> QED
        BY <2>1, <2>6, <3>1
    <2> HIDE DEF m
    <2>8. ASSUME NEW c \in b .. m
          PROVE  t[c] # EOT
      <3>1. c = b \/ c = m \/ c \in d .. f
        BY <1>1, <2>3, <2>6, <2>7
      <3>2. c \in d .. f => t[c] \in Letters \cup Digits
        BY <2>5 DEF RunEnds
      <3> QED
        BY <2>2, <2>7, <3>1, <3>2, CharsApart
    <2>9. SubSeq(t, d, f) \in Seq(AllChars)
      <3>1. d \in Int /\ f \in Int /\ \A i \in d .. f : i \in 1 .. Len(t)
        BY <1>1, <2>3, <2>6, <2>7
      <3>2. \A i \in d .. f : t[i] \in AllChars
        BY <3>1
      <3> QED
        BY <3>1, <3>2, SubSeqProperties
    <2>10. SubSeq(t, b, m) = <<"<">> \o SubSeq(t, d, f) \o <<">">>
      <3>1. b \in 1 .. Len(t) /\ m \in b .. Len(t) /\ f \in b .. Len(t) /\ m - 1 = f
        BY <1>1, <2>2, <2>3, <2>6, <2>7
      <3>2. SubSeq(t, b, m) = SubSeq(t, b, m - 1) \o <<t[m]>>
        BY <3>1, SubSeqRecursiveSecond
      <3>3. SubSeq(t, b, f) = <<t[b]>> \o SubSeq(t, b + 1, f)
        BY <3>1, SubSeqRecursiveFirst
      <3> QED
        BY <2>2, <2>3, <2>7, <3>1, <3>2, <3>3
    <2>11. found.element = [fixed |-> FALSE, word |-> SubSeq(t, d, f)]
      BY <2>1, <2>5
    <2>12. found.element \in Elems /\ Written(found.element) = SubSeq(t, b, m)
      <3> DEFINE word == SubSeq(t, d, f)
      <3>1. word \in Seq(AllChars) /\ found.element = [fixed |-> FALSE, word |-> word]
            /\ SubSeq(t, b, m) = <<"<">> \o word \o <<">">>
        BY <2>9, <2>10, <2>11
      <3> HIDE DEF word
      <3>2. found.element \in Elems
        BY <3>1 DEF Elems
      <3>3. Written(found.element) = <<"<">> \o word \o <<">">>
        BY <3>1 DEF Written
      <3> QED
        BY <3>1, <3>2, <3>3
    <2>13. t[m] \notin Blanks /\ m \in b .. Len(t)
      BY <1>1, <2>7 DEF Blanks
    <2> QED
      BY <2>7, <2>8, <2>12, <2>13
  <1> QED
    BY <1>5, <1>6

\* Where the reader of a pattern stands
LEMMA PatternAhead ==
    ASSUME IInv, reader = "pattern"
    PROVE  /\ text \in Seq(AllChars) /\ read \in Seq(Elems) /\ Len(text) \in Nat
           /\ \E n \in 0 .. Len(text) :
                 /\ rest = From(text, n + 1) /\ Ch(rest) = CharAt(text, n + 1)
                 /\ ReadPattern(text, read, n)
  <1>1. text \in Seq(AllChars) /\ read \in Seq(Elems) /\ Len(text) \in Nat
    BY DEF IInv, TypeKept, PatternKept
  <1>2. PICK n \in 0 .. Len(text) : rest = From(text, n + 1) /\ ReadPattern(text, read, n)
    BY DEF IInv, PatternKept
  <1>3. n + 1 \in 1 .. Len(text) + 2
    BY <1>1
  <1>4. Ch(rest) = CharAt(text, n + 1)
    BY <1>1, <1>2, <1>3, RestOfText
  <1> QED
    BY <1>1, <1>2, <1>4

LEMMA ReadElementKeeps ==
    ASSUME IInv, ReadElement
    PROVE  IInv'
  <1>1. reader = "pattern" /\ UNCHANGED <<text, prefix, reader, accepted, refused, broken, value>>
    BY DEF ReadElement, AtElement, input, outcome
  <1>2. TypeKept' /\ OrderKept' /\ AcceptedKept' /\ BrokenKept' /\ AddressPasses' /\ PatternIsKept'
    BY <1>1 DEF IInv, TypeKept, OrderKept, ended, AcceptedKept, BrokenKept, AddressPasses, PatternIsKept
  <1>3. AddressKept' /\ MaskKept'
    BY <1>1 DEF IInv, AddressKept, AddressReaders, MaskKept
  <1>4. PatternKept'
    <2>1. PICK t \in Seq(AllChars) : t = text
      BY <1>1, PatternAhead
    <2>2. PICK elements \in Seq(Elems) : elements = read
      BY <1>1, PatternAhead
    <2>3. PICK n \in 0 .. Len(t) : rest = From(t, n + 1) /\ ReadPattern(t, elements, n)
      BY <1>1, <2>1, <2>2, PatternAhead
    <2>4. Len(t) \in Nat /\ n + 1 \in 1 .. Len(t) + 1 /\ n + 1 - 1 = n
      OBVIOUS
    <2>5. PICK e \in n .. Len(t) :
             RunEnds(t, n + 1, e, Blanks) /\ After(rest, Blanks) = From(t, e + 1)
      <3>1. PICK i \in 1 .. Len(t) + 1 : i = n + 1
        BY <2>4
      <3>2. EOT \notin Blanks
        BY CharsApart
      <3>3. \E e \in i - 1 .. Len(t) : RunEnds(t, i, e, Blanks) /\ After(From(t, i), Blanks) = From(t, e + 1)
        BY <3>2, RunIsRead
      <3> QED
        BY <2>3, <2>4, <3>1, <3>3
    <2>6. PICK b \in 1 .. Len(t) + 1 : b = e + 1
      BY <2>4
    <2>7. PICK found \in Elements(From(t, b)) :
             read' = Append(elements, found.element) /\ rest' = found.left
      BY <2>2, <2>5, <2>6 DEF ReadElement
    <2>8. PICK m \in b .. Len(t) :
             /\ Written(found.element) = SubSeq(t, b, m) /\ found.left = From(t, m + 1)
             /\ t[m] \notin Blanks /\ \A c \in b .. m : t[c] # EOT
      BY ElementIsWritten
    <2>9. found.element \in Elems
      BY ElementIsWritten
    <2>10. \A c \in n + 1 .. e : t[c] \in Blanks /\ t[c] # EOT
      BY <2>5, CharsApart DEF RunEnds
    <2>11. ReadPattern(t, Append(elements, found.element), m)
      <3>1. m \in e + 1 .. Len(t) /\ Written(found.element) = SubSeq(t, e + 1, m)
            /\ t[m] \notin Blanks /\ \A c \in e + 1 .. m : t[c] # EOT
        BY <2>6, <2>8
      <3> QED
        BY <2>3, <2>9, <2>10, <3>1, ElementAdded
    <2>12. read' \in Seq(Elems)
      BY <2>7, <2>9
    <2>13. m \in 0 .. Len(t) /\ rest' = From(t, m + 1) /\ ReadPattern(t, read', m)
      BY <2>4, <2>7, <2>8, <2>11
    <2>14. text' = t
      BY <1>1, <2>1
    <2> QED
      BY <2>12, <2>13, <2>14 DEF PatternKept
  <1> QED
    BY <1>2, <1>3, <1>4 DEF IInv

LEMMA RefuseElementKeeps ==
    ASSUME IInv, RefuseElement
    PROVE  IInv'
  <1>1. reader = "pattern" /\ Ended(FALSE) /\ refused' = refused \cup {reader}
        /\ UNCHANGED <<accepted, broken, value>>
    BY DEF RefuseElement, AtElement, Refuse
  <1>2. reader \in Readers
    BY <1>1 DEF Readers
  <1> QED
    BY <1>1, <1>2, StopKeeps

LEMMA AcceptPatternKeeps ==
    ASSUME IInv, AcceptPattern
    PROVE  IInv'
  <1>1. reader = "pattern" /\ Ch(rest) = EOT /\ NextReads(TRUE)
        /\ accepted' = accepted \cup {reader}
        /\ UNCHANGED <<refused, broken>> /\ value' = [value EXCEPT ![reader] = read]
    BY DEF AcceptPattern, Ended
  <1>2. reader \in Readers /\ reader \notin AddressReaders /\ reader # "mask"
    BY <1>1 DEF Readers, AddressReaders
  <1>3. PatternWritten(text, read)
    BY <1>1, PatternAhead DEF PatternWritten
  <1> QED
    BY <1>1, <1>2, <1>3, AcceptKeeps

-----------------------------------------------------------------------------
(* from_prefix, and all steps together *)

LEMMA FromPrefixKeeps ==
    ASSUME IInv, FromPrefix
    PROVE  IInv'
  <1>1. PICK v : value' = [value EXCEPT ![reader] = v]
    BY DEF FromPrefix
  <1>2. reader = "prefix" /\ NextReads(TRUE) /\ accepted' = accepted \cup {reader}
        /\ UNCHANGED <<refused, broken>>
    BY DEF FromPrefix, Ended
  <1>3. reader \in Readers /\ reader \notin AddressReaders /\ reader \notin {"pattern", "mask"}
    BY <1>2 DEF Readers, AddressReaders
  <1> QED
    BY <1>1, <1>2, <1>3, AcceptKeeps

LEMMA RefusePrefixKeeps ==
    ASSUME IInv, RefusePrefix
    PROVE  IInv'
  <1>1. reader = "prefix" /\ Ended(FALSE) /\ refused' = refused \cup {reader}
        /\ UNCHANGED <<accepted, broken, value>>
    BY DEF RefusePrefix, Refuse
  <1>2. reader \in Readers
    BY <1>1 DEF Readers
  <1> QED
    BY <1>1, <1>2, StopKeeps

LEMMA StutterKeeps ==
    ASSUME IInv, UNCHANGED vars
    PROVE  IInv'
  <1>1. UNCHANGED <<text, reader, rest, read, accepted, refused, broken, value>>
    BY DEF vars, input, outcome
  <1>2. TypeKept' /\ OrderKept' /\ AddressKept' /\ AcceptedKept'
    BY <1>1 DEF IInv, TypeKept, OrderKept, ended, AddressKept, AcceptedKept
  <1>3. BrokenKept' /\ AddressPasses' /\ PatternKept' /\ PatternIsKept' /\ MaskKept'
    BY <1>1 DEF IInv, BrokenKept, AddressPasses, PatternKept, PatternIsKept, MaskKept
  <1> QED
    BY <1>2, <1>3 DEF IInv

LEMMA NextKeepsIInv == IInv /\ [Next]_vars => IInv'
  <1> SUFFICES ASSUME IInv, [Next]_vars
               PROVE  IInv'
    OBVIOUS
  <1>1. CASE ReadOctet
    BY <1>1, ReadOctetKeeps
  <1>2. CASE RefuseOctet
    BY <1>2, RefuseOctetKeeps
  <1>3. CASE AcceptAddress
    BY <1>3, AcceptAddressKeeps
  <1>4. CASE RefuseEnd
    BY <1>4, RefuseEndKeeps
  <1>5. CASE BreakAtEnd
    BY <1>5, BreakAtEndKeeps
  <1>6. CASE ReadElement
    BY <1>6, ReadElementKeeps
  <1>7. CASE RefuseElement
    BY <1>7, RefuseElementKeeps
  <1>8. CASE AcceptPattern
    BY <1>8, AcceptPatternKeeps
  <1>9. CASE FromPrefix
    BY <1>9, FromPrefixKeeps
  <1>10. CASE RefusePrefix
    BY <1>10, RefusePrefixKeeps
  <1>11. CASE AcceptMask
    BY <1>11, AcceptMaskKeeps
  <1>12. CASE UNCHANGED vars
    BY <1>12, StutterKeeps
  <1> QED
    BY <1>1, <1>2, <1>3, <1>4, <1>5, <1>6, <1>7, <1>8, <1>9, <1>10, <1>11, <1>12 DEF Next

-----------------------------------------------------------------------------
(* The bits of a mask.  A power of two is a recursive function on all naturals:    *)
(* finite parts of it exist up to every end and agree where they overlap, and so    *)
(* there is a function that is what the definition says.                            *)

\* TwoTo is what its definition says.
LEMMA TwoToUnfolds ==
    TwoTo[0] = 1 /\ \A n \in Nat : TwoTo[n + 1] = 2 * TwoTo[n] /\ TwoTo[n] \in Nat \ {0}
  <1> DEFINE Doubles(f, m) == \A i \in 0 .. m : f[i] = IF i = 0 THEN 1 ELSE 2 * f[i - 1]
             Begun == {m \in Nat : \E f \in [0 .. m -> Nat] : Doubles(f, m)}
  <1>1. 0 \in Begun
    <2> DEFINE f == [i \in 0 .. 0 |-> 1]
    <2>1. f \in [0 .. 0 -> Nat] /\ Doubles(f, 0)
      OBVIOUS
    <2> QED
      BY <2>1
  <1>2. ASSUME NEW m \in Nat, m \in Begun
        PROVE  m + 1 \in Begun
    <2>1. PICK f \in [0 .. m -> Nat] : Doubles(f, m)
      BY <1>2
    <2> DEFINE g == [i \in 0 .. m + 1 |-> IF i = m + 1 THEN 2 * f[m] ELSE f[i]]
    <2>2. g \in [0 .. m + 1 -> Nat]
      OBVIOUS
    <2>3. ASSUME NEW i \in 0 .. m + 1
          PROVE  g[i] = IF i = 0 THEN 1 ELSE 2 * g[i - 1]
      <3>1. CASE i = m + 1
        BY <3>1
      <3>2. CASE i # m + 1
        <4>1. i \in 0 .. m /\ (i # 0 => i - 1 \in 0 .. m /\ i - 1 # m + 1)
          BY <3>2
        <4>2. g[i] = f[i] /\ (i # 0 => g[i - 1] = f[i - 1])
          BY <4>1
        <4> QED
          BY <2>1, <4>1, <4>2
      <3> QED
        BY <3>1, <3>2
    <2> HIDE DEF g
    <2>4. Doubles(g, m + 1) /\ m + 1 \in Nat
      BY <2>3
    <2> HIDE DEF Doubles
    <2> QED
      BY <2>2, <2>4
  <1>3. \A m \in Nat : \E f \in [0 .. m -> Nat] : Doubles(f, m)
    <2> HIDE DEF Doubles
    <2>1. Nat \subseteq Begun
      <3> HIDE DEF Begun
      <3> QED
        BY <1>1, <1>2, SetInduction
    <2> QED
      BY <2>1
  <1>4. ASSUME NEW m \in Nat, NEW f \in [0 .. m -> Nat], NEW g \in [0 .. m + 1 -> Nat],
               Doubles(f, m), Doubles(g, m + 1)
        PROVE  f[m] = g[m]
    <2> DEFINE Same == {i \in Nat : i \in 0 .. m => f[i] = g[i]}
    <2>1. 0 \in Same
      BY <1>4
    <2>2. ASSUME NEW i \in Nat, i \in Same
          PROVE  i + 1 \in Same
      <3> SUFFICES ASSUME i + 1 \in 0 .. m
                   PROVE  f[i + 1] = g[i + 1]
        OBVIOUS
      <3>1. i \in 0 .. m /\ i + 1 \in 0 .. m + 1 /\ i + 1 # 0 /\ i + 1 - 1 = i
        OBVIOUS
      <3>2. f[i + 1] = 2 * f[i] /\ f[i] = g[i]
        BY <1>4, <2>2, <3>1
      <3>3. g[i + 1] = 2 * g[i]
        BY <1>4, <3>1
      <3> QED
        BY <3>2, <3>3
    <2>3. m \in Same
      <3> HIDE DEF Same
      <3> QED
        BY <2>1, <2>2, SetInduction
    <2> QED
      BY <2>3
  <1> DEFINE Upto(m) == CHOOSE f \in [0 .. m -> Nat] : Doubles(f, m)
             power == [m \in Nat |-> Upto(m)[m]]
             Recursive(f) == f = [n \in Nat |-> IF n = 0 THEN 1 ELSE 2 * f[n - 1]]
  <1>5. \A m \in Nat : Upto(m) \in [0 .. m -> Nat] /\ Doubles(Upto(m), m)
    BY <1>3
  <1>6. power[0] = 1 /\ \A m \in Nat : power[m] \in Nat /\ power[m + 1] = 2 * power[m]
    <2> HIDE DEF Upto
    <2>1. \A m \in Nat : power[m] \in Nat
      BY <1>5
    <2>2. power[0] = 1
      BY <1>5
    <2>3. ASSUME NEW m \in Nat
          PROVE  power[m + 1] = 2 * power[m]
      <3>1. Upto(m)[m] = Upto(m + 1)[m]
        <4> HIDE DEF Doubles
        <4>1. m + 1 \in Nat
          OBVIOUS
        <4> QED
          BY <1>4, <1>5, <4>1
      <3>2. m + 1 \in 0 .. m + 1 /\ m + 1 # 0 /\ m + 1 - 1 = m /\ m + 1 \in Nat
        OBVIOUS
      <3>3. Upto(m + 1)[m + 1] = 2 * Upto(m + 1)[m]
        BY <1>5, <3>2
      <3> QED
        BY <3>1, <3>2, <3>3
    <2> QED
      BY <2>1, <2>2, <2>3
  <1>7. Recursive(power)
    <2> HIDE DEF Upto
    <2>1. power = [n \in Nat |-> power[n]]
      OBVIOUS
    <2> HIDE DEF power
    <2>2. ASSUME NEW n \in Nat
          PROVE  power[n] = IF n = 0 THEN 1 ELSE 2 * power[n - 1]
      <3>1. n # 0 => n - 1 \in Nat /\ n - 1 + 1 = n
        OBVIOUS
      <3> QED
        BY <1>6, <3>1
    <2> QED
      BY <2>1, <2>2
  <1> HIDE DEF power
  <1>8. TwoTo = CHOOSE f : Recursive(f)
    BY DEF TwoTo
  <1>9. Recursive(TwoTo)
    <2> HIDE DEF Recursive
    <2> QED
      BY <1>7, <1>8
  <1>10. TwoTo[0] = 1 /\ \A n \in Nat : TwoTo[n + 1] = 2 * TwoTo[n]
    <2> DEFINE two == TwoTo
    <2>1. two = [n \in Nat |-> IF n = 0 THEN 1 ELSE 2 * two[n - 1]]
      BY <1>9
    <2> HIDE DEF two
    <2>2. two[0] = 1
      BY <2>1
    <2>3. ASSUME NEW n \in Nat
          PROVE  two[n + 1] = 2 * two[n]
      <3>1. n + 1 \in Nat /\ n + 1 # 0 /\ n + 1 - 1 = n
        OBVIOUS
      <3> QED
        BY <2>1, <3>1
    <2> QED
      BY <2>2, <2>3 DEF two
  <1> DEFINE Positive == {n \in Nat : TwoTo[n] \in Nat \ {0}}
  <1>11. Nat \subseteq Positive
    <2>1. 0 \in Positive
      BY <1>10
    <2>2. ASSUME NEW n \in Nat, n \in Positive
          PROVE  n + 1 \in Positive
      BY <1>10, <2>2
    <2> HIDE DEF Positive
    <2> QED
      BY <2>1, <2>2, SetInduction
  <1> QED
    BY <1>10, <1>11

\* What a quotient and a remainder are
LEMMA Division ==
    ASSUME NEW a \in Int, NEW m \in Nat \ {0}, NEW q \in Int, NEW r \in 0 .. m - 1, a = q * m + r
    PROVE  a \div m = q /\ a % m = r
  OBVIOUS

LEMMA Distributes ==
    ASSUME NEW a \in Int, NEW b \in Int, NEW m \in Int
    PROVE  (a - b) * m = a * m - b * m
  OBVIOUS

LEMMA Associates ==
    ASSUME NEW a \in Int, NEW b \in Int
    PROVE  a * (2 * b) = 2 * (a * b) /\ 2 * a - 2 * b = 2 * (a - b)
  OBVIOUS

LEMMA TwoToType ==
    ASSUME NEW n \in Nat
    PROVE  TwoTo[n] \in Nat \ {0}
  BY TwoToUnfolds

LEMMA TwoToSum ==
    ASSUME NEW a \in Nat, NEW b \in Nat
    PROVE  TwoTo[a + b] = TwoTo[a] * TwoTo[b]
  <1> DEFINE Good == {n \in Nat : TwoTo[a + n] = TwoTo[a] * TwoTo[n]}
  <1>1. 0 \in Good
    <2>1. a + 0 = a /\ TwoTo[0] = 1 /\ TwoTo[a] \in Nat
      BY TwoToUnfolds
    <2> QED
      BY <2>1
  <1>2. ASSUME NEW n \in Nat, n \in Good
        PROVE  n + 1 \in Good
    <2>1. PICK x \in Int, y \in Int : x = TwoTo[a] /\ y = TwoTo[n]
      BY TwoToType
    <2>2. PICK m \in Nat : m = a + n
      OBVIOUS
    <2>3. TwoTo[m + 1] = 2 * TwoTo[m] /\ TwoTo[n + 1] = 2 * y
      BY <2>1, TwoToUnfolds
    <2>4. TwoTo[m] = x * y
      BY <1>2, <2>1, <2>2
    <2>5. x * (2 * y) = 2 * (x * y)
      BY Associates
    <2>6. a + (n + 1) = m + 1
      BY <2>2
    <2>7. TwoTo[a + (n + 1)] = 2 * (x * y)
      BY <2>3, <2>4, <2>6
    <2>8. TwoTo[a] * TwoTo[n + 1] = x * (2 * y)
      BY <2>1, <2>3
    <2> QED
      BY <2>5, <2>7, <2>8
  <1>3. b \in Good
    <2> HIDE DEF Good
    <2> QED
      BY <1>1, <1>2, SetInduction
  <1> QED
    BY <1>3

\* A lower power divides a higher one.
LEMMA TwoToDivides ==
    ASSUME NEW a \in Nat, NEW b \in Nat, a <= b
    PROVE  /\ b - a \in Nat /\ TwoTo[b - a] \in Nat \ {0}
           /\ TwoTo[b] = TwoTo[b - a] * TwoTo[a] /\ TwoTo[a] <= TwoTo[b]
  <1>1. PICK c \in Nat : c = b - a
    OBVIOUS
  <1>2. b = c + a
    BY <1>1
  <1>3. TwoTo[b] = TwoTo[c] * TwoTo[a]
    BY <1>2, TwoToSum
  <1>4. PICK x \in Nat \ {0}, y \in Nat \ {0} : x = TwoTo[c] /\ y = TwoTo[a]
    BY TwoToType
  <1>5. y <= x * y
    OBVIOUS
  <1> QED
    BY <1>1, <1>3, <1>4, <1>5

LEMMA TwoToHalves ==
    ASSUME NEW n \in Nat \ {0}
    PROVE  n - 1 \in Nat /\ TwoTo[n - 1] \in Nat \ {0} /\ TwoTo[n] = 2 * TwoTo[n - 1]
  <1>1. PICK m \in Nat : m = n - 1 /\ n = m + 1
    OBVIOUS
  <1> QED
    BY <1>1, TwoToUnfolds

\* A power of two less a lower one, divided by a power between them
LEMMA Quotient ==
    ASSUME NEW n \in Nat, NEW j \in 0 .. n, NEW z \in 0 .. j
    PROVE  (TwoTo[n] - TwoTo[z]) \div TwoTo[j] = TwoTo[n - j] - 1
           /\ (TwoTo[n] - TwoTo[z]) % TwoTo[j] = TwoTo[j] - TwoTo[z]
  <1>1. PICK x \in Nat \ {0}, y \in Nat \ {0}, w \in Nat \ {0} :
           x = TwoTo[n - j] /\ y = TwoTo[j] /\ w = TwoTo[z] /\ TwoTo[n] = x * y /\ w <= y
    <2>1. j \in Nat /\ z \in Nat /\ j <= n /\ z <= j
      OBVIOUS
    <2>2. TwoTo[n - j] \in Nat \ {0} /\ TwoTo[n] = TwoTo[n - j] * TwoTo[j]
      BY <2>1, TwoToDivides
    <2>3. TwoTo[z] <= TwoTo[j]
      BY <2>1, TwoToDivides
    <2> QED
      BY <2>1, <2>2, <2>3, TwoToType
  <1>2. (x - 1) * y = x * y - y
    OBVIOUS
  <1>3. PICK p \in Int : p = x * y
    OBVIOUS
  <1>4. p - w = (x - 1) * y + (y - w)
    BY <1>2, <1>3
  <1>5. y - w \in 0 .. y - 1 /\ x - 1 \in Int /\ p - w \in Int
    BY <1>1
  <1>6. (p - w) \div y = x - 1 /\ (p - w) % y = y - w
    BY <1>4, <1>5, Division
  <1> QED
    BY <1>1, <1>3, <1>6

LEMMA Parity ==
    ASSUME NEW h \in Int
    PROVE  (2 * h) % 2 = 0 /\ (2 * h - 1) % 2 = 1
  OBVIOUS

\* The bits that are set in a power of two less a lower one: the run between them
LEMMA BitsSet ==
    ASSUME NEW n \in Nat, NEW z \in 0 .. n, NEW j \in 0 .. n - 1
    PROVE  ((TwoTo[n] - TwoTo[z]) \div TwoTo[j]) % 2 = 1 <=> z <= j
  <1>1. PICK m \in Nat \ {0} : m = n - j
    OBVIOUS
  <1>2. PICK h \in Int : h = TwoTo[m - 1] /\ TwoTo[m] = 2 * h
    BY TwoToHalves
  <1>3. CASE z <= j
    <2>1. z \in 0 .. j /\ j \in 0 .. n
      BY <1>3
    <2>2. (TwoTo[n] - TwoTo[z]) \div TwoTo[j] = TwoTo[n - j] - 1
      BY <2>1, Quotient
    <2>3. (2 * h - 1) % 2 = 1
      BY Parity
    <2> QED
      BY <1>1, <1>2, <1>3, <2>2, <2>3
  <1>4. CASE ~(z <= j)
    <2>1. PICK l \in Nat \ {0} : l = z - j
      BY <1>4
    <2>2. PICK g \in Int : g = TwoTo[l - 1] /\ TwoTo[l] = 2 * g
      BY TwoToHalves
    <2>3. j \in Nat /\ j <= n /\ j <= z
      BY <1>4
    <2>4. TwoTo[n] = TwoTo[m] * TwoTo[j]
      BY <1>1, <2>3, TwoToDivides
    <2>5. TwoTo[z] = TwoTo[l] * TwoTo[j]
      BY <2>1, <2>3, TwoToDivides
    <2>6. PICK y \in Nat \ {0} : y = TwoTo[j]
      BY <2>3, TwoToType
    <2>7. PICK x \in Int, u \in Int : x = TwoTo[m] /\ u = TwoTo[l]
      BY TwoToType
    <2>8. (x - u) * y = x * y - u * y
      BY Distributes
    <2>9. PICK d \in Int : d = TwoTo[n] - TwoTo[z] /\ d = (x - u) * y + 0
      BY <2>4, <2>5, <2>6, <2>7, <2>8
    <2>10. d \div y = x - u
      <3>1. x - u \in Int /\ 0 \in 0 .. y - 1
        BY <2>6
      <3> QED
        BY <2>9, <3>1, Division
    <2>11. x - u = 2 * (h - g)
      BY <1>2, <2>2, <2>7
    <2>12. (2 * (h - g)) % 2 = 0
      BY Parity
    <2> QED
      BY <1>4, <2>6, <2>9, <2>10, <2>11, <2>12
  <1> QED
    BY <1>3, <1>4

\* The bits of an address
Width == Octets * OctetBits

LEMMA Widths ==
    /\ Octets \in Nat \ {0} /\ OctetBits \in Nat \ {0} /\ Width \in Nat
    /\ Width = (Octets - 1) * OctetBits + OctetBits /\ (Octets - 1) * OctetBits \in Nat
    /\ TwoTo[OctetBits] \in Nat \ {0} /\ MaxOctet = TwoTo[OctetBits] - TwoTo[0] /\ MaxOctet \in Nat
  <1>1. Octets \in Nat \ {0} /\ OctetBits \in Nat \ {0}
    BY WidthAssumption
  <1>2. PICK o \in Nat, b \in Nat : o = Octets - 1 /\ b = OctetBits
    BY <1>1
  <1>3. o * b \in Nat /\ (o + 1) * b = o * b + b
    BY Product
  <1>4. TwoTo[OctetBits] \in Nat \ {0} /\ TwoTo[0] = 1
    BY <1>1, TwoToUnfolds
  <1>5. Octets = o + 1
    BY <1>1, <1>2
  <1> QED
    BY <1>1, <1>2, <1>3, <1>4, <1>5 DEF Width, MaxOctet

\* The octets of a mask whose zeros are in the last one
LEMMA OctetsOfOnes ==
    ASSUME NEW z \in 0 .. OctetBits, NEW k \in 1 .. Octets
    PROVE  OctetsOf(TwoTo[Width] - TwoTo[z])[k] =
              TwoTo[OctetBits] - TwoTo[IF k < Octets THEN 0 ELSE z]
  <1>1. PICK b \in Nat \ {0}, o \in Nat \ {0} : b = OctetBits /\ o = Octets
    BY WidthAssumption
  <1>2. PICK y \in Nat, x \in Nat : y = b * (o - k) /\ x = b * (k - 1)
    BY <1>1
  <1>3. Width = x + b + y
    BY <1>1, <1>2 DEF Width
  <1>4. k < o => b <= y
    BY <1>1, <1>2
  <1>5. k = o => y = 0
    BY <1>1, <1>2
  <1>6. TwoTo[0] = 1 /\ TwoTo[x + b] \in Nat
    <2>1. x + b \in Nat /\ 0 \in Nat
      OBVIOUS
    <2> QED
      BY <2>1, TwoToUnfolds
  <1>7. PICK q \in Int :
           /\ q = TwoTo[x + b] - TwoTo[IF k < o THEN 0 ELSE z]
           /\ q = (TwoTo[Width] - TwoTo[z]) \div TwoTo[y]
    <2>1. CASE k < o
      <3>1. Width \in Nat /\ y \in 0 .. Width /\ z \in 0 .. y /\ Width - y = x + b
        BY <1>1, <1>3, <1>4, <2>1
      <3>2. (TwoTo[Width] - TwoTo[z]) \div TwoTo[y] = TwoTo[Width - y] - 1
        BY <3>1, Quotient
      <3> QED
        BY <1>6, <2>1, <3>1, <3>2
    <2>2. CASE k = o
      <3>1. y = 0 /\ Width = x + b
        BY <1>3, <1>5, <2>2
      <3>2. PICK n \in Int : n = TwoTo[x + b] - TwoTo[z]
        BY <1>6, TwoToType
      <3>3. n \div 1 = n
        BY Division
      <3> QED
        BY <1>6, <2>2, <3>1, <3>2, <3>3
    <2> QED
      BY <1>1, <2>1, <2>2
  <1>8. q % TwoTo[b] = TwoTo[b] - TwoTo[IF k < o THEN 0 ELSE z]
    <2>1. PICK w \in 0 .. b : w = IF k < o THEN 0 ELSE z
      BY <1>1
    <2>2. x + b \in Nat /\ b \in 0 .. x + b
      OBVIOUS
    <2>3. (TwoTo[x + b] - TwoTo[w]) % TwoTo[b] = TwoTo[b] - TwoTo[w]
      BY <2>2, Quotient
    <2> QED
      BY <1>7, <2>1, <2>3
  <1>9. OctetsOf(TwoTo[Width] - TwoTo[z])[k] = q % TwoTo[b]
    BY <1>1, <1>2, <1>7 DEF OctetsOf
  <1> QED
    BY <1>1, <1>8, <1>9

\* The ones of a number whose octets are runs of ones: in the last octet from bit z on,
\* in the others from bit y on
LEMMA CountedOnes ==
    ASSUME NEW octets, NEW y \in 0 .. OctetBits, NEW z \in 0 .. OctetBits,
           \A k \in 1 .. Octets :
              octets[k] = TwoTo[OctetBits] - TwoTo[IF k < Octets THEN y ELSE z]
    PROVE  ToPrefix(octets) = (Octets - 1) * (OctetBits - y) + (OctetBits - z)
  <1>1. PICK b \in Nat \ {0}, o \in Nat \ {0} : b = OctetBits /\ o = Octets
    BY WidthAssumption
  <1> DEFINE All == (1 .. o) \X (0 .. b - 1)
             IsSet(bit) == (octets[bit[1]] \div TwoTo[bit[2]]) % 2 = 1
             Before == (1 .. o - 1) \X (y .. b - 1)
             InLast == {o} \X (z .. b - 1)
  <1>2. ASSUME NEW bit \in All
        PROVE  IsSet(bit) <=> bit \in Before \cup InLast
    <2>1. PICK k \in 1 .. o, j \in 0 .. b - 1 : bit = <<k, j>>
      OBVIOUS
    <2>2. PICK w \in 0 .. b : w = IF k < o THEN y ELSE z
      BY <1>1
    <2>3. octets[k] = TwoTo[b] - TwoTo[w]
      BY <1>1, <2>2
    <2>4. ((TwoTo[b] - TwoTo[w]) \div TwoTo[j]) % 2 = 1 <=> w <= j
      BY BitsSet
    <2>5. IsSet(bit) <=> w <= j
      BY <2>1, <2>3, <2>4
    <2>6. <<k, j>> \in Before \cup InLast <=> w <= j
      BY <1>1, <2>2
    <2> QED
      BY <2>1, <2>5, <2>6
  <1>3. Before \cup InLast \subseteq All
    BY <1>1
  <1>4. {bit \in All : IsSet(bit)} = Before \cup InLast
    <2> HIDE DEF All, IsSet, Before, InLast
    <2> QED
      BY <1>2, <1>3
  <1>5. IsFiniteSet(Before) /\ Cardinality(Before) = (o - 1) * (b - y)
    <2>1. PICK S : S = 1 .. o - 1 /\ IsFiniteSet(S) /\ Cardinality(S) = o - 1
      BY <1>1, FS_Interval
    <2>2. PICK T : T = y .. b - 1 /\ IsFiniteSet(T) /\ Cardinality(T) = b - y
      BY <1>1, FS_Interval
    <2>3. IsFiniteSet(S \X T) /\ Cardinality(S \X T) = Cardinality(S) * Cardinality(T)
      BY <2>1, <2>2, FS_Product
    <2>4. Before = S \X T
      BY <2>1, <2>2
    <2> QED
      BY <2>1, <2>2, <2>3, <2>4
  <1>6. IsFiniteSet(InLast) /\ Cardinality(InLast) = b - z
    <2>1. PICK S : S = {o} /\ IsFiniteSet(S) /\ Cardinality(S) = 1
      BY FS_Singleton
    <2>2. PICK T : T = z .. b - 1 /\ IsFiniteSet(T) /\ Cardinality(T) = b - z
      BY <1>1, FS_Interval
    <2>3. IsFiniteSet(S \X T) /\ Cardinality(S \X T) = Cardinality(S) * Cardinality(T)
      BY <2>1, <2>2, FS_Product
    <2>4. InLast = S \X T /\ 1 * (b - z) = b - z
      BY <1>1, <2>1, <2>2
    <2> QED
      BY <2>1, <2>2, <2>3, <2>4
  <1>7. Before \cap InLast = {}
    BY <1>1
  <1>8. ToPrefix(octets) = Cardinality({bit \in All : IsSet(bit)})
    BY <1>1 DEF ToPrefix
  <1> HIDE DEF All, IsSet, Before, InLast
  <1>9. Cardinality(Before \cup InLast) = (o - 1) * (b - y) + (b - z)
    <2>1. Cardinality(Before \cup InLast) =
             Cardinality(Before) + Cardinality(InLast) - Cardinality(Before \cap InLast)
      BY <1>5, <1>6, FS_Union
    <2>2. Cardinality(Before \cap InLast) = 0
      BY <1>7, FS_EmptySet
    <2>3. (o - 1) * (b - y) \in Int /\ b - z \in Int
      BY <1>1
    <2> QED
      BY <1>5, <1>6, <2>1, <2>2, <2>3
  <1> QED
    BY <1>1, <1>4, <1>8, <1>9

\* Octets that the constructor of a mask lets through are those of a run of ones and then
\* zeros, wherever in an octet the zeros begin, and to_prefix counts the ones.
THEOREM ToPrefixCountsOnes ==
    ASSUME NEW v \in Seq(0 .. MaxOctet), Len(v) = Octets, MaskSoFar(v)
    PROVE  \E ones \in 1 .. Octets * OctetBits : v = MaskOf(ones) /\ ToPrefix(v) = ones
  <1>1. PICK b \in Nat \ {0}, o \in Nat \ {0} : b = OctetBits /\ o = Octets
    BY WidthAssumption
  <1>2. o \in 1 .. o /\ v[o] \in MaskOctets
    BY <1>1 DEF MaskSoFar
  <1>3. PICK z \in 0 .. b - 1 : v[o] = MaxOctet + 1 - TwoTo[z]
    BY <1>1, <1>2 DEF MaskOctets
  <1>4. z \in 0 .. b /\ z \in Nat /\ 0 \in 0 .. b
    OBVIOUS
  <1>5. ASSUME NEW k \in 1 .. o
        PROVE  v[k] = TwoTo[b] - TwoTo[IF k < o THEN 0 ELSE z]
    <2>1. k < o => v[k] = MaxOctet
      BY <1>1 DEF MaskSoFar
    <2>2. MaxOctet = TwoTo[b] - TwoTo[0] /\ MaxOctet + 1 = TwoTo[b]
      <3>1. TwoTo[0] = 1
        BY TwoToUnfolds
      <3>2. MaxOctet = TwoTo[b] - TwoTo[0] /\ TwoTo[b] \in Nat
        BY <1>1, Widths
      <3> QED
        BY <3>1, <3>2
    <2>3. CASE k < o
      BY <2>1, <2>2, <2>3
    <2>4. CASE ~(k < o)
      <3>1. k = o
        BY <2>4
      <3>2. v[o] = TwoTo[b] - TwoTo[z]
        <4>1. PICK w \in Nat, m \in Nat, u \in Nat : w = TwoTo[z] /\ m = MaxOctet /\ u = TwoTo[b]
          <5>1. MaxOctet \in Nat
            BY Widths
          <5>2. TwoTo[z] \in Nat /\ TwoTo[b] \in Nat
            BY TwoToType
          <5> QED
            BY <5>1, <5>2
        <4>2. v[o] = m + 1 - w
          BY <1>3, <4>1
        <4>3. m + 1 = u
          BY <2>2, <4>1
        <4>4. v[o] = u - w
          BY <4>2, <4>3
        <4> QED
          BY <4>1, <4>4
      <3>3. (IF k < o THEN 0 ELSE z) = z
        BY <2>4
      <3> QED
        BY <3>1, <3>2, <3>3
    <2> QED
      BY <2>3, <2>4
  <1> DEFINE ones == Width - z
             octets == OctetsOf(TwoTo[Width] - TwoTo[Width - ones])
  <1>6. ones \in 1 .. Width /\ Width - ones = z /\ ones = (o - 1) * (b - 0) + (b - z)
    BY <1>1, Widths
  <1>7. octets = [k \in 1 .. o |-> octets[k]] /\ v = [k \in 1 .. o |-> v[k]]
    BY <1>1 DEF OctetsOf
  <1>8. ASSUME NEW k \in 1 .. o
        PROVE  octets[k] = v[k]
    <2> HIDE DEF ones
    <2> QED
      BY <1>1, <1>4, <1>5, <1>6, OctetsOfOnes
  <1>9. v = octets
    <2> HIDE DEF octets
    <2> QED
      BY <1>7, <1>8
  <1>10. ToPrefix(v) = (o - 1) * (b - 0) + (b - z)
    BY <1>1, <1>4, <1>5, CountedOnes
  <1> HIDE DEF ones
  <1> QED
    BY <1>6, <1>9, <1>10 DEF Width, MaskOf

-----------------------------------------------------------------------------
(* The theorems *)

THEOREM InvariantHolds == Spec => []IInv
  BY InitEstablishesIInv, NextKeepsIInv, PTL DEF Spec

\* What a reader of addresses accepted, without an overflow, is the one writing.
LEMMA AcceptedNumbers ==
    ASSUME IInv, ~Overflows(text), NEW r \in AddressReaders \ {"mask"}, r \in accepted
    PROVE  /\ text \in Seq(AllChars) /\ Octets \in Nat \ {0}
           /\ \E ends \in Writings(text) :
                 /\ value[r] = Numbers(text, ends) /\ ReadFrom(text, r, ends, value[r])
                 /\ Len(value[r]) = Octets
                 /\ r # "constructor" => CharAt(text, Position(r, ends, Octets)) = EOT
  <1>1. text \in Seq(AllChars) /\ Octets \in Nat \ {0}
    BY WidthAssumption DEF IInv, TypeKept
  <1>2. PICK v \in Seq(0 .. MaxOctet) : v = value[r] /\ Len(v) = Octets
    BY DEF IInv, AcceptedKept, WrittenAs
  <1>3. PICK ends \in AllEnds(text) : ReadFrom(text, r, ends, v)
           /\ (r # "constructor" => CharAt(text, Position(r, ends, Octets)) = EOT)
    BY <1>2 DEF IInv, AcceptedKept, WrittenAs
  <1>4. ends \in Writings(text) /\ v = Numbers(text, ends)
    BY <1>1, <1>2, <1>3, SameNumbers
  <1> QED
    BY <1>1, <1>2, <1>3, <1>4

\* The check accepts an address.
LEMMA CheckedIsAddress ==
    ASSUME IInv, ~Overflows(text), "check" \in accepted
    PROVE  IsAddress(text)
  <1>1. "check" \in AddressReaders \ {"mask"}
    BY DEF AddressReaders
  <1>2. PICK ends \in Writings(text) :
           /\ value["check"] = Numbers(text, ends) /\ ReadFrom(text, "check", ends, value["check"])
           /\ Len(value["check"]) = Octets
           /\ CharAt(text, Position("check", ends, Octets)) = EOT
    BY <1>1, AcceptedNumbers
  <1>3. \A k \in 1 .. Octets :
           Part(text, ends, k) # << >> /\ Numbers(text, ends)[k] \in 0 .. MaxOctet
    BY <1>2 DEF ReadFrom
  <1>4. CharAt(text, ends[Octets] + 1) = EOT
    BY <1>2, WidthAssumption DEF Position
  <1> QED
    BY <1>3, <1>4 DEF IsAddress

LEMMA SameValue ==
    ASSUME IInv, ~Overflows(text), NEW q \in (AddressReaders \ {"mask"}) \cap accepted,
           NEW r \in (AddressReaders \ {"mask"}) \cap accepted
    PROVE  value[q] = value[r]
  <1>1. text \in Seq(AllChars)
    BY DEF IInv, TypeKept
  <1>2. PICK e \in Writings(text) : value[q] = Numbers(text, e)
    BY AcceptedNumbers
  <1>3. PICK f \in Writings(text) : value[r] = Numbers(text, f)
    BY AcceptedNumbers
  <1>4. e = f
    BY <1>1, SameWriting
  <1> QED
    BY <1>2, <1>3, <1>4

\* Unless an integer overflows, the command line lets through the words that are
\* addresses and no others, and its constructor and the service read the same address.
THEOREM CheckedWordIsReadHolds == Spec => []CheckedWordIsRead
  <1>1. IInv => CheckedWordIsRead
    <2> SUFFICES ASSUME IInv, "service" \in ended, ~Overflows(text)
                 PROVE  /\ "check" \in accepted <=> IsAddress(text)
                        /\ "check" \in accepted =>
                              /\ "constructor" \in accepted /\ value["constructor"] = value["check"]
                              /\ \/ "service" \in accepted /\ value["service"] = value["check"]
                                 \/ \E i \in 1 .. Len(text) : text[i] = EOT
      BY DEF CheckedWordIsRead, ended
    <2>1. "check" \in ended /\ ("check" \in accepted => "constructor" \in ended)
      BY DEF IInv, OrderKept
    <2>2. IsAddress(text) =>
             /\ {"check", "constructor"} \cap (refused \cup broken) = {}
             /\ "service" \in refused \cup broken => \E i \in 1 .. Len(text) : text[i] = EOT
      BY DEF IInv, AddressPasses
    <2>3. "check" \in accepted <=> IsAddress(text)
      BY <2>1, <2>2, CheckedIsAddress DEF ended
    <2>4. ASSUME "check" \in accepted
          PROVE  /\ "constructor" \in accepted /\ value["constructor"] = value["check"]
                 /\ \/ "service" \in accepted /\ value["service"] = value["check"]
                    \/ \E i \in 1 .. Len(text) : text[i] = EOT
      <3>1. {"check", "constructor", "service"} \subseteq AddressReaders \ {"mask"}
        BY DEF AddressReaders
      <3>2. "constructor" \in accepted
        BY <2>1, <2>2, <2>3, <2>4 DEF ended
      <3>3. "service" \in accepted \/ \E i \in 1 .. Len(text) : text[i] = EOT
        BY <2>2, <2>3, <2>4 DEF ended
      <3> QED
        BY <2>4, <3>1, <3>2, <3>3, SameValue
    <2> QED
      BY <2>3, <2>4
  <1> QED
    BY <1>1, InvariantHolds, PTL

\* What the service accepts as an address is what is written, up to one character behind
\* it; and its readers of addresses and masks fail only behind an address.
THEOREM AcceptedIsWrittenHolds == Spec => []AcceptedIsWritten
  <1>1. IInv => AcceptedIsWritten
    <2> SUFFICES ASSUME IInv
                 PROVE  AcceptedIsWritten
      OBVIOUS
    <2>1. "service" \in AddressReaders \ {"mask"}
      BY DEF AddressReaders
    <2>2. ASSUME "service" \in accepted, ~Overflows(text)
          PROVE  \E ends \in Writings(text) :
                    value["service"] = Numbers(text, ends) /\ CharAt(text, ends[Octets] + 2) = EOT
      BY <2>1, <2>2, AcceptedNumbers, WidthAssumption DEF Position
    <2>3. broken # {} => Writings(text) # {}
      BY DEF IInv, BrokenKept
    <2> QED
      BY <2>2, <2>3 DEF AcceptedIsWritten
  <1> QED
    BY <1>1, InvariantHolds, PTL

\* The elements of a pattern that parse_pattern accepts are what the pattern says.
THEOREM PatternIsKeptHolds == Spec => []PatternIsKept
  <1>1. IInv => PatternIsKept
    BY DEF IInv
  <1> QED
    BY <1>1, InvariantHolds, PTL

\* The text of a mask that the service accepts says a run of ones and then zeros,
\* wherever in an octet the zeros begin, and nothing follows it.
THEOREM MaskTextIsContiguousHolds == Spec => []MaskTextIsContiguous
  <1>1. IInv => MaskTextIsContiguous
    <2> SUFFICES ASSUME IInv, "mask" \in accepted, ~Overflows(text)
                 PROVE  \E ends \in Writings(text) :
                           /\ CharAt(text, ends[Octets] + 1) = EOT
                           /\ \E ones \in 1 .. Octets * OctetBits :
                                 Numbers(text, ends) = MaskOf(ones)
      BY DEF MaskTextIsContiguous
    <2>1. "mask" \in AddressReaders
      BY DEF AddressReaders
    <2>2. PICK v : WrittenAs(text, "mask", v) /\ MaskSoFar(v)
      BY DEF IInv, MaskKept
    <2>3. v \in Seq(0 .. MaxOctet) /\ Len(v) = Octets
      BY <2>2 DEF WrittenAs
    <2>4. PICK ends \in AllEnds(text) : ReadFrom(text, "mask", ends, v)
             /\ CharAt(text, Position("mask", ends, Octets)) = EOT
      BY <2>2 DEF WrittenAs
    <2>5. PICK t \in Seq(AllChars) : t = text
      BY DEF IInv, TypeKept
    <2>6. ends \in Writings(t) /\ v = Numbers(t, ends)
      BY <2>1, <2>3, <2>4, <2>5, SameNumbers
    <2>7. CharAt(text, ends[Octets] + 1) = EOT
      BY <2>4, WidthAssumption DEF Position
    <2>8. \E ones \in 1 .. Octets * OctetBits : v = MaskOf(ones)
      BY <2>2, <2>3, ToPrefixCountsOnes
    <2> QED
      BY <2>5, <2>6, <2>7, <2>8
  <1> QED
    BY <1>1, InvariantHolds, PTL
=============================================================================
