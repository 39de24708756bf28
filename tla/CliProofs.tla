------------------------------ MODULE CliProofs ------------------------------
(***************************************************************************)
(* Proofs about the command line, for any characters and any length of a   *)
(* line.                                                                   *)
(*                                                                         *)
(* A command that runs was typed because the way to the node was           *)
(* (NodeWasTyped), and a command that was typed runs because the analysis  *)
(* never leaves its way (CommandFollowed); the two need each other's       *)
(* record of where the analysis is (AnalysisKept).                         *)
(***************************************************************************)
EXTENDS Cli, SequenceTheorems, TLAPS

-----------------------------------------------------------------------------
(* The command tree *)

Keywords == {"version", "ip", "show", "address", "dhcp", "pool", "create"}

\* The elements of each command, as far as they tell the commands apart
LEMMA TheCommands ==
    ASSUME NEW c \in AllCommands
    PROVE  /\ c \in Seq(Keywords \cup {ADDRESS})
           /\ \/ Len(c) = 1 /\ c[1] = "version"
              \/ Len(c) = 2 /\ c[1] = "ip" /\ c[2] = "show"
              \/ Len(c) = 3 /\ c[1] = "ip" /\ c[2] = "address"
              \/ Len(c) = 5 /\ c[1] = "dhcp" /\ c[2] = "pool"
  <1>1. CASE c = <<"version">>
    BY <1>1 DEF Keywords
  <1>2. CASE c = <<"ip", "show">>
    BY <1>2 DEF Keywords
  <1>3. CASE c = <<"ip", "address", "show">>
    BY <1>3 DEF Keywords
  <1>4. CASE c = <<"ip", "address", ADDRESS>>
    BY <1>4 DEF Keywords
  <1>5. CASE c = <<"dhcp", "pool", "create", ADDRESS, ADDRESS>>
    BY <1>5 DEF Keywords
  <1> QED
    BY <1>1, <1>2, <1>3, <1>4, <1>5 DEF AllCommands

LEMMA CommandShapes ==
    \A c \in AllCommands : c \in Seq(Elements) /\ Len(c) \in Nat \ {0}
  <1> SUFFICES ASSUME NEW c \in AllCommands
               PROVE  c \in Seq(Elements) /\ Len(c) \in Nat \ {0}
    OBVIOUS
  <1>1. c \in Seq(Keywords \cup {ADDRESS}) /\ Len(c) \in Nat \ {0}
    BY TheCommands
  <1>2. ToSet(c) \subseteq Elements
    BY DEF Elements
  <1>3. \A i \in 1 .. Len(c) : c[i] \in Elements
    BY <1>1, <1>2 DEF ToSet
  <1> QED
    BY <1>1, <1>3

LEMMA NodesArePrefixes ==
    /\ \A c \in AllCommands : \A l \in 0 .. Len(c) : SubSeq(c, 1, l) \in Nodes
    /\ \A n \in Nodes :
          /\ n \in Seq(Elements)
          /\ \E c \in AllCommands :
                Len(n) <= Len(c) /\ \A i \in 1 .. Len(n) : n[i] = c[i]
  <1>1. ASSUME NEW c \in AllCommands, NEW l \in 0 .. Len(c)
        PROVE  SubSeq(c, 1, l) \in Nodes
    BY DEF Nodes, Prefixes
  <1>2. ASSUME NEW n \in Nodes
        PROVE  /\ n \in Seq(Elements)
               /\ \E c \in AllCommands :
                     Len(n) <= Len(c) /\ \A i \in 1 .. Len(n) : n[i] = c[i]
    <2>1. PICK c \in AllCommands : n \in Prefixes(c)
      BY DEF Nodes
    <2>2. PICK l \in 0 .. Len(c) : n = SubSeq(c, 1, l)
      BY <2>1 DEF Prefixes
    <2>3. c \in Seq(Elements) /\ Len(c) \in Nat
      BY CommandShapes
    <2>4. /\ n \in Seq(Elements) /\ Len(n) = l
          /\ \A i \in 1 .. l : n[i] = c[i]
      BY <2>2, <2>3
    <2> QED
      BY <2>4
  <1> QED
    BY <1>1, <1>2

\* The root is a node.
LEMMA RootIsANode == << >> \in Nodes
  <1>1. <<"version">> \in AllCommands
    BY DEF AllCommands
  <1>2. SubSeq(<<"version">>, 1, 0) \in Nodes
    BY <1>1, CommandShapes, NodesArePrefixes
  <1>3. SubSeq(<<"version">>, 1, 0) = << >>
    OBVIOUS
  <1> QED
    BY <1>2, <1>3

\* A command differs from every longer one within its own length.
LEMMA CommandsDiffer ==
    ASSUME NEW c \in AllCommands, NEW d \in AllCommands, Len(c) < Len(d)
    PROVE  \E i \in 1 .. Len(c) : c[i] # d[i]
  <1> DEFINE m == Len(c)
             n == Len(d)
  <1>1. \/ m = 1 /\ c[1] = "version"
        \/ m = 2 /\ c[1] = "ip" /\ c[2] = "show"
        \/ m = 3 /\ c[1] = "ip" /\ c[2] = "address"
        \/ m = 5
    BY TheCommands
  <1>2. \/ n = 1
        \/ n = 2 /\ d[1] = "ip" /\ d[2] = "show"
        \/ n = 3 /\ d[1] = "ip" /\ d[2] = "address"
        \/ n = 5 /\ d[1] = "dhcp" /\ d[2] = "pool"
    BY TheCommands
  <1>3. m < n
    OBVIOUS
  <1> HIDE DEF m, n
  <1>4. \/ m >= 1 /\ c[1] # d[1]
        \/ m >= 2 /\ c[2] # d[2]
    <2>1. CASE m = 1
      <3>1. c[1] = "version" /\ (d[1] = "ip" \/ d[1] = "dhcp")
        BY <1>1, <1>2, <1>3, <2>1
      <3> QED
        BY <2>1, <3>1
    <2>2. CASE m = 2
      <3>1. c[2] = "show" /\ (d[2] = "address" \/ d[2] = "pool")
        BY <1>1, <1>2, <1>3, <2>2
      <3> QED
        BY <2>2, <3>1
    <2>3. CASE m = 3
      <3>1. c[1] = "ip" /\ d[1] = "dhcp"
        BY <1>1, <1>2, <1>3, <2>3
      <3> QED
        BY <2>3, <3>1
    <2> QED
      BY <1>1, <1>2, <1>3, <2>1, <2>2, <2>3
  <1> QED
    BY <1>1, <1>4 DEF m

\* The node of a command has nothing below it but the handler, so none is hidden
\* behind a longer command.
LEMMA NoCommandIsHidden == \A c \in AllCommands : HasHandler(c)
  <1> SUFFICES ASSUME NEW c \in AllCommands, NEW e \in Elements, Append(c, e) \in Nodes
               PROVE  FALSE
    BY DEF HasHandler, Children
  <1>1. c \in Seq(Elements) /\ Len(c) \in Nat
    BY CommandShapes
  <1>2. /\ Len(Append(c, e)) = Len(c) + 1
        /\ \A i \in 1 .. Len(c) : Append(c, e)[i] = c[i]
    BY <1>1, AppendProperties
  <1>3. PICK d \in AllCommands :
            Len(c) + 1 <= Len(d) /\ \A i \in 1 .. Len(c) + 1 : Append(c, e)[i] = d[i]
    BY <1>2, NodesArePrefixes
  <1>4. Len(c) < Len(d) /\ \A i \in 1 .. Len(c) : c[i] = d[i]
    BY <1>1, <1>2, <1>3, CommandShapes
  <1> QED
    BY <1>4, CommandsDiffer

-----------------------------------------------------------------------------
(* Words and the elements they match *)

\* Only a word of one character matches an element.
LEMMA WordMatches ==
    ASSUME NEW word, NEW element, Matches(word, element)
    PROVE  Len(word) = 1 /\ Accepts(word[1], element)
  BY DEF Matches, IsAddress, Accepts

LEMMA AcceptedMatches ==
    ASSUME NEW ch, NEW element, Accepts(ch, element)
    PROVE  Matches(<<ch>>, element)
  BY DEF Matches, IsAddress, Accepts

\* Two elements that accept the same character are one: no keyword is an address.
LEMMA OneMatch ==
    ASSUME NEW ch, NEW e \in Elements, NEW f \in Elements, Accepts(ch, e), Accepts(ch, f)
    PROVE  e = f
  BY KeywordsAssumption DEF Accepts

\* What was typed before a place was typed before a later one.
LEMMA TypedBeforeLater ==
    ASSUME NEW line, NEW pattern, NEW a \in Nat, NEW b \in Nat, a <= b,
           TypedIn(line, pattern, a)
    PROVE  TypedIn(line, pattern, b)
  <1>1. PICK where \in [1 .. Len(pattern) -> 1 .. a - 1] : Spells(line, pattern, where)
    BY DEF TypedIn
  <1>2. where \in [1 .. Len(pattern) -> 1 .. b - 1]
    <2>1. 1 .. a - 1 \subseteq 1 .. b - 1
      OBVIOUS
    <2> QED
      BY <2>1
  <1> QED
    BY <1>1, <1>2 DEF TypedIn

\* The word at p continues what was typed before p.
LEMMA TypedOneMore ==
    ASSUME NEW line, NEW pattern \in Seq(Elements), NEW p \in Nat,
           TypedIn(line, pattern, p), IsWord(line, p), p >= 1,
           NEW element \in Elements, Accepts(line[p], element)
    PROVE  TypedIn(line, Append(pattern, element), p + 1)
  <1> DEFINE more == Append(pattern, element)
             n == Len(pattern)
  <1>1. PICK where \in [1 .. n -> 1 .. p - 1] : Spells(line, pattern, where)
    BY DEF TypedIn
  <1>2. /\ n \in Nat /\ Len(more) = n + 1 /\ more[n + 1] = element
        /\ \A i \in 1 .. n : more[i] = pattern[i]
    BY AppendProperties
  <1> HIDE DEF more, n
  <1> DEFINE longer == [i \in 1 .. n + 1 |-> IF i <= n THEN where[i] ELSE p]
  <1>3. /\ longer \in [1 .. Len(more) -> 1 .. p + 1 - 1]
        /\ \A i \in 1 .. n : longer[i] = where[i] /\ where[i] \in 1 .. p - 1
        /\ longer[n + 1] = p
    BY <1>1, <1>2
  <1> HIDE DEF longer
  <1>4. ASSUME NEW i \in 1 .. n + 1, NEW j \in 1 .. n + 1, i < j
        PROVE  longer[i] < longer[j]
    <2>1. CASE j = n + 1
      <3>1. i \in 1 .. n
        BY <2>1, <1>2, <1>4
      <3> QED
        BY <3>1, <2>1, <1>3
    <2>2. CASE j # n + 1
      <3>1. i \in 1 .. n /\ j \in 1 .. n
        BY <2>2, <1>2, <1>4
      <3>2. where[i] < where[j]
        BY <3>1, <1>1, <1>4 DEF Spells, n
      <3> QED
        BY <3>1, <3>2, <1>3
    <2> QED
      BY <2>1, <2>2
  <1>5. ASSUME NEW i \in 1 .. n + 1
        PROVE  IsWord(line, longer[i]) /\ Accepts(line[longer[i]], more[i])
    <2>1. CASE i = n + 1
      BY <2>1, <1>2, <1>3
    <2>2. CASE i # n + 1
      <3>1. i \in 1 .. n
        BY <2>2, <1>2
      <3>2. IsWord(line, where[i]) /\ Accepts(line[where[i]], pattern[i])
        BY <3>1, <1>1 DEF Spells, n
      <3> QED
        BY <3>1, <3>2, <1>2, <1>3
    <2> QED
      BY <2>1, <2>2
  <1>6. Spells(line, more, longer)
    BY <1>2, <1>4, <1>5 DEF Spells
  <1> QED
    BY <1>3, <1>6 DEF TypedIn, more

\* Nothing of a command has been met at the root, before the first character.
LEMMA RootLeadsOn ==
    ASSUME NEW line
    PROVE  LeadsTo(line, 1, << >>)
  <1> SUFFICES ASSUME NEW command \in AllCommands,
                      NEW where \in [1 .. Len(command) -> Filled(line)]
               PROVE  /\ 0 <= Len(command) /\ << >> = SubSeq(command, 1, 0)
                      /\ \A i \in 1 .. Len(command) : i <= 0 <=> where[i] < 1
    <2>1. Len(<< >>) = 0
      OBVIOUS
    <2> QED
      BY <2>1 DEF LeadsTo
  <1>1. Len(command) \in Nat
    BY CommandShapes
  <1>2. << >> = SubSeq(command, 1, 0)
    OBVIOUS
  <1>3. \A i \in 1 .. Len(command) : where[i] \in Filled(line)
    OBVIOUS
  <1>4. \A i \in 1 .. Len(command) : ~(where[i] < 1)
    BY <1>3 DEF Filled
  <1> QED
    BY <1>1, <1>2, <1>4

LEMMA RootIsTyped ==
    ASSUME NEW line
    PROVE  TypedIn(line, << >>, 1)
  <1> DEFINE where == [i \in 1 .. 0 |-> 1]
  <1>1. Len(<< >>) = 0
    OBVIOUS
  <1>2. where \in [1 .. 0 -> 1 .. 1 - 1]
    OBVIOUS
  <1>3. Spells(line, << >>, where)
    BY <1>1 DEF Spells
  <1> QED
    BY <1>1, <1>2, <1>3 DEF TypedIn

\* On an empty line there is no place for a command.
LEMMA NoCommandOnEmptyLine ==
    ASSUME NEW command \in AllCommands
    PROVE  [1 .. Len(command) -> Filled(<< >>)] = {}
  <1>1. 1 \in 1 .. Len(command)
    BY CommandShapes
  <1>2. Len(<< >>) = 0
    OBVIOUS
  <1>3. Filled(<< >>) = {}
    BY <1>2 DEF Filled
  <1>4. ASSUME NEW where \in [1 .. Len(command) -> Filled(<< >>)]
        PROVE  FALSE
    <2>1. where[1] \in Filled(<< >>)
      BY <1>1, <1>4
    <2> QED
      BY <1>3, <2>1
  <1> QED
    BY <1>4

-----------------------------------------------------------------------------
(* The editor *)

LEMMA InitEstablishesIInv == Init => IInv
  <1> SUFFICES ASSUME Init PROVE IInv
    OBVIOUS
  <1> USE DEF Init
  <1>1. << >> \in Lines /\ << >> \in Seq(Values) /\ Len(<< >>) = 0
    BY DEF Lines
  <1>2. TypeOK
    BY <1>1, RootIsANode DEF TypeOK
  <1>3. AnalysisKept
    BY <1>1 DEF AnalysisKept
  <1>4. NodeWasTyped
    BY RootIsTyped DEF NodeWasTyped
  <1>5. CommandFollowed
    BY DEF CommandFollowed
  <1>6. HandlerGetsItsArguments /\ RanWasTyped
    BY DEF HandlerGetsItsArguments, RanWasTyped
  <1>7. CompleteCommandRuns
    BY NoCommandOnEmptyLine DEF CompleteCommandRuns
  <1> QED
    BY <1>2, <1>3, <1>4, <1>5, <1>6, <1>7 DEF IInv

\* After any other key than ENTER the analysis is where it was, at the root.
LEMMA NewKeyKeeps ==
    ASSUME IInv, NewKey, input' \in Lines, cursor' \in 0 .. Len(input')
    PROVE  IInv'
  <1> USE DEF NewKey, Running, treeVars
  <1>1. << >> \in Lines /\ Len(<< >>) = 0
    BY DEF Lines
  <1>2. at = 1 /\ node = << >>
    BY DEF IInv, AnalysisKept
  <1>3. TypeOK'
    BY <1>1, <1>2 DEF IInv, TypeOK
  <1>4. AnalysisKept'
    <2>1. /\ Len(stack) = Len(node)
          /\ \A i \in 1 .. Len(node) : stack[i].type = "IPv4Address" <=> node[i] = ADDRESS
      BY DEF IInv, AnalysisKept
    <2>2. ~(at' \in 2 .. Len(entered') + 1)
      BY <1>1, <1>2
    <2> QED
      BY <1>2, <2>1, <2>2 DEF AnalysisKept
  <1>5. NodeWasTyped'
    BY <1>2, RootIsTyped DEF NodeWasTyped
  <1>6. CommandFollowed'
    BY DEF CommandFollowed
  <1>7. HandlerGetsItsArguments' /\ RanWasTyped'
    BY DEF HandlerGetsItsArguments, RanWasTyped
  <1>8. CompleteCommandRuns'
    BY NoCommandOnEmptyLine DEF CompleteCommandRuns
  <1> QED
    BY <1>3, <1>4, <1>5, <1>6, <1>7, <1>8 DEF IInv

LEMMA RemoveAtLine ==
    ASSUME NEW line \in Lines, NEW p \in 1 .. Len(line)
    PROVE  RemoveAt(line, p) \in Lines /\ Len(RemoveAt(line, p)) = Len(line) - 1
  <1> DEFINE before == SubSeq(line, 1, p - 1)
             after == SubSeq(line, p + 1, Len(line))
  <1>1. before \in Lines /\ Len(before) = p - 1
    BY DEF Lines
  <1>2. after \in Lines /\ Len(after) = Len(line) - p
    BY DEF Lines
  <1>3. Len(line) \in Nat /\ RemoveAt(line, p) = before \o after
    BY DEF Lines, RemoveAt
  <1> HIDE DEF before, after
  <1>4. before \o after \in Lines /\ Len(before \o after) = Len(before) + Len(after)
    BY <1>1, <1>2 DEF Lines
  <1> QED
    BY <1>1, <1>2, <1>3, <1>4

LEMMA EditingKeeps ==
    ASSUME IInv,
           \/ \E ch \in Characters \cup {SPACE} : Type(ch)
           \/ Backspace \/ ArrowLeft \/ ArrowRight \/ OtherKey
    PROVE  IInv'
  <1>1. input \in Lines /\ cursor \in 0 .. Len(input) /\ Len(input) \in Nat
    BY DEF IInv, TypeOK, Lines
  <1>2. CASE \E ch \in Characters \cup {SPACE} : Type(ch)
    <2>1. PICK ch \in Characters \cup {SPACE} : Type(ch)
      BY <1>2
    <2>2. input' \in Lines /\ Len(input') = Len(input) + 1
      BY <1>1, <2>1 DEF Type, Lines
    <2> QED
      BY <1>1, <2>1, <2>2, NewKeyKeeps DEF Type
  <1>3. CASE Backspace
    <2>1. cursor \in 1 .. Len(input)
      BY <1>1, <1>3 DEF Backspace
    <2>2. input' \in Lines /\ Len(input') = Len(input) - 1
      BY <1>1, <1>3, <2>1, RemoveAtLine DEF Backspace
    <2> QED
      BY <1>1, <1>3, <2>1, <2>2, NewKeyKeeps DEF Backspace
  <1>4. CASE ArrowLeft
    BY <1>1, <1>4, NewKeyKeeps DEF ArrowLeft
  <1>5. CASE ArrowRight
    BY <1>1, <1>5, NewKeyKeeps DEF ArrowRight
  <1>6. CASE OtherKey
    BY <1>1, <1>6, NewKeyKeeps DEF OtherKey
  <1> QED
    BY <1>2, <1>3, <1>4, <1>5, <1>6

LEMMA EnterKeeps ==
    ASSUME IInv, Enter
    PROVE  IInv'
  <1> USE DEF Enter, Running, treeVars
  <1>1. << >> \in Lines /\ Len(<< >>) = 0
    BY DEF Lines
  <1>2. at = 1 /\ node = << >>
    BY DEF IInv, AnalysisKept
  <1>3. TypeOK'
    BY <1>1, <1>2 DEF IInv, TypeOK, Lines
  <1>4. AnalysisKept'
    <2>1. /\ Len(stack) = Len(node)
          /\ \A i \in 1 .. Len(node) : stack[i].type = "IPv4Address" <=> node[i] = ADDRESS
      BY DEF IInv, AnalysisKept
    <2>2. ~(at' \in 2 .. Len(entered') + 1)
      BY <1>2
    <2> QED
      BY <1>2, <2>1, <2>2 DEF AnalysisKept
  <1>5. NodeWasTyped'
    BY <1>2, RootIsTyped DEF NodeWasTyped
  <1>6. CommandFollowed'
    BY <1>2, RootLeadsOn DEF CommandFollowed
  <1>7. HandlerGetsItsArguments' /\ RanWasTyped' /\ CompleteCommandRuns'
    BY DEF HandlerGetsItsArguments, RanWasTyped, CompleteCommandRuns
  <1> QED
    BY <1>3, <1>4, <1>5, <1>6, <1>7 DEF IInv

-----------------------------------------------------------------------------
(* The end of the analysis *)

\* The words of a pattern are within the line, wherever the analysis has got to.
LEMMA TypedWithinLine ==
    ASSUME NEW line \in Lines, NEW pattern, NEW before \in Nat, TypedIn(line, pattern, before)
    PROVE  TypedIn(line, pattern, Len(line) + 1)
  <1>1. PICK where \in [1 .. Len(pattern) -> 1 .. before - 1] : Spells(line, pattern, where)
    BY DEF TypedIn
  <1>2. Len(line) \in Nat
    BY DEF Lines
  <1>3. \A i \in 1 .. Len(pattern) : where[i] \in 1 .. Len(line)
    BY <1>1 DEF Spells, IsWord, Filled
  <1>4. where \in [1 .. Len(pattern) -> 1 .. Len(line) + 1 - 1]
    BY <1>1, <1>2, <1>3
  <1> QED
    BY <1>1, <1>4 DEF TypedIn

\* Where a command's line ends, so does its way down the tree.
LEMMA CommandReached ==
    ASSUME NEW line \in Lines, NEW before \in Nat, before > Len(line),
           NEW n \in Nodes, LeadsTo(line, before, n),
           NEW command \in AllCommands, NEW where \in [1 .. Len(command) -> Filled(line)],
           SpellsOnly(line, command, where)
    PROVE  n = command
  <1>1. /\ Len(n) <= Len(command) /\ n = SubSeq(command, 1, Len(n))
        /\ \A i \in 1 .. Len(command) : i <= Len(n) <=> where[i] < before
    BY DEF LeadsTo
  <1>2. Len(command) \in 1 .. Len(command) /\ command \in Seq(Elements)
    BY CommandShapes
  <1>3. Len(n) \in Nat
    BY NodesArePrefixes
  <1>4. where[Len(command)] \in 1 .. Len(line) /\ Len(line) \in Nat
    BY <1>2 DEF Filled, Lines
  <1>5. where[Len(command)] < before
    BY <1>4
  <1>6. Len(command) <= Len(n)
    BY <1>1, <1>2, <1>5
  <1>7. Len(n) = Len(command)
    BY <1>1, <1>2, <1>3, <1>6
  <1> QED
    BY <1>1, <1>2, <1>7, SubSeqFull

LEMMA RunHandlerKeeps ==
    ASSUME IInv, RunHandler
    PROVE  IInv'
  <1> USE DEF RunHandler, editVars
  <1>1. << >> \in Lines /\ << >> \in Seq(Values) /\ Len(<< >>) = 0
    BY DEF Lines
  <1>2. /\ entered \in Lines /\ Len(entered) \in Nat
        /\ at \in Nat /\ at > Len(entered) /\ node \in Nodes
    BY DEF IInv, TypeOK, Lines, PartsLeft
  <1>3. HasHandler(node) => ArgumentsFit(node, stack)
    BY DEF IInv, AnalysisKept, ArgumentsFit
  <1>4. status' \in {"running", "connect"}
    BY <1>3
  <1>5. \/ ~HasHandler(node) /\ ran' = Nothing
        \/ HasHandler(node) /\ ran' = node
    OBVIOUS
  <1>6. TypeOK'
    <2>1. ran' \in AllCommands \cup {Nothing}
      BY <1>5 DEF HasHandler
    <2>2. input' \in Lines /\ cursor' \in 0 .. Len(input')
      BY DEF IInv, TypeOK
    <2>3. at' \in 1 .. Len(entered') + 2
      BY <1>2
    <2> QED
      BY <1>1, <1>2, <1>4, <2>1, <2>2, <2>3, RootIsANode DEF TypeOK
  <1>7. AnalysisKept'
    BY <1>1 DEF AnalysisKept
  <1>8. NodeWasTyped'
    BY RootIsTyped DEF NodeWasTyped
  <1>9. CommandFollowed' /\ HandlerGetsItsArguments'
    BY <1>4 DEF CommandFollowed, HandlerGetsItsArguments
  <1>10. RanWasTyped'
    <2>1. TypedIn(entered, node, Len(entered) + 1)
      BY <1>2, TypedWithinLine DEF IInv, NodeWasTyped
    <2> QED
      BY <1>5, <2>1 DEF RanWasTyped
  <1>11. CompleteCommandRuns'
    <2>1. ASSUME OnlyWords(entered), NEW command \in AllCommands,
                 NEW where \in [1 .. Len(command) -> Filled(entered)],
                 SpellsOnly(entered, command, where)
          PROVE  ran' = command
      <3>1. LeadsTo(entered, at, node)
        BY <2>1 DEF IInv, CommandFollowed
      <3>2. node = command
        BY <1>2, <2>1, <3>1, CommandReached
      <3> QED
        BY <1>5, <3>2, NoCommandIsHidden
    <2> QED
      BY <2>1 DEF CompleteCommandRuns
  <1> QED
    BY <1>6, <1>7, <1>8, <1>9, <1>10, <1>11 DEF IInv

-----------------------------------------------------------------------------
(* One part of the line *)

\* What the guard of AnalyzePart says of a part that begins at `first`
Part(line, first, end) ==
    /\ first \in 1 .. Len(line) /\ end \in first .. Len(line) + 1
    /\ first # 1 => line[first - 1] = SPACE
    /\ \A i \in first .. end - 1 : line[i] # SPACE
    /\ end <= Len(line) => line[end] = SPACE

\* A part that matches an element is one character, and a word of the line.
LEMMA MatchingPart ==
    ASSUME NEW line \in Lines, NEW first, NEW end, Part(line, first, end),
           NEW element, Matches(SubSeq(line, first, end - 1), element)
    PROVE  end = first + 1 /\ IsWord(line, first) /\ Accepts(line[first], element)
  <1> DEFINE word == SubSeq(line, first, end - 1)
  <1>1. Len(line) \in Nat /\ first \in Nat \ {0} /\ end \in Nat /\ first <= end
    BY DEF Lines, Part
  <1>2. /\ Len(word) = end - first
        /\ end = first + 1 => word[1] = line[first]
    BY <1>1 DEF Part, Lines
  <1> HIDE DEF word
  <1>3. Len(word) = 1 /\ Accepts(word[1], element)
    BY WordMatches DEF word
  <1>4. end = first + 1
    <2>1. end - first = 1
      BY <1>2, <1>3
    <2> QED
      BY <1>1, <2>1
  <1>5. first \in Filled(line)
    BY <1>1, <1>4 DEF Part, Filled
  <1>6. IsWord(line, first)
    <2>1. first = 1 \/ line[first - 1] = SPACE
      BY DEF Part
    <2>2. first = Len(line) \/ line[first + 1] = SPACE
      BY <1>1, <1>4 DEF Part
    <2> QED
      BY <1>5, <2>1, <2>2 DEF IsWord
  <1> QED
    BY <1>2, <1>3, <1>4, <1>6

\* On a line of words, a part is empty or a word.
LEMMA PartIsAWord ==
    ASSUME NEW line \in Lines, OnlyWords(line), NEW first, NEW end,
           Part(line, first, end), first # end
    PROVE  first \in Filled(line) /\ end = first + 1
  <1>1. Len(line) \in Nat /\ first \in 1 .. Len(line) /\ end \in Nat /\ first < end
    BY DEF Lines, Part
  <1>2. first \in Filled(line)
    BY <1>1 DEF Filled, Part
  <1>3. first = Len(line) \/ line[first + 1] = SPACE
    BY <1>2 DEF OnlyWords, IsWord
  <1>4. CASE first + 1 < end
    <2>1. first + 1 \in first .. end - 1 /\ first # Len(line)
      BY <1>1, <1>4 DEF Part
    <2> QED
      BY <1>3, <2>1 DEF Part
  <1> QED
    BY <1>1, <1>2, <1>4

\* An empty part, or a word that is not the command's, leads nowhere; the line of a
\* command has only the former.
LEMMA EmptyPartLeads ==
    ASSUME NEW line \in Lines, NEW first, Part(line, first, first),
           NEW n, LeadsTo(line, first, n)
    PROVE  LeadsTo(line, first + 1, n)
  <1> SUFFICES ASSUME NEW command \in AllCommands,
                      NEW where \in [1 .. Len(command) -> Filled(line)],
                      SpellsOnly(line, command, where)
               PROVE  /\ Len(n) <= Len(command) /\ n = SubSeq(command, 1, Len(n))
                      /\ \A i \in 1 .. Len(command) : i <= Len(n) <=> where[i] < first + 1
    BY DEF LeadsTo
  <1>1. /\ Len(n) <= Len(command) /\ n = SubSeq(command, 1, Len(n))
        /\ \A i \in 1 .. Len(command) : i <= Len(n) <=> where[i] < first
    BY DEF LeadsTo
  <1>2. first \in Nat /\ first \notin Filled(line)
    BY DEF Part, Filled
  <1>3. ASSUME NEW i \in 1 .. Len(command)
        PROVE  where[i] < first <=> where[i] < first + 1
    <2>1. where[i] \in Filled(line) /\ where[i] \in Nat
      BY DEF Filled
    <2> QED
      BY <1>2, <2>1
  <1> QED
    BY <1>1, <1>3

\* The word at `first` is the command's next one, and a child of the node stands for it.
LEMMA NextOfCommand ==
    ASSUME NEW line \in Lines, NEW first \in Filled(line), NEW n \in Nodes,
           LeadsTo(line, first, n),
           NEW command \in AllCommands, NEW where \in [1 .. Len(command) -> Filled(line)],
           SpellsOnly(line, command, where)
    PROVE  \E k \in 1 .. Len(command) :
               /\ k = Len(n) + 1 /\ where[k] = first
               /\ command[k] \in Children(n) /\ Accepts(line[first], command[k])
               /\ Append(n, command[k]) = SubSeq(command, 1, k)
  <1> DEFINE l == Len(n)
             m == Len(command)
  <1>1. /\ l <= m /\ n = SubSeq(command, 1, l)
        /\ \A i \in 1 .. m : i <= l <=> where[i] < first
    BY DEF LeadsTo
  <1>2. command \in Seq(Elements) /\ m \in Nat
    BY CommandShapes
  <1>3. n \in Seq(Elements) /\ l \in Nat
    BY NodesArePrefixes
  <1>4. PICK k \in 1 .. m : where[k] = first
    BY DEF SpellsOnly
  <1>5. \A i, j \in 1 .. m : i < j => where[i] < where[j]
    BY DEF SpellsOnly, Spells
  <1>6. first \in Nat
    BY DEF Filled
  <1>7. command[k] \in Elements /\ Accepts(line[first], command[k])
    BY <1>2, <1>4, ElementOfSeq DEF SpellsOnly, Spells
  <1> HIDE DEF l, m
  <1>8. k = l + 1
    <2>1. ~(k <= l)
      BY <1>1, <1>4, <1>6
    <2>2. CASE l + 1 < k
      <3>1. l + 1 \in 1 .. m /\ ~(l + 1 <= l)
        BY <1>2, <1>3, <2>2
      <3>2. where[l + 1] < first
        BY <1>4, <1>5, <2>2, <3>1
      <3> QED
        BY <1>1, <3>1, <3>2
    <2> QED
      BY <1>2, <1>3, <2>1, <2>2
  <1>9. Append(n, command[k]) = SubSeq(command, 1, k)
    <2> DEFINE s == Append(n, command[k])
               t == SubSeq(command, 1, k)
    <2>1. s \in Seq(Elements) /\ Len(s) = l + 1 /\ s[l + 1] = command[k]
          /\ \A i \in 1 .. l : s[i] = n[i]
      BY <1>3, <1>7, AppendProperties DEF l
    <2>2. t \in Seq(Elements) /\ Len(t) = k /\ \A i \in 1 .. k : t[i] = command[i]
      BY <1>2 DEF m
    <2>3. \A i \in 1 .. l : n[i] = command[i]
      BY <1>1, <1>2, <1>3 DEF m
    <2> HIDE DEF s, t
    <2>4. \A i \in 1 .. l + 1 : s[i] = t[i]
      BY <1>3, <1>8, <2>1, <2>2, <2>3
    <2>5. Len(s) = Len(t) /\ \A i \in 1 .. Len(s) : s[i] = t[i]
      BY <1>8, <2>1, <2>2, <2>4
    <2> QED
      BY <2>1, <2>2, <2>5, SeqEqual DEF s, t
  <1>10. command[k] \in Children(n)
    <2>1. SubSeq(command, 1, k) \in Nodes
      BY <1>2, NodesArePrefixes DEF m
    <2> QED
      BY <1>7, <1>9, <2>1 DEF Children
  <1> QED
    BY <1>4, <1>7, <1>8, <1>9, <1>10 DEF l, m

\* A word that no child matches is on no command's line.
LEMMA SkippedWordLeads ==
    ASSUME NEW line \in Lines, NEW first \in Filled(line), NEW n \in Nodes,
           LeadsTo(line, first, n),
           \A element \in Children(n) : ~Matches(<<line[first]>>, element)
    PROVE  LeadsTo(line, first + 2, n)
  <1> SUFFICES ASSUME NEW command \in AllCommands,
                      NEW where \in [1 .. Len(command) -> Filled(line)],
                      SpellsOnly(line, command, where)
               PROVE  FALSE
    BY DEF LeadsTo
  <1> QED
    BY NextOfCommand, AcceptedMatches

\* A word that a child matches leads to that child, on any command's line.
LEMMA MatchedWordLeads ==
    ASSUME NEW line \in Lines, OnlyWords(line), NEW first \in Filled(line),
           NEW n \in Nodes, LeadsTo(line, first, n),
           NEW element \in Children(n), Matches(<<line[first]>>, element)
    PROVE  LeadsTo(line, first + 2, Append(n, element))
  <1> SUFFICES ASSUME NEW command \in AllCommands,
                      NEW where \in [1 .. Len(command) -> Filled(line)],
                      SpellsOnly(line, command, where)
               PROVE  LET next == Append(n, element)
                      IN  /\ Len(next) <= Len(command)
                          /\ next = SubSeq(command, 1, Len(next))
                          /\ \A i \in 1 .. Len(command) :
                                i <= Len(next) <=> where[i] < first + 2
    BY DEF LeadsTo
  <1> DEFINE next == Append(n, element)
             m == Len(command)
  <1>1. PICK k \in 1 .. m :
            /\ k = Len(n) + 1 /\ where[k] = first
            /\ command[k] \in Children(n) /\ Accepts(line[first], command[k])
            /\ Append(n, command[k]) = SubSeq(command, 1, k)
    BY NextOfCommand
  <1>2. element = command[k]
    <2>1. Accepts(line[first], element)
      BY WordMatches
    <2>2. element \in Elements /\ command[k] \in Elements
      BY <1>1 DEF Children
    <2> QED
      BY <1>1, <2>1, <2>2, OneMatch
  <1>3. Len(next) = k
    BY <1>1, NodesArePrefixes, AppendProperties DEF Children
  <1>4. next = SubSeq(command, 1, k)
    BY <1>1, <1>2
  <1>5. m \in Nat /\ first \in Nat /\ IsWord(line, first)
    BY CommandShapes DEF Filled, OnlyWords
  <1>6. first + 1 \notin Filled(line)
    BY <1>5 DEF IsWord, Filled
  <1>7. \A i, j \in 1 .. m : i < j => where[i] < where[j]
    BY DEF SpellsOnly, Spells
  <1>8. ASSUME NEW i \in 1 .. m
        PROVE  i <= k <=> where[i] < first + 2
    <2>1. where[i] \in Filled(line) /\ where[i] \in Nat
      BY DEF Filled
    <2>2. i < k => where[i] < first
      BY <1>1, <1>7
    <2>3. k < i => first < where[i]
      BY <1>1, <1>7
    <2>4. where[i] # first + 1
      BY <1>6, <2>1
    <2> HIDE DEF m
    <2> QED
      BY <1>1, <1>5, <2>1, <2>2, <2>3, <2>4
  <1> QED
    BY <1>1, <1>3, <1>4, <1>5, <1>8

\* What a part does to the way: nothing, or one element more.
LEMMA DescendKeepsTyping ==
    ASSUME NEW word \in Lines, node \in Nodes, stack \in Seq(Values), Descend(word)
    PROVE  node' \in Nodes /\ stack' \in Seq(Values)
  <1>1. CASE UNCHANGED treeVars
    BY <1>1 DEF treeVars
  <1>2. ASSUME NEW element \in Children(node), node' = Append(node, element),
               stack' = Append(stack, ValueOf(word, element))
        PROVE  node' \in Nodes /\ stack' \in Seq(Values)
    <2>1. ValueOf(word, element) \in Values
      BY DEF ValueOf, Values
    <2> QED
      BY <1>2, <2>1 DEF Children
  <1> QED
    BY <1>1, <1>2 DEF Descend

LEMMA AnalyzePartKeeps ==
    ASSUME IInv, AnalyzePart
    PROVE  IInv'
  <1>1. PICK end \in at .. Len(entered) + 1 :
            /\ PartEnds(end) /\ Descend(SubSeq(entered, at, end - 1))
            /\ at' = end + 1
    BY DEF AnalyzePart
  <1> DEFINE word == SubSeq(entered, at, end - 1)
  <1>2. /\ status = "analyzing" /\ UNCHANGED <<input, cursor, status, entered, ran>>
        /\ at <= Len(entered)
    BY DEF AnalyzePart, PartsLeft, editVars
  <1>3. /\ entered \in Lines /\ Len(entered) \in Nat /\ at \in 1 .. Len(entered)
        /\ end \in Nat /\ node \in Nodes /\ stack \in Seq(Values)
    BY <1>2 DEF IInv, TypeOK, Lines
  <1>4. Part(entered, at, end)
    BY <1>1, <1>3 DEF IInv, AnalysisKept, Part, PartEnds
  <1>5. word \in Lines
    BY <1>3 DEF Lines
  <1> HIDE DEF word
  <1>6. Descend(word)
    BY <1>1 DEF word
  <1>7. TypeOK'
    <2>1. node' \in Nodes /\ stack' \in Seq(Values)
      BY <1>3, <1>5, <1>6, DescendKeepsTyping
    <2>2. at' \in 1 .. Len(entered) + 2
      BY <1>1, <1>3
    <2> QED
      BY <1>2, <2>1, <2>2 DEF IInv, TypeOK
  <1>8. \/ /\ UNCHANGED treeVars
           /\ \A element \in Children(node) : ~Matches(word, element)
        \/ \E element \in Children(node) :
              /\ Matches(word, element) /\ node' = Append(node, element)
              /\ stack' = Append(stack, ValueOf(word, element))
    BY <1>6 DEF Descend
  <1>9. AnalysisKept'
    <2>1. at' \in 2 .. Len(entered) + 1 => entered[at' - 1] = SPACE
      BY <1>1, <1>3 DEF PartEnds
    <2>2. /\ Len(stack) = Len(node)
          /\ \A i \in 1 .. Len(node) : stack[i].type = "IPv4Address" <=> node[i] = ADDRESS
      BY DEF IInv, AnalysisKept
    <2>3. /\ Len(stack') = Len(node')
          /\ \A i \in 1 .. Len(node') :
                stack'[i].type = "IPv4Address" <=> node'[i] = ADDRESS
      <3>1. CASE UNCHANGED treeVars
        BY <2>2, <3>1 DEF treeVars
      <3>2. ASSUME NEW element \in Children(node), node' = Append(node, element),
                   stack' = Append(stack, ValueOf(word, element))
            PROVE  /\ Len(stack') = Len(node')
                   /\ \A i \in 1 .. Len(node') :
                         stack'[i].type = "IPv4Address" <=> node'[i] = ADDRESS
        <4> DEFINE value == ValueOf(word, element)
                   l == Len(node)
        <4>1. value \in Values /\ (value.type = "IPv4Address" <=> element = ADDRESS)
          BY <1>5 DEF ValueOf, Values
        <4> HIDE DEF value
        <4>2. /\ Len(node') = l + 1 /\ node'[l + 1] = element
              /\ \A i \in 1 .. l : node'[i] = node[i]
          BY <1>3, <3>2, NodesArePrefixes, AppendProperties DEF Children
        <4>3. /\ Len(stack') = l + 1 /\ stack'[l + 1] = value
              /\ \A i \in 1 .. l : stack'[i] = stack[i]
          BY <1>3, <2>2, <3>2, <4>1, AppendProperties DEF value
        <4>4. l \in Nat
          BY <1>3, NodesArePrefixes
        <4>5. \A i \in 1 .. l : stack[i].type = "IPv4Address" <=> node[i] = ADDRESS
          BY <2>2
        <4> HIDE DEF l
        <4>6. ASSUME NEW i \in 1 .. l + 1
              PROVE  stack'[i].type = "IPv4Address" <=> node'[i] = ADDRESS
          <5>1. CASE i = l + 1
            BY <4>1, <4>2, <4>3, <5>1
          <5>2. CASE i \in 1 .. l
            BY <4>2, <4>3, <4>5, <5>2
          <5> QED
            BY <4>4, <5>1, <5>2
        <4> QED
          BY <4>2, <4>3, <4>6
      <3> QED
        BY <1>8, <3>1, <3>2
    <2> QED
      BY <1>2, <2>1, <2>3 DEF AnalysisKept
  <1>10. NodeWasTyped'
    <2>1. TypedIn(entered, node, at)
      BY DEF IInv, NodeWasTyped
    <2>2. CASE UNCHANGED treeVars
      <3>1. TypedIn(entered, node, end + 1)
        BY <1>1, <1>3, <2>1, TypedBeforeLater
      <3> QED
        BY <1>1, <1>2, <2>2, <3>1 DEF NodeWasTyped, treeVars
    <2>3. ASSUME NEW element \in Children(node), Matches(word, element),
                 node' = Append(node, element)
          PROVE  NodeWasTyped'
      <3>1. end = at + 1 /\ IsWord(entered, at) /\ Accepts(entered[at], element)
        BY <1>3, <1>4, <2>3, MatchingPart DEF word
      <3>2. TypedIn(entered, Append(node, element), at + 1)
        BY <1>3, <2>1, <3>1, NodesArePrefixes, TypedOneMore DEF Children
      <3>3. TypedIn(entered, Append(node, element), end + 1)
        BY <1>3, <3>1, <3>2, TypedBeforeLater
      <3> QED
        BY <1>1, <1>2, <2>3, <3>3 DEF NodeWasTyped
    <2> QED
      BY <1>8, <2>2, <2>3
  <1>11. CommandFollowed'
    <2> SUFFICES ASSUME OnlyWords(entered)
                 PROVE  LeadsTo(entered, end + 1, node')
      BY <1>1, <1>2 DEF CommandFollowed
    <2>1. LeadsTo(entered, at, node)
      BY <1>2 DEF IInv, CommandFollowed
    <2>2. CASE end = at
      <3>1. \A element : ~Matches(word, element)
        <4>1. Len(word) = 0
          BY <1>3, <2>2 DEF word
        <4> QED
          BY <4>1, WordMatches
      <3>2. node' = node
        BY <1>8, <3>1 DEF treeVars
      <3> QED
        BY <1>3, <1>4, <2>1, <2>2, <3>2, EmptyPartLeads
    <2>3. CASE end # at
      <3>1. at \in Filled(entered) /\ end = at + 1
        BY <1>3, <1>4, <2>3, PartIsAWord
      <3>2. word = <<entered[at]>>
        <4>1. Len(word) = 1 /\ word[1] = entered[at]
          BY <1>3, <3>1 DEF word, Lines
        <4>2. word \in Seq(Characters \cup {SPACE})
          BY <1>5 DEF Lines
        <4> QED
          BY <4>1, <4>2
      <3>3. end + 1 = at + 2
        BY <1>3, <3>1
      <3>4. LeadsTo(entered, at + 2, node')
        <4>1. CASE /\ node' = node
                   /\ \A element \in Children(node) : ~Matches(word, element)
          BY <1>3, <2>1, <3>1, <3>2, <4>1, SkippedWordLeads
        <4>2. ASSUME NEW element \in Children(node), Matches(word, element),
                     node' = Append(node, element)
              PROVE  LeadsTo(entered, at + 2, node')
          <5>1. LeadsTo(entered, at + 2, Append(node, element))
            BY <1>3, <2>1, <3>1, <3>2, <4>2, MatchedWordLeads
          <5> QED
            BY <4>2, <5>1
        <4> QED
          BY <1>8, <4>1, <4>2 DEF treeVars
      <3> QED
        BY <3>3, <3>4
    <2> QED
      BY <2>2, <2>3
  <1>12. HandlerGetsItsArguments' /\ CompleteCommandRuns'
    BY <1>2 DEF HandlerGetsItsArguments, CompleteCommandRuns
  <1>13. RanWasTyped'
    BY <1>2 DEF IInv, RanWasTyped
  <1> QED
    BY <1>7, <1>9, <1>10, <1>11, <1>12, <1>13 DEF IInv

-----------------------------------------------------------------------------
(* The theorems *)

LEMMA StutterKeeps ==
    ASSUME IInv, UNCHANGED vars
    PROVE  IInv'
  BY DEF vars, editVars, treeVars, IInv, TypeOK, AnalysisKept, NodeWasTyped,
         CommandFollowed, HandlerGetsItsArguments, RanWasTyped, CompleteCommandRuns

\* The editor stays in its line, and the analysis on the way of what was typed, on
\* lines of any length.
THEOREM InvariantHolds == Spec => []IInv
  <1>1. IInv /\ [Next]_vars => IInv'
    BY EditingKeeps, EnterKeeps, AnalyzePartKeeps, RunHandlerKeeps, StutterKeeps DEF Next
  <1> QED
    BY InitEstablishesIInv, <1>1, PTL DEF Spec

\* No handler finds other arguments than its pattern promises (check_args_size and the
\* std::get of each address in command_handlers.cpp).
THEOREM HandlerGetsItsArgumentsHolds == Spec => []HandlerGetsItsArguments
  <1>1. IInv => HandlerGetsItsArguments
    BY DEF IInv
  <1> QED
    BY InvariantHolds, <1>1, PTL

\* Only what was typed runs: the words of the command, in their order.
THEOREM RanWasTypedHolds == Spec => []RanWasTyped
  <1>1. IInv => RanWasTyped
    BY DEF IInv
  <1> QED
    BY InvariantHolds, <1>1, PTL

\* A command that is typed, with any spaces around its words, runs.
THEOREM CompleteCommandRunsHolds == Spec => []CompleteCommandRuns
  <1>1. IInv => CompleteCommandRuns
    BY DEF IInv
  <1> QED
    BY InvariantHolds, <1>1, PTL
=============================================================================
