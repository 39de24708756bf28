--------------------------------- MODULE Cli ---------------------------------
(***************************************************************************)
(* The command line of Klevret: the line editor of cli/src/main.cpp, the   *)
(* command tree of cli/src/Command.cpp and the handlers of                 *)
(* cli/src/command_handlers.cpp.                                           *)
(*                                                                         *)
(* A keyword, or an address, is one character here, typed and erased as a  *)
(* whole; words are runs of characters between spaces, so two characters   *)
(* side by side are a word that nothing matches.  The terminal delivers    *)
(* keys one at a time; getkey() waits a millisecond, and what it finds is  *)
(* chosen anew at each call.  The screen is not modelled.                  *)
(***************************************************************************)
EXTENDS Naturals, Sequences, SequencesExt

CONSTANTS
    Characters,     \* what the user types, beside SPACE and the editing keys
    IPv4,           \* the characters among them that are IPv4 addresses
    MaxLine         \* bound on the length of a line

SPACE == " "
ASSUME CharactersAssumption == IPv4 \subseteq Characters /\ SPACE \notin Characters
ASSUME MaxLineAssumption == MaxLine \in Nat

VARIABLES
    input,          \* current_command_input
    cursor,         \* current_command_input_cursor_pos
    status,         \* "running", "analyzing", or the exception that ended the program
    entered, ran,   \* the line of the last ENTER, and the command whose handler it ran
    at, node, stack \* of analyze_command: where the next word begins, current, stack

editVars == <<input, cursor>>
treeVars == <<node, stack>>
vars == <<editVars, status, entered, ran, at, treeVars>>

Lines == Seq(Characters \cup {SPACE})

\* all_commands; create_command_tree makes a node of every prefix of a pattern, and
\* gives the node of a whole pattern one more child, which holds the handler.
ADDRESS == "<IPv4Address>"
AllCommands == {
    <<"version">>,
    <<"ip", "show">>,
    <<"ip", "address", "show">>,
    <<"ip", "address", ADDRESS>>,
    <<"dhcp", "pool", "create", ADDRESS, ADDRESS>>}
Nodes == UNION {Prefixes(command) : command \in AllCommands}
Elements == UNION {ToSet(command) : command \in AllCommands}
Nothing == << >>

\* parse_ipv4_address accepts digits and dots only: no keyword is an address.
ASSUME KeywordsAssumption == IPv4 \cap Elements = {}

\* What analyze_command pushes for a word: the text, or the address made from it.
Values == [type : {"string", "IPv4Address"}, word : Lines]

\* However characters are typed at the end while the cursor is elsewhere, the cursor
\* stays in the line: BACKSPACE never asks std::string to erase outside it.
TypeOK ==
    /\ input \in Lines /\ cursor \in 0 .. Len(input)
    /\ status \in {"running", "analyzing", "arguments", "connect"}
    /\ entered \in Lines
    /\ ran \in AllCommands \cup {Nothing}
    /\ at \in 1 .. Len(entered) + 2
    /\ node \in Nodes /\ stack \in Seq(Values)

Init ==
    /\ input = << >> /\ cursor = 0 /\ status = "running"
    /\ entered = << >> /\ ran = Nothing
    /\ at = 1 /\ node = << >> /\ stack = << >>

-----------------------------------------------------------------------------
(* analyze_command *)

\* The parts of split: entered[at .. end - 1] is one.  An empty one matches nothing, so
\* it does not matter that only those at the ends of the line survive token_compress_on.
PartEnds(end) ==
    /\ \A i \in at .. end - 1 : entered[i] # SPACE
    /\ end <= Len(entered) => entered[end] = SPACE

PartsLeftButTheLast == \E i \in at .. Len(entered) : entered[i] = SPACE

PartsLeft == at <= Len(entered)

IsAddress(word) == \E ip \in IPv4 : word = <<ip>>

MatchesAnything(word, element) == element = ADDRESS \/ word = <<element>>

\* check_command_element, for the kinds of elements all_commands has.
Matches(word, element) == IF element = ADDRESS THEN IsAddress(word) ELSE word = <<element>>

Children(n) == {element \in Elements : Append(n, element) \in Nodes}

ValueOf(word, element) ==
    [type |-> IF element = ADDRESS THEN "IPv4Address" ELSE "string", word |-> word]

DescendPushingAlways(word) ==
    LET next == {element \in Children(node) : Matches(word, element)}
    IN  \/ next = {} /\ stack' = Append(stack, ValueOf(word, "none")) /\ UNCHANGED node
        \/ \E element \in next :
              node' = Append(node, element) /\ stack' = Append(stack, ValueOf(word, element))

\* Where a word leads, and the value pushed for it.  A word that matches no child is
\* skipped.
Descend(word) ==
    LET next == {element \in Children(node) : Matches(word, element)}
    IN  \/ next = {} /\ UNCHANGED treeVars
        \/ \E element \in next :
              node' = Append(node, element) /\ stack' = Append(stack, ValueOf(word, element))

\* One turn of the loop over the parts of the line.
AnalyzePart ==
    /\ status = "analyzing" /\ PartsLeft
    /\ \E end \in at .. Len(entered) + 1 :
          PartEnds(end) /\ Descend(SubSeq(entered, at, end - 1)) /\ at' = end + 1
    /\ UNCHANGED <<editVars, status, entered, ran>>

\* The handler is the only child of the node.
HasHandler(n) == n \in AllCommands /\ Children(n) = {}

\* check_args_size and the std::get of each address, in the two handlers with arguments.
ArgumentsFit(command, values) ==
    ADDRESS \in ToSet(command) =>
        /\ Len(values) = Len(command)
        /\ \A i \in 1 .. Len(command) :
              command[i] = ADDRESS => values[i].type = "IPv4Address"

-----------------------------------------------------------------------------
(* The loop of main() *)

Running == status = "running"

\* A new key: what the last ENTER did is forgotten.
NewKey ==
    /\ Running /\ entered' = << >> /\ ran' = Nothing
    /\ UNCHANGED <<status, at, treeVars>>

\* SPACE and default: the character goes to the end, wherever the cursor is.
Type(ch) ==
    /\ NewKey /\ Len(input) < MaxLine
    /\ input' = Append(input, ch) /\ cursor' = cursor + 1

Backspace ==
    /\ NewKey /\ cursor # 0
    /\ input' = RemoveAt(input, cursor) /\ cursor' = cursor - 1

ArrowLeft == NewKey /\ cursor # 0 /\ cursor' = cursor - 1 /\ UNCHANGED input

ArrowRightOneTooFar ==
    NewKey /\ cursor <= Len(input) /\ cursor' = cursor + 1 /\ UNCHANGED input

ArrowRight == NewKey /\ cursor < Len(input) /\ cursor' = cursor + 1 /\ UNCHANGED input

\* TAB (its analysis is only shown), BACKSPACE at the beginning, an arrow that cannot move, ESC with any other two
\* keys, or none, after it: the line stays as it is.  Keys read after ESC are lost; an
\* arrow whose last two bytes are late is typed into the line as text.
OtherKey == NewKey /\ UNCHANGED <<input, cursor>>

\* The line is analyzed from its first part and the root, and cleared; nothing reads it
\* again in between.
Enter ==
    /\ Running /\ status' = "analyzing"
    /\ entered' = input /\ input' = << >> /\ cursor' = 0
    /\ ran' = Nothing
    /\ UNCHANGED <<at, treeVars>>

\* The handlers with arguments connect to the core, and throw if they cannot.
RunHandler ==
    /\ status = "analyzing" /\ ~PartsLeft
    /\ \/ ~HasHandler(node) /\ status' = "running" /\ ran' = Nothing
       \/ /\ HasHandler(node) /\ ran' = node
          /\ status' \in
               IF ~ArgumentsFit(node, stack) THEN {"arguments"}
               ELSE IF ADDRESS \in ToSet(node) THEN {"running", "connect"}
               ELSE {"running"}
    /\ at' = 1 /\ node' = << >> /\ stack' = << >>
    /\ UNCHANGED <<editVars, entered>>

Next ==
    \/ \E ch \in Characters \cup {SPACE} : Type(ch)
    \/ Backspace \/ ArrowLeft \/ ArrowRight \/ OtherKey
    \/ Enter \/ AnalyzePart \/ RunHandler

Spec == Init /\ [][Next]_vars

-----------------------------------------------------------------------------
(* Properties *)

\* A handler finds the arguments its command's pattern promises, whatever else was on
\* the line: it never throws its "internal error".
HandlerGetsItsArguments == status # "arguments"

Accepts(ch, element) == IF element = ADDRESS THEN ch \in IPv4 ELSE ch = element

Filled(line) == {i \in 1 .. Len(line) : line[i] # SPACE}

\* The character at i is a word of the line.
IsWord(line, i) ==
    /\ i \in Filled(line)
    /\ i = 1 \/ line[i - 1] = SPACE
    /\ i = Len(line) \/ line[i + 1] = SPACE

\* Rising positions of words that stand for the elements of a pattern.
Spells(line, pattern, where) ==
    /\ \A i, j \in 1 .. Len(pattern) : i < j => where[i] < where[j]
    /\ \A i \in 1 .. Len(pattern) :
          IsWord(line, where[i]) /\ Accepts(line[where[i]], pattern[i])

TypedIn(line, pattern, before) ==
    \E where \in [1 .. Len(pattern) -> 1 .. before - 1] : Spells(line, pattern, where)

\* A command that runs was typed: each element of its pattern is a word of the line,
\* in this order, though other words may stand between them.
RanWasTyped == ran # Nothing => TypedIn(entered, ran, Len(entered) + 1)

OnlyWords(line) == \A p \in Filled(line) : IsWord(line, p)

\* The words of the line are those of the command, at `where`, and no others.
SpellsOnly(line, command, where) ==
    /\ Spells(line, command, where)
    /\ \A p \in Filled(line) : \E i \in 1 .. Len(command) : where[i] = p

\* ENTER on the words of a command runs that command, however they are spaced.
CompleteCommandRuns ==
    (status # "analyzing" /\ OnlyWords(entered)) =>
        \A command \in AllCommands :
            (\E where \in [1 .. Len(command) -> Filled(entered)] :
                 SpellsOnly(entered, command, where)) => ran = command

\* The analysis is between two parts of the line, and its stack has the value of a word
\* for each element on the way to the node.
AnalysisKept ==
    /\ at \in 2 .. Len(entered) + 1 => entered[at - 1] = SPACE
    /\ Len(stack) = Len(node)
    /\ \A i \in 1 .. Len(node) : stack[i].type = "IPv4Address" <=> node[i] = ADDRESS
    /\ status # "analyzing" => at = 1 /\ node = << >>

\* The way to the node was typed before `at`.
NodeWasTyped == TypedIn(entered, node, at)

\* The words before `before` are those of the way to n, if the line is a command's.
LeadsTo(line, before, n) ==
    \A command \in AllCommands :
        \A where \in [1 .. Len(command) -> Filled(line)] :
            SpellsOnly(line, command, where) =>
                /\ Len(n) <= Len(command) /\ n = SubSeq(command, 1, Len(n))
                /\ \A i \in 1 .. Len(command) : i <= Len(n) <=> where[i] < before

\* On a line with the words of a command only, the analysis has followed it so far.
CommandFollowed ==
    (status = "analyzing" /\ OnlyWords(entered)) => LeadsTo(entered, at, node)

\* The inductive invariant behind the properties of the analysis
IInv ==
    /\ TypeOK /\ AnalysisKept /\ NodeWasTyped /\ CommandFollowed
    /\ HandlerGetsItsArguments /\ RanWasTyped /\ CompleteCommandRuns
=============================================================================
