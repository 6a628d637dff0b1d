------------------------------- MODULE Console -------------------------------
(***************************************************************************)
(* The console of the client: Console::HandleCommand and its ArgIterator   *)
(* (src/src/client/console.cpp), the parsing of arguments for the handler  *)
(* of a command (ParseHelper and CommandSet in console.h), and the request *)
(* that the handler then sends.  A line is a sequence of characters: what  *)
(* this module is about is how it is cut into words.                       *)
(***************************************************************************)
EXTENDS PacketBuilder, FiniteSets

CONSTANTS
    Character,    \* what lines are made of
    Lines,        \* what the user may type
    Spaces,       \* the characters for which isspace holds
    Digit,        \* the value of each digit
    PortLimit,    \* how many values an unsigned short has
    CommandSet,   \* the commands, and what kinds of arguments each takes
    Opcode,       \* the packet each sends; "None" for connect
    HelpNames, ExitNames,
    Stale         \* what a former packet left in the buffer of the server

CommandNames == DOMAIN CommandSet

ASSUME ConsoleAssumption ==
    /\ PortLimit \in Nat \ {0}
    /\ NUL \notin Character
    /\ Lines \subseteq Seq(Character)
    /\ Digit \in [DOMAIN Digit -> 0..9]
    /\ CommandSet \in [CommandNames -> Seq({"string", "port"})]
    /\ Opcode \in [CommandNames -> {"None", "Echo", "Time", "Download", "Upload", "Close"}]
    /\ \A name \in CommandNames :
          Opcode[name] \in {"Echo", "Download", "Upload"} => CommandSet[name] = <<"string">>
    /\ Stale \in Seq(Character \cup {NUL})

VARIABLES
    place,    \* what HandleCommand is about to do
    line,     \* what was read
    view,     \* ArgIterator::bufferView: what is left of it
    command,  \* the command found
    args,     \* the tuple of its arguments, as far as it is filled
    sent      \* the request, as it goes out

consoleVars == <<place, line, view, command, args, sent>>

Nothing == Bare("None")

ConsoleInit ==
    /\ place = "read"
    /\ line = <<>> /\ view = <<>> /\ command = <<>> /\ args = <<>>
    /\ sent = Nothing

Goto(p) == place' = p

(* HandleCommand returns to main's loop.                                   *)
Return ==
    /\ Goto("read")
    /\ line' = <<>> /\ view' = <<>> /\ command' = <<>> /\ args' = <<>>
    /\ sent' = Nothing

-----------------------------------------------------------------------------
(* ArgIterator::Next: it skips spaces, and takes what comes before the     *)
(* next one.                                                               *)
SpacesIn(s) == {i \in 1..Len(s) : s[i] \in Spaces}
FirstAt(s, from, places) ==
    CHOOSE i \in from..(Len(s) + 1) :
        /\ i <= Len(s) => i \in places
        /\ \A j \in from..(i - 1) : j \notin places

Begin == FirstAt(view, 1, (1..Len(view)) \ SpacesIn(view))
End == FirstAt(view, Begin, SpacesIn(view))
Word == SubSeq(view, Begin, End - 1)
RestMutant == SubSeq(view, End + 2, Len(view))
Rest == SubSeq(view, End, Len(view))

(* std::from_chars into an unsigned short that holds 0: it takes the       *)
(* digits at the beginning; too big a number it takes as well, and leaves  *)
(* the 0.  ParseArg asks only whether it took the whole word.              *)
NoDigits(word) == {i \in 1..Len(word) : word[i] \notin DOMAIN Digit}
Digits(word) == SubSeq(word, 1, FirstAt(word, 1, NoDigits(word)) - 1)
IsNumberMutant(word) == Digits(word) # <<>>
IsNumber(word) == Digits(word) = word
Value(digits) ==
    LET value[n \in 0..Len(digits)] ==
            IF n = 0 THEN 0 ELSE 10 * value[n - 1] + Digit[digits[n]]
    IN  value[Len(digits)]
FromCharsMutant(word) == Value(Digits(word))
FromChars(word) ==
    IF Value(Digits(word)) < PortLimit THEN Value(Digits(word)) ELSE 0

-----------------------------------------------------------------------------
(* Console::HandleCommand.                                                 *)

(* At the end of the input ReadString returns an empty line, again and     *)
(* again.                                                                  *)
ReadLine ==
    /\ place = "read"
    /\ line' \in Lines
    /\ view' = line'
    /\ Goto("command")
    /\ UNCHANGED <<command, args, sent>>

(* An empty line, help, or a command that is not known.                    *)
NoCommand ==
    /\ place = "command"
    /\ Word \notin ExitNames
    /\ Word = <<>> \/ Word \in HelpNames \/ Word \notin CommandNames
    /\ Return

Exit ==
    /\ place = "command"
    /\ Word \in ExitNames
    /\ Goto("exit")
    /\ UNCHANGED <<line, view, command, args, sent>>

FindCommand ==
    /\ place = "command"
    /\ Word # <<>>
    /\ Word \in CommandNames \ (HelpNames \cup ExitNames)
    /\ command' = Word
    /\ view' = Rest
    /\ Goto("arguments")
    /\ UNCHANGED <<line, args, sent>>

(* CommandSet::Executor::Exec: ParseHelper::ParseArg, once for each        *)
(* argument.                                                               *)
Kind == CommandSet[command][Len(args) + 1]
Parsing == place = "arguments" /\ Len(args) < Len(CommandSet[command])

ParseArg ==
    /\ Parsing
    /\ Word # <<>>
    /\ \/ Kind = "string" /\ args' = Append(args, Word)
       \/ Kind = "port" /\ IsNumber(Word) /\ args' = Append(args, FromChars(Word))
    /\ view' = Rest
    /\ UNCHANGED <<place, line, command, sent>>

TooFewArguments == Parsing /\ Word = <<>> /\ Return
InvalidArgument == Parsing /\ Word # <<>> /\ Kind = "port" /\ ~IsNumber(Word) /\ Return

(* The handler, as far as its request.  The message of an echo is a view   *)
(* into the line; the position or size is 0 or any other number.           *)
After == IF view = <<>> THEN NUL ELSE view[1]
Request ==
    CASE Opcode[command] = "Echo" -> Echo(args[1], After)
      [] Opcode[command] = "Download" -> Download(args[1], 0)
      [] Opcode[command] = "Upload" -> Upload(args[1], 1)
      [] OTHER -> Bare(Opcode[command])

Execute ==
    /\ place = "arguments" /\ Len(args) = Len(CommandSet[command])
    /\ sent' = OnTheWire(Request)
    /\ Goto("executed")
    /\ UNCHANGED <<line, view, command, args>>

Executed == place = "executed" /\ Return

ConsoleNext ==
    \/ ReadLine
    \/ NoCommand \/ Exit \/ FindCommand
    \/ ParseArg \/ TooFewArguments \/ InvalidArgument
    \/ Execute \/ Executed

ConsoleSpec == ConsoleInit /\ [][ConsoleNext]_consoleVars

-----------------------------------------------------------------------------
(* What is meant: the words of a line are the longest runs of characters   *)
(* that are no spaces, from left to right.                                 *)

WordStarts == {i \in 1..Len(line) : line[i] \notin Spaces /\ (i = 1 \/ line[i - 1] \in Spaces)}
WordFrom(i) ==
    LET ends == {j \in i..Len(line) : (j = Len(line) \/ line[j + 1] \in Spaces)}
    IN  SubSeq(line, i, CHOOSE j \in ends : \A k \in ends : j <= k)
StartOf(n) == CHOOSE i \in WordStarts : Cardinality({j \in WordStarts : j < i}) = n - 1
Words == [n \in 1..Cardinality(WordStarts) |-> WordFrom(StartOf(n))]

Meant(kind, word) ==
    IF kind = "port" THEN IF Value(word) \in 0..(PortLimit - 1) THEN Value(word) ELSE 0
                     ELSE word

(* Enough words, and a number where there must be one.                     *)
Acceptable(kinds) ==
    /\ Len(Words) > Len(kinds)
    /\ \A n \in DOMAIN kinds :
          kinds[n] = "port" => \A i \in DOMAIN Words[n + 1] : Words[n + 1][i] \in DOMAIN Digit

-----------------------------------------------------------------------------
(* Type correctness: above all, a port has no more than its bits.          *)
ConsoleTypeOK ==
    /\ place \in {"read", "command", "arguments", "executed", "exit"}
    /\ \E n \in 0..Len(line) : view = SubSeq(line, n + 1, Len(line))
    /\ command \in CommandNames \cup {<<>>}
    /\ place \in {"arguments", "executed"} =>
          /\ Len(args) <= Len(CommandSet[command])
          /\ \A n \in DOMAIN args :
                CommandSet[command][n] = "port" => args[n] \in 0..(PortLimit - 1)
    /\ sent.opcode \in {Opcode[c] : c \in CommandNames} \cup {"None"}
    /\ sent.dataSize \in 0..(SizeLimit - 1)

(* However many spaces there are, and wherever, the handler found is that  *)
(* of the first word of the line and its arguments are the next words, in  *)
(* order; a number that is no port has become 0.  Next works on a view     *)
(* that every call cuts, and from_chars reports such a number in a field   *)
(* that ParseArg does not read.                                            *)
ParsedAsTyped ==
    place \in {"arguments", "executed"} =>
        /\ Len(args) < Len(Words)
        /\ command = Words[1]
        /\ \A n \in DOMAIN args : args[n] = Meant(CommandSet[command][n], Words[n + 1])

(* A command is executed if and only if it was given enough words and a    *)
(* number where it takes one: the iterator and the argument tuple are      *)
(* filled side by side by a recursion over types, and each may end first.  *)
RefusedRightly ==
    [][place = "arguments" =>
          /\ place' = "executed" => Acceptable(CommandSet[command])
          /\ place' = "read" => ~Acceptable(CommandSet[command])]_consoleVars

(* What the server reads out of the request is what the user typed: the    *)
(* file name ends where the word ended, whatever a former packet left in   *)
(* the buffer of the server, and of an echo come back as many bytes as the *)
(* client waits for.  This holds as long as the size fits its 16 bits.     *)
RequestAsTyped ==
    place = "executed" =>
        /\ sent.opcode = Opcode[Words[1]]
        /\ (sent.opcode = "Echo" /\ Len(Words[2]) + 1 < SizeLimit) =>
              /\ sent.dataSize = Len(Words[2]) + 1
              /\ SubSeq(sent.data, 1, Len(Words[2])) = Words[2]
        /\ (sent.opcode \in {"Download", "Upload"} /\ Len(Words[2]) + 2 < SizeLimit) =>
              FileNameIn(sent.data, Stale) = Words[2]
=============================================================================
