------------------------------ MODULE ServerArgs ------------------------------
(***************************************************************************)
(* The command line of the server: ArgIterator and RequireArgParameter     *)
(* (src/src/core/args.h), the ParseTo functions (args.cpp), and in         *)
(* src/src/server/main.cpp ParseServerArgs, one step for each turn of its  *)
(* loop, and what main does with the host directory.                       *)
(***************************************************************************)
EXTENDS Naturals, Sequences

CONSTANTS
    Values,       \* the arguments that do not begin with a dash
    Number,       \* the number std::stoul reads at the start of each value, if any
    Longs, Unsigneds, Ports,  \* how many an unsigned long, an unsigned, a port_t can tell apart
    MaxArgs,      \* bound: arguments on the command line
    DEFAULT_SERVER_PORT, DEFAULT_FILES_DIR,
    Directories   \* what the path of each value may be when the server starts

(* An option is known by what follows its dash; "other" stands for the     *)
(* unknown ones.                                                           *)
Options == {"port", "p", "dir", "d", "udp", "help", "h", "other"}
Arguments == Options \cup Values

PathStates == {"missing", "directory", "other", "unreadable"}

ASSUME ServerArgsAssumption ==
    /\ Options \cap Values = {}
    /\ Number \in [Values -> SUBSET Nat]
    /\ \A v \in Values : \A m, n \in Number[v] : m = n
    /\ {Longs, Unsigneds, Ports, MaxArgs} \subseteq Nat
    /\ 0 < Ports /\ Ports <= Unsigneds /\ Unsigneds <= Longs
    /\ DEFAULT_SERVER_PORT \in 0..(Ports - 1)
    /\ DEFAULT_FILES_DIR \in Values
    /\ Directories \subseteq [Values -> PathStates]

VARIABLES
    step,    \* where main is; "help", "failed" and "aborted" are ends of the process
    argv,    \* the arguments after the program's name
    rest,    \* ArgIterator: those that Next has still to reach
    config,  \* ServerConfig
    result,  \* whether every parameter so far was there and could be parsed
    help,    \* printHelp
    path     \* external: what each path is

argsVars == <<step, argv, rest, config, result, help, path>>

CommandLines == UNION {[1..n -> Arguments] : n \in 0..MaxArgs}

ArgsInit ==
    /\ step = "parse"
    /\ argv \in CommandLines
    /\ rest = argv
    /\ config = [port |-> DEFAULT_SERVER_PORT, protocol |-> "TCP", dir |-> DEFAULT_FILES_DIR]
    /\ result = TRUE
    /\ help = FALSE
    /\ path \in Directories

-----------------------------------------------------------------------------
(* The iterator.                                                           *)

Option == Head(rest)
Take(n) == rest' = SubSeq(rest, n + 1, Len(rest))

(* The parameter of an option, if it has one.                              *)
HasParameter == Len(rest) > 1 /\ rest[2] \notin Options
GetParameter == rest[2]

(* ParseTo: a set with the parsed value, or empty when it fails.  stoul    *)
(* ignores what follows the number, and throws if there is none or it does *)
(* not fit; the result is cut to unsigned before its range is checked.     *)
ParseUnsigned(value) ==
    {n % Unsigneds : n \in {m \in Number[value] : m < Longs}}
ParsePortMutant(value) == {n % Ports : n \in ParseUnsigned(value)}
ParsePort(value) == {n \in ParseUnsigned(value) : n < Ports}

(* RequireArgParameter takes the parameter with its option, parsed or not. *)
TakenMutant == 2
Taken == IF HasParameter THEN 2 ELSE 1

-----------------------------------------------------------------------------
(* ParseServerArgs.                                                        *)

(* Ignored, with a message.                                                *)
UnexpectedArgument ==
    /\ step = "parse" /\ rest # <<>> /\ Option \in Values \cup {"other"}
    /\ Take(1)
    /\ UNCHANGED <<step, argv, config, result, help, path>>

(* An `else' is missing after these two: they are also reported as unknown.*)
PortOption ==
    /\ step = "parse" /\ rest # <<>> /\ Option \in {"port", "p"}
    /\ Take(Taken)
    /\ LET parsed == IF HasParameter THEN ParsePort(GetParameter) ELSE {}
       IN  /\ result' = (result /\ parsed # {})
           /\ \/ parsed = {} /\ UNCHANGED config
              \/ \E n \in parsed : config' = [config EXCEPT !.port = n]
    /\ UNCHANGED <<step, argv, help, path>>

DirOption ==
    /\ step = "parse" /\ rest # <<>> /\ Option \in {"dir", "d"}
    /\ Take(Taken)
    /\ result' = (result /\ HasParameter)
    /\ config' = IF HasParameter THEN [config EXCEPT !.dir = GetParameter] ELSE config
    /\ UNCHANGED <<step, argv, help, path>>

UdpOption ==
    /\ step = "parse" /\ rest # <<>> /\ Option = "udp"
    /\ Take(1)
    /\ config' = [config EXCEPT !.protocol = "UDP"]
    /\ UNCHANGED <<step, argv, result, help, path>>

HelpOption ==
    /\ step = "parse" /\ rest # <<>> /\ Option \in {"help", "h"}
    /\ Take(1)
    /\ help' = TRUE
    /\ UNCHANGED <<step, argv, config, result, path>>

-----------------------------------------------------------------------------
(* main.                                                                   *)

(* PrintHelp exits.                                                        *)
ParseEnd ==
    /\ step = "parse" /\ rest = <<>>
    /\ step' = CASE help -> "help"
                 [] ~help /\ ~result -> "failed"
                 [] OTHER -> "directory"
    /\ UNCHANGED <<argv, rest, config, result, help, path>>

(* exists throws when it cannot tell, and nothing catches that; creates:   *)
(* create_directories succeeds.                                            *)
CheckDirectory(creates) ==
    /\ step = "directory"
    /\ LET state == path[config.dir]
       IN  /\ step' = CASE state = "directory" -> "start"
                        [] state = "missing" -> IF creates THEN "start" ELSE "failed"
                        [] state = "other" -> "failed"
                        [] state = "unreadable" -> "aborted"
           /\ path' = IF state = "missing" /\ creates
                      THEN [path EXCEPT ![config.dir] = "directory"] ELSE path
    /\ UNCHANGED <<argv, rest, config, result, help>>

ArgsNext ==
    \/ UnexpectedArgument \/ PortOption \/ DirOption \/ UdpOption \/ HelpOption
    \/ ParseEnd
    \/ \E creates \in BOOLEAN : CheckDirectory(creates)

-----------------------------------------------------------------------------
(* What the usage text says, read off the whole command line at once.      *)

(* The places of an option, under its long or its short name; a parameter  *)
(* is a value right after such an option.                                  *)
PlacesOf(names) == {i \in 1..Len(argv) : argv[i] \in names}
ParameterAt(i) == i < Len(argv) /\ argv[i + 1] \in Values
Last(I) == CHOOSE i \in I : \A j \in I : j <= i

PortNames == {"port", "p"}
DirNames == {"dir", "d"}

(* The last of several options counts, but all must have their parameter.  *)
(* A port is the number that was typed, provided it fits an unsigned.      *)
AskedDir ==
    IF PlacesOf(DirNames) = {} THEN DEFAULT_FILES_DIR ELSE argv[Last(PlacesOf(DirNames)) + 1]
AskedProtocol == IF PlacesOf({"udp"}) = {} THEN "TCP" ELSE "UDP"
AskedPort(port) ==
    IF PlacesOf(PortNames) = {} THEN port = DEFAULT_SERVER_PORT
    ELSE \A n \in Number[argv[Last(PlacesOf(PortNames)) + 1]] : n < Unsigneds => port = n

(* The server that is started is the one the user asked for: whatever else *)
(* is on the command line, in whatever order.                              *)
StartsAsAsked ==
    step = "start" =>
        /\ \A i \in PlacesOf(PortNames \cup DirNames) : ParameterAt(i)
        /\ AskedPort(config.port)
        /\ config.protocol = AskedProtocol
        /\ config.dir = AskedDir
        /\ path[config.dir] = "directory"

(* Who asks for help gets it, and only it, whatever mistakes are on the   *)
(* command line: no parameter that is missing swallows the option after    *)
(* it, and no directory is created.                                        *)
HelpOnly ==
    [][LET asked == PlacesOf({"help", "h"}) # {}
       IN  /\ step = "parse" /\ step' # "parse" => (step' = "help" <=> asked)
           /\ path' # path => ~asked]_argsVars
=============================================================================
