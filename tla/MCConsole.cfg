SPECIFICATION ConsoleSpec
CONSTANTS
    SizeLimit = 4
    PortLimit = 64
    NUL = "NUL"
    Character <- Alphabet
    Lines <- MCLines
    Spaces <- MCSpaces
    Digit <- MCDigit
    CommandSet <- MCCommandSet
    Opcode <- MCOpcode
    HelpNames <- MCHelpNames
    ExitNames <- MCExitNames
    Stale <- MCStale
INVARIANTS
    ConsoleTypeOK
    ParsedAsTyped
    RequestAsTyped
PROPERTIES
    RefusedRightly
\* The console ends with an exit command.
CHECK_DEADLOCK FALSE
