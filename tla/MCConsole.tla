------------------------------ MODULE MCConsole ------------------------------
(* Every line of up to five characters, and every ending of a connect      *)
(* command.  The names of commands are cut to a letter.                    *)
EXTENDS Console

Alphabet == {" ", "c", "d", "e", "t", "u", "7", "q", "h"}
UpTo(n) == UNION {[1..k -> Alphabet] : k \in 0..n}
ConnectTo == <<"c", " ", "t", " ", "h", " ">>

MCLines == UpTo(5) \cup {ConnectTo \o ending : ending \in UpTo(3)}
MCSpaces == {" "}
MCDigit == [ch \in {"7"} |-> 7]
MCCommandSet ==
    [name \in {<<"c">>, <<"d">>, <<"e">>, <<"t">>, <<"u">>} |->
        CASE name = <<"c">> -> <<"string", "string", "port">>
          [] name = <<"t">> -> <<>>
          [] OTHER -> <<"string">>]
MCOpcode ==
    [name \in DOMAIN MCCommandSet |->
        CASE name = <<"c">> -> "None"
          [] name = <<"d">> -> "Download"
          [] name = <<"e">> -> "Echo"
          [] name = <<"t">> -> "Time"
          [] name = <<"u">> -> "Upload"]
MCHelpNames == {<<"h">>}
MCExitNames == {<<"q">>}
MCStale == <<"h", "NUL">>
==============================================================================
