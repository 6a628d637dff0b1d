--------------------------------- MODULE Tcp ---------------------------------
(***************************************************************************)
(* TCP as the kernel (Linux) shows it to the two programs: what a blocking *)
(* send or recv on a connection does, as operators on the state of one     *)
(* connection.  External: src/ only calls send, recv, connect, accept and  *)
(* close (src/src/core/socket.cpp).                                        *)
(*                                                                         *)
(* A connection has two ends, "srv" and "cli".  Each has its queue of      *)
(* units received and not yet read, and a state:                           *)
(*   "open"                                                                *)
(*   "fin"     the other end closed after reading all it had been sent:    *)
(*             recv reads the queue, then the end of the stream; send      *)
(*             succeeds, and the answer to it breaks the connection        *)
(*   "reset"   the other end closed with unread data: the next call that   *)
(*             does not find data reports ECONNRESET, once                 *)
(*   "broken"  recv sees the end of the stream, send raises SIGPIPE        *)
(*   "closed"  this end has closed                                         *)
(* No link is ever cut: each end learns at once that the other has closed, *)
(* which is as good as late, since it looks only at its next call.         *)
(***************************************************************************)
EXTENDS Naturals, Sequences

CONSTANT Window  \* units an end may have received and not read

Ends == {"srv", "cli"}
EndStates == {"open", "fin", "reset", "broken", "closed"}
Other(e) == IF e = "srv" THEN "cli" ELSE "srv"

Free == [end |-> [e \in Ends |-> "closed"], queue |-> [e \in Ends |-> <<>>]]
Fresh == [end |-> [e \in Ends |-> "open"], queue |-> [e \in Ends |-> <<>>]]

(* recv: "ok" when there is something to read.                             *)
RecvResult(n, e) ==
    CASE n.queue[e] # <<>> -> "ok"
      [] n.queue[e] = <<>> /\ n.end[e] = "open" -> "blocks"
      [] n.queue[e] = <<>> /\ n.end[e] = "reset" -> "ConnectionReset"
      [] OTHER -> "eof"

(* After reading u units, or after an error has been reported.             *)
AfterRecv(n, e, u) ==
    IF n.queue[e] # <<>>
    THEN [n EXCEPT !.queue[e] = SubSeq(@, u + 1, Len(@))]
    ELSE [n EXCEPT !.end[e] = IF @ = "reset" THEN "broken" ELSE @]

(* send of u units: it waits for room for all of them.                     *)
SendResult(n, e, u) ==
    CASE n.end[e] = "fin" -> "ok"
      [] n.end[e] = "reset" -> "ConnectionReset"
      [] n.end[e] = "broken" -> "sigpipe"
      [] OTHER -> IF Len(n.queue[Other(e)]) + u <= Window THEN "ok" ELSE "blocks"

(* The possible states after it; the answer to a send to an end that has   *)
(* closed may take a while.                                                *)
AfterSend(n, e, units) ==
    CASE n.end[e] = "open" -> {[n EXCEPT !.queue[Other(e)] = @ \o units]}
      [] n.end[e] = "fin" -> {n, [n EXCEPT !.end[e] = "broken"]}
      [] n.end[e] = "reset" -> {[n EXCEPT !.end[e] = "broken"]}
      [] OTHER -> {n}

(* close, or the end of the process.                                       *)
Close(n, e) ==
    [end |-> [n.end EXCEPT
                ![e] = "closed",
                ![Other(e)] = IF @ # "open" THEN @
                              ELSE IF n.queue[e] = <<>> THEN "fin" ELSE "reset"],
     queue |-> [n.queue EXCEPT ![e] = <<>>]]

(* The end of a listening process resets what it has not accepted.         *)
Abort(n) ==
    [end |-> [n.end EXCEPT !["srv"] = "closed", !["cli"] = IF @ = "open" THEN "reset" ELSE @],
     queue |-> [n.queue EXCEPT !["srv"] = <<>>]]
=============================================================================
