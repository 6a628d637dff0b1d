---------------------------- MODULE MCServerMain ----------------------------
(* ServerMain on small instances: ports of 3 bits in an unsigned of 4 and  *)
(* an unsigned long of 5; three descriptors, a listed error and another.   *)
EXTENDS ServerMain

CONSTANTS f1, f2, f3

MCFds == {f1, f2, f3}
MCErrnos == {"ConnectionReset", "Unknown"}
MCListed == {"ConnectionReset"}
Both == {"TCP", "UDP"}

(* No number; a port; too big for a port; too big for an unsigned, and a   *)
(* port once cut to one; too big for an unsigned long.                     *)
MCValues == {"files", "3", "9", "19", "40"}
MCNumber == [v \in Values |-> CASE v = "files" -> {} [] v = "3" -> {3} [] v = "9" -> {9}
                                [] v = "19" -> {19} [] v = "40" -> {40}]
MCDirectories == {[v \in Values |-> s] : s \in PathStates}
=============================================================================
