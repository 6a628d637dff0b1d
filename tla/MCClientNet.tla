----------------------------- MODULE MCClientNet -----------------------------
(* ClientNet, and ClientSockets with it, on a small instance: as many      *)
(* descriptors as the program ever needs and one more, two errors; a host  *)
(* of either family and one of both; ports of two bits in bytes of one;    *)
(* loopbacks and up to two other interfaces, one too many for the buffer.  *)
EXTENDS ClientNet

CONSTANTS f1, f2, f3

MCFds == {f1, f2, f3}
MCErrnos == {"ConnectionRefused", "ConnectionReset"}
Both == {"TCP", "UDP"}

MCHosts == {"four", "both"}
MCMachines == {"here", "there"}
MCFound == [h \in Hosts |->
    IF h = "four" THEN {[family |-> "IPv4", machine |-> "here"]}
    ELSE [family : Families, machine : {"there"}]]

MCMacs == {"m0", "m1", "m2"}
Loopback == [loopback |-> TRUE, mac |-> "m0"]
MCInterfaces ==
    LET card(m) == [loopback |-> FALSE, mac |-> m]
    IN  {<<>>, <<Loopback>>, <<card("m1")>>, <<Loopback, card("m1"), card("m2")>>,
         <<card("m1"), Loopback, card("m2"), card("m1")>>}
==============================================================================
