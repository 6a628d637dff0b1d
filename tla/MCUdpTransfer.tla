---------------------------- MODULE MCUdpTransfer ----------------------------
(* UdpTransfer on a small instance.  Client c1 downloads "f", and client c2  *)
(* uploads another file of that name, or asks for "~", which is not there,   *)
(* and a name the server takes no upload for.  Who lost a datagram toward    *)
(* the server gives the close command, or is killed.                         *)
EXTENDS UdpTransfer

CONSTANTS c1, c2, k1, k2

MCClients == {c1, c2}
NoClients == {}
MCConns == {k1, k2}
MCMacs == {"m0", "m1"}
MCMacOf == [c \in Clients |-> "m1"]
MCNames == {"f", "~"}
MCBadNames == {"~"}
MCNumbers == {1}
MCErrors == {"ConnectionReset"}

(* Blocks of two kinds: enough for each of the files to differ from the      *)
(* other, from itself with a block left out, and with Foreign in its place.  *)
MCBlocks == {"b1", "b2"}
MCHostDirs == {[n \in Names |-> IF n = "f" THEN File(<<"b2", "b1">>) ELSE NoEntry]}
MCLocalDir ==
    [c \in Clients |->
        [n \in Names |-> IF c = c2 /\ n = "f" THEN File(<<"b1", "b2">>) ELSE NoEntry]]
MCWanted == [c \in Clients |-> IF c = c1 THEN {"f"} ELSE {"~"}]
MCOffered == [c \in Clients |-> IF c = c2 THEN {"f"} ELSE {}]
MCAsks == [c \in Clients |-> IF c = c1 THEN {"Time"} ELSE {"Echo"}]

(* No upload of this instance is refused.                                  *)
ASSUME MCNothingRefused == NothingRefused
=============================================================================
