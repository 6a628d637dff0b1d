--------------------------- MODULE MCFileTransfer ---------------------------
(* FileTransfer on small instances.  Client c1 downloads "f", three blocks;  *)
(* client c2 uploads another file of that name.                            *)
EXTENDS FileTransfer, TLC

CONSTANTS c1, c2, k1, k2, k3

OneClient == {c1}
TwoClients == {c1, c2}
TwoConns == {k1, k2}
ThreeConns == {k1, k2, k3}

MCMacs == {"m0", "m1", "m2"}
MCMacOf == [c \in Clients |-> IF c = c1 THEN "m1" ELSE "m2"]
MCBlocks == {"a1", "a2", "a3", "b1", "b2", "b3"}
MCNumbers == 0..3
MCErrors == {"ConnectionReset"}

OldFile == File(<<"a1", "a2", "a3">>)
NewFile == File(<<"b1", "b2", "b3">>)

FlatNames == {"f"}
TwoNames == {"f", "g"}
DialogueNames == {"f", ".f"}
DotNames == {".f"}
PathNames == {"f", "sub/f"}
MCFileName == [n \in Names |-> IF n = "sub/f" THEN "f" ELSE n]

(* The host directory at the start.                                        *)
HostsOld == {[n \in Names |-> IF n = "f" THEN OldFile ELSE NoEntry]}
HostsShort == {[n \in Names |-> IF n = "f" THEN File(<<"a1", "a2">>) ELSE NoEntry]}
HostsPaths == {[n \in Names |-> IF n = "f" THEN OldFile ELSE NewFile]}

(* What the clients' directories hold at the start, and what users do.     *)
SecondHas ==
    [c \in Clients |-> [n \in Names |-> IF c = c2 /\ n = "f" THEN NewFile ELSE NoEntry]]
SecondHasShort ==
    [c \in Clients |-> [n \in Names |-> IF c = c2 THEN File(<<"b1", "b2">>) ELSE NoEntry]]
FirstHasShort == [c \in Clients |-> [n \in Names |-> File(<<"b1", "b2">>)]]
DialogueHas ==
    [c \in Clients |-> [n \in Names |-> CASE n = ".f" -> File(<<"b1", "b2">>)
                                         [] c = c2 /\ n = "f" -> File(<<>>)
                                         [] OTHER -> NoEntry]]
OtherHasShort ==
    [c \in Clients |-> [n \in Names |-> IF n = "g" THEN File(<<"b1", "b2">>) ELSE NoEntry]]
DialogueOffers == [c \in Clients |-> IF c = c2 THEN Names ELSE {".f"}]
OtherOffers == [c \in Clients |-> {"g"}]
OffersAll == [c \in Clients |-> Names]
SecondOffers == [c \in Clients |-> IF c = c2 THEN Names ELSE {}]
FirstWants == [c \in Clients |-> IF c = c1 THEN {"f"} ELSE {}]
WantsAll == [c \in Clients |-> Names]
NoAsks == [c \in Clients |-> {}]
SecondAsks == [c \in Clients |-> IF c = c1 THEN {"Close"} ELSE {"Echo", "Time"}]

Nothing == {}
Succeeds == {TRUE}
MayFail == BOOLEAN
FirstDies == {c1}
BothDie == {c1, c2}
AllDie == {c1, c2, "server"}

(* Connections are interchangeable.                                        *)
ConnSymmetry == Permutations(Conns)
=============================================================================
