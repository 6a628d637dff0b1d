---------------------------- MODULE MCFileServer ----------------------------
(* FileServer on a small instance: two clients (and the zero MAC of one    *)
(* that never sent its own), a file of three blocks, a free name, a        *)
(* directory and a name that uploads may not have.                         *)
EXTENDS FileServer

CONSTANTS m0, m1, m2, k1, k2, b1

MCMacs == {m0, m1, m2}
MCConns == {k1, k2}
MCBlocks == {b1}
MCNames == {"file", "free", "dir", "~bad"}
MCBadNames == {"~bad"}
MCErrors == {"ConnectionReset", "Unknown"}
MCNumbers == 0..3
MCHostDirs ==
    {[n \in MCNames |-> CASE n = "file" -> File(<<b1, b1, b1>>)
                         [] n = "dir" -> [kind |-> "dir", data |-> <<>>]
                         [] OTHER -> NoEntry]}
=============================================================================
