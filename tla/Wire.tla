-------------------------------- MODULE Wire --------------------------------
(***************************************************************************)
(* What the programs put on the network, over TCP and over UDP: a unit for *)
(* each thing they send as a whole.                                        *)
(***************************************************************************)
EXTENDS Protocol

(* `file' is history, and not sent: what the file to be uploaded holds.    *)
Mac(m) == [t |-> "mac", mac |-> m]
Header(op) == [t |-> "header", op |-> op]
Data(arg, name, file) == [t |-> "data", arg |-> arg, name |-> name, file |-> file]
Response(ready, total) == [t |-> "response", ready |-> ready, total |-> total]
Answered == [t |-> "answer"]

(* The contents of a file: over TCP block by block, over UDP a chunk at a  *)
(* time.                                                                   *)
Contents(s) == [i \in 1..Len(s) |-> [t |-> "block", block |-> s[i]]]
Chunk(s) == [t |-> "block", blocks |-> s]

(* The two words of the hand-shake over UDP.                               *)
ConnectMagic == [t |-> "connect"]
AcceptMagic == [t |-> "accept"]

(* The requests that have data, which follow their header.                 *)
HasData(op) == op \in {"Echo", "Download", "Upload"}

(* What a program takes the unit to be that it reads next.                 *)
ServerExpects == [p \in {"RecvMac", "RecvHeader", "RecvData", "RecvChunk", "Discard"} |->
    CASE p = "RecvMac" -> "mac" [] p = "RecvHeader" -> "header"
      [] p = "RecvData" -> "data" [] OTHER -> "block"]
ClientExpects ==
    [p \in {"recvAccept", "recvGreeting", "recvStamp", "recvResponse", "recvFile", "recvAnswer"} |->
        CASE p = "recvAccept" -> "accept" [] p = "recvGreeting" -> "header"
          [] p = "recvStamp" -> "data" [] p = "recvResponse" -> "response"
          [] p = "recvFile" -> "block" [] OTHER -> "answer"]
=============================================================================
