----------------------------- MODULE FileServer -----------------------------
(***************************************************************************)
(* The file server: class Server (src/src/server/server.{h,cpp}) driven by *)
(* the loop of src/src/server/main.cpp.  One thread serves one client at a *)
(* time: Listen accepts a client, reads its MAC address and tells it of an *)
(* interrupted download; Handle then serves its packets one after another  *)
(* until it returns false.                                                 *)
(*                                                                         *)
(* Every blocking Send or Receive ends a step.  Its outcome is a parameter *)
(* of the action (`r'), so the module stands for a server whose network    *)
(* may do anything; FileTransfer supplies the outcomes of a TCP network.   *)
(* File contents are sequences of abstract blocks; a packet is its opcode, *)
(* its number (position or fileSize) and its file name.                    *)
(***************************************************************************)
EXTENDS Protocol

CONSTANTS
    Macs,        \* MAC addresses, ZeroMac included
    ZeroMac,     \* the six zero bytes a handle holds until a MAC is received
    BadNames,    \* the names HandleUpload refuses: they start with . / or ~
    Numbers,     \* the positions and sizes that requests carry
    HostDirs     \* what the host directory may hold when the server starts

(* Statuses for which CheckFail removes the client, and a status that has  *)
(* no case of its own (EHOSTUNREACH, EPIPE, ENOTCONN...).                  *)
Removable == {"Timeout", "TryAgain", "Unreachable", "ConnectionRefused", "ConnectionReset"}
Unlisted == {"Unknown"}

ASSUME ServerAssumption ==
    /\ ZeroMac \in Macs
    /\ BadNames \subseteq Names
    /\ Errors \subseteq Removable \cup Unlisted
    /\ Numbers \subseteq Nat
    /\ HostDirs \subseteq [Names -> Entry]

(* What the packet and the locals of the two handlers hold when out of use.*)
NoPacket == [op |-> "None", arg |-> 0, name |-> SomeName]
NoDownload == [file |-> SomeName, start |-> 0, total |-> 0, left |-> 0]
NoUpload == [name |-> SomeName, size |-> 0, left |-> 0]

VARIABLES
    pc,       \* the Send or Receive the thread is about to make
    clients,  \* Server::clients
    cur,      \* main's clientIndex, counted from 1
    status,   \* Socket::status of the connection being served
    packet,   \* the packet being handled, in client.buffer
    stamps,   \* Server::recoveryStamps, as a set of entries
    disk,     \* the host directory
    dl,       \* locals of HandleDownload's loop
    ul        \* locals of HandleUpload's loops

serverVars == <<pc, clients, cur, status, packet, stamps, disk, dl, ul>>


-----------------------------------------------------------------------------
(* Helpers.                                                                *)

(* Network results: an error of Receive or Send is latched in              *)
(* Socket::status and stays there until Fail reads it.                     *)
Latch(r) == IF r \in Errors THEN r ELSE status

(* std::iter_swap and pop_back.  swap(ClientHandle&, ClientHandle&)        *)
(* exchanges buffers and identifiers but not connections.                  *)
SwapRemove(cs, i) ==
    LET n == Len(cs)
    IN  [j \in 1..(n - 1) |->
            IF j = i THEN [conn |-> cs[i].conn, mac |-> cs[n].mac] ELSE cs[j]]

(* Server::CheckFail: the handles it leaves behind, and what it returns.   *)
(* It also reads, and so clears, the status.                               *)
AfterCheckFail(cs, st) == IF st \in Removable THEN SwapRemove(cs, cur) ELSE cs
CheckFail(st) == st # "Success" /\ st \notin Removable

(* The code goes on using the handle after CheckFail has removed it; such  *)
(* a step is not Serving, and ends in UseAfterRemove.                      *)
Serving(p) == pc = p /\ cur \in 1..Len(clients)
Me == clients[cur]

MyStamps == {s \in stamps : s.mac = Me.mac}

(* recoveryStamps.erase and recoveryStamps.clear.                          *)
EraseStampMutant == stamps
EraseStamp == stamps \ MyStamps
ClearStampsMutant == stamps
ClearStamps == {}

(* push_back: the index of the new handle is the old size (plus one, here).*)
NewIndexMutant == Len(clients)
NewIndex == Len(clients) + 1

(* The ofstream of HandleUpload: created, or truncated.                    *)
OpenOfstreamMutant(name) ==
    IF disk[name].kind = "file" THEN disk ELSE [disk EXCEPT ![name] = File(<<>>)]
OpenOfstream(name) == [disk EXCEPT ![name] = File(<<>>)]

(* std::filesystem::remove.                                                *)
RemoveFileMutant(name) == disk
RemoveFile(name) == [disk EXCEPT ![name] = NoEntry]

-----------------------------------------------------------------------------
(* Server::Listen.                                                         *)

ServerInit ==
    /\ pc = "Listen"
    /\ clients = <<>>
    /\ cur = 0
    /\ status = "Success"
    /\ packet = NoPacket
    /\ stamps = {}
    /\ disk \in HostDirs
    /\ dl = NoDownload
    /\ ul = NoUpload

(* TcpServer::Listen returns a connection on a free descriptor and Listen  *)
(* appends its handle.  A failing accept (no descriptor is free) leaves    *)
(* everything as it is and main calls Listen again.                        *)
Accept(k) ==
    /\ pc = "Listen"
    /\ \A i \in 1..Len(clients) : clients[i].conn # k
    /\ clients' = Append(clients, [conn |-> k, mac |-> ZeroMac])
    /\ cur' = NewIndex
    /\ status' = "Success"
    /\ pc' = "RecvMac"
    /\ UNCHANGED <<packet, stamps, disk, dl, ul>>

(* ReceiveAll(client.identifier) and the first CheckFail.  At the end of   *)
(* the stream nothing is received, no status is set, and Listen goes on    *)
(* with the zero address.                                                  *)
RecvMac(r, m) ==
    /\ Serving("RecvMac")
    /\ LET st == Latch(r)
           cs == IF r = "ok" THEN [clients EXCEPT ![cur] = [conn |-> Me.conn, mac |-> m]]
                             ELSE clients
       IN  /\ clients' = AfterCheckFail(cs, st)
           /\ pc' = IF CheckFail(st) THEN "Listen" ELSE "Greet"
    /\ status' = "Success"
    /\ UNCHANGED <<cur, packet, stamps, disk, dl, ul>>

(* The client has a stamp: send the header of the DownloadRecovery packet. *)
GreetRecovery(r) ==
    /\ Serving("Greet")
    /\ MyStamps # {}
    /\ status' = Latch(r)
    /\ pc' = "SendStamp"
    /\ UNCHANGED <<clients, cur, packet, stamps, disk, dl, ul>>

(* Send its data, erase the stamp, CheckFail.                              *)
SendStamp(r) ==
    /\ Serving("SendStamp")
    /\ stamps' = EraseStamp
    /\ clients' = AfterCheckFail(clients, Latch(r))
    /\ pc' = IF CheckFail(Latch(r)) THEN "Listen" ELSE "RecvHeader"
    /\ status' = "Success"
    /\ UNCHANGED <<cur, packet, disk, dl, ul>>

(* It has none: forget everybody's stamp, send a None header, CheckFail.   *)
GreetNone(r) ==
    /\ Serving("Greet")
    /\ MyStamps = {}
    /\ stamps' = ClearStamps
    /\ clients' = AfterCheckFail(clients, Latch(r))
    /\ pc' = IF CheckFail(Latch(r)) THEN "Listen" ELSE "RecvHeader"
    /\ status' = "Success"
    /\ UNCHANGED <<cur, packet, disk, dl, ul>>

-----------------------------------------------------------------------------
(* Server::Handle and Server::HandlePacket.                                *)

(* The switch of HandlePacket.                                             *)
HandlerMutant(op) == op
Handler(op) ==
    CASE op \in {"Echo", "Time"} -> "Reply"
      [] op \in {"Download", "Upload"} -> op
      [] OTHER -> "Listen"

(* The packet header.  Data follow if its dataSize is not 0, whatever the  *)
(* opcode; if it is, the handler finds what the buffer held (arg, name).   *)
AfterHeaderMutant(op, hasData) == "RecvData"
AfterHeader(op, hasData) == IF hasData THEN "RecvData" ELSE Handler(op)

RecvHeader(r, op, hasData, arg, name) ==
    /\ Serving("RecvHeader")
    /\ \/ /\ r = "ok"
          /\ pc' = AfterHeader(op, hasData)
          /\ packet' = CASE pc' = "Listen" -> NoPacket
                         [] pc' \in {"RecvData", "Reply"} -> [NoPacket EXCEPT !.op = op]
                         [] OTHER -> [op |-> op, arg |-> arg, name |-> name]
          /\ UNCHANGED <<clients, status>>
       \/ /\ r # "ok"
          /\ clients' = AfterCheckFail(clients, Latch(r))
          /\ status' = "Success"
          /\ pc' = "Listen"
          /\ packet' = NoPacket
    /\ UNCHANGED <<cur, stamps, disk, dl, ul>>

(* The packet data.  A short read counts as a whole one: the rest of the   *)
(* data is whatever the buffer held.  (Data that do not fit the buffer are *)
(* read all the same, and written beyond its end: not modelled.)           *)
RecvData(r, arg, name) ==
    /\ Serving("RecvData")
    /\ \/ /\ r = "ok"
          /\ pc' = Handler(packet.op)
          /\ packet' = IF pc' = "Listen" THEN NoPacket
                       ELSE [packet EXCEPT !.arg = arg, !.name = name]
          /\ UNCHANGED status
       \/ /\ r # "ok"
          /\ status' = Latch(r)
          /\ pc' = "Listen"
          /\ packet' = NoPacket
    /\ UNCHANGED <<clients, cur, stamps, disk, dl, ul>>

(* The answer to an Echo or a Time packet, then `return !CheckFail'.       *)
Reply(r) ==
    /\ Serving("Reply")
    /\ clients' = AfterCheckFail(clients, Latch(r))
    /\ pc' = IF CheckFail(Latch(r)) THEN "Listen" ELSE "RecvHeader"
    /\ status' = "Success"
    /\ packet' = NoPacket
    /\ UNCHANGED <<cur, stamps, disk, dl, ul>>

-----------------------------------------------------------------------------
(* Server::HandleDownload.                                                 *)

(* What the response says: a regular file that opens is Ready, with the    *)
(* number of blocks from the start position to its end.                    *)
DownloadStatus(canOpen) ==
    CASE disk[packet.name].kind = "none" -> "NoSuchFile"
      [] disk[packet.name].kind = "dir"  -> "IsNotFile"
      [] OTHER -> IF canOpen THEN "Ready" ELSE "NoSuchFile"

TotalSizeMutant == Len(disk[packet.name].data)
TotalSize ==
    LET size == Len(disk[packet.name].data)
    IN  IF size <= packet.arg THEN 0 ELSE size - packet.arg

(* Up to the loop: look the file up, send the response, CheckFail.         *)
Download(r, canOpen) ==
    /\ Serving("Download")
    /\ LET st == Latch(r)
           loop == ~CheckFail(st) /\ DownloadStatus(canOpen) = "Ready" /\ TotalSize > 0
       IN  /\ clients' = AfterCheckFail(clients, st)
           /\ pc' = CASE CheckFail(st) -> "Listen"
                      [] loop -> "SendChunk"
                      [] OTHER -> "RecvHeader"
           /\ dl' = IF loop THEN [file |-> packet.name, start |-> packet.arg,
                                  total |-> TotalSize, left |-> TotalSize]
                            ELSE NoDownload
    /\ status' = "Success"
    /\ packet' = NoPacket
    /\ UNCHANGED <<cur, stamps, disk, ul>>

StampPositionMutant == dl.total - dl.left
StampPosition == dl.start + dl.total - dl.left

(* One turn of the loop.  A failed Send leaves a recovery stamp, keeps the *)
(* status latched and the handle in place, and ends Handle with false.     *)
(* Any other number of sent bytes counts as the whole chunk.               *)
SendChunk(r) ==
    /\ Serving("SendChunk")
    /\ \/ /\ r = "ok"
          /\ LET left == dl.left - ChunkSize(dl.left)
             IN  /\ pc' = IF left > 0 THEN "SendChunk" ELSE "RecvHeader"
                 /\ dl' = IF left > 0 THEN [dl EXCEPT !.left = left] ELSE NoDownload
          /\ UNCHANGED <<status, stamps>>
       \/ /\ r # "ok"
          /\ stamps' = (stamps \ MyStamps) \cup
                         {[mac |-> Me.mac, file |-> dl.file, position |-> StampPosition]}
          /\ status' = Latch(r)
          /\ pc' = "Listen"
          /\ dl' = NoDownload
    /\ UNCHANGED <<clients, cur, packet, disk, ul>>

-----------------------------------------------------------------------------
(* Server::HandleUpload.                                                   *)

(* An empty file is refused; a bad name, or a file that cannot be opened,  *)
(* sends the thread to ignoreContent; otherwise the ofstream truncates or  *)
(* creates the file.                                                       *)
Upload(canOpen) ==
    /\ Serving("Upload")
    /\ LET opens == canOpen /\ packet.name \notin BadNames /\ disk[packet.name].kind # "dir"
       IN  /\ pc' = CASE packet.arg = 0 -> "Listen"
                      [] packet.arg > 0 /\ opens -> "RecvChunk"
                      [] OTHER -> "Discard"
           /\ disk' = IF packet.arg > 0 /\ opens
                      THEN OpenOfstream(packet.name)
                      ELSE disk
           /\ ul' = IF packet.arg = 0 THEN NoUpload
                     ELSE [name |-> packet.name, size |-> packet.arg, left |-> packet.arg]
    /\ packet' = NoPacket
    /\ UNCHANGED <<clients, cur, status, stamps, dl>>

(* One turn of the receiving loop; `d' is what Receive returned.  At the   *)
(* end of the stream it returns 0 with no status and the loop turns for    *)
(* ever: that turn changes nothing.  A status CheckFail does not list ends *)
(* the upload and removes the file.                                        *)
UploadDoneMutant == "Listen"
UploadDone == "RecvHeader"

RecvChunk(r, d) ==
    /\ Serving("RecvChunk")
    /\ \/ /\ r = "ok"
          /\ Len(d) \in 1..ChunkSize(ul.left)
          /\ disk' = [disk EXCEPT ![ul.name] = File(@.data \o d)]
          /\ pc' = IF ul.left > Len(d) THEN "RecvChunk" ELSE UploadDone
          /\ ul' = IF ul.left > Len(d) THEN [ul EXCEPT !.left = @ - Len(d)] ELSE NoUpload
          /\ UNCHANGED <<clients, status>>
       \/ /\ r \in Errors
          /\ clients' = AfterCheckFail(clients, r)
          /\ pc' = IF CheckFail(r) THEN "Listen" ELSE "RecvChunk"
          /\ ul' = IF CheckFail(r) THEN NoUpload ELSE ul
          /\ disk' = IF CheckFail(r) THEN RemoveFile(ul.name) ELSE disk
          /\ status' = "Success"
    /\ UNCHANGED <<cur, packet, stamps, dl>>

(* One turn of the ignoreContent loop, which swallows n blocks.            *)
Discard(r, n) ==
    /\ Serving("Discard")
    /\ \/ /\ r = "ok"
          /\ n \in 1..ChunkSize(ul.left)
          /\ pc' = IF ul.left > n THEN "Discard" ELSE "Listen"
          /\ ul' = IF ul.left > n THEN [ul EXCEPT !.left = @ - n] ELSE NoUpload
          /\ UNCHANGED <<clients, status>>
       \/ /\ r \in Errors
          /\ clients' = AfterCheckFail(clients, r)
          /\ pc' = IF CheckFail(r) THEN "Listen" ELSE "Discard"
          /\ ul' = IF CheckFail(r) THEN NoUpload ELSE ul
          /\ status' = "Success"
    /\ UNCHANGED <<cur, packet, stamps, disk, dl>>

-----------------------------------------------------------------------------
(* The process.                                                            *)

(* Memory is lost, the host directory stays.                               *)
Die ==
    /\ pc' = "Dead"
    /\ clients' = <<>>
    /\ cur' = 0
    /\ status' = "Success"
    /\ stamps' = {}
    /\ packet' = NoPacket
    /\ dl' = NoDownload
    /\ ul' = NoUpload
    /\ UNCHANGED disk

(* A step that uses the handle CheckFail has removed reaches its null      *)
(* connection pointer.                                                     *)
UseAfterRemove ==
    /\ pc \notin {"Listen", "Dead"}
    /\ cur \notin 1..Len(clients)
    /\ Die

(* Send passes no MSG_NOSIGNAL: a write to a connection whose failure has  *)
(* been reported, or whose peer is gone, raises SIGPIPE.                   *)
Sigpipe ==
    /\ \E p \in {"Greet", "SendStamp", "Reply", "Download", "SendChunk"} : Serving(p)
    /\ Die

(* The process is killed from outside, and started again.                  *)
Kill ==
    /\ pc # "Dead"
    /\ Die

Restart ==
    /\ pc = "Dead"
    /\ pc' = "Listen"
    /\ UNCHANGED <<clients, cur, status, packet, stamps, disk, dl, ul>>

-----------------------------------------------------------------------------
(* The server against a network that may do anything: any outcome for any  *)
(* call, any packet for any client.                                        *)

Listening ==
    \/ \E k \in Conns : Accept(k)
    \/ \E r \in Received, m \in Macs : RecvMac(r, m)
    \/ \E r \in Sent : GreetRecovery(r) \/ SendStamp(r) \/ GreetNone(r)

Handling ==
    \/ \E r \in Received, op \in Opcodes, hasData \in BOOLEAN, arg \in Numbers, name \in Names :
          RecvHeader(r, op, hasData, arg, name)
    \/ \E r \in Received, arg \in Numbers, name \in Names : RecvData(r, arg, name)
    \/ \E r \in Sent : Reply(r) \/ SendChunk(r)
    \/ \E r \in Sent, canOpen \in BOOLEAN : Download(r, canOpen)
    \/ \E canOpen \in BOOLEAN : Upload(canOpen)
    \/ \E r \in Received, d \in Chunks : RecvChunk(r, d)
    \/ \E r \in Received, n \in 1..BufferSize : Discard(r, n)

Process == UseAfterRemove \/ Sigpipe \/ Kill \/ Restart

ServerNext == Listening \/ Handling \/ Process
ServerSpec == ServerInit /\ [][ServerNext]_serverVars

-----------------------------------------------------------------------------
(* Properties.                                                             *)

Places == {"Listen", "RecvMac", "Greet", "SendStamp", "RecvHeader", "RecvData", "Reply",
           "Download", "SendChunk", "Upload", "RecvChunk", "Discard", "Dead"}
Handle == [conn : Conns, mac : Macs]
Packet == [op : Opcodes, arg : Nat, name : Names]
Stamp == [mac : Macs, file : Names, position : Nat]

(* Every variable has its type: the shape of the state of class Server.    *)
TypeOK ==
    /\ pc \in Places
    /\ clients \in Seq(Handle)
    /\ cur \in Nat
    /\ status \in {"Success"} \cup Errors
    /\ packet \in Packet
    /\ stamps \in SUBSET Stamp
    /\ disk \in [Names -> Entry]
    /\ dl \in [file : Names, start : Nat, total : Nat, left : Nat]
    /\ ul \in [name : Names, size : Nat, left : Nat]

(* recoveryStamps is a map from clients to stamps, but Listen's clear()    *)
(* leaves it room for one entry: never are two downloads recoverable.      *)
OnePendingStamp == \A s, t \in stamps : s = t

(* A stamp names a file that is there, and a position before its end: the  *)
(* recovery it announces always has something left to send.                *)
StampWithinFile ==
    \A s \in stamps : /\ disk[s.file].kind = "file"
                      /\ s.position < Len(disk[s.file].data)

(* The handle being served is the last of `clients', so the swap of the    *)
(* swap-remove (which would exchange identifiers and buffers but leave the *)
(* connections where they are) is never needed; and once CheckFail has     *)
(* removed it, the index points just past the end.                         *)
ServedHandleIsLast ==
    pc \notin {"Listen", "Dead"} => cur \in {Len(clients), Len(clients) + 1}

(* As long as a stamp is pending, the file it names does not change: the   *)
(* interrupted client resumes the version it had begun.                    *)
StampedFileFrozen ==
    [][\A s \in stamps \cap stamps' : disk'[s.file] = disk[s.file]]_serverVars

(* HandleUpload, if it returns at all, leaves the whole file or none.      *)
UploadAllOrNothing ==
    [][pc = "RecvChunk" /\ pc' \notin {"RecvChunk", "Dead"}
         => \/ disk'[ul.name] = NoEntry
            \/ Len(disk'[ul.name].data) = ul.size]_serverVars

(* The server implements RecoverySlot: it serves one client at a time, and *)
(* a stamp is only made when its service ends and gone before another's    *)
(* begins.                                                                 *)
Phase ==
    CASE pc = "Dead" -> "down"
      [] pc \in {"Listen", "RecvMac", "Greet", "SendStamp"} -> "waiting"
      [] OTHER -> "serving"
OfferedStamps == IF pc = "SendStamp" THEN MyStamps ELSE {}
Slot == INSTANCE RecoverySlot WITH
            phase <- Phase, slot <- stamps, offered <- OfferedStamps, hosted <- disk,
            Directories <- HostDirs
KeepsOneSlot == Slot!Spec
=============================================================================
