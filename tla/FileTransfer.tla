---------------------------- MODULE FileTransfer ----------------------------
(***************************************************************************)
(* The file server and its clients over TCP: every action of FileServer    *)
(* and FileClient that sends or receives is joined with what Tcp does to   *)
(* the connection.  Users give any commands they may give, in any order;   *)
(* processes that may be killed are killed at any step.                    *)
(***************************************************************************)
EXTENDS FileServer, FileClient, Tcp, Wire, FiniteSets

LOCAL INSTANCE SequencesExt

CONSTANTS
    MacOf,        \* the MAC address of each client's machine
    FileName,     \* std::filesystem::path::filename of each name
    Wanted,       \* the names each user may download
    Offered,      \* the names each user may upload
    Asks,         \* which of Echo, Time, Close each user may ask for
    Killable,     \* processes that may be killed: clients, or "server"
    OpenResults   \* whether opening a file succeeds: a subset of BOOLEAN

ASSUME TransferAssumption ==
    /\ MacOf \in [Clients -> Macs \ {ZeroMac}]
    /\ FileName \in [Names -> Names]
    /\ Wanted \in [Clients -> SUBSET Names]
    /\ Offered \in [Clients -> SUBSET Names]
    /\ Asks \in [Clients -> SUBSET {"Echo", "Time", "Close"}]
    /\ OpenResults \subseteq BOOLEAN
    /\ "ConnectionReset" \in Errors

VARIABLES
    net,      \* the connections
    backlog,  \* those the server has not accepted yet
    asked     \* history: what the file of the request being served held when it was made

vars == <<serverVars, clientVars, net, backlog, asked>>

(* What a Receive into a buffer of `left' may find: some of the blocks at  *)
(* the head of the queue.                                                  *)
BlocksAt(q, left) ==
    {[i \in 1..n |-> q[i].block] : n \in
        {m \in 1..ChunkSize(left) : m <= Len(q) /\ \A i \in 1..m : q[i].t = "block"}}

(* What a program reads out of a unit.  It does not check what it was sent *)
(* (InStep says that it is the right thing): out of a wrong unit it could  *)
(* read anything.                                                          *)
MacsIn(u) == IF u.t = "mac" THEN {u.mac} ELSE Macs
OpsIn(u) == IF u.t = "header" THEN {u.op} ELSE Opcodes
DataIn(u) ==
    IF u.t = "data" THEN {u} ELSE [arg : Numbers, name : Names, file : {<<>>}]
ResponsesIn(u) ==
    IF u.t = "response" THEN {u} ELSE [ready : BOOLEAN, total : Numbers]

TransferInit ==
    /\ ServerInit
    /\ ClientInit
    /\ net = [k \in Conns |-> Free]
    /\ backlog = {}
    /\ asked = [k \in Conns |-> <<>>]

-----------------------------------------------------------------------------
(* The server's steps.                                                     *)

S == Me.conn
SrvQueue == net[S].queue["srv"]
SrvRecv == RecvResult(net[S], "srv")
SrvSend(u) == SendResult(net[S], "srv", u)

(* The connection after a step of the server; removing its handle closes   *)
(* it.                                                                     *)
SrvUpdate(n) ==
    net' = [net EXCEPT ![S] = IF Len(clients') < Len(clients) THEN Close(n, "srv") ELSE n]
SrvReads(u) == SrvUpdate(AfterRecv(net[S], "srv", u)) /\ UNCHANGED backlog
SrvWrites(units) ==
    (\E n \in AfterSend(net[S], "srv", units) : SrvUpdate(n)) /\ UNCHANGED backlog
SrvLocal == UNCHANGED <<net, backlog>>

TcpAccept ==
    \E k \in backlog :
        /\ Accept(k)
        /\ backlog' = backlog \ {k}
        /\ asked' = [asked EXCEPT ![k] = <<>>]
        /\ UNCHANGED net

TcpRecvMac ==
    /\ Serving("RecvMac") /\ SrvRecv \in Received
    /\ \E m \in IF SrvRecv = "ok" THEN MacsIn(Head(SrvQueue)) ELSE {ZeroMac} :
          RecvMac(SrvRecv, m)
    /\ SrvReads(1)
    /\ UNCHANGED asked

TcpGreet ==
    /\ Serving("Greet") /\ SrvSend(1) \in Sent
    /\ \/ GreetRecovery(SrvSend(1)) /\ SrvWrites(<<Header("DownloadRecovery")>>)
       \/ GreetNone(SrvSend(1)) /\ SrvWrites(<<Header("None")>>)
    /\ UNCHANGED asked

TcpSendStamp ==
    /\ Serving("SendStamp") /\ SrvSend(1) \in Sent
    /\ SendStamp(SrvSend(1))
    /\ \E s \in MyStamps : SrvWrites(<<Data(s.position, FileName[s.file], <<>>)>>)
    /\ UNCHANGED asked

TcpRecvHeader ==
    /\ Serving("RecvHeader") /\ SrvRecv \in Received
    /\ \E op \in IF SrvRecv = "ok" THEN OpsIn(Head(SrvQueue)) ELSE {"None"} :
          RecvHeader(SrvRecv, op, HasData(op), 0, SomeName)
    /\ SrvReads(1)
    /\ UNCHANGED asked

TcpRecvData ==
    /\ Serving("RecvData") /\ SrvRecv \in Received
    /\ \/ /\ SrvRecv = "ok"
          /\ \E d \in DataIn(Head(SrvQueue)) :
                /\ RecvData("ok", d.arg, d.name)
                /\ asked' = IF packet.op = "Upload" THEN [asked EXCEPT ![S] = d.file] ELSE asked
       \/ SrvRecv # "ok" /\ RecvData(SrvRecv, 0, SomeName) /\ UNCHANGED asked
    /\ SrvReads(1)

TcpReply ==
    /\ Serving("Reply") /\ SrvSend(1) \in Sent
    /\ Reply(SrvSend(1))
    /\ SrvWrites(<<Answered>>)
    /\ UNCHANGED asked

TcpDownload ==
    /\ Serving("Download") /\ SrvSend(1) \in Sent
    /\ \E canOpen \in OpenResults :
          /\ Download(SrvSend(1), canOpen)
          /\ SrvWrites(<<Response(DownloadStatus(canOpen) = "Ready", TotalSize)>>)
    /\ asked' = [asked EXCEPT ![S] = disk[packet.name].data]

TcpSendChunk ==
    /\ Serving("SendChunk") /\ SrvSend(ChunkSize(dl.left)) \in Sent
    /\ SendChunk(SrvSend(ChunkSize(dl.left)))
    /\ LET from == dl.start + dl.total - dl.left
       IN  SrvWrites(Contents(SubSeq(disk[dl.file].data, from + 1, from + ChunkSize(dl.left))))
    /\ UNCHANGED asked

TcpUpload ==
    /\ \E canOpen \in OpenResults : Upload(canOpen)
    /\ SrvLocal
    /\ UNCHANGED asked

TcpRecvChunk ==
    /\ Serving("RecvChunk") /\ SrvRecv \in Received
    /\ IF SrvRecv = "ok"
       THEN \E d \in BlocksAt(SrvQueue, ul.left) : RecvChunk("ok", d) /\ SrvReads(Len(d))
       ELSE RecvChunk(SrvRecv, <<>>) /\ SrvReads(0)
    /\ UNCHANGED asked

TcpDiscard ==
    /\ Serving("Discard") /\ SrvRecv \in Received
    /\ IF SrvRecv = "ok"
       THEN \E d \in BlocksAt(SrvQueue, ul.left) : Discard("ok", Len(d)) /\ SrvReads(Len(d))
       ELSE Discard(SrvRecv, 0) /\ SrvReads(0)
    /\ UNCHANGED asked

(* The end of the server closes all its descriptors.                       *)
Held == {clients[i].conn : i \in 1..Len(clients)}
SrvCloses ==
    /\ net' = [k \in Conns |-> CASE k \in Held -> Close(net[k], "srv")
                                 [] k \in backlog -> Abort(net[k])
                                 [] OTHER -> net[k]]
    /\ backlog' = {}
    /\ UNCHANGED asked

(* How many units each place that sends is about to send.                  *)
Units == IF pc = "SendChunk" THEN ChunkSize(dl.left) ELSE 1

TcpSigpipeMutant ==
    /\ \E p \in {"Greet", "SendStamp", "Reply", "Download", "SendChunk"} : Serving(p)
    /\ SrvSend(Units) = "sigpipe"
    /\ pc' = "Listen" /\ packet' = NoPacket /\ dl' = NoDownload
    /\ UNCHANGED <<clients, cur, status, stamps, disk, ul, net, backlog, asked>>
TcpSigpipe == Sigpipe /\ SrvSend(Units) = "sigpipe" /\ SrvCloses
TcpUseAfterRemove == UseAfterRemove /\ SrvCloses

ServerStep ==
    \/ TcpAccept \/ TcpRecvMac \/ TcpGreet \/ TcpSendStamp
    \/ TcpRecvHeader \/ TcpRecvData \/ TcpReply \/ TcpDownload \/ TcpSendChunk
    \/ TcpUpload \/ TcpRecvChunk \/ TcpDiscard
    \/ TcpSigpipe \/ TcpUseAfterRemove

KillServer == "server" \in Killable /\ Kill /\ SrvCloses
RestartServer == Restart /\ UNCHANGED <<net, backlog, asked>>

-----------------------------------------------------------------------------
(* The clients' steps.                                                     *)

Linked(c) == conn[c] \in Conns
Queue(c) == net[conn[c]].queue["cli"]
CliRecv(c) == RecvResult(net[conn[c]], "cli")
CliSend(c, u) == SendResult(net[conn[c]], "cli", u)

CliReads(c, u) ==
    /\ net' = [net EXCEPT ![conn[c]] = AfterRecv(@, "cli", u)]
    /\ UNCHANGED backlog
CliWrites(c, units) ==
    /\ \E n \in AfterSend(net[conn[c]], "cli", units) : net' = [net EXCEPT ![conn[c]] = n]
    /\ UNCHANGED backlog

(* The network once client c has let go of its connection.                 *)
Dropped(c) == IF Linked(c) THEN [net EXCEPT ![conn[c]] = Close(@, "cli")] ELSE net

(* listen(socket, 0): one connection may wait to be accepted; connecting   *)
(* while another waits blocks.                                             *)
Backlog == 1

TcpConnect(c) ==
    /\ pc # "Dead" /\ Cardinality(backlog) < Backlog
    /\ \E k \in Conns :
          /\ net[k] = Free
          /\ Connect(c, k)
          /\ net' = [Dropped(c) EXCEPT ![k] = Fresh]
          /\ backlog' = backlog \cup {k}

TcpConnectFails(c) ==
    /\ pc = "Dead"
    /\ ConnectFails(c)
    /\ net' = Dropped(c)
    /\ UNCHANGED backlog

TcpReceive(c) ==
    /\ Linked(c) /\ CliRecv(c) \in Received
    /\ LET r == CliRecv(c)
           u == Head(Queue(c))
       IN  \/ /\ \E op \in IF r = "ok" THEN OpsIn(u) ELSE {"None"} : RecvGreeting(c, r, op)
              /\ CliReads(c, 1)
           \/ /\ \E name \in IF r = "ok" THEN {d.name : d \in DataIn(u)} ELSE {SomeName} :
                    RecvStamp(c, r, name)
              /\ CliReads(c, 1)
           \/ /\ at[c] = "recvResponse"
              /\ IF r = "ok"
                 THEN \E response \in ResponsesIn(u) :
                         RecvResponse(c, r, response.ready, response.total)
                 ELSE RecvResponse(c, r, FALSE, 0)
              /\ CliReads(c, 1)
           \/ /\ at[c] = "recvFile"
              /\ IF r = "ok"
                 THEN \E d \in BlocksAt(Queue(c), job[c].left) :
                         RecvFile(c, r, d) /\ CliReads(c, Len(d))
                 ELSE RecvFile(c, r, <<>>) /\ CliReads(c, 0)
           \/ RecvAnswer(c, r) /\ CliReads(c, 1)

(* What a client at a sending place sends.                                 *)
Packets(c) ==
    CASE at[c] = "sendMac" -> <<Mac(MacOf[c])>>
      [] at[c] \in {"downloadHeader", "uploadHeader", "askHeader", "sendClose"} ->
            <<Header(job[c].op)>>
      [] at[c] = "downloadData" -> <<Data(job[c].start, job[c].file, <<>>)>>
      [] at[c] = "uploadData" ->
            <<Data(job[c].left, FileName[job[c].file], local[c][job[c].file].data)>>
      [] at[c] = "sendFile" ->
            LET s == local[c][job[c].file].data
                sent == Len(s) - job[c].left
            IN  Contents(SubSeq(s, sent + 1, sent + ChunkSize(job[c].left)))
      [] OTHER -> <<Data(0, SomeName, <<>>)>>

TcpSend(c) ==
    /\ at[c] \in Sending /\ Linked(c)
    /\ LET r == CliSend(c, Len(Packets(c)))
       IN  /\ r \in Sent
           /\ \/ SendMac(c, r) \/ SendDownload(c, r) \/ SendUpload(c, r) \/ SendFile(c, r)
              \/ SendAsk(c, r) \/ SendClose(c, r)
    /\ CliWrites(c, Packets(c))

(* A process that ends closes its connection.                              *)
TcpQuit(c) == QuitCmd(c) /\ net' = Dropped(c) /\ UNCHANGED backlog
TcpSendUnconnected(c) == SendUnconnected(c) /\ UNCHANGED <<net, backlog>>
TcpClientSigpipe(c) ==
    /\ at[c] \in Sending /\ Linked(c) /\ CliSend(c, 1) = "sigpipe"
    /\ ClientDies(c)
    /\ net' = Dropped(c)
    /\ UNCHANGED backlog

(* What a client does by itself, and what its user decides.                *)
ClientStep(c) ==
    /\ TcpReceive(c) \/ TcpSend(c) \/ TcpSendUnconnected(c) \/ TcpClientSigpipe(c)
    /\ UNCHANGED <<serverVars, asked>>

UserStep(c) ==
    /\ \/ TcpConnect(c) \/ TcpConnectFails(c) \/ TcpQuit(c)
       \/ /\ \/ \E yes \in BOOLEAN, canSave \in OpenResults : Answer(c, yes, canSave)
             \/ \E name \in Wanted[c], canSave \in OpenResults : DownloadCmd(c, name, canSave)
             \/ \E name \in Offered[c] : UploadCmd(c, name)
             \/ \E op \in Asks[c] \ {"Close"} : AskCmd(c, op)
             \/ "Close" \in Asks[c] /\ CloseCmd(c)
             \/ StartClient(c)
          /\ UNCHANGED <<net, backlog>>
    /\ UNCHANGED <<serverVars, asked>>

KillClient(c) ==
    /\ c \in Killable
    /\ ClientDies(c)
    /\ net' = Dropped(c)
    /\ UNCHANGED <<serverVars, backlog, asked>>

-----------------------------------------------------------------------------
TransferNext ==
    \/ ServerStep /\ UNCHANGED clientVars
    \/ (KillServer \/ RestartServer) /\ UNCHANGED clientVars
    \/ \E c \in Clients : ClientStep(c) \/ UserStep(c) \/ KillClient(c)

TransferSpec == TransferInit /\ [][TransferNext]_vars

(* The scheduler runs a process that can go on; nothing makes a user give  *)
(* a command, a process die or the server start again.                     *)
Fairness ==
    /\ WF_vars(ServerStep /\ UNCHANGED clientVars)
    /\ \A c \in Clients : WF_vars(ClientStep(c))

FairTransferSpec == TransferSpec /\ Fairness

-----------------------------------------------------------------------------
(* Properties.                                                             *)

(* The shape of what this module adds.                                     *)
TransferTypeOK ==
    /\ TypeOK
    /\ conn \in [Clients -> Conns \cup NoSocket]
    /\ local \in [Clients -> [Names -> Entry]]
    /\ \A k \in Conns : net[k].end \in [Ends -> EndStates]
    /\ backlog \subseteq Conns
    /\ asked \in [Conns -> Seq(Blocks)]

(* Among its clients the server does nothing but what FileServer allows    *)
(* against any network: what is true of FileServer is true here.           *)
ImplementsServer == ServerSpec

(* The two programs never lose step: what a program is about to read is    *)
(* what the other meant it to read there (neither checks it).              *)
InStep ==
    /\ Serving(pc) /\ pc \in DOMAIN ServerExpects /\ SrvQueue # <<>>
          => Head(SrvQueue).t = ServerExpects[pc]
    /\ \A c \in Clients :
          Linked(c) /\ at[c] \in DOMAIN ClientExpects /\ Queue(c) # <<>>
             => Head(Queue(c)).t = ClientExpects[at[c]]

(* Names that filename() leaves alone.                                     *)
Flat(n) == FileName[n] = n

(* A download that reports success has saved what the server held when it  *)
(* was asked for it, all of it and nothing else, however many times it was *)
(* broken off and taken up again, and whatever others uploaded meanwhile.  *)
DownloadIntegrity ==
    [][\A c \in Clients :
         at[c] \in {"recvResponse", "recvFile"} /\ said'[c] = "saved"
            => local'[c][job[c].file].data = asked[conn[c]]]_vars

(* What a client kept of a broken-off download is the beginning of the     *)
(* file it will be offered, and the stamp is not behind it.                *)
StampFitsCopy ==
    \A s \in stamps, c \in Clients :
        MacOf[c] = s.mac /\ Flat(s.file) =>
            /\ IsPrefix(local[c][s.file].data, disk[s.file].data)
            /\ Len(local[c][s.file].data) <= s.position

(* The prompt: "The download of file '...' was not completed".             *)
PromptNamesUnfinished ==
    \A c \in Clients :
        at[c] = "ask" => local[c][job[c].file].data # disk[job[c].file].data

(* An upload the server finishes leaves the file that the client had when  *)
(* it sent the request, all of it and nothing else.                        *)
UploadIntegrity ==
    [][pc = "RecvChunk" /\ pc' = "RecvHeader" => disk'[ul.name] = File(asked[S])]_vars

(* A client that is downloading comes to an end, one way or another.       *)
Downloading(c) == at[c] \in {"downloadHeader", "downloadData", "recvResponse", "recvFile"}
DownloadEnds == \A c \in Clients : Downloading(c) ~> ~Downloading(c)

(* So does a client that is uploading.                                     *)
Uploading(c) == at[c] \in {"uploadHeader", "uploadData", "sendFile"}
UploadEnds == \A c \in Clients : Uploading(c) ~> ~Uploading(c)

(* With nobody killed and nothing refused, a download on a connection that *)
(* was made never fails.                                                   *)
QuietDownloadsSucceed ==
    [][\A c \in Clients : Linked(c) /\ Downloading(c) /\ ~Downloading(c)'
                             => said'[c] = "saved"]_vars

(* "File uploaded succefully.": the server does not throw such a file away.*)
UploadedIsHosted ==
    \A c \in Clients :
        said[c] = "uploaded" /\ Linked(c)
            => ~(Serving("Discard") /\ Me.conn = conn[c])

(* "`0` represents an error or no-data, use `Socket::Fail()` to determine  *)
(* what happend": HandleUpload does, and so ends its loop at the end of    *)
(* the stream as well.                                                     *)
ServerLeavesUpload == pc = "RecvChunk" ~> pc # "RecvChunk"
=============================================================================
