---------------------------- MODULE UdpTransfer ----------------------------
(***************************************************************************)
(* The file server and its clients over UDP (src/src/core/server.h and     *)
(* server.cpp: UdpServer; src/src/core/client.cpp: UdpClient).  The server *)
(* has one socket, and reads from it whatever comes next, from whomever;   *)
(* no call of its own ever fails, so no stamp is ever made and no handle   *)
(* removed.  It does not notice when a client's process ends.              *)
(*                                                                         *)
(* Nothing in the programs makes up for what UDP does not do.  Users have  *)
(* to: they take turns, and leave with the close command; but a process    *)
(* may be killed at any time.  Datagrams on one machine or one link arrive *)
(* in order; a socket whose receive buffer is full, the server's or a      *)
(* client's, loses them, and no sender waits or is told.  What a program   *)
(* reads after that may be anything but what it takes it for.  That no     *)
(* upload is refused and every file opens is assumed.                      *)
(***************************************************************************)
EXTENDS FileServer, FileClient, Wire

CONSTANTS
    MacOf,         \* the MAC address of each client's machine
    Wanted,        \* the names each user may download
    Offered,       \* the names each user may upload
    Asks,          \* which of Echo and Time each user may ask for
    Killable,      \* the clients that may be killed
    Persistent,    \* bound: whose users give commands other than close after a loss
    ServerBuffer,  \* datagrams the buffer of the server's socket holds
    ClientBuffer,  \* datagrams the buffer of a client's socket holds
    Foreign        \* what a datagram that is no chunk adds to a file

ASSUME UdpAssumption ==
    /\ MacOf \in [Clients -> Macs \ {ZeroMac}]
    /\ Wanted \in [Clients -> SUBSET Names]
    /\ Offered \in [Clients -> SUBSET Names]
    /\ Asks \in [Clients -> SUBSET {"Echo", "Time"}]
    /\ Persistent \subseteq Clients
    /\ {ServerBuffer, ClientBuffer} \subseteq Nat \ {0}
    /\ Foreign \in Blocks

(* What an instance must keep to for no upload to be refused: nobody       *)
(* offers a name that the server refuses or has a directory of, nor an     *)
(* empty file, nor a file that a failed download may have emptied.         *)
NothingRefused ==
    \A c \in Clients : \A n \in Offered[c] :
        /\ n \notin BadNames /\ n \notin Wanted[c]
        /\ LocalDir[c][n].kind = "file" => LocalDir[c][n].data # <<>>
        /\ \A d \in HostDirs : d[n].kind # "dir"

VARIABLES
    inbox,  \* what the server's socket holds: units, and the address each came from
    mail,   \* what the socket at each address of a client holds
    made,   \* the socket in UdpClient::Connect, not yet assigned to `conn'
    lost,   \* history: the addresses a datagram to which was lost
    dropped, \* history: the addresses a datagram from which was lost
    asked   \* history: what the file of the request being served held when it was made

udpVars == <<inbox, mail, made, lost, dropped, asked>>
vars == <<serverVars, clientVars, udpVars>>

UdpInit ==
    /\ ServerInit
    /\ ClientInit
    /\ inbox = <<>>
    /\ mail = [k \in Conns |-> <<>>]
    /\ made = [c \in Clients |-> "null"]
    /\ lost = {}
    /\ dropped = {}
    /\ asked = [k \in Conns |-> <<>>]

Bound(k) == \E c \in Clients : k \in {conn[c], made[c]}

-----------------------------------------------------------------------------
(* The server's steps.                                                     *)

S == Me.conn
Got == inbox # <<>>
Unit == Head(inbox).unit
SrvReads == inbox' = Tail(inbox)

(* ClientConnection::Send: the socket at k may be full, or gone.           *)
SendTo(k, u) ==
    IF Bound(k) /\ Len(mail[k]) = ClientBuffer
    THEN lost' = lost \cup {k} /\ UNCHANGED mail
    ELSE /\ mail' = IF Bound(k) THEN [mail EXCEPT ![k] = Append(@, u)] ELSE mail
         /\ UNCHANGED lost

(* UdpServer::Listen: one datagram.  Its sender becomes the client if it   *)
(* holds the magic word; any other is dropped, and main listens again.     *)
UdpListen ==
    /\ pc = "Listen" /\ Got
    /\ SrvReads
    /\ IF Unit = ConnectMagic
       THEN /\ Accept(Head(inbox).from)
            /\ SendTo(Head(inbox).from, AcceptMagic)
       ELSE UNCHANGED <<serverVars, mail, lost>>
    /\ UNCHANGED <<made, asked>>

UdpRecvMac ==
    /\ Serving("RecvMac") /\ Got
    /\ SrvReads
    /\ IF Unit.t = "mac" THEN RecvMac("ok", Unit.mac) ELSE \E m \in Macs : RecvMac("ok", m)
    /\ UNCHANGED <<mail, made, lost, asked>>

(* No call fails, so there are no stamps and the greeting is None.         *)
UdpGreet ==
    /\ Serving("Greet")
    /\ GreetNone("ok")
    /\ SendTo(S, Header("None"))
    /\ UNCHANGED <<inbox, made, asked>>

(* The beginning of the magic word is no opcode, and says that data follow.*)
(* Any other datagram may be taken for any header.                         *)
UdpRecvHeader ==
    /\ Serving("RecvHeader") /\ Got
    /\ SrvReads
    /\ CASE Unit.t = "header" -> RecvHeader("ok", Unit.op, HasData(Unit.op), 0, SomeName)
         [] Unit = ConnectMagic -> RecvHeader("ok", "None", TRUE, 0, SomeName)
         [] OTHER -> \E op \in Opcodes, hasData \in BOOLEAN, arg \in Numbers, name \in Names :
                        RecvHeader("ok", op, hasData, arg, name)
    /\ UNCHANGED <<mail, made, lost, asked>>

UdpRecvData ==
    /\ Serving("RecvData") /\ Got
    /\ SrvReads
    /\ IF Unit.t = "data" THEN RecvData("ok", Unit.arg, Unit.name)
       ELSE \E arg \in Numbers, name \in Names : RecvData("ok", arg, name)
    /\ asked' = IF Unit.t = "data" THEN [asked EXCEPT ![S] = Unit.file] ELSE asked
    /\ UNCHANGED <<mail, made, lost>>

UdpReply ==
    /\ Serving("Reply")
    /\ Reply("ok")
    /\ SendTo(S, Answered)
    /\ UNCHANGED <<inbox, made, asked>>

UdpDownload ==
    /\ Serving("Download")
    /\ Download("ok", TRUE)
    /\ SendTo(S, Response(DownloadStatus(TRUE) = "Ready", TotalSize))
    /\ asked' = [asked EXCEPT ![S] = disk[packet.name].data]
    /\ UNCHANGED <<inbox, made>>

UdpSendChunk ==
    /\ Serving("SendChunk")
    /\ SendChunk("ok")
    /\ LET from == dl.start + dl.total - dl.left
       IN  SendTo(S, Chunk(SubSeq(disk[dl.file].data, from + 1, from + ChunkSize(dl.left))))
    /\ UNCHANGED <<inbox, made, asked>>

UdpUpload ==
    /\ Upload(TRUE)
    /\ UNCHANGED <<inbox, mail, made, lost, asked>>

(* What Receive leaves of a datagram when it wants n blocks at most.       *)
Cut(s, n) == SubSeq(s, 1, IF Len(s) < n THEN Len(s) ELSE n)
Content(u, n) == IF u.t = "block" THEN Cut(u.blocks, n) ELSE <<Foreign>>

UdpRecvChunk ==
    /\ Serving("RecvChunk") /\ Got
    /\ SrvReads
    /\ RecvChunk("ok", Content(Unit, ChunkSize(ul.left)))
    /\ UNCHANGED <<mail, made, lost, asked>>

(* Only after another datagram was taken for a request.                    *)
UdpDiscard ==
    /\ Serving("Discard") /\ Got
    /\ SrvReads
    /\ Discard("ok", Len(Content(Unit, ChunkSize(ul.left))))
    /\ UNCHANGED <<mail, made, lost, asked>>

UdpServerStep ==
    /\ \/ UdpListen \/ UdpRecvMac \/ UdpGreet
       \/ UdpRecvHeader \/ UdpRecvData \/ UdpReply
       \/ UdpDownload \/ UdpSendChunk \/ UdpUpload \/ UdpRecvChunk
       \/ UdpDiscard
    /\ UNCHANGED <<clientVars, dropped>>

-----------------------------------------------------------------------------
(* The clients' steps.                                                     *)

(* Connection::Send: returns at once, whether or not there is room.        *)
CliSend(k, u) ==
    IF Len(inbox) < ServerBuffer
    THEN inbox' = Append(inbox, [from |-> k, unit |-> u]) /\ UNCHANGED dropped
    ELSE dropped' = dropped \cup {k} /\ UNCHANGED inbox
CliReads(k) == mail' = [mail EXCEPT ![k] = Tail(@)]

(* UdpClient::Connect sends the magic word from a new socket, and waits.   *)
(* Its address is none the server may still write to, nor one the history  *)
(* already speaks of.                                                      *)
UdpConnect(c) ==
    /\ at[c] = "prompt"
    /\ \E k \in Conns :
          /\ ~Bound(k) /\ k \notin dropped
          /\ \A i \in 1..Len(clients) : clients[i].conn # k
          /\ \A i \in 1..Len(inbox) : inbox[i].from # k
          /\ made' = [made EXCEPT ![c] = k]
          /\ CliSend(k, ConnectMagic)
    /\ Goto(c, "recvAccept")
    /\ said' = [said EXCEPT ![c] = "nothing"]
    /\ UNCHANGED <<conn, job, local, mail>>

(* The other magic word: the new socket replaces the old one.  (At a new   *)
(* address nothing else can arrive.)                                       *)
UdpAccepted(c) ==
    /\ at[c] = "recvAccept" /\ mail[made[c]] # <<>>
    /\ Head(mail[made[c]]) = AcceptMagic
    /\ mail' = [k \in Conns |-> CASE k = made[c] -> Tail(mail[k])
                                  [] k = conn[c] -> <<>>
                                  [] OTHER -> mail[k]]
    /\ conn' = [conn EXCEPT ![c] = made[c]]
    /\ made' = [made EXCEPT ![c] = "null"]
    /\ Goto(c, "sendMac")
    /\ UNCHANGED <<job, local, said, inbox, dropped>>

(* The rest is FileClient's.                                               *)
K(c) == conn[c]
Mail(c) == mail[K(c)]

UdpSend(c) ==
    /\ \/ SendMac(c, "ok") /\ CliSend(K(c), Mac(MacOf[c]))
       \/ /\ SendDownload(c, "ok")
          /\ CliSend(K(c), IF at[c] = "downloadHeader" THEN Header("Download")
                           ELSE Data(job[c].start, job[c].file, <<>>))
       \/ /\ SendUpload(c, "ok")
          /\ CliSend(K(c), IF at[c] = "uploadHeader" THEN Header("Upload")
                           ELSE Data(job[c].left, job[c].file, local[c][job[c].file].data))
       \/ /\ SendFile(c, "ok")
          /\ LET data == local[c][job[c].file].data
                 done == Len(data) - job[c].left
             IN  CliSend(K(c), Chunk(SubSeq(data, done + 1, done + ChunkSize(job[c].left))))
       \/ /\ SendAsk(c, "ok")
          /\ CliSend(K(c), IF at[c] = "askHeader" THEN Header(job[c].op)
                           ELSE Data(0, SomeName, <<>>))
       \/ SendClose(c, "ok") /\ CliSend(K(c), Header("Close"))
    /\ UNCHANGED <<mail, made>>

(* Nothing but a greeting ever comes in its place: without a MAC address   *)
(* the server waits.  Any other datagram may be taken for any response.    *)
UdpReceive(c) ==
    /\ K(c) \in Conns /\ Mail(c) # <<>>
    /\ LET u == Head(Mail(c))
       IN  \/ RecvGreeting(c, "ok", u.op)
           \/ u.t = "response" /\ RecvResponse(c, "ok", u.ready, u.total)
           \/ /\ u.t # "response"
              /\ \E ready \in BOOLEAN, total \in Numbers : RecvResponse(c, "ok", ready, total)
           \/ RecvFile(c, "ok", Content(u, ChunkSize(job[c].left)))
           \/ RecvAnswer(c, "ok")
    /\ CliReads(K(c))
    /\ UNCHANGED <<made, inbox, dropped>>

UdpClientStep(c) ==
    /\ UdpAccepted(c) \/ UdpSend(c) \/ UdpReceive(c)
    /\ UNCHANGED <<serverVars, lost, asked>>

(* Users take turns: one connects when nobody is at it, the server has     *)
(* been told to close, or the process that was at it is gone.              *)
AtIt(c) == (K(c) \in Conns /\ said[c] # "closed") \/ at[c] \notin {"prompt", "dead"}

UdpUserStep(c) ==
    /\ \/ (\A other \in Clients : ~AtIt(other)) /\ UdpConnect(c)
       \/ /\ AtIt(c)
          /\ \/ /\ K(c) \in dropped => c \in Persistent
                /\ \/ \E name \in Wanted[c] : DownloadCmd(c, name, TRUE)
                   \/ \E name \in Offered[c] : UploadCmd(c, name)
                   \/ \E op \in Asks[c] : AskCmd(c, op)
             \/ CloseCmd(c)
          /\ UNCHANGED <<inbox, mail, made, dropped>>
       \/ StartClient(c) /\ UNCHANGED <<inbox, mail, made, dropped>>
    /\ UNCHANGED <<serverVars, lost, asked>>

(* Killed, or left by its user with quit: its sockets are gone.            *)
UdpKillClient(c) ==
    /\ c \in Killable
    /\ ClientDies(c)
    /\ made' = [made EXCEPT ![c] = "null"]
    /\ mail' = [k \in Conns |-> IF k \in {conn[c], made[c]} THEN <<>> ELSE mail[k]]
    /\ UNCHANGED <<serverVars, inbox, lost, dropped, asked>>

-----------------------------------------------------------------------------
UdpNext ==
    \/ UdpServerStep
    \/ \E c \in Clients : UdpClientStep(c) \/ UdpUserStep(c) \/ UdpKillClient(c)

(* As over TCP: a process that can go on is run.                           *)
UdpSpec ==
    /\ UdpInit /\ [][UdpNext]_vars
    /\ WF_vars(UdpServerStep)
    /\ \A c \in Clients : WF_vars(UdpClientStep(c))

-----------------------------------------------------------------------------
(* Properties.                                                             *)

(* The shape of what this module adds.                                     *)
UdpTypeOK ==
    /\ TypeOK
    /\ conn \in [Clients -> Conns \cup NoSocket]
    /\ made \in [Clients -> Conns \cup {"null"}]
    /\ local \in [Clients -> [Names -> Entry]]
    /\ \A i \in 1..Len(inbox) : inbox[i].from \in Conns
    /\ lost \subseteq Conns /\ dropped \subseteq Conns
    /\ asked \in [Conns -> Seq(Blocks)]

(* Whoever was killed before, wherever, and whatever others lost: as long  *)
(* as the process of the client being served lives, and nothing it sent    *)
(* was lost, the server reads its datagrams, each for what it is; and such *)
(* a client reads what the server sent it for what it is, unless some were *)
(* lost.                                                                   *)
UdpInStep ==
    /\ Serving(pc) /\ pc \in DOMAIN ServerExpects /\ Got /\ Bound(S) /\ S \notin dropped
          => Unit.t = ServerExpects[pc] /\ Head(inbox).from = S
    /\ \A c \in Clients :
          LET k == IF at[c] = "recvAccept" THEN made[c] ELSE K(c)
          IN  at[c] \in DOMAIN ClientExpects /\ mail[k] # <<>> /\ k \notin dropped
                 => Head(mail[k]).t = ClientExpects[at[c]]

(* A download that reports success has saved the whole file, whatever was  *)
(* lost of what the server sent; unless something was lost of what the     *)
(* client had sent before, so that it may read the answer to another       *)
(* request.                                                                *)
UdpDownloadIntegrity ==
    [][\A c \in Clients :
         at[c] \in {"recvResponse", "recvFile"} /\ said'[c] = "saved" /\ K(c) \notin dropped
            => local'[c][job[c].file].data = asked[K(c)]]_vars

(* An upload whose client lives to its end is hosted as it was sent,       *)
(* unless the server's socket lost something that this client sent (it     *)
(* does not wait for the server).                                          *)
UdpUploadIntegrity ==
    [][pc = "RecvChunk" /\ pc' = "RecvHeader" /\ Bound(S) /\ S \notin dropped
          => disk'[ul.name] = File(asked[S])]_vars

(* A download comes to an end unless a datagram was lost of what its       *)
(* client sent or was sent.                                                *)
UdpDownloading(c) == at[c] \in {"downloadHeader", "downloadData", "recvResponse", "recvFile"}
UdpDownloadEnds ==
    \A c \in Clients : UdpDownloading(c) ~> (~UdpDownloading(c) \/ K(c) \in lost \cup dropped)
=============================================================================
