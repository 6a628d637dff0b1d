------------------------- MODULE FileTransferProofs -------------------------
(***************************************************************************)
(* Proofs about FileTransfer: server, clients and connections keep their   *)
(* types, and every step of the server over TCP is one that FileServer     *)
(* allows.  What FileServerProofs shows of a server against any network    *)
(* therefore holds of it among any number of clients, whatever their users *)
(* do and whoever is killed when.                                          *)
(*                                                                         *)
(* The second half proves that server and clients never lose step (InStep  *)
(* of FileTransfer).                                                       *)
(***************************************************************************)
EXTENDS FileTransfer, FileServerProofs

-----------------------------------------------------------------------------
(* The network.                                                            *)

Unit ==
    [t : {"mac"}, mac : Macs]
    \cup [t : {"header"}, op : Opcodes]
    \cup [t : {"data"}, arg : Nat, name : Names, file : Seq(Blocks)]
    \cup [t : {"response"}, ready : BOOLEAN, total : Nat]
    \cup [t : {"answer"}]
    \cup [t : {"block"}, block : Blocks]

Link == [end : [Ends -> EndStates], queue : [Ends -> Seq(Unit)]]

NetInv ==
    /\ net \in [Conns -> Link]
    /\ backlog \subseteq Conns
    /\ asked \in [Conns -> Seq(Blocks)]

LEMMA NewLinkLemma == Free \in Link /\ Fresh \in Link
<1>1. <<>> \in Seq(Unit)
  BY EmptySeq
<1> QED
  BY <1>1 DEF Free, Fresh, Link, EndStates

(* What is left of a queue, and what is added to one.                      *)
LEMMA TakenLemma ==
    ASSUME NEW T, NEW q \in Seq(T), NEW u \in Nat
    PROVE  SubSeq(q, u + 1, Len(q)) \in Seq(T)
<1>1. Len(q) \in Nat /\ \A i \in 1..Len(q) : q[i] \in T
  BY LenProperties, ElementOfSeq
<1>2. \A i \in (u + 1)..Len(q) : q[i] \in T
  BY <1>1
<1>3. u + 1 \in Int /\ Len(q) \in Int
  BY <1>1
<1> QED
  BY <1>2, <1>3, SubSeqProperties

LEMMA AfterRecvLemma ==
    ASSUME NEW n \in Link, NEW e \in Ends, NEW u \in Nat
    PROVE  AfterRecv(n, e, u) \in Link
<1>1. n.queue \in [Ends -> Seq(Unit)] /\ n.end \in [Ends -> EndStates]
  BY DEF Link
<1>2. SubSeq(n.queue[e], u + 1, Len(n.queue[e])) \in Seq(Unit)
  BY <1>1, TakenLemma
<1>3. [n.queue EXCEPT ![e] = SubSeq(@, u + 1, Len(@))] \in [Ends -> Seq(Unit)]
  BY <1>1, <1>2
<1>4. [n.end EXCEPT ![e] = IF @ = "reset" THEN "broken" ELSE @] \in [Ends -> EndStates]
  BY <1>1 DEF EndStates
<1> QED
  BY <1>1, <1>3, <1>4 DEF AfterRecv, Link

LEMMA AfterSendLemma ==
    ASSUME NEW n \in Link, NEW e \in Ends, NEW units \in Seq(Unit),
           NEW m \in AfterSend(n, e, units)
    PROVE  m \in Link
<1>1. n.queue \in [Ends -> Seq(Unit)] /\ n.end \in [Ends -> EndStates] /\ Other(e) \in Ends
  BY DEF Link, Other, Ends
<1>2. n.queue[Other(e)] \o units \in Seq(Unit)
  BY <1>1, ConcatProperties
<1>3. [n.queue EXCEPT ![Other(e)] = @ \o units] \in [Ends -> Seq(Unit)]
  BY <1>1, <1>2
<1>4. [n.end EXCEPT ![e] = "broken"] \in [Ends -> EndStates]
  BY <1>1 DEF EndStates
<1>5. \/ m = [n EXCEPT !.queue[Other(e)] = @ \o units]
      \/ m = [n EXCEPT !.end[e] = "broken"]
      \/ m = n
  BY <1>1 DEF AfterSend
<1>6. CASE m = [n EXCEPT !.queue[Other(e)] = @ \o units]
  BY <1>1, <1>3, <1>6 DEF Link
<1>7. CASE m = [n EXCEPT !.end[e] = "broken"]
  BY <1>1, <1>4, <1>7 DEF Link
<1> QED
  BY <1>5, <1>6, <1>7

LEMMA CloseLemma ==
    ASSUME NEW n \in Link, NEW e \in Ends
    PROVE  Close(n, e) \in Link
<1>1. n.queue \in [Ends -> Seq(Unit)] /\ n.end \in [Ends -> EndStates] /\ Other(e) \in Ends
  BY DEF Link, Other, Ends
<1>2. <<>> \in Seq(Unit)
  BY EmptySeq
<1>3. [n.queue EXCEPT ![e] = <<>>] \in [Ends -> Seq(Unit)]
  BY <1>1, <1>2
<1>4. [n.end EXCEPT ![e] = "closed",
                    ![Other(e)] = IF @ # "open" THEN @
                                  ELSE IF n.queue[e] = <<>> THEN "fin" ELSE "reset"]
         \in [Ends -> EndStates]
  BY <1>1 DEF EndStates
<1> QED
  BY <1>3, <1>4 DEF Close, Link

LEMMA AbortLemma == ASSUME NEW n \in Link PROVE Abort(n) \in Link
<1>1. n.queue \in [Ends -> Seq(Unit)] /\ n.end \in [Ends -> EndStates]
  BY DEF Link
<1>2. <<>> \in Seq(Unit)
  BY EmptySeq
<1>3. [n.queue EXCEPT !["srv"] = <<>>] \in [Ends -> Seq(Unit)]
  BY <1>1, <1>2
<1>4. [n.end EXCEPT !["srv"] = "closed", !["cli"] = IF @ = "open" THEN "reset" ELSE @]
         \in [Ends -> EndStates]
  BY <1>1 DEF EndStates
<1> QED
  BY <1>3, <1>4 DEF Abort, Link

(* The units that the programs make.                                       *)
LEMMA UnitLemma ==
    /\ \A m \in Macs : <<Mac(m)>> \in Seq(Unit)
    /\ \A op \in Opcodes : <<Header(op)>> \in Seq(Unit)
    /\ \A arg \in Nat, name \in Names, file \in Seq(Blocks) :
          <<Data(arg, name, file)>> \in Seq(Unit)
    /\ \A ready \in BOOLEAN, total \in Nat : <<Response(ready, total)>> \in Seq(Unit)
    /\ <<Answered>> \in Seq(Unit)
<1>1. \A u \in Unit : <<u>> \in Seq(Unit)
  OBVIOUS
<1>2. \A m \in Macs : Mac(m) \in Unit
  BY DEF Mac, Unit
<1>3. \A op \in Opcodes : Header(op) \in Unit
  BY DEF Header, Unit
<1>4. \A arg \in Nat, name \in Names, file \in Seq(Blocks) : Data(arg, name, file) \in Unit
  BY DEF Data, Unit
<1>5. \A ready \in BOOLEAN, total \in Nat : Response(ready, total) \in Unit
  BY DEF Response, Unit
<1>6. Answered \in Unit
  BY DEF Answered, Unit
<1> QED
  BY <1>1, <1>2, <1>3, <1>4, <1>5, <1>6

(* A part of a file, cut out of it.                                        *)
LEMMA ContentsLemma ==
    ASSUME NEW s \in Seq(Blocks), NEW from \in Nat, NEW n \in Nat, from + n <= Len(s)
    PROVE  Contents(SubSeq(s, from + 1, from + n)) \in Seq(Unit)
<1> DEFINE part == SubSeq(s, from + 1, from + n)
<1>1. Len(s) \in Nat /\ \A i \in 1..Len(s) : s[i] \in Blocks
  BY LenProperties, ElementOfSeq
<1>2. \A i \in (from + 1)..(from + n) : s[i] \in Blocks
  BY <1>1
<1>3. part \in Seq(Blocks)
  BY <1>2, SubSeqProperties
<1>4. Len(part) \in Nat /\ \A i \in 1..Len(part) : part[i] \in Blocks
  BY <1>3, LenProperties, ElementOfSeq
<1> HIDE DEF part
<1>5. [i \in 1..Len(part) |-> [t |-> "block", block |-> part[i]]] \in [1..Len(part) -> Unit]
  BY <1>4 DEF Unit
<1>6. Contents(part) \in [1..Len(part) -> Unit]
  BY <1>5 DEF Contents
<1> QED
  BY <1>4, <1>6, SeqDef DEF part

(* What is read out of a unit has its type.                                *)
LEMMA ReadLemma ==
    ASSUME Numbers = Nat, NEW u \in Unit
    PROVE  /\ MacsIn(u) \subseteq Macs
           /\ OpsIn(u) \subseteq Opcodes
           /\ \A d \in DataIn(u) : d.arg \in Nat /\ d.name \in Names /\ d.file \in Seq(Blocks)
           /\ \A r \in ResponsesIn(u) : r.ready \in BOOLEAN /\ r.total \in Nat
<1>1. MacsIn(u) \subseteq Macs
  BY DEF MacsIn, Unit
<1>2. OpsIn(u) \subseteq Opcodes
  BY DEF OpsIn, Unit
<1>3. <<>> \in Seq(Blocks)
  BY EmptySeq
<1>4. \A d \in DataIn(u) : d.arg \in Nat /\ d.name \in Names /\ d.file \in Seq(Blocks)
  BY <1>3 DEF DataIn, Unit
<1>5. \A r \in ResponsesIn(u) : r.ready \in BOOLEAN /\ r.total \in Nat
  BY DEF ResponsesIn, Unit
<1> QED
  BY <1>1, <1>2, <1>4, <1>5

(* The blocks that one Receive may find are a chunk.                       *)
LEMMA BlocksAtLemma ==
    ASSUME NEW q \in Seq(Unit), NEW left \in Nat, NEW d \in BlocksAt(q, left)
    PROVE  d \in Chunks /\ d \in Seq(Blocks) /\ Len(d) \in 1..BufferSize /\ Len(d) <= left
<1>1. PICK n \in 1..ChunkSize(left) :
         /\ n <= Len(q) /\ \A i \in 1..n : q[i].t = "block"
         /\ d = [i \in 1..n |-> q[i].block]
  BY DEF BlocksAt
<1>2. n \in 1..BufferSize /\ n <= left
  BY <1>1, ProtocolAssumption DEF ChunkSize
<1>3. Len(q) \in Nat /\ \A i \in 1..Len(q) : q[i] \in Unit
  BY LenProperties, ElementOfSeq
<1>4. \A i \in 1..n : q[i] \in Unit /\ q[i].t = "block"
  BY <1>1, <1>2, <1>3
<1>5. \A i \in 1..n : q[i].block \in Blocks
  BY <1>4 DEF Unit
<1>6. d \in [1..n -> Blocks]
  BY <1>1, <1>5
<1>7. d \in Seq(Blocks) /\ Len(d) = n
  BY <1>2, <1>6, SeqDef
<1> QED
  BY <1>2, <1>6, <1>7 DEF Chunks


-----------------------------------------------------------------------------
(* The clients.                                                            *)

ClientPlaces ==
    {"prompt", "sendMac", "recvGreeting", "recvStamp", "ask", "downloadHeader", "downloadData",
     "recvResponse", "recvFile", "uploadHeader", "uploadData", "sendFile", "askHeader",
     "askData", "recvAnswer", "sendClose", "dead"}
Job == [op : Opcodes, file : Names, left : Nat, start : Nat]

(* No more of a file is to be sent than it holds: the process that sends   *)
(* it is the only one to change it.                                        *)
UploadingPlaces == {"uploadHeader", "uploadData", "sendFile"}
LeftInv ==
    \A c \in Clients :
        at[c] \in UploadingPlaces => job[c].left <= Len(local[c][job[c].file].data)

ClientInv ==
    /\ at \in [Clients -> ClientPlaces]
    /\ conn \in [Clients -> Conns \cup NoSocket]
    /\ job \in [Clients -> Job]
    /\ local \in [Clients -> [Names -> Entry]]
    /\ LeftInv

LEMMA IdleLemma ==
    /\ Idle \in Job
    /\ \A op \in Opcodes : [Idle EXCEPT !.op = op] \in Job
    /\ \A name \in Names : [Idle EXCEPT !.file = name] \in Job
    /\ \A op \in Opcodes, name \in Names, n \in Nat :
          /\ [Idle EXCEPT !.op = op, !.file = name, !.start = n] \in Job
          /\ [Idle EXCEPT !.op = op, !.file = name, !.left = n] \in Job
<1>1. SomeName \in Names
  BY NoneLemma
<1> QED
  BY <1>1 DEF Idle, Job, Opcodes

LEMMA InitClientInv == ClientInit => ClientInv
<1> SUFFICES ASSUME ClientInit PROVE ClientInv
  OBVIOUS
<1>1. at \in [Clients -> ClientPlaces] /\ LeftInv
  BY DEF ClientInit, ClientPlaces, LeftInv, UploadingPlaces
<1>2. conn \in [Clients -> Conns \cup NoSocket]
  BY DEF ClientInit, NoSocket
<1>3. job \in [Clients -> Job]
  BY IdleLemma DEF ClientInit
<1>4. local \in [Clients -> [Names -> Entry]]
  BY ClientAssumption DEF ClientInit
<1> QED
  BY <1>1, <1>2, <1>3, <1>4 DEF ClientInv

(* How a client's step keeps ClientInv: it only changes what is its own,   *)
(* and its place is none of an upload, or it has as much to send as there  *)
(* is.                                                                     *)
LEMMA StepClientInv ==
    ASSUME ClientInv, NEW c \in Clients, NEW p \in ClientPlaces, NEW k \in Conns \cup NoSocket,
           NEW j \in Job, NEW files \in [Names -> Entry],
           at' = [at EXCEPT ![c] = p], conn' = [conn EXCEPT ![c] = k],
           job' = [job EXCEPT ![c] = j], local' = [local EXCEPT ![c] = files],
           p \in UploadingPlaces => j.left <= Len(files[j.file].data)
    PROVE  ClientInv'
<1>1. /\ at' \in [Clients -> ClientPlaces]
      /\ conn' \in [Clients -> Conns \cup NoSocket]
      /\ job' \in [Clients -> Job]
      /\ local' \in [Clients -> [Names -> Entry]]
  BY DEF ClientInv
<1>2. ASSUME NEW other \in Clients, at'[other] \in UploadingPlaces
      PROVE  job'[other].left <= Len(local'[other][job'[other].file].data)
  <2>1. CASE other = c
    BY <1>2, <2>1 DEF ClientInv
  <2>2. CASE other # c
    BY <1>2, <2>2 DEF ClientInv, LeftInv
  <2> QED
    BY <2>1, <2>2
<1> QED
  BY <1>1, <1>2 DEF ClientInv, LeftInv

(* The steps that end a command, with or without a change of the files,    *)
(* and those that only go on to the next place.                            *)
LEMMA KeepLemma ==
    ASSUME ClientInv, NEW c \in Clients
    PROVE  /\ at[c] \in ClientPlaces /\ conn[c] \in Conns \cup NoSocket
           /\ job[c] \in Job /\ local[c] \in [Names -> Entry]
           /\ UNCHANGED conn => conn' = [conn EXCEPT ![c] = conn[c]]
           /\ UNCHANGED job => job' = [job EXCEPT ![c] = job[c]]
           /\ UNCHANGED local => local' = [local EXCEPT ![c] = local[c]]
           /\ UNCHANGED at => at' = [at EXCEPT ![c] = at[c]]
  BY DEF ClientInv

LEMMA ReturnInv ==
    ASSUME ClientInv, NEW c \in Clients, NEW s, Return(c, s),
           NEW k \in Conns \cup NoSocket, conn' = [conn EXCEPT ![c] = k],
           NEW files \in [Names -> Entry], local' = [local EXCEPT ![c] = files]
    PROVE  ClientInv'
<1>1. at' = [at EXCEPT ![c] = "prompt"] /\ job' = [job EXCEPT ![c] = Idle]
  BY DEF Return, Goto
<1>2. "prompt" \in ClientPlaces /\ "prompt" \notin UploadingPlaces /\ Idle \in Job
  BY IdleLemma DEF ClientPlaces, UploadingPlaces
<1> QED
  BY <1>1, <1>2, StepClientInv

LEMMA GotoInv ==
    ASSUME ClientInv, NEW c \in Clients, NEW p \in ClientPlaces \ UploadingPlaces, Goto(c, p),
           UNCHANGED <<conn, job, local>>
    PROVE  ClientInv'
<1>1. at' = [at EXCEPT ![c] = p] /\ p \in ClientPlaces /\ p \notin UploadingPlaces
  BY DEF Goto
<1>2. /\ conn[c] \in Conns \cup NoSocket /\ conn' = [conn EXCEPT ![c] = conn[c]]
      /\ job[c] \in Job /\ job' = [job EXCEPT ![c] = job[c]]
      /\ local[c] \in [Names -> Entry] /\ local' = [local EXCEPT ![c] = local[c]]
  BY KeepLemma
<1> QED
  BY ZenonT(60), <1>1, <1>2, StepClientInv

(* A file that gets one more chunk, or is removed.                         *)
LEMMA FilesLemma ==
    ASSUME ClientInv, NEW c \in Clients, NEW name \in Names, NEW f \in Entry
    PROVE  /\ [local[c] EXCEPT ![name] = f] \in [Names -> Entry]
           /\ [local EXCEPT ![c][name] = f] = [local EXCEPT ![c] = [local[c] EXCEPT ![name] = f]]
  BY DEF ClientInv

LEMMA FailDownloadInv ==
    ASSUME ClientInv, NEW c \in Clients, FailDownload(c), UNCHANGED conn PROVE ClientInv'
<1>1. job[c].file \in Names /\ NoEntry \in Entry
  BY KeepLemma, NoneLemma DEF Job
<1> DEFINE files == [local[c] EXCEPT ![job[c].file] = NoEntry]
<1>2. files \in [Names -> Entry] /\ local' = [local EXCEPT ![c] = files]
  BY <1>1, FilesLemma DEF FailDownload, RemoveSaved
<1> HIDE DEF files
<1> QED
  BY <1>2, KeepLemma, ReturnInv DEF FailDownload

(* Each step of a client.                                                  *)
LEMMA KeptReturnInv ==
    ASSUME ClientInv, NEW c \in Clients, NEW s, Return(c, s), UNCHANGED <<conn, local>>
    PROVE  ClientInv'
<1>1. /\ conn[c] \in Conns \cup NoSocket /\ conn' = [conn EXCEPT ![c] = conn[c]]
      /\ local[c] \in [Names -> Entry] /\ local' = [local EXCEPT ![c] = local[c]]
  BY KeepLemma
<1> QED
  BY <1>1, ReturnInv

LEMMA ConnectInv ==
    ASSUME ClientInv, NEW c \in Clients, NEW k \in Conns, Connect(c, k) PROVE ClientInv'
<1>1. /\ at' = [at EXCEPT ![c] = "sendMac"] /\ conn' = [conn EXCEPT ![c] = k]
      /\ UNCHANGED <<job, local>>
  BY DEF Connect, Goto
<1>2. "sendMac" \in ClientPlaces /\ "sendMac" \notin UploadingPlaces /\ k \in Conns \cup NoSocket
  BY DEF ClientPlaces, UploadingPlaces
<1>3. /\ job[c] \in Job /\ job' = [job EXCEPT ![c] = job[c]]
      /\ local[c] \in [Names -> Entry] /\ local' = [local EXCEPT ![c] = local[c]]
  BY <1>1, KeepLemma
<1> QED
  BY <1>1, <1>2, <1>3, StepClientInv

LEMMA ConnectFailsInv == ASSUME ClientInv, NEW c \in Clients, ConnectFails(c) PROVE ClientInv'
<1>1. /\ "unconnected" \in Conns \cup NoSocket /\ conn' = [conn EXCEPT ![c] = "unconnected"]
      /\ Return(c, "failed") /\ UNCHANGED local
  BY DEF ConnectFails, NoSocket
<1>2. local[c] \in [Names -> Entry] /\ local' = [local EXCEPT ![c] = local[c]]
  BY <1>1, KeepLemma
<1> QED
  BY <1>1, <1>2, ReturnInv

LEMMA PlainStepsInv ==
    ASSUME ClientInv, NEW c \in Clients, NEW r, NEW op,
           SendMac(c, r) \/ RecvGreeting(c, r, op) \/ SendAsk(c, r) \/ RecvAnswer(c, r)
              \/ SendClose(c, r) \/ StartClient(c)
    PROVE  ClientInv'
<1>1. \/ (\E s : Return(c, s)) /\ UNCHANGED <<conn, local>>
      \/ /\ \E p \in {"recvGreeting", "recvStamp", "askData", "recvAnswer", "prompt"} : Goto(c, p)
         /\ UNCHANGED <<conn, job, local>>
  BY DEF SendMac, RecvGreeting, SendAsk, RecvAnswer, SendClose, StartClient
<1>2. {"recvGreeting", "recvStamp", "askData", "recvAnswer", "prompt"}
         \subseteq ClientPlaces \ UploadingPlaces
  BY DEF ClientPlaces, UploadingPlaces
<1> QED
  BY <1>1, <1>2, KeptReturnInv, GotoInv

(* A new command, or the offer to recover, at a place that sends no file.  *)
LEMMA NewJobInv ==
    ASSUME ClientInv, NEW c \in Clients, NEW p \in ClientPlaces \ UploadingPlaces, Goto(c, p),
           NEW j \in Job, job' = [job EXCEPT ![c] = j], UNCHANGED <<conn, local>>
    PROVE  ClientInv'
<1>1. at' = [at EXCEPT ![c] = p] /\ p \in ClientPlaces /\ p \notin UploadingPlaces
  BY DEF Goto
<1>2. /\ conn[c] \in Conns \cup NoSocket /\ conn' = [conn EXCEPT ![c] = conn[c]]
      /\ local[c] \in [Names -> Entry] /\ local' = [local EXCEPT ![c] = local[c]]
  BY KeepLemma
<1> QED
  BY <1>1, <1>2, StepClientInv

LEMMA RecvStampInv ==
    ASSUME ClientInv, NEW c \in Clients, NEW r, NEW name \in Names, RecvStamp(c, r, name)
    PROVE  ClientInv'
<1>1. CASE r = "ok"
  <2>1. [Idle EXCEPT !.file = name] \in Job /\ "ask" \in ClientPlaces \ UploadingPlaces
    BY IdleLemma DEF ClientPlaces, UploadingPlaces
  <2> QED
    BY <1>1, <2>1, NewJobInv DEF RecvStamp
<1>2. CASE r # "ok"
  BY <1>2, KeptReturnInv DEF RecvStamp
<1> QED
  BY <1>1, <1>2

LEMMA AskInv ==
    ASSUME ClientInv, NEW c \in Clients, NEW op, AskCmd(c, op) \/ CloseCmd(c)
    PROVE  ClientInv'
<1>1. CASE AskCmd(c, op)
  <2>1. [Idle EXCEPT !.op = op] \in Job /\ "askHeader" \in ClientPlaces \ UploadingPlaces
    BY <1>1, IdleLemma DEF AskCmd, Opcodes, ClientPlaces, UploadingPlaces
  <2> QED
    BY <1>1, <2>1, NewJobInv DEF AskCmd
<1>2. CASE CloseCmd(c)
  <2>1. [Idle EXCEPT !.op = "Close"] \in Job /\ "sendClose" \in ClientPlaces \ UploadingPlaces
    BY IdleLemma DEF Opcodes, ClientPlaces, UploadingPlaces
  <2> QED
    BY <1>2, <2>1, NewJobInv DEF CloseCmd
<1> QED
  BY <1>1, <1>2

LEMMA StartDownloadInv ==
    ASSUME ClientInv, NEW c \in Clients, NEW name \in Names, NEW start \in Nat, NEW canSave,
           StartDownload(c, name, start, canSave)
    PROVE  ClientInv'
<1>1. CASE canSave
  <2> DEFINE j == [Idle EXCEPT !.op = "Download", !.file = name, !.start = start]
             files == IF start = 0 THEN [local[c] EXCEPT ![name] = File(<<>>)] ELSE local[c]
  <2>1. j \in Job
    BY IdleLemma DEF Opcodes
  <2>2. File(<<>>) \in Entry
    BY EmptySeq, FileLemma
  <2>3. /\ local[c] \in [Names -> Entry]
        /\ UNCHANGED local => local' = [local EXCEPT ![c] = local[c]]
    BY KeepLemma
  <2>4. files \in [Names -> Entry] /\ local' = [local EXCEPT ![c] = files]
    BY <1>1, <2>2, <2>3, FilesLemma DEF StartDownload
  <2>5. /\ at' = [at EXCEPT ![c] = "downloadHeader"] /\ job' = [job EXCEPT ![c] = j]
        /\ UNCHANGED conn
    BY <1>1 DEF StartDownload, Goto
  <2>6. conn[c] \in Conns \cup NoSocket /\ conn' = [conn EXCEPT ![c] = conn[c]]
    BY <2>5, KeepLemma
  <2>7. "downloadHeader" \in ClientPlaces /\ "downloadHeader" \notin UploadingPlaces
    BY DEF ClientPlaces, UploadingPlaces
  <2> HIDE DEF j, files
  <2> QED
    BY <2>1, <2>4, <2>5, <2>6, <2>7, StepClientInv
<1>2. CASE ~canSave
  BY <1>2, KeptReturnInv DEF StartDownload
<1> QED
  BY <1>1, <1>2

LEMMA DownloadCmdInv ==
    ASSUME ClientInv, NEW c \in Clients, NEW name \in Names, NEW yes, NEW canSave,
           DownloadCmd(c, name, canSave) \/ Answer(c, yes, canSave)
    PROVE  ClientInv'
<1>1. CASE DownloadCmd(c, name, canSave)
  BY <1>1, StartDownloadInv DEF DownloadCmd
<1>2. CASE Answer(c, yes, canSave)
  <2>1. job[c].file \in Names /\ local[c] \in [Names -> Entry]
    BY KeepLemma DEF Job
  <2>2. LocalSize(c, job[c].file) \in Nat
    <3>1. local[c][job[c].file].data \in Seq(Blocks)
      BY <2>1 DEF Entry
    <3> QED
      BY <3>1, LenProperties DEF LocalSize
  <2>3. CASE yes
    BY <1>2, <2>1, <2>2, <2>3, StartDownloadInv DEF Answer
  <2>4. CASE ~yes
    BY <1>2, <2>4, KeptReturnInv DEF Answer
  <2> QED
    BY <2>3, <2>4
<1> QED
  BY <1>1, <1>2

LEMMA SendDownloadInv ==
    ASSUME ClientInv, NEW c \in Clients, NEW r, SendDownload(c, r) PROVE ClientInv'
<1>1. CASE r = "ok"
  <2>1. /\ \E p \in {"downloadData", "recvResponse"} : Goto(c, p)
        /\ UNCHANGED <<conn, job, local>>
    BY <1>1 DEF SendDownload
  <2>2. {"downloadData", "recvResponse"} \subseteq ClientPlaces \ UploadingPlaces
    BY DEF ClientPlaces, UploadingPlaces
  <2> QED
    BY <2>1, <2>2, GotoInv
<1>2. CASE r # "ok"
  BY <1>2, FailDownloadInv DEF SendDownload
<1> QED
  BY <1>1, <1>2

LEMMA RecvResponseInv ==
    ASSUME ClientInv, NEW c \in Clients, NEW r, NEW ready \in BOOLEAN, NEW total \in Nat,
           RecvResponse(c, r, ready, total)
    PROVE  ClientInv'
<1>1. CASE r = "ok" /\ ready /\ total > 0
  <2> DEFINE j == [job[c] EXCEPT !.left = total]
  <2>1. j \in Job
    BY KeepLemma DEF Job
  <2>2. /\ Goto(c, "recvFile") /\ job' = [job EXCEPT ![c].left = total]
        /\ UNCHANGED <<conn, local>>
    BY <1>1 DEF RecvResponse
  <2>3. job' = [job EXCEPT ![c] = j]
    BY <2>2
  <2>4. "recvFile" \in ClientPlaces \ UploadingPlaces
    BY DEF ClientPlaces, UploadingPlaces
  <2> HIDE DEF j
  <2> QED
    BY <2>1, <2>2, <2>3, <2>4, NewJobInv
<1>2. CASE r = "ok" /\ ready /\ total = 0
  BY <1>2, KeptReturnInv DEF RecvResponse
<1>3. CASE ~(r = "ok" /\ ready)
  BY <1>3, FailDownloadInv DEF RecvResponse
<1> QED
  BY <1>1, <1>2, <1>3

LEMMA RecvFileInv ==
    ASSUME ClientInv, NEW c \in Clients, NEW r, NEW d \in Seq(Blocks), RecvFile(c, r, d)
    PROVE  ClientInv'
<1>1. CASE r = "ok"
  <2>1. job[c] \in Job /\ job[c].file \in Names /\ local[c] \in [Names -> Entry]
    BY KeepLemma DEF Job
  <2> DEFINE f == File(local[c][job[c].file].data \o d)
             files == [local[c] EXCEPT ![job[c].file] = f]
  <2>2. f \in Entry
    <3>1. local[c][job[c].file].data \in Seq(Blocks)
      BY <2>1 DEF Entry
    <3> QED
      BY <3>1, ConcatProperties, FileLemma
  <2>3. local' = [local EXCEPT ![c][job[c].file] = f]
    BY <1>1, <2>1 DEF RecvFile, ClientInv
  <2> HIDE DEF f
  <2>4. files \in [Names -> Entry] /\ local' = [local EXCEPT ![c] = files]
    BY <2>1, <2>2, <2>3, FilesLemma
  <2>5. conn[c] \in Conns \cup NoSocket /\ conn' = [conn EXCEPT ![c] = conn[c]]
    BY KeepLemma DEF RecvFile
  <2> HIDE DEF files
  <2>6. CASE MoreToReceive(c, d)
    <3> DEFINE j == [job[c] EXCEPT !.left = job[c].left - Len(d)]
    <3>1. Len(d) \in Nat /\ job[c].left \in Nat
      BY <2>1, LenProperties DEF Job
    <3>2. j \in Job
      BY <2>1, <2>6, <3>1 DEF Job, MoreToReceive
    <3>3. job' = [job EXCEPT ![c] = j] /\ at' = [at EXCEPT ![c] = "recvFile"]
      <4>1. UNCHANGED at /\ at[c] = "recvFile"
        BY <1>1, <2>6 DEF RecvFile
      <4>2. job' = [job EXCEPT ![c].left = @ - Len(d)]
        BY <1>1, <2>6 DEF RecvFile
      <4> QED
        BY <4>1, <4>2 DEF ClientInv
    <3>4. "recvFile" \in ClientPlaces /\ "recvFile" \notin UploadingPlaces
      BY DEF ClientPlaces, UploadingPlaces
    <3> HIDE DEF j
    <3> QED
      BY <2>4, <2>5, <3>2, <3>3, <3>4, StepClientInv
  <2>7. CASE ~MoreToReceive(c, d)
    <3>1. Return(c, "saved")
      BY <1>1, <2>7 DEF RecvFile
    <3> QED
      BY <2>4, <2>5, <3>1, ReturnInv
  <2> QED
    BY <2>6, <2>7
<1>2. CASE r # "ok"
  BY <1>2, FailDownloadInv DEF RecvFile
<1> QED
  BY <1>1, <1>2

(* The steps of an upload.                                                 *)
LEMMA UploadJobInv ==
    ASSUME ClientInv, NEW c \in Clients, NEW p \in UploadingPlaces, at' = [at EXCEPT ![c] = p],
           NEW j \in Job, job' = [job EXCEPT ![c] = j], UNCHANGED <<conn, local>>,
           j.left <= Len(local[c][j.file].data)
    PROVE  ClientInv'
<1>1. /\ conn[c] \in Conns \cup NoSocket /\ conn' = [conn EXCEPT ![c] = conn[c]]
      /\ local[c] \in [Names -> Entry] /\ local' = [local EXCEPT ![c] = local[c]]
  BY KeepLemma
<1>2. p \in ClientPlaces
  BY DEF UploadingPlaces, ClientPlaces
<1> QED
  BY <1>1, <1>2, StepClientInv

LEMMA UploadCmdInv ==
    ASSUME ClientInv, NEW c \in Clients, NEW name \in Names, UploadCmd(c, name) PROVE ClientInv'
<1> DEFINE n == Len(local[c][name].data)
           j == [Idle EXCEPT !.op = "Upload", !.file = name, !.left = n]
<1>1. n \in Nat
  <2>1. local[c][name].data \in Seq(Blocks)
    BY KeepLemma DEF Entry
  <2> QED
    BY <2>1, LenProperties
<1>2. j \in Job /\ j.left = n /\ j.file = name
  BY <1>1, IdleLemma DEF Opcodes, Idle
<1>3. /\ at' = [at EXCEPT ![c] = "uploadHeader"] /\ job' = [job EXCEPT ![c] = j]
      /\ UNCHANGED <<conn, local>>
  BY DEF UploadCmd, Goto
<1>4. "uploadHeader" \in UploadingPlaces /\ j.left <= Len(local[c][j.file].data)
  BY <1>1, <1>2 DEF UploadingPlaces
<1> HIDE DEF j, n
<1> QED
  BY <1>2, <1>3, <1>4, UploadJobInv

LEMMA SendUploadInv ==
    ASSUME ClientInv, NEW c \in Clients, NEW r, SendUpload(c, r) PROVE ClientInv'
<1>1. at[c] \in UploadingPlaces /\ UNCHANGED <<conn, local>>
  BY DEF SendUpload, UploadingPlaces
<1>2. job[c] \in Job /\ job[c].left \in Nat /\ job[c].left <= Len(local[c][job[c].file].data)
  BY <1>1, KeepLemma DEF ClientInv, LeftInv, Job
<1>3. \/ \E s : Return(c, s)
      \/ /\ \E p \in {"uploadData", "sendFile"} : at' = [at EXCEPT ![c] = p]
         /\ UNCHANGED job
  BY <1>2 DEF SendUpload, Goto
<1>4. CASE \E s : Return(c, s)
  BY <1>1, <1>4, KeptReturnInv
<1>5. CASE (\E p \in {"uploadData", "sendFile"} : at' = [at EXCEPT ![c] = p]) /\ UNCHANGED job
  <2>1. PICK p \in {"uploadData", "sendFile"} : at' = [at EXCEPT ![c] = p]
    BY <1>5
  <2>2. p \in UploadingPlaces /\ job' = [job EXCEPT ![c] = job[c]]
    BY <1>5, KeepLemma DEF UploadingPlaces
  <2> QED
    BY <1>1, <1>2, <2>1, <2>2, UploadJobInv
<1> QED
  BY <1>3, <1>4, <1>5

LEMMA SendFileInv ==
    ASSUME ClientInv, NEW c \in Clients, NEW r, SendFile(c, r) PROVE ClientInv'
<1> DEFINE left == job[c].left - ChunkSize(job[c].left)
           j == [job[c] EXCEPT !.left = left]
<1>1. at[c] = "sendFile" /\ "sendFile" \in UploadingPlaces /\ UNCHANGED <<conn, local>>
  BY DEF SendFile, UploadingPlaces
<1>2. job[c] \in Job /\ job[c].left \in Nat /\ job[c].left <= Len(local[c][job[c].file].data)
  BY <1>1, KeepLemma DEF ClientInv, LeftInv, Job
<1>3. Len(local[c][job[c].file].data) \in Nat
  <2>1. local[c][job[c].file].data \in Seq(Blocks)
    BY <1>2, KeepLemma DEF Job, Entry
  <2> QED
    BY <2>1, LenProperties
<1>4. left \in Nat /\ left <= job[c].left
  BY <1>2, ProtocolAssumption DEF ChunkSize
<1>5. j \in Job /\ j.left <= Len(local[c][j.file].data)
  BY <1>2, <1>3, <1>4 DEF Job
<1>6. CASE r = "ok" /\ left > 0
  <2>1. job' = [job EXCEPT ![c].left = left] /\ UNCHANGED at
    BY <1>6 DEF SendFile
  <2>2. job' = [job EXCEPT ![c] = j] /\ at' = [at EXCEPT ![c] = "sendFile"]
    BY <1>1, <2>1 DEF ClientInv
  <2> HIDE DEF j
  <2> QED
    BY <1>1, <1>5, <2>2, UploadJobInv
<1>7. CASE ~(r = "ok" /\ left > 0)
  <2>1. \E s : Return(c, s)
    BY <1>4, <1>7 DEF SendFile
  <2> QED
    BY <1>1, <2>1, KeptReturnInv
<1> QED
  BY <1>6, <1>7

(* The end of a process.                                                   *)
LEMMA ClientDiesInv ==
    ASSUME ClientInv, NEW c \in Clients, ClientDies(c) PROVE ClientInv'
<1>1. /\ at' = [at EXCEPT ![c] = "dead"] /\ conn' = [conn EXCEPT ![c] = "null"]
      /\ job' = [job EXCEPT ![c] = Idle]
  BY DEF ClientDies, Goto
<1>2. /\ "dead" \in ClientPlaces /\ "dead" \notin UploadingPlaces /\ Idle \in Job
      /\ "null" \in Conns \cup NoSocket
  BY IdleLemma DEF ClientPlaces, UploadingPlaces, NoSocket
<1>3. \E files \in [Names -> Entry] : local' = [local EXCEPT ![c] = files]
  <2>1. CASE UNCHANGED local
    BY <2>1, KeepLemma
  <2>2. CASE ~UNCHANGED local
    <3> DEFINE data == local[c][job[c].file].data
    <3>1. Len(data) > job[c].start /\ local' = [local EXCEPT ![c][job[c].file] =
                                                   File(SubSeq(data, 1, Len(data) - 1))]
      BY <2>2 DEF ClientDies
    <3>2. job[c].file \in Names /\ data \in Seq(Blocks)
      BY KeepLemma DEF Job, Entry
    <3>3. SubSeq(data, 1, Len(data) - 1) \in Seq(Blocks)
      <4>1. Len(data) \in Nat /\ \A i \in 1..Len(data) : data[i] \in Blocks
        BY <3>2, LenProperties, ElementOfSeq
      <4>2. \A i \in 1..(Len(data) - 1) : data[i] \in Blocks
        BY <4>1
      <4> HIDE DEF data
      <4> QED
        BY <4>1, <4>2, SubSeqProperties
    <3> HIDE DEF data
    <3>4. File(SubSeq(data, 1, Len(data) - 1)) \in Entry
      BY <3>3, FileLemma
    <3> QED
      BY <3>1, <3>2, <3>4, FilesLemma
  <2> QED
    BY <2>1, <2>2
<1> QED
  BY <1>1, <1>2, <1>3, StepClientInv

-----------------------------------------------------------------------------
(* The steps of the server: each is a step of FileServer, and keeps the    *)
(* connections in shape.                                                   *)

TransferInv == IInv /\ ClientInv /\ NetInv

(* The connection being served.                                            *)
LEMMA ServedLemma ==
    ASSUME IInv, NetInv, NEW p, Serving(p)
    PROVE  /\ S \in Conns /\ net[S] \in Link
           /\ SrvQueue \in Seq(Unit)
           /\ SrvRecv = "ok" => Head(SrvQueue) \in Unit
<1>1. clients \in Seq(Handle) /\ cur \in 1..Len(clients)
  BY DEF IInv, TypeOK, Serving
<1>2. clients[cur] \in Handle
  BY <1>1, ElementOfSeq
<1>3. S \in Conns
  BY <1>2 DEF S, Me, Handle
<1>4. net[S] \in Link
  BY <1>3 DEF NetInv
<1>5. SrvQueue \in Seq(Unit)
  BY <1>4 DEF SrvQueue, Link, Ends
<1>6. SrvRecv = "ok" => SrvQueue # <<>>
  BY DEF SrvRecv, RecvResult, SrvQueue
<1>7. SrvQueue # <<>> => Head(SrvQueue) \in Unit
  BY <1>5, HeadTailProperties
<1> QED
  BY <1>3, <1>4, <1>5, <1>6, <1>7

LEMMA SrvUpdateLemma ==
    ASSUME NetInv, S \in Conns, NEW n \in Link, SrvUpdate(n)
    PROVE  net' \in [Conns -> Link]
<1>1. Close(n, "srv") \in Link
  BY CloseLemma DEF Ends
<1> QED
  BY <1>1 DEF NetInv, SrvUpdate

LEMMA SrvReadsLemma ==
    ASSUME IInv, NetInv, NEW p, Serving(p), NEW u \in Nat, SrvReads(u), UNCHANGED asked
    PROVE  NetInv'
<1>1. S \in Conns /\ net[S] \in Link
  BY ServedLemma
<1>2. AfterRecv(net[S], "srv", u) \in Link
  BY <1>1, AfterRecvLemma DEF Ends
<1>3. net' \in [Conns -> Link]
  BY <1>1, <1>2, SrvUpdateLemma DEF SrvReads
<1> QED
  BY <1>3 DEF NetInv, SrvReads

LEMMA SrvWritesLemma ==
    ASSUME IInv, NetInv, NEW p, Serving(p), NEW units \in Seq(Unit), SrvWrites(units)
    PROVE  net' \in [Conns -> Link] /\ UNCHANGED backlog
<1>1. S \in Conns /\ net[S] \in Link
  BY ServedLemma
<1>2. PICK n \in AfterSend(net[S], "srv", units) : SrvUpdate(n)
  BY DEF SrvWrites
<1>3. n \in Link
  BY <1>1, <1>2, AfterSendLemma DEF Ends
<1> QED
  BY <1>1, <1>2, <1>3, SrvUpdateLemma DEF SrvWrites

LEMMA SrvClosesLemma == ASSUME NetInv, SrvCloses PROVE NetInv'
<1>1. \A k \in Conns : Close(net[k], "srv") \in Link /\ Abort(net[k]) \in Link /\ net[k] \in Link
  BY CloseLemma, AbortLemma DEF NetInv, Ends
<1>2. \A k \in Conns : (CASE k \in Held -> Close(net[k], "srv")
                          [] k \in backlog -> Abort(net[k])
                          [] OTHER -> net[k]) \in Link
  BY <1>1
<1>3. net' \in [Conns -> Link]
  BY <1>2 DEF SrvCloses
<1> QED
  BY <1>3 DEF NetInv, SrvCloses

LEMMA TcpAcceptLemma == ASSUME TransferInv, TcpAccept PROVE ServerNext /\ NetInv'
<1>1. PICK k \in backlog : /\ Accept(k)
                           /\ backlog' = backlog \ {k}
                           /\ asked' = [asked EXCEPT ![k] = <<>>]
                           /\ UNCHANGED net
  BY DEF TcpAccept
<1>2. k \in Conns /\ <<>> \in Seq(Blocks)
  BY <1>1, EmptySeq DEF TransferInv, NetInv
<1>3. ServerNext
  BY <1>1, <1>2 DEF ServerNext, Listening
<1> QED
  BY <1>1, <1>2, <1>3 DEF TransferInv, NetInv

LEMMA TcpRecvMacLemma ==
    ASSUME TransferInv, Numbers = Nat, TcpRecvMac PROVE ServerNext /\ NetInv'
<1>1. IInv /\ NetInv /\ Serving("RecvMac") /\ SrvRecv \in Received
  BY DEF TransferInv, TcpRecvMac
<1>2. PICK m \in IF SrvRecv = "ok" THEN MacsIn(Head(SrvQueue)) ELSE {ZeroMac} :
         RecvMac(SrvRecv, m)
  BY DEF TcpRecvMac
<1>3. m \in Macs
  <2>1. CASE SrvRecv = "ok"
    BY <1>1, <1>2, <2>1, ServedLemma, ReadLemma
  <2>2. CASE SrvRecv # "ok"
    BY <1>2, <2>2, ServerAssumption
  <2> QED
    BY <2>1, <2>2
<1>4. ServerNext
  BY <1>1, <1>2, <1>3 DEF ServerNext, Listening
<1> QED
  BY <1>1, <1>4, SrvReadsLemma DEF TcpRecvMac

LEMMA TcpGreetLemma ==
    ASSUME TransferInv, TcpGreet PROVE ServerNext /\ NetInv'
<1>1. IInv /\ NetInv /\ Serving("Greet") /\ SrvSend(1) \in Sent /\ UNCHANGED asked
  BY DEF TransferInv, TcpGreet
<1>2. ServerNext
  BY <1>1 DEF TcpGreet, ServerNext, Listening
<1>3. \E op \in Opcodes : SrvWrites(<<Header(op)>>)
  BY DEF TcpGreet, Opcodes
<1>4. net' \in [Conns -> Link] /\ UNCHANGED backlog
  BY <1>1, <1>3, UnitLemma, SrvWritesLemma
<1> QED
  BY <1>1, <1>2, <1>4 DEF NetInv

LEMMA TcpSendStampLemma ==
    ASSUME TransferInv, TcpSendStamp PROVE ServerNext /\ NetInv'
<1>1. IInv /\ NetInv /\ Serving("SendStamp") /\ SrvSend(1) \in Sent /\ UNCHANGED asked
  BY DEF TransferInv, TcpSendStamp
<1>2. ServerNext
  BY <1>1 DEF TcpSendStamp, ServerNext, Listening
<1>3. PICK s \in MyStamps : SrvWrites(<<Data(s.position, FileName[s.file], <<>>)>>)
  BY DEF TcpSendStamp
<1>4. s.position \in Nat /\ FileName[s.file] \in Names /\ <<>> \in Seq(Blocks)
  <2>1. s \in Stamp
    BY <1>1, <1>3 DEF MyStamps, IInv, TypeOK
  <2> QED
    BY <2>1, TransferAssumption, EmptySeq DEF Stamp
<1>5. net' \in [Conns -> Link] /\ UNCHANGED backlog
  BY <1>1, <1>3, <1>4, UnitLemma, SrvWritesLemma
<1> QED
  BY <1>1, <1>2, <1>5 DEF NetInv

LEMMA TcpRecvHeaderLemma ==
    ASSUME TransferInv, Numbers = Nat, TcpRecvHeader PROVE ServerNext /\ NetInv'
<1>1. IInv /\ NetInv /\ Serving("RecvHeader") /\ SrvRecv \in Received
  BY DEF TransferInv, TcpRecvHeader
<1>2. PICK op \in IF SrvRecv = "ok" THEN OpsIn(Head(SrvQueue)) ELSE {"None"} :
         RecvHeader(SrvRecv, op, HasData(op), 0, SomeName)
  BY DEF TcpRecvHeader
<1>3. op \in Opcodes
  <2>1. CASE SrvRecv = "ok"
    BY <1>1, <1>2, <2>1, ServedLemma, ReadLemma
  <2>2. CASE SrvRecv # "ok"
    BY <1>2, <2>2 DEF Opcodes
  <2> QED
    BY <2>1, <2>2
<1>4. HasData(op) \in BOOLEAN /\ 0 \in Numbers /\ SomeName \in Names
  BY NoneLemma DEF HasData
<1>5. ServerNext
  BY <1>1, <1>2, <1>3, <1>4 DEF ServerNext, Handling
<1> QED
  BY <1>1, <1>5, SrvReadsLemma DEF TcpRecvHeader

LEMMA TcpRecvDataLemma ==
    ASSUME TransferInv, Numbers = Nat, TcpRecvData PROVE ServerNext /\ NetInv'
<1>1. IInv /\ NetInv /\ Serving("RecvData") /\ SrvRecv \in Received /\ SrvReads(1)
  BY DEF TransferInv, TcpRecvData
<1>2. S \in Conns /\ net[S] \in Link
  BY <1>1, ServedLemma
<1>3. net' \in [Conns -> Link] /\ UNCHANGED backlog
  <2>1. AfterRecv(net[S], "srv", 1) \in Link
    BY <1>2, AfterRecvLemma DEF Ends
  <2> QED
    BY <1>1, <1>2, <2>1, SrvUpdateLemma DEF SrvReads
<1>4. CASE SrvRecv = "ok" /\ \E d \in DataIn(Head(SrvQueue)) :
              /\ RecvData("ok", d.arg, d.name)
              /\ asked' = IF packet.op = "Upload" THEN [asked EXCEPT ![S] = d.file] ELSE asked
  <2>1. PICK d \in DataIn(Head(SrvQueue)) :
              /\ RecvData("ok", d.arg, d.name)
              /\ asked' = IF packet.op = "Upload" THEN [asked EXCEPT ![S] = d.file] ELSE asked
    BY <1>4
  <2>2. d.arg \in Nat /\ d.name \in Names /\ d.file \in Seq(Blocks)
    BY <1>1, <1>4, <2>1, ServedLemma, ReadLemma
  <2>3. ServerNext
    BY <2>1, <2>2 DEF ServerNext, Handling, Received
  <2>4. asked' \in [Conns -> Seq(Blocks)]
    BY <1>1, <2>1, <2>2 DEF NetInv
  <2> QED
    BY <1>1, <1>3, <2>3, <2>4 DEF NetInv
<1>5. CASE RecvData(SrvRecv, 0, SomeName) /\ UNCHANGED asked
  <2>1. ServerNext
    BY <1>1, <1>5, NoneLemma DEF ServerNext, Handling
  <2> QED
    BY <1>1, <1>3, <1>5, <2>1 DEF NetInv
<1> QED
  BY <1>4, <1>5 DEF TcpRecvData

LEMMA TcpReplyLemma ==
    ASSUME TransferInv, TcpReply PROVE ServerNext /\ NetInv'
<1>1. IInv /\ NetInv /\ Serving("Reply") /\ SrvSend(1) \in Sent /\ UNCHANGED asked
  BY DEF TransferInv, TcpReply
<1>2. ServerNext
  BY <1>1 DEF TcpReply, ServerNext, Handling
<1>3. net' \in [Conns -> Link] /\ UNCHANGED backlog
  BY <1>1, UnitLemma, SrvWritesLemma DEF TcpReply
<1> QED
  BY <1>1, <1>2, <1>3 DEF NetInv

LEMMA TcpDownloadLemma ==
    ASSUME TransferInv, TcpDownload PROVE ServerNext /\ NetInv'
<1>1. IInv /\ NetInv /\ Serving("Download") /\ SrvSend(1) \in Sent
  BY DEF TransferInv, TcpDownload
<1>2. PICK canOpen \in OpenResults :
         /\ Download(SrvSend(1), canOpen)
         /\ SrvWrites(<<Response(DownloadStatus(canOpen) = "Ready", TotalSize)>>)
  BY DEF TcpDownload
<1>3. ServerNext
  BY <1>1, <1>2, TransferAssumption DEF ServerNext, Handling
<1>4. disk[packet.name].data \in Seq(Blocks) /\ packet.arg \in Nat
  BY <1>1 DEF IInv, TypeOK, Packet, Entry
<1>5. TotalSize \in Nat
  <2>1. Len(disk[packet.name].data) \in Nat
    BY <1>4, LenProperties
  <2> QED
    BY <1>4, <2>1 DEF TotalSize
<1>6. net' \in [Conns -> Link] /\ UNCHANGED backlog
  BY <1>1, <1>2, <1>5, UnitLemma, SrvWritesLemma
<1>7. asked' \in [Conns -> Seq(Blocks)]
  BY <1>1, <1>4 DEF TcpDownload, NetInv
<1> QED
  BY <1>1, <1>3, <1>6, <1>7 DEF NetInv

LEMMA TcpSendChunkLemma ==
    ASSUME TransferInv, TcpSendChunk PROVE ServerNext /\ NetInv'
<1> DEFINE from == dl.start + dl.total - dl.left
           n == ChunkSize(dl.left)
           s == disk[dl.file].data
<1>1. /\ IInv /\ NetInv /\ Serving("SendChunk") /\ SrvSend(n) \in Sent /\ UNCHANGED asked
      /\ SendChunk(SrvSend(n))
      /\ SrvWrites(Contents(SubSeq(s, from + 1, from + n)))
  BY DEF TransferInv, TcpSendChunk
<1>2. ServerNext
  BY <1>1 DEF ServerNext, Handling
<1>3. /\ s \in Seq(Blocks) /\ dl.start \in Nat /\ dl.total \in Nat /\ dl.left \in 1..dl.total
      /\ dl.start + dl.total = Len(s)
  BY <1>1 DEF IInv, TypeOK, DownloadInv, Serving, Entry
<1>4. n \in 1..dl.left
  BY <1>3, ChunkSizeLemma
<1>5. from \in Nat /\ n \in Nat /\ from + n <= Len(s)
  BY <1>3, <1>4
<1>6. Contents(SubSeq(s, from + 1, from + n)) \in Seq(Unit)
  BY <1>3, <1>5, ContentsLemma
<1>7. net' \in [Conns -> Link] /\ UNCHANGED backlog
  BY <1>1, <1>6, SrvWritesLemma
<1> QED
  BY <1>1, <1>2, <1>7 DEF NetInv

LEMMA TcpUploadLemma == ASSUME TransferInv, TcpUpload PROVE ServerNext /\ NetInv'
<1>1. PICK canOpen \in OpenResults : Upload(canOpen)
  BY DEF TcpUpload
<1>2. ServerNext
  BY <1>1, TransferAssumption DEF ServerNext, Handling
<1> QED
  BY <1>2 DEF TcpUpload, SrvLocal, TransferInv, NetInv

(* A Receive that fails gives no data: any chunk will do for FileServer.   *)
LEMMA TcpRecvChunkLemma ==
    ASSUME TransferInv, TcpRecvChunk PROVE ServerNext /\ NetInv'
<1>1. IInv /\ NetInv /\ Serving("RecvChunk") /\ SrvRecv \in Received /\ UNCHANGED asked
  BY DEF TransferInv, TcpRecvChunk
<1>2. CASE SrvRecv = "ok"
  <2>1. PICK d \in BlocksAt(SrvQueue, ul.left) : RecvChunk("ok", d) /\ SrvReads(Len(d))
    BY <1>2 DEF TcpRecvChunk
  <2>2. d \in Chunks /\ Len(d) \in Nat
    <3>1. SrvQueue \in Seq(Unit) /\ ul.left \in Nat
      BY <1>1, ServedLemma DEF IInv, TypeOK
    <3> QED
      BY <2>1, <3>1, BlocksAtLemma, ChunksLemma
  <2>3. ServerNext
    BY <2>1, <2>2 DEF ServerNext, Handling, Received
  <2> QED
    BY <1>1, <2>1, <2>2, <2>3, SrvReadsLemma
<1>3. CASE SrvRecv # "ok"
  <2>1. RecvChunk(SrvRecv, <<>>) /\ SrvReads(0)
    BY <1>3 DEF TcpRecvChunk
  <2>2. PICK d \in Chunks : TRUE
    <3>1. PICK b \in Blocks : TRUE
      BY ProtocolAssumption
    <3>2. [i \in 1..1 |-> b] \in [1..1 -> Blocks] /\ 1 \in 1..BufferSize
      BY ProtocolAssumption
    <3> QED
      BY <3>2 DEF Chunks
  <2>3. RecvChunk(SrvRecv, d)
    BY <1>3, <2>1 DEF RecvChunk
  <2>4. ServerNext
    BY <1>1, <2>2, <2>3 DEF ServerNext, Handling
  <2> QED
    BY <1>1, <2>1, <2>4, SrvReadsLemma
<1> QED
  BY <1>2, <1>3

LEMMA TcpDiscardLemma ==
    ASSUME TransferInv, TcpDiscard PROVE ServerNext /\ NetInv'
<1>1. IInv /\ NetInv /\ Serving("Discard") /\ SrvRecv \in Received /\ UNCHANGED asked
  BY DEF TransferInv, TcpDiscard
<1>2. CASE SrvRecv = "ok"
  <2>1. PICK d \in BlocksAt(SrvQueue, ul.left) : Discard("ok", Len(d)) /\ SrvReads(Len(d))
    BY <1>2 DEF TcpDiscard
  <2>2. Len(d) \in 1..BufferSize /\ Len(d) \in Nat
    <3>1. SrvQueue \in Seq(Unit) /\ ul.left \in Nat
      BY <1>1, ServedLemma DEF IInv, TypeOK
    <3> QED
      BY <2>1, <3>1, BlocksAtLemma, ChunksLemma
  <2>3. ServerNext
    BY <2>1, <2>2 DEF ServerNext, Handling, Received
  <2> QED
    BY <1>1, <2>1, <2>2, <2>3, SrvReadsLemma
<1>3. CASE SrvRecv # "ok"
  <2>1. Discard(SrvRecv, 0) /\ SrvReads(0)
    BY <1>3 DEF TcpDiscard
  <2>2. Discard(SrvRecv, 1) /\ 1 \in 1..BufferSize
    BY <1>3, <2>1, ProtocolAssumption DEF Discard
  <2>3. ServerNext
    BY <1>1, <2>2 DEF ServerNext, Handling
  <2> QED
    BY <1>1, <2>1, <2>3, SrvReadsLemma
<1> QED
  BY <1>2, <1>3

LEMMA ServerSide ==
    ASSUME TransferInv, Numbers = Nat, ServerStep \/ KillServer \/ RestartServer
    PROVE  ServerNext /\ NetInv'
<1>1. CASE TcpSigpipe \/ TcpUseAfterRemove \/ KillServer
  <2>1. SrvCloses /\ ServerNext
    BY <1>1 DEF TcpSigpipe, TcpUseAfterRemove, KillServer, ServerNext, Process
  <2> QED
    BY <2>1, SrvClosesLemma DEF TransferInv
<1>2. CASE RestartServer
  BY <1>2 DEF RestartServer, ServerNext, Process, TransferInv, NetInv
<1>3. CASE TcpAccept \/ TcpRecvMac \/ TcpGreet \/ TcpSendStamp \/ TcpRecvHeader \/ TcpRecvData
              \/ TcpReply \/ TcpDownload \/ TcpSendChunk \/ TcpUpload \/ TcpRecvChunk
              \/ TcpDiscard
  BY <1>3, TcpAcceptLemma, TcpRecvMacLemma, TcpGreetLemma, TcpSendStampLemma,
     TcpRecvHeaderLemma, TcpRecvDataLemma, TcpReplyLemma, TcpDownloadLemma, TcpSendChunkLemma,
     TcpUploadLemma, TcpRecvChunkLemma, TcpDiscardLemma
<1> QED
  BY <1>1, <1>2, <1>3 DEF ServerStep

-----------------------------------------------------------------------------
(* The steps of the clients.                                               *)

LEMMA LinkedLemma ==
    ASSUME ClientInv, NetInv, NEW c \in Clients, Linked(c)
    PROVE  /\ conn[c] \in Conns /\ net[conn[c]] \in Link
           /\ Queue(c) \in Seq(Unit)
           /\ CliRecv(c) = "ok" => Head(Queue(c)) \in Unit
<1>1. conn[c] \in Conns /\ net[conn[c]] \in Link
  BY DEF Linked, NetInv
<1>2. Queue(c) \in Seq(Unit)
  BY <1>1 DEF Queue, Link, Ends
<1>3. CliRecv(c) = "ok" => Queue(c) # <<>>
  BY DEF CliRecv, RecvResult, Queue
<1>4. Queue(c) # <<>> => Head(Queue(c)) \in Unit
  BY <1>2, HeadTailProperties
<1> QED
  BY <1>1, <1>2, <1>3, <1>4

LEMMA CliReadsLemma ==
    ASSUME ClientInv, NetInv, NEW c \in Clients, Linked(c), NEW u \in Nat, CliReads(c, u),
           UNCHANGED asked
    PROVE  NetInv'
<1>1. conn[c] \in Conns /\ net[conn[c]] \in Link
  BY LinkedLemma
<1>2. AfterRecv(net[conn[c]], "cli", u) \in Link
  BY <1>1, AfterRecvLemma DEF Ends
<1> QED
  BY <1>1, <1>2 DEF NetInv, CliReads

LEMMA CliWritesLemma ==
    ASSUME ClientInv, NetInv, NEW c \in Clients, Linked(c), NEW units \in Seq(Unit),
           CliWrites(c, units), UNCHANGED asked
    PROVE  NetInv'
<1>1. conn[c] \in Conns /\ net[conn[c]] \in Link
  BY LinkedLemma
<1>2. PICK n \in AfterSend(net[conn[c]], "cli", units) : net' = [net EXCEPT ![conn[c]] = n]
  BY DEF CliWrites
<1>3. n \in Link
  BY <1>1, <1>2, AfterSendLemma DEF Ends
<1> QED
  BY <1>1, <1>2, <1>3 DEF NetInv, CliWrites

LEMMA DroppedLemma ==
    ASSUME NetInv, NEW c \in Clients
    PROVE  Dropped(c) \in [Conns -> Link]
<1>1. CASE Linked(c)
  <2>1. Close(net[conn[c]], "cli") \in Link
    BY <1>1, CloseLemma DEF Linked, NetInv, Ends
  <2> QED
    BY <1>1, <2>1 DEF Dropped, NetInv
<1>2. CASE ~Linked(c)
  BY <1>2 DEF Dropped, NetInv
<1> QED
  BY <1>1, <1>2

LEMMA TcpReceiveLemma ==
    ASSUME TransferInv, Numbers = Nat, NEW c \in Clients, TcpReceive(c), UNCHANGED asked
    PROVE  ClientInv' /\ NetInv'
<1> DEFINE r == CliRecv(c)
           u == Head(Queue(c))
<1>1. ClientInv /\ NetInv /\ Linked(c) /\ Queue(c) \in Seq(Unit)
  BY LinkedLemma DEF TransferInv, TcpReceive
<1>2. r = "ok" => u \in Unit
  BY <1>1, LinkedLemma
<1>3. ASSUME NEW op, RecvGreeting(c, r, op), CliReads(c, 1)
      PROVE  ClientInv' /\ NetInv'
  BY <1>1, <1>3, PlainStepsInv, CliReadsLemma
<1>4. ASSUME NEW name \in IF r = "ok" THEN {d.name : d \in DataIn(u)} ELSE {SomeName},
             RecvStamp(c, r, name), CliReads(c, 1)
      PROVE  ClientInv' /\ NetInv'
  <2>1. name \in Names
    <3>1. CASE r = "ok"
      BY <1>2, <1>4, <3>1, ReadLemma
    <3>2. CASE r # "ok"
      BY <1>4, <3>2, NoneLemma
    <3> QED
      BY <3>1, <3>2
  <2> QED
    BY <1>1, <1>4, <2>1, RecvStampInv, CliReadsLemma
<1>5. ASSUME IF r = "ok"
             THEN \E response \in ResponsesIn(u) :
                     RecvResponse(c, r, response.ready, response.total)
             ELSE RecvResponse(c, r, FALSE, 0),
             CliReads(c, 1)
      PROVE  ClientInv' /\ NetInv'
  <2>1. \E ready \in BOOLEAN, total \in Nat : RecvResponse(c, r, ready, total)
    <3>1. CASE r = "ok"
      <4>1. PICK response \in ResponsesIn(u) :
               RecvResponse(c, r, response.ready, response.total)
        BY <1>5, <3>1
      <4>2. response.ready \in BOOLEAN /\ response.total \in Nat
        BY <1>2, <3>1, <4>1, ReadLemma
      <4> QED
        BY <4>1, <4>2
    <3>2. CASE r # "ok"
      BY <1>5, <3>2
    <3> QED
      BY <3>1, <3>2
  <2> QED
    BY <1>1, <1>5, <2>1, RecvResponseInv, CliReadsLemma
<1>6. ASSUME IF r = "ok"
             THEN \E d \in BlocksAt(Queue(c), job[c].left) :
                     RecvFile(c, r, d) /\ CliReads(c, Len(d))
             ELSE RecvFile(c, r, <<>>) /\ CliReads(c, 0)
      PROVE  ClientInv' /\ NetInv'
  <2>1. \E d \in Seq(Blocks) : RecvFile(c, r, d) /\ CliReads(c, Len(d))
    <3>1. CASE r = "ok"
      <4>1. PICK d \in BlocksAt(Queue(c), job[c].left) :
               RecvFile(c, r, d) /\ CliReads(c, Len(d))
        BY <1>6, <3>1
      <4>2. job[c].left \in Nat
        BY <1>1, KeepLemma DEF Job
      <4>3. d \in Seq(Blocks)
        BY <1>1, <4>1, <4>2, BlocksAtLemma
      <4> QED
        BY <4>1, <4>3
    <3>2. CASE r # "ok"
      <4>1. <<>> \in Seq(Blocks) /\ Len(<<>>) = 0
        BY EmptySeq
      <4> QED
        BY <1>6, <3>2, <4>1
    <3> QED
      BY <3>1, <3>2
  <2>2. PICK d \in Seq(Blocks) : RecvFile(c, r, d) /\ CliReads(c, Len(d))
    BY <2>1
  <2>3. Len(d) \in Nat
    BY <2>2, LenProperties
  <2> QED
    BY <1>1, <2>2, <2>3, RecvFileInv, CliReadsLemma
<1>7. ASSUME RecvAnswer(c, r), CliReads(c, 1)
      PROVE  ClientInv' /\ NetInv'
  BY <1>1, <1>7, PlainStepsInv, CliReadsLemma
<1> QED
  BY <1>3, <1>4, <1>5, <1>6, <1>7 DEF TcpReceive

(* What a client sends is made of units: of the file, no more than it has. *)
LEMMA PacketsLemma ==
    ASSUME ClientInv, NEW c \in Clients
    PROVE  Packets(c) \in Seq(Unit)
<1> DEFINE file == local[c][job[c].file].data
           left == job[c].left
<1>1. /\ job[c].op \in Opcodes /\ job[c].file \in Names
      /\ job[c].left \in Nat /\ job[c].start \in Nat
      /\ local[c] \in [Names -> Entry]
  BY KeepLemma DEF Job
<1>2. file \in Seq(Blocks)
  BY <1>1 DEF Entry
<1>3. at[c] = "sendFile" =>
         Contents(SubSeq(file, Len(file) - left + 1, Len(file) - left + ChunkSize(left)))
            \in Seq(Unit)
  <2>1. SUFFICES ASSUME at[c] = "sendFile"
                 PROVE  Contents(SubSeq(file, Len(file) - left + 1,
                                        Len(file) - left + ChunkSize(left))) \in Seq(Unit)
    OBVIOUS
  <2>2. left \in Nat /\ left <= Len(file) /\ Len(file) \in Nat
    BY <1>1, <1>2, <2>1, LenProperties DEF ClientInv, LeftInv, UploadingPlaces
  <2> HIDE DEF file, left
  <2>3. Len(file) - left \in Nat /\ ChunkSize(left) \in Nat
        /\ Len(file) - left + ChunkSize(left) <= Len(file)
    BY <2>2, ProtocolAssumption DEF ChunkSize
  <2> QED
    BY <1>2, <2>3, ContentsLemma
<1>4. MacOf[c] \in Macs /\ FileName[job[c].file] \in Names /\ SomeName \in Names
  BY <1>1, TransferAssumption, NoneLemma
<1>5. <<>> \in Seq(Blocks)
  BY EmptySeq
<1>6. /\ <<Mac(MacOf[c])>> \in Seq(Unit)
      /\ <<Header(job[c].op)>> \in Seq(Unit)
      /\ <<Data(job[c].start, job[c].file, <<>>)>> \in Seq(Unit)
      /\ <<Data(left, FileName[job[c].file], file)>> \in Seq(Unit)
      /\ <<Data(0, SomeName, <<>>)>> \in Seq(Unit)
  BY <1>1, <1>2, <1>4, <1>5, UnitLemma
<1> QED
  BY <1>3, <1>6 DEF Packets

LEMMA TcpSendLemma ==
    ASSUME TransferInv, NEW c \in Clients, TcpSend(c), UNCHANGED asked
    PROVE  ClientInv' /\ NetInv'
<1>1. ClientInv /\ NetInv /\ Linked(c) /\ CliWrites(c, Packets(c))
  BY DEF TransferInv, TcpSend
<1>2. NetInv'
  BY <1>1, PacketsLemma, CliWritesLemma
<1>3. PICK r \in Sent : \/ SendMac(c, r) \/ SendDownload(c, r) \/ SendUpload(c, r)
                        \/ SendFile(c, r) \/ SendAsk(c, r) \/ SendClose(c, r)
  BY DEF TcpSend
<1>4. ClientInv'
  BY <1>1, <1>3, PlainStepsInv, SendDownloadInv, SendUploadInv, SendFileInv
<1> QED
  BY <1>2, <1>4

LEMMA ClientSide ==
    ASSUME TransferInv, Numbers = Nat, NEW c \in Clients,
           ClientStep(c) \/ UserStep(c) \/ KillClient(c)
    PROVE  ClientInv' /\ NetInv' /\ UNCHANGED serverVars
<1>1. ClientInv /\ NetInv /\ UNCHANGED <<serverVars, asked>>
  BY DEF TransferInv, ClientStep, UserStep, KillClient
<1>2. CASE TcpReceive(c) \/ TcpSend(c)
  BY <1>1, <1>2, TcpReceiveLemma, TcpSendLemma
<1>3. CASE TcpSendUnconnected(c)
  BY <1>1, <1>3, ClientDiesInv DEF TcpSendUnconnected, SendUnconnected, NetInv
<1>4. CASE ClientDies(c) /\ net' = Dropped(c) /\ UNCHANGED backlog
  BY <1>1, <1>4, ClientDiesInv, DroppedLemma DEF NetInv
<1>5. CASE TcpConnect(c)
  <2>1. PICK k \in Conns : /\ Connect(c, k)
                           /\ net' = [Dropped(c) EXCEPT ![k] = Fresh]
                           /\ backlog' = backlog \cup {k}
    BY <1>5 DEF TcpConnect
  <2>2. NetInv'
    BY <1>1, <2>1, DroppedLemma, NewLinkLemma DEF NetInv
  <2> QED
    BY <1>1, <2>1, <2>2, ConnectInv
<1>6. CASE TcpConnectFails(c)
  BY <1>1, <1>6, ConnectFailsInv, DroppedLemma DEF TcpConnectFails, NetInv
<1>7. ASSUME \/ \E yes \in BOOLEAN, canSave \in OpenResults : Answer(c, yes, canSave)
             \/ \E name \in Wanted[c], canSave \in OpenResults : DownloadCmd(c, name, canSave)
             \/ \E name \in Offered[c] : UploadCmd(c, name)
             \/ \E op \in Asks[c] \ {"Close"} : AskCmd(c, op)
             \/ "Close" \in Asks[c] /\ CloseCmd(c)
             \/ StartClient(c),
             UNCHANGED <<net, backlog>>
      PROVE  ClientInv' /\ NetInv'
  <2>1. NetInv'
    BY <1>1, <1>7 DEF NetInv
  <2>2. Wanted[c] \subseteq Names /\ Offered[c] \subseteq Names /\ SomeName \in Names
    BY TransferAssumption, NoneLemma
  <2>3. CASE \E yes \in BOOLEAN, canSave \in OpenResults : Answer(c, yes, canSave)
    BY <1>1, <2>1, <2>2, <2>3, DownloadCmdInv
  <2>4. CASE \E name \in Wanted[c], canSave \in OpenResults : DownloadCmd(c, name, canSave)
    BY <1>1, <2>1, <2>2, <2>4, DownloadCmdInv
  <2>5. CASE \E name \in Offered[c] : UploadCmd(c, name)
    BY <1>1, <2>1, <2>2, <2>5, UploadCmdInv
  <2>6. CASE (\E op \in Asks[c] \ {"Close"} : AskCmd(c, op)) \/ CloseCmd(c)
    BY <1>1, <2>1, <2>6, AskInv
  <2>7. CASE StartClient(c)
    BY <1>1, <2>1, <2>7, PlainStepsInv
  <2> QED
    BY <1>7, <2>3, <2>4, <2>5, <2>6, <2>7
<1> QED
  BY <1>1, <1>2, <1>3, <1>4, <1>5, <1>6, <1>7
     DEF ClientStep, UserStep, KillClient, TcpQuit, QuitCmd, TcpClientSigpipe

-----------------------------------------------------------------------------
(* Whatever happens to programs and connections, TransferInv stays true,   *)
(* and the server takes a step of FileServer or none.                      *)
LEMMA InitTransferInv == TransferInit => TransferInv
<1> SUFFICES ASSUME TransferInit PROVE TransferInv
  OBVIOUS
<1>1. IInv /\ ClientInv
  BY InitIInv, InitClientInv DEF TransferInit
<1>2. <<>> \in Seq(Blocks)
  BY EmptySeq
<1>3. NetInv
  BY <1>2, NewLinkLemma DEF TransferInit, NetInv
<1> QED
  BY <1>1, <1>3 DEF TransferInv

LEMMA NextTransferInv ==
    ASSUME Numbers = Nat, TransferInv, [TransferNext]_vars
    PROVE  TransferInv' /\ [ServerNext]_serverVars
<1>1. CASE (ServerStep \/ KillServer \/ RestartServer) /\ UNCHANGED clientVars
  <2>1. ServerNext /\ NetInv'
    BY <1>1, ServerSide
  <2>2. IInv'
    BY <2>1, NextIInv DEF TransferInv
  <2>3. ClientInv'
    BY <1>1 DEF TransferInv, ClientInv, LeftInv, clientVars
  <2> QED
    BY <2>1, <2>2, <2>3 DEF TransferInv
<1>2. CASE \E c \in Clients : ClientStep(c) \/ UserStep(c) \/ KillClient(c)
  <2>1. ClientInv' /\ NetInv' /\ UNCHANGED serverVars
    BY <1>2, ClientSide
  <2>2. IInv'
    BY <2>1, StutterStep DEF TransferInv
  <2> QED
    BY <2>1, <2>2 DEF TransferInv
<1>3. CASE UNCHANGED vars
  <2>1. UNCHANGED serverVars /\ UNCHANGED clientVars /\ UNCHANGED <<net, backlog, asked>>
    BY <1>3 DEF vars
  <2>2. IInv'
    BY <2>1, StutterStep DEF TransferInv
  <2>3. ClientInv' /\ NetInv'
    BY <2>1 DEF TransferInv, ClientInv, LeftInv, clientVars, NetInv
  <2> QED
    BY <2>1, <2>2, <2>3 DEF TransferInv
<1> QED
  BY <1>1, <1>2, <1>3 DEF TransferNext

(* Server, clients and connections keep their types, for any number of     *)
(* clients and connections, and whoever is killed when.                    *)
THEOREM TransferTypes ==
    ASSUME Numbers = Nat
    PROVE  TransferSpec => []TransferTypeOK
<1>1. TransferInv => TransferTypeOK
  BY DEF TransferInv, IInv, ClientInv, NetInv, TransferTypeOK, Link
<1>2. TransferInv /\ [TransferNext]_vars => TransferInv'
  BY NextTransferInv
<1> QED
  BY <1>1, <1>2, InitTransferInv, PTL DEF TransferSpec

(* The server among its clients takes the steps of FileServer and no       *)
(* others.                                                                 *)
THEOREM TransferImplementsServer ==
    ASSUME Numbers = Nat
    PROVE  TransferSpec => ImplementsServer
<1>1. TransferInit => ServerInit
  BY DEF TransferInit
<1>2. TransferInv /\ [TransferNext]_vars => TransferInv' /\ [ServerNext]_serverVars
  BY NextTransferInv
<1> QED
  BY <1>1, <1>2, InitTransferInv, PTL DEF TransferSpec, ServerSpec, ImplementsServer

(* So among real clients too, a file does not change while a download of   *)
(* it can be taken up again, and a finished upload is whole.               *)
THEOREM TransferKeepsFiles ==
    ASSUME Numbers = Nat
    PROVE  TransferSpec => StampedFileFrozen /\ UploadAllOrNothing
BY TransferImplementsServer, ServerStampedFileFrozen, ServerUploadAllOrNothing, PTL
   DEF ImplementsServer

-----------------------------------------------------------------------------
(* In step.  Nothing on a connection says where a unit ends or what it is: *)
(* that both programs agree is a fact about everything under way between   *)
(* them.  The invariant says, for each connection the server still attends *)
(* to, that the units waiting for the server take it, one after another,   *)
(* from what it expects now to what its client is about to give it.        *)

(* What a server may be expecting: a unit of one of the kinds that clients *)
(* send, or, being about to send itself, none ("reply", "stream").  `op'   *)
(* is the request that data belong to, or which reply; `n' how many blocks.*)
Tags == {"mac", "header", "data", "block", "reply", "stream"}
Replies == {"greeting", "stamp", "answer", "response"}
Expectation ==
    {x \in [t : Tags, op : Opcodes \cup Replies, n : Nat] : x.t = "block" => x.n > 0}

Want(t, op, n) == [t |-> t, op |-> op, n |-> n]
WantMac == Want("mac", "None", 0)
WantHeader == Want("header", "None", 0)
WantData(op) == Want("data", op, 0)
WantBlocks(n) == IF n = 0 THEN WantHeader ELSE Want("block", "None", n)
Owes(reply) == Want("reply", reply, 0)
Streams(n) == IF n = 0 THEN WantHeader ELSE Want("stream", "None", n)

(* What it expects after a unit of the kind it expected.                   *)
AfterOp(op) ==
    CASE HasData(op) -> WantData(op)
      [] op = "Time" -> Owes("answer")
      [] OTHER -> WantHeader
AfterData(op, arg) ==
    CASE op = "Echo" -> Owes("answer")
      [] op = "Download" -> Owes("response")
      [] OTHER -> WantBlocks(arg)
AfterUnit(x, u) ==
    CASE x.t = "mac" -> Owes("greeting")
      [] x.t = "header" -> AfterOp(u.op)
      [] x.t = "data" -> AfterData(x.op, u.arg)
      [] OTHER -> WantBlocks(x.n - 1)

(* e is what the server expects before and after each unit of q.  That m   *)
(* blocks together leave m fewer to come follows by induction; it is kept  *)
(* here instead.                                                           *)
Follows(q, e) ==
    /\ e \in [0..Len(q) -> Expectation]
    /\ \A i \in 1..Len(q) : e[i - 1].t = q[i].t /\ e[i] = AfterUnit(e[i - 1], q[i])
    /\ \A i \in 0..Len(q), m \in 1..Len(q) :
          e[i].t = "block" /\ m <= e[i].n /\ i + m <= Len(q)
             => e[i + m] = WantBlocks(e[i].n - m)

(* The units of q lead from expecting x to expecting y.                    *)
Leads(q, x, y) ==
    \E e \in [0..Len(q) -> Expectation] : Follows(q, e) /\ e[0] = x /\ e[Len(q)] = y

-----------------------------------------------------------------------------
(* Sequences of units.                                                     *)

LEMMA WantLemma ==
    /\ WantMac \in Expectation /\ WantHeader \in Expectation
    /\ \A op \in Opcodes : WantData(op) \in Expectation
    /\ \A n \in Nat : WantBlocks(n) \in Expectation /\ Streams(n) \in Expectation
    /\ \A reply \in Replies : Owes(reply) \in Expectation
  BY DEF WantMac, WantHeader, WantData, WantBlocks, Streams, Owes, Want, Expectation, Tags,
         Opcodes

LEMMA UnitKinds ==
    ASSUME NEW u \in Unit
    PROVE  u.t \in {"mac", "header", "data", "response", "answer", "block"}
  BY DEF Unit

LEMMA AfterUnitLemma ==
    ASSUME NEW x \in Expectation, NEW u \in Unit, x.t = u.t
    PROVE  AfterUnit(x, u) \in Expectation
<1>1. CASE x.t = "mac"
  BY <1>1, WantLemma DEF AfterUnit, Replies
<1>2. CASE x.t = "header"
  <2>1. u.op \in Opcodes
    BY <1>2 DEF Unit
  <2> QED
    BY <1>2, <2>1, WantLemma DEF AfterUnit, AfterOp, Replies
<1>3. CASE x.t = "data"
  <2>1. u.arg \in Nat
    BY <1>3 DEF Unit
  <2> QED
    BY <1>3, <2>1, WantLemma DEF AfterUnit, AfterData, Replies
<1>4. CASE x.t = "block"
  <2>1. x.n - 1 \in Nat
    BY <1>4 DEF Expectation
  <2> QED
    BY <1>4, <2>1, WantLemma DEF AfterUnit
<1>5. x.t \in {"mac", "header", "data", "block"}
  <2>1. x.t \in Tags
    BY DEF Expectation
  <2>2. u.t \in {"mac", "header", "data", "response", "answer", "block"}
    BY UnitKinds
  <2> QED
    BY <2>1, <2>2 DEF Tags
<1> QED
  BY <1>1, <1>2, <1>3, <1>4, <1>5

LEMMA LeadsNowhere ==
    /\ \A x \in Expectation : Leads(<<>>, x, x)
    /\ \A x, y : Leads(<<>>, x, y) => x = y
<1>1. ASSUME NEW x \in Expectation PROVE Leads(<<>>, x, x)
  <2> DEFINE e == [i \in 0..0 |-> x]
  <2>1. Len(<<>>) = 0 /\ e \in [0..0 -> Expectation] /\ e[0] = x
    OBVIOUS
  <2> HIDE DEF e
  <2>2. Follows(<<>>, e)
    BY <2>1 DEF Follows
  <2> QED
    BY <2>1, <2>2 DEF Leads
<1>2. ASSUME NEW x, NEW y, Leads(<<>>, x, y) PROVE x = y
  BY <1>2 DEF Leads
<1> QED
  BY <1>1, <1>2

(* What is left of a queue after m units leads on from there.              *)
LEMMA RestLeads ==
    ASSUME NEW q \in Seq(Unit), NEW e, Follows(q, e), NEW m \in 0..Len(q)
    PROVE  Leads(SubSeq(q, m + 1, Len(q)), e[m], e[Len(q)])
<1> DEFINE rest == SubSeq(q, m + 1, Len(q))
           f == [i \in 0..(Len(q) - m) |-> e[i + m]]
<1>1. Len(q) \in Nat /\ m \in Nat /\ m <= Len(q)
  BY LenProperties
<1>2. \A i \in 1..Len(q) : q[i] \in Unit
  BY ElementOfSeq
<1>3. Len(rest) = Len(q) - m /\ \A i \in 1..(Len(q) - m) : rest[i] = q[i + m]
  <2>1. \A i \in (m + 1)..Len(q) : q[i] \in Unit
    BY <1>1, <1>2
  <2>2. /\ Len(rest) = IF m + 1 <= Len(q) THEN Len(q) - (m + 1) + 1 ELSE 0
        /\ \A i \in 1..(Len(q) - (m + 1) + 1) : rest[i] = q[(m + 1) + i - 1]
    BY <1>1, <2>1, SubSeqProperties
  <2> HIDE DEF rest
  <2>3. Len(rest) = Len(q) - m
    BY <1>1, <2>2
  <2>4. ASSUME NEW i \in 1..(Len(q) - m) PROVE rest[i] = q[i + m]
    <3>1. i \in 1..(Len(q) - (m + 1) + 1) /\ (m + 1) + i - 1 = i + m
      BY <1>1
    <3> QED
      BY <2>2, <3>1
  <2> QED
    BY <2>3, <2>4
<1> HIDE DEF rest
<1>4. e \in [0..Len(q) -> Expectation]
  BY DEF Follows
<1>5. f \in [0..Len(rest) -> Expectation]
  BY <1>1, <1>3, <1>4
<1>6. ASSUME NEW i \in 1..Len(rest)
      PROVE  f[i - 1].t = rest[i].t /\ f[i] = AfterUnit(f[i - 1], rest[i])
  <2>1. i + m \in 1..Len(q) /\ f[i - 1] = e[i + m - 1] /\ f[i] = e[i + m] /\ rest[i] = q[i + m]
    BY <1>1, <1>3
  <2> QED
    BY <2>1 DEF Follows
<1>7. ASSUME NEW i \in 0..Len(rest), NEW l \in 1..Len(rest),
             f[i].t = "block", l <= f[i].n, i + l <= Len(rest)
      PROVE  f[i + l] = WantBlocks(f[i].n - l)
  <2>1. /\ i + m \in 0..Len(q) /\ l \in 1..Len(q) /\ (i + m) + l <= Len(q)
        /\ f[i] = e[i + m] /\ f[i + l] = e[(i + m) + l]
    BY <1>1, <1>3, <1>7
  <2> HIDE DEF f
  <2> QED
    BY <1>7, <2>1 DEF Follows
<1>8. f[0] = e[m] /\ f[Len(rest)] = e[Len(q)]
  BY <1>1, <1>3
<1> HIDE DEF f
<1>9. Follows(rest, f)
  BY <1>5, <1>6, <1>7 DEF Follows
<1> QED
  BY <1>5, <1>8, <1>9 DEF Leads, rest

(* The server reads a unit, or some of the blocks of a file.               *)
LEMMA FirstLeads ==
    ASSUME NEW q \in Seq(Unit), q # <<>>, NEW x, NEW y, Leads(q, x, y)
    PROVE  /\ x.t = Head(q).t
           /\ Leads(SubSeq(q, 2, Len(q)), AfterUnit(x, Head(q)), y)
<1>1. PICK e \in [0..Len(q) -> Expectation] : Follows(q, e) /\ e[0] = x /\ e[Len(q)] = y
  BY DEF Leads
<1>2. Len(q) \in Nat /\ Len(q) > 0 /\ Head(q) = q[1]
  BY LenProperties, EmptySeq, HeadTailProperties
<1>3. 1 \in 1..Len(q) /\ 1 \in 0..Len(q)
  BY <1>2
<1>4. e[0].t = q[1].t /\ e[1] = AfterUnit(e[0], q[1])
  <2>1. e[1 - 1].t = q[1].t /\ e[1] = AfterUnit(e[1 - 1], q[1])
    BY <1>1, <1>3 DEF Follows
  <2> QED
    BY <2>1
<1>5. Leads(SubSeq(q, 1 + 1, Len(q)), e[1], e[Len(q)])
  BY <1>1, <1>3, RestLeads
<1> QED
  BY <1>1, <1>2, <1>4, <1>5

LEMMA BlocksLead ==
    ASSUME NEW q \in Seq(Unit), NEW m \in 1..Len(q), NEW n \in Nat, m <= n, NEW y,
           Leads(q, WantBlocks(n), y)
    PROVE  Leads(SubSeq(q, m + 1, Len(q)), WantBlocks(n - m), y)
<1>1. PICK e \in [0..Len(q) -> Expectation] :
         Follows(q, e) /\ e[0] = WantBlocks(n) /\ e[Len(q)] = y
  BY DEF Leads
<1>2. Len(q) \in Nat /\ m \in 0..Len(q) /\ 0 \in 0..Len(q) /\ 0 + m <= Len(q) /\ 0 + m = m
  BY LenProperties
<1>3. e[0].t = "block" /\ e[0].n = n
  BY <1>1 DEF WantBlocks, Want
<1>4. e[m] = WantBlocks(n - m)
  <2>1. e[0 + m] = WantBlocks(e[0].n - m)
    BY <1>1, <1>2, <1>3 DEF Follows
  <2> QED
    BY <1>2, <1>3, <2>1
<1> QED
  BY <1>1, <1>2, <1>4, RestLeads

(* A server about to send has nothing to read.                             *)
LEMMA SenderLeads ==
    ASSUME NEW q \in Seq(Unit), NEW x, NEW y, Leads(q, x, y), x.t \in {"reply", "stream"}
    PROVE  q = <<>> /\ y = x
<1>1. ASSUME q # <<>> PROVE FALSE
  <2>1. Head(q) \in Unit /\ x.t = Head(q).t
    BY <1>1, FirstLeads, HeadTailProperties
  <2> QED
    BY <2>1, UnitKinds
<1> QED
  BY <1>1, LeadsNowhere

(* Units are added to a queue.                                             *)
LEMMA OneLeads ==
    ASSUME NEW x \in Expectation, NEW u \in Unit, x.t = u.t
    PROVE  Leads(<<u>>, x, AfterUnit(x, u))
<1> DEFINE y == AfterUnit(x, u)
           e == [i \in 0..1 |-> IF i = 0 THEN x ELSE y]
<1>1. y \in Expectation
  BY AfterUnitLemma
<1>2. Len(<<u>>) = 1 /\ <<u>>[1] = u
  OBVIOUS
<1>3. e \in [0..1 -> Expectation] /\ e[0] = x /\ e[1] = y
  BY <1>1
<1>4. e[0].t = "block" /\ 1 <= e[0].n => e[1] = WantBlocks(e[0].n - 1)
  BY <1>3 DEF AfterUnit
<1> HIDE DEF e
<1>5. Follows(<<u>>, e)
  <2>1. \A i \in 1..1 : e[i - 1].t = <<u>>[i].t /\ e[i] = AfterUnit(e[i - 1], <<u>>[i])
    BY <1>2, <1>3
  <2>2. ASSUME NEW i \in 0..1, NEW m \in 1..1, e[i].t = "block", m <= e[i].n, i + m <= 1
        PROVE  e[i + m] = WantBlocks(e[i].n - m)
    <3>1. i = 0 /\ m = 1 /\ i + m = 1
      BY <2>2
    <3> QED
      BY <1>4, <2>2, <3>1
  <2> QED
    BY <1>2, <1>3, <2>1, <2>2 DEF Follows
<1> QED
  BY <1>2, <1>3, <1>5 DEF Leads

LEMMA FileLeads ==
    ASSUME NEW q \in Seq(Unit), \A i \in 1..Len(q) : q[i].t = "block",
           NEW n \in Nat, n > 0, Len(q) <= n
    PROVE  Leads(q, WantBlocks(n), WantBlocks(n - Len(q)))
<1> DEFINE e == [i \in 0..Len(q) |-> WantBlocks(n - i)]
<1>1. Len(q) \in Nat
  BY LenProperties
<1>2. e \in [0..Len(q) -> Expectation]
  <2>1. \A i \in 0..Len(q) : n - i \in Nat
    BY <1>1
  <2> QED
    BY <2>1, WantLemma
<1>3. \A i \in 0..Len(q) : e[i].t = "block" => e[i].n = n - i
  BY DEF WantBlocks, WantHeader, Want
<1>4. ASSUME NEW i \in 1..Len(q)
      PROVE  e[i - 1].t = q[i].t /\ e[i] = AfterUnit(e[i - 1], q[i])
  <2>1. i - 1 \in 0..Len(q) /\ n - (i - 1) # 0 /\ (n - (i - 1)) - 1 = n - i
    BY <1>1
  <2>2. e[i - 1] = Want("block", "None", n - (i - 1)) /\ e[i] = WantBlocks(n - i)
    BY <1>1, <2>1 DEF WantBlocks
  <2> HIDE DEF e
  <2> QED
    BY <2>1, <2>2 DEF AfterUnit, Want
<1>5. ASSUME NEW i \in 0..Len(q), NEW m \in 1..Len(q),
             e[i].t = "block", m <= e[i].n, i + m <= Len(q)
      PROVE  e[i + m] = WantBlocks(e[i].n - m)
  <2>1. i + m \in 0..Len(q) /\ (n - i) - m = n - (i + m)
    BY <1>1, <1>5
  <2>2. e[i + m] = WantBlocks(n - (i + m))
    BY <2>1
  <2> QED
    BY <1>3, <1>5, <2>1, <2>2
<1>6. e[0] = WantBlocks(n) /\ e[Len(q)] = WantBlocks(n - Len(q))
  BY <1>1
<1> HIDE DEF e
<1> QED
  BY <1>2, <1>4, <1>5, <1>6 DEF Follows, Leads

LEMMA BothLead ==
    ASSUME NEW q \in Seq(Unit), NEW r \in Seq(Unit), NEW x, NEW y, NEW z,
           Leads(q, x, y), Leads(r, y, z)
    PROVE  Leads(q \o r, x, z)
<1> DEFINE a == Len(q)
           b == Len(r)
<1>1. PICK e \in [0..Len(q) -> Expectation] : Follows(q, e) /\ e[0] = x /\ e[Len(q)] = y
  BY DEF Leads
<1>2. PICK f \in [0..Len(r) -> Expectation] : Follows(r, f) /\ f[0] = y /\ f[Len(r)] = z
  BY DEF Leads
<1> DEFINE g == [i \in 0..(a + b) |-> IF i <= a THEN e[i] ELSE f[i - a]]
<1>3. a \in Nat /\ b \in Nat
  BY LenProperties
<1>4. /\ Len(q \o r) = a + b
      /\ \A i \in 1..a : (q \o r)[i] = q[i]
      /\ \A i \in (a + 1)..(a + b) : (q \o r)[i] = r[i - a]
  BY <1>3, ConcatProperties
<1>5. g \in [0..(a + b) -> Expectation]
  BY <1>3
<1>6. /\ \A i \in 0..a : g[i] = e[i]
      /\ \A i \in a..(a + b) : g[i] = f[i - a]
  BY <1>1, <1>2, <1>3
<1> HIDE DEF a, b, g
<1>7. ASSUME NEW i \in 1..(a + b)
      PROVE  g[i - 1].t = (q \o r)[i].t /\ g[i] = AfterUnit(g[i - 1], (q \o r)[i])
  <2>1. CASE i <= a
    <3>1. i \in 1..a /\ i - 1 \in 0..a /\ i \in 0..a
      BY <1>3, <2>1
    <3>2. e[i - 1].t = q[i].t /\ e[i] = AfterUnit(e[i - 1], q[i])
      BY <1>1, <3>1 DEF Follows, a
    <3> QED
      BY <1>4, <1>6, <3>1, <3>2
  <2>2. CASE i > a
    <3>1. /\ i \in (a + 1)..(a + b) /\ i - 1 \in a..(a + b) /\ i \in a..(a + b)
          /\ i - a \in 1..b /\ (i - 1) - a = (i - a) - 1
      BY <1>3, <2>2
    <3>2. f[(i - a) - 1].t = r[i - a].t /\ f[i - a] = AfterUnit(f[(i - a) - 1], r[i - a])
      BY <1>2, <3>1 DEF Follows, b
    <3> QED
      BY <1>4, <1>6, <3>1, <3>2
  <2>3. i <= a \/ i > a
    BY <1>3
  <2> QED
    BY <2>1, <2>2, <2>3
<1>8. ASSUME NEW i \in 0..(a + b), NEW m \in 1..(a + b),
             g[i].t = "block", m <= g[i].n, i + m <= a + b
      PROVE  g[i + m] = WantBlocks(g[i].n - m)
  <2>1. CASE i + m <= a
    <3>1. i \in 0..a /\ m \in 1..a /\ i + m \in 0..a
      BY <1>3, <2>1
    <3> QED
      BY <1>1, <1>6, <1>8, <2>1, <3>1 DEF Follows, a
  <2>2. CASE i >= a
    <3>1. /\ i \in a..(a + b) /\ i + m \in a..(a + b) /\ i - a \in 0..b /\ m \in 1..b
          /\ (i + m) - a = (i - a) + m /\ (i - a) + m <= b
      BY <1>3, <1>8, <2>2
    <3> QED
      BY <1>2, <1>6, <1>8, <3>1 DEF Follows, b
  <2>3. CASE i < a /\ i + m > a
    <3> DEFINE l == a - i
               k == m - l
    <3>1. /\ i \in 0..a /\ l \in 1..a /\ i + l = a /\ k \in 1..b /\ l < m
          /\ a \in 0..a /\ a \in a..(a + b) /\ i + m \in a..(a + b) /\ (i + m) - a = k
          /\ 0 \in 0..b /\ 0 + k = k /\ k <= b
      BY <1>3, <1>8, <2>3
    <3>2. g[i] = e[i] /\ g[i] \in Expectation /\ g[i].n \in Nat
      BY <1>5, <1>6, <3>1 DEF Expectation
    <3> DEFINE n == g[i].n
    <3>3. l <= n /\ n - l \in Nat /\ n - l > 0 /\ k <= n - l /\ (n - l) - k = n - m
      BY <1>3, <1>8, <2>3, <3>1, <3>2
    <3> HIDE DEF l, k
    <3>4. e[i + l] = WantBlocks(n - l)
      <4>1. e[i].t = "block" /\ l <= e[i].n /\ i + l <= a /\ e[i].n = n
        BY <1>3, <1>8, <3>1, <3>2, <3>3
      <4> HIDE DEF n
      <4>2. e[i + l] = WantBlocks(e[i].n - l)
        BY <1>1, <3>1, <4>1 DEF Follows, a
      <4> QED
        BY <4>1, <4>2
    <3>5. f[0] = WantBlocks(n - l)
      BY <1>1, <1>2, <3>1, <3>4 DEF a
    <3>6. f[0].t = "block" /\ f[0].n = n - l
      BY <3>3, <3>5 DEF WantBlocks, Want
    <3>7. f[0 + k] = WantBlocks(f[0].n - k)
      BY <1>2, <3>1, <3>3, <3>6 DEF Follows, b
    <3>8. g[i + m] = f[k]
      BY <1>6, <3>1
    <3> QED
      BY <3>1, <3>3, <3>6, <3>7, <3>8
  <2> QED
    BY <1>3, <2>1, <2>2, <2>3
<1>9. g[0] = x /\ g[a + b] = z
  <2>1. 0 \in 0..a /\ a + b \in a..(a + b) /\ (a + b) - a = b
    BY <1>3
  <2> QED
    BY <1>1, <1>2, <1>6, <2>1 DEF a, b
<1>10. Follows(q \o r, g)
  BY <1>4, <1>5, <1>7, <1>8 DEF Follows
<1> QED
  BY <1>4, <1>5, <1>9, <1>10 DEF Leads

-----------------------------------------------------------------------------
(* The invariant.                                                          *)

(* The connections the server will read from, or will send on: those it    *)
(* has not accepted yet and the one it serves.                             *)
Serves(k) == pc \notin {"Listen", "Dead"} /\ cur \in 1..Len(clients) /\ Me.conn = k
Awaited(k) == k \in backlog \/ Serves(k)

(* What it expects there next.                                             *)
Doing ==
    CASE pc = "RecvMac" -> WantMac
      [] pc = "Greet" -> Owes("greeting")
      [] pc = "SendStamp" -> Owes("stamp")
      [] pc = "RecvHeader" -> WantHeader
      [] pc = "RecvData" -> WantData(packet.op)
      [] pc = "Reply" -> Owes("answer")
      [] pc = "Download" -> Owes("response")
      [] pc = "SendChunk" -> Streams(dl.left)
      [] pc = "Upload" -> WantBlocks(packet.arg)
      [] OTHER -> WantBlocks(ul.left)
Expects(k) == IF k \in backlog THEN WantMac ELSE Doing

(* What may wait for a client that is at place p with `left' to receive.   *)
AllBlocks(q, from) == \A i \in from..Len(q) : q[i].t = "block"
Shape(p, left, q) ==
    CASE p = "recvGreeting" ->
            /\ Len(q) <= 2
            /\ Len(q) >= 1 => q[1].t = "header"
            /\ Len(q) = 2 => q[1].op = "DownloadRecovery" /\ q[2].t = "data"
      [] p = "recvStamp" -> Len(q) <= 1 /\ (Len(q) = 1 => q[1].t = "data")
      [] p = "recvAnswer" -> Len(q) <= 1 /\ (Len(q) = 1 => q[1].t = "answer")
      [] p = "recvResponse" ->
            Len(q) >= 1 => /\ q[1].t = "response"
                           /\ AllBlocks(q, 2)
                           /\ Len(q) - 1 <= IF q[1].ready THEN q[1].total ELSE 0
      [] p = "recvFile" -> left > 0 /\ Len(q) <= left /\ AllBlocks(q, 1)
      [] OTHER -> q = <<>>

(* What the server must be expecting once it has read all that such a      *)
(* client has sent: the client's next unit, or to send what it waits for.  *)
Gives(p, left, q) ==
    CASE p = "sendMac" -> WantMac
      [] p = "recvGreeting" -> IF Len(q) = 0 THEN Owes("greeting")
                               ELSE IF q[1].op = "DownloadRecovery" /\ Len(q) = 1
                                    THEN Owes("stamp") ELSE WantHeader
      [] p = "recvStamp" -> IF Len(q) = 0 THEN Owes("stamp") ELSE WantHeader
      [] p = "recvAnswer" -> IF Len(q) = 0 THEN Owes("answer") ELSE WantHeader
      [] p = "recvResponse" -> IF Len(q) = 0 THEN Owes("response")
                               ELSE IF q[1].ready THEN Streams(q[1].total - (Len(q) - 1))
                                    ELSE WantHeader
      [] p = "recvFile" -> Streams(left - Len(q))
      [] p = "downloadData" -> WantData("Download")
      [] p = "askData" -> WantData("Echo")
      [] p = "uploadData" -> WantData("Upload")
      [] p = "sendFile" -> WantBlocks(left)
      [] OTHER -> WantHeader

(* The command a client runs at the places that depend on it.              *)
JobFits(p, j) ==
    /\ p = "downloadHeader" => j.op = "Download"
    /\ p = "uploadHeader" => j.op = "Upload"
    /\ p = "askHeader" => j.op \in {"Echo", "Time"}
    /\ p = "sendClose" => j.op = "Close"
    /\ p = "sendFile" => j.left > 0

(* An end that is not open has closed or seen the other close.             *)
Whole(n) ==
    /\ n.end["srv"] = "open" <=> n.end["cli"] = "open"
    /\ n.end["srv"] \in {"open", "closed"} \/ n.end["cli"] = "closed"

LinksInv == \A k \in Conns : Whole(net[k])
OwnersInv ==
    \A c, d \in Clients : conn[c] \in Conns /\ conn[c] = conn[d] => c = d
CommandInv ==
    \A c \in Clients :
        /\ JobFits(at[c], job[c])
        /\ conn[c] \in Conns => /\ net[conn[c]].end["cli"] # "closed"
                                /\ Shape(at[c], job[c].left, net[conn[c]].queue["cli"])
ServiceInv ==
    /\ pc = "RecvData" => packet.op \in {"Echo", "Download", "Upload"}
    /\ pc = "Discard" => ul.left > 0
    /\ \A k \in Conns : Awaited(k) => net[k].end["srv"] # "closed"
    /\ \A k \in Conns : Serves(k) => k \notin backlog
Talk(k) ==
    Awaited(k) =>
        \E y \in Expectation :
            /\ Leads(net[k].queue["srv"], Expects(k), y)
            /\ \A c \in Clients :
                  conn[c] = k => y = Gives(at[c], job[c].left, net[k].queue["cli"])

InStepInv ==
    LinksInv /\ OwnersInv /\ CommandInv /\ ServiceInv /\ \A k \in Conns : Talk(k)

-----------------------------------------------------------------------------
(* It says what InStep says.                                               *)

LEMMA ShapeLemma ==
    ASSUME NEW p \in DOMAIN ClientExpects \ {"recvAccept"}, NEW left, NEW q \in Seq(Unit),
           q # <<>>, Shape(p, left, q)
    PROVE  Head(q).t = ClientExpects[p]
<1> DEFINE n == Len(q)
<1>1. n \in Nat /\ n >= 1
  BY LenProperties, EmptySeq
<1>6. Head(q) = q[1]
  BY HeadTailProperties
<1>2. p \in {"recvGreeting", "recvStamp", "recvResponse", "recvFile", "recvAnswer"}
  BY DEF ClientExpects
<1>3. p = "recvFile" => q[1].t = "block"
  <2>1. 1 \in 1..Len(q)
    BY <1>1
  <2> QED
    BY <2>1 DEF Shape, AllBlocks
<1> HIDE DEF n
<1>4. n <= 1 => n = 1
  BY <1>1
<1>5. /\ p = "recvGreeting" => q[1].t = "header"
      /\ p = "recvStamp" => q[1].t = "data"
      /\ p = "recvAnswer" => q[1].t = "answer"
      /\ p = "recvResponse" => q[1].t = "response"
  BY <1>1, <1>4 DEF Shape, n
<1> QED
  BY <1>6, <1>2, <1>3, <1>5 DEF ClientExpects

LEMMA InStepInvImplies ==
    ASSUME TransferInv, InStepInv PROVE InStep
<1>0. IInv /\ ClientInv /\ NetInv
  BY DEF TransferInv
<1>1. ASSUME Serving(pc), pc \in DOMAIN ServerExpects, SrvQueue # <<>>
      PROVE  Head(SrvQueue).t = ServerExpects[pc]
  <2>1. S \in Conns /\ SrvQueue \in Seq(Unit)
    BY <1>0, <1>1, ServedLemma
  <2>2. pc \in {"RecvMac", "RecvHeader", "RecvData", "RecvChunk", "Discard"}
    BY <1>1 DEF ServerExpects
  <2>3. Serves(S) /\ S \notin backlog
    BY <1>1, <2>1, <2>2 DEF Serving, Serves, S, InStepInv, ServiceInv
  <2>4. \E y \in Expectation : Leads(SrvQueue, Doing, y)
    BY <2>1, <2>3 DEF InStepInv, Talk, Awaited, Expects, SrvQueue
  <2>5. Doing.t = Head(SrvQueue).t
    BY <1>1, <2>1, <2>4, FirstLeads
  <2>6. pc \in {"RecvChunk", "Discard"} => ul.left # 0
    BY <1>0 DEF InStepInv, ServiceInv, IInv, UploadInv
  <2>7. Doing.t = ServerExpects[pc]
    BY <2>2, <2>6 DEF Doing, ServerExpects, WantMac, WantHeader, WantData, WantBlocks, Want
  <2> QED
    BY <2>5, <2>7
<1>2. ASSUME NEW c \in Clients, Linked(c), at[c] \in DOMAIN ClientExpects, Queue(c) # <<>>
      PROVE  Head(Queue(c)).t = ClientExpects[at[c]]
  <2>1. Queue(c) \in Seq(Unit) /\ conn[c] \in Conns
    BY <1>0, <1>2, LinkedLemma
  <2>2. at[c] # "recvAccept"
    BY <1>0 DEF ClientInv, ClientPlaces
  <2>3. Shape(at[c], job[c].left, Queue(c))
    BY <2>1 DEF InStepInv, CommandInv, Queue
  <2> QED
    BY <1>2, <2>1, <2>2, <2>3, ShapeLemma
<1> QED
  BY <1>1, <1>2 DEF InStep

LEMMA InitInStepInv == TransferInit => InStepInv
<1> SUFFICES ASSUME TransferInit PROVE InStepInv
  OBVIOUS
<1>1. pc = "Listen" /\ backlog = {} /\ \A k \in Conns : net[k] = Free
  BY DEF TransferInit, ServerInit
<1>2. LinksInv
  BY <1>1 DEF LinksInv, Whole, Free, Ends
<1>3. \A c \in Clients : conn[c] \notin Conns /\ at[c] = "prompt"
  BY ClientAssumption DEF TransferInit, ClientInit, NoSocket
<1>4. OwnersInv /\ CommandInv
  BY <1>3 DEF OwnersInv, CommandInv, JobFits
<1>5. \A k \in Conns : ~Awaited(k) /\ ~Serves(k)
  BY <1>1 DEF Awaited, Serves
<1>6. ServiceInv /\ \A k \in Conns : Talk(k)
  BY <1>1, <1>5 DEF ServiceInv, Talk
<1> QED
  BY <1>2, <1>4, <1>6 DEF InStepInv

-----------------------------------------------------------------------------
(* How the steps of the clients keep it.                                   *)

(* The server's own state stays as it is.                                  *)
LEMMA ServerSame ==
    ASSUME UNCHANGED serverVars, UNCHANGED backlog, NEW k
    PROVE  /\ Serves(k)' <=> Serves(k)
           /\ Awaited(k)' <=> Awaited(k)
           /\ Expects(k)' = Expects(k)
           /\ Doing' = Doing
<1>1. UNCHANGED <<pc, clients, cur, packet, dl, ul, backlog>>
  BY DEF serverVars
<1>2. Serves(k)' <=> Serves(k)
  BY <1>1 DEF Serves, Me
<1>3. Doing' = Doing
  BY <1>1 DEF Doing
<1> QED
  BY <1>1, <1>2, <1>3 DEF Awaited, Expects

(* A linked client whose connection the server still attends to.           *)
LEMMA LinkedTalk ==
    ASSUME TransferInv, InStepInv, NEW c \in Clients, Linked(c), NEW k, k = conn[c]
    PROVE  /\ k \in Conns /\ net[k] \in Link /\ Queue(c) = net[k].queue["cli"]
           /\ net[k].queue["srv"] \in Seq(Unit) /\ Queue(c) \in Seq(Unit)
           /\ Whole(net[k]) /\ net[k].end["cli"] # "closed"
           /\ JobFits(at[c], job[c]) /\ Shape(at[c], job[c].left, Queue(c))
           /\ Awaited(k) =>
                 /\ net[k].end["srv"] = "open" /\ net[k].end["cli"] = "open"
                 /\ Leads(net[k].queue["srv"], Expects(k), Gives(at[c], job[c].left, Queue(c)))
                 /\ Gives(at[c], job[c].left, Queue(c)) \in Expectation
<1>1. k \in Conns /\ net[k] \in Link /\ Queue(c) \in Seq(Unit) /\ Queue(c) = net[k].queue["cli"]
  BY LinkedLemma DEF TransferInv, Queue
<1>2. net[k].queue["srv"] \in Seq(Unit)
  BY <1>1 DEF Link, Ends
<1>3. Whole(net[k]) /\ net[k].end["cli"] # "closed"
  BY <1>1 DEF InStepInv, LinksInv, CommandInv
<1>4. JobFits(at[c], job[c]) /\ Shape(at[c], job[c].left, Queue(c))
  BY <1>1 DEF InStepInv, CommandInv
<1>5. ASSUME Awaited(k)
      PROVE  /\ net[k].end["srv"] = "open" /\ net[k].end["cli"] = "open"
             /\ Leads(net[k].queue["srv"], Expects(k), Gives(at[c], job[c].left, Queue(c)))
             /\ Gives(at[c], job[c].left, Queue(c)) \in Expectation
  <2>1. net[k].end["srv"] # "closed"
    BY <1>1, <1>5 DEF InStepInv, ServiceInv
  <2>2. PICK y \in Expectation :
           /\ Leads(net[k].queue["srv"], Expects(k), y)
           /\ \A d \in Clients : conn[d] = k => y = Gives(at[d], job[d].left, net[k].queue["cli"])
    BY <1>1, <1>5 DEF InStepInv, Talk
  <2>3. y = Gives(at[c], job[c].left, Queue(c))
    BY <1>1, <2>2
  <2> QED
    BY <1>3, <2>1, <2>2, <2>3 DEF Whole
<1> QED
  BY <1>1, <1>2, <1>3, <1>4, <1>5

(* The client goes on, and its connection with it.                         *)
LEMMA ClientKeeps ==
    ASSUME TransferInv, InStepInv, UNCHANGED serverVars, UNCHANGED backlog,
           NEW c \in Clients, NEW k \in Conns, conn[c] = k, UNCHANGED conn,
           NEW p, at' = [at EXCEPT ![c] = p], NEW j, job' = [job EXCEPT ![c] = j],
           NEW n, net' = [net EXCEPT ![k] = n], Whole(n), n.end["cli"] # "closed",
           n.end["srv"] = "closed" => net[k].end["srv"] = "closed",
           JobFits(p, j), Shape(p, j.left, n.queue["cli"]),
           Awaited(k) => /\ Gives(p, j.left, n.queue["cli"]) \in Expectation
                         /\ Leads(n.queue["srv"], Expects(k), Gives(p, j.left, n.queue["cli"]))
    PROVE  InStepInv'
<1>1. /\ at \in [Clients -> ClientPlaces] /\ job \in [Clients -> Job] /\ net \in [Conns -> Link]
      /\ conn \in [Clients -> Conns \cup NoSocket]
  BY DEF TransferInv, ClientInv, NetInv
<1>2. /\ net'[k] = n /\ \A l \in Conns \ {k} : net'[l] = net[l]
      /\ at'[c] = p /\ job'[c] = j
      /\ \A d \in Clients \ {c} : at'[d] = at[d] /\ job'[d] = job[d]
  BY <1>1
<1>3. \A d \in Clients : conn[d] = k => d = c
  BY DEF InStepInv, OwnersInv
<1>4. LinksInv'
  BY <1>2 DEF InStepInv, LinksInv
<1>5. OwnersInv'
  BY DEF InStepInv, OwnersInv
<1>6. CommandInv'
  <2>1. ASSUME NEW d \in Clients
        PROVE  /\ JobFits(at'[d], job'[d])
               /\ conn[d] \in Conns => /\ net'[conn[d]].end["cli"] # "closed"
                                       /\ Shape(at'[d], job'[d].left, net'[conn[d]].queue["cli"])
    <3>1. CASE d = c
      BY <1>2, <3>1
    <3>2. CASE d # c
      <4>1. /\ JobFits(at[d], job[d])
            /\ conn[d] \in Conns => /\ net[conn[d]].end["cli"] # "closed"
                                    /\ Shape(at[d], job[d].left, net[conn[d]].queue["cli"])
        BY DEF InStepInv, CommandInv
      <4>2. conn[d] # k
        BY <1>3, <3>2
      <4> QED
        BY <1>2, <3>2, <4>1, <4>2
    <3> QED
      BY <3>1, <3>2
  <2> QED
    BY <2>1 DEF CommandInv
<1>7. ServiceInv'
  <2>1. UNCHANGED <<pc, packet, ul>>
    BY DEF serverVars
  <2>2. \A l \in Conns : (Awaited(l) => net[l].end["srv"] # "closed")
                         /\ (Serves(l) => l \notin backlog)
    BY DEF InStepInv, ServiceInv
  <2>3. \A l \in Conns : (Awaited(l)' => net'[l].end["srv"] # "closed")
                         /\ (Serves(l)' => l \notin backlog')
    BY <1>2, <2>2, ServerSame
  <2> QED
    BY <2>1, <2>3 DEF InStepInv, ServiceInv
<1>8. ASSUME NEW l \in Conns PROVE Talk(l)'
  <2>1. (Awaited(l)' <=> Awaited(l)) /\ Expects(l)' = Expects(l)
    BY ServerSame
  <2>2. CASE l = k
    <3>1. \A d \in Clients : conn'[d] = k => Gives(at'[d], job'[d].left, net'[k].queue["cli"])
                                               = Gives(p, j.left, n.queue["cli"])
      BY <1>2, <1>3
    <3> QED
      BY <1>2, <2>1, <2>2, <3>1 DEF Talk
  <2>3. CASE l # k
    <3>1. \A d \in Clients : conn'[d] = l => at'[d] = at[d] /\ job'[d] = job[d]
      BY <1>2, <2>3
    <3>2. net'[l] = net[l] /\ Talk(l)
      BY <1>2, <2>3 DEF InStepInv
    <3> QED
      BY <2>1, <3>1, <3>2 DEF Talk
  <2> QED
    BY <2>2, <2>3
<1> QED
  BY <1>4, <1>5, <1>6, <1>7, <1>8 DEF InStepInv

(* It has received: `rest' is what is left for it.                         *)
LEMMA ErrorKinds ==
    /\ "blocks" \notin Received \cup Sent /\ "sigpipe" \notin Received \cup Sent
    /\ \A r \in Errors : r # "ok"
  BY ProtocolAssumption, ServerAssumption DEF Received, Sent, Removable, Unlisted

LEMMA ClientReads ==
    ASSUME TransferInv, InStepInv, UNCHANGED serverVars, UNCHANGED conn,
           NEW c \in Clients, Linked(c), CliRecv(c) \in Received, NEW u \in Nat, CliReads(c, u),
           NEW p, at' = [at EXCEPT ![c] = p], NEW j, job' = [job EXCEPT ![c] = j],
           JobFits(p, j), NEW rest,
           Queue(c) = <<>> => rest = <<>>,
           Queue(c) # <<>> => rest = SubSeq(Queue(c), u + 1, Len(Queue(c))),
           Shape(p, j.left, rest),
           Queue(c) # <<>> => Gives(p, j.left, rest) = Gives(at[c], job[c].left, Queue(c))
    PROVE  InStepInv'
<1>1. PICK k : k = conn[c]
  OBVIOUS
<1>2. /\ k \in Conns /\ net[k] \in Link /\ Queue(c) = net[k].queue["cli"]
      /\ Whole(net[k]) /\ net[k].end["cli"] # "closed"
      /\ Awaited(k) =>
            /\ net[k].end["srv"] = "open" /\ net[k].end["cli"] = "open"
            /\ Leads(net[k].queue["srv"], Expects(k), Gives(at[c], job[c].left, Queue(c)))
            /\ Gives(at[c], job[c].left, Queue(c)) \in Expectation
  BY <1>1, LinkedTalk
<1> DEFINE n == AfterRecv(net[k], "cli", u)
<1>3. /\ net[k].queue \in [Ends -> Seq(Unit)] /\ net[k].end \in [Ends -> EndStates]
      /\ net[k] = [end |-> net[k].end, queue |-> net[k].queue]
  BY <1>2 DEF Link
<1>4. /\ net' = [net EXCEPT ![k] = n] /\ UNCHANGED backlog
  BY <1>1 DEF CliReads
<1>5. CASE Queue(c) # <<>>
  <2>1. n = [net[k] EXCEPT !.queue["cli"] = SubSeq(@, u + 1, Len(@))]
    BY <1>2, <1>5 DEF AfterRecv
  <2>2. n.end = net[k].end /\ n.queue["cli"] = rest /\ n.queue["srv"] = net[k].queue["srv"]
    BY <1>2, <1>3, <1>5, <2>1 DEF Ends
  <2>3. Whole(n) /\ n.end["cli"] # "closed" /\ n.end["srv"] = net[k].end["srv"]
    BY <1>2, <2>2 DEF Whole
  <2> HIDE DEF n
  <2> QED
    BY <1>1, <1>2, <1>4, <1>5, <2>2, <2>3, ClientKeeps
<1>6. CASE Queue(c) = <<>>
  <2>1. n = [net[k] EXCEPT !.end["cli"] = IF @ = "reset" THEN "broken" ELSE @]
    BY <1>2, <1>6 DEF AfterRecv
  <2>2. /\ n.queue = net[k].queue /\ n.end["srv"] = net[k].end["srv"]
        /\ n.end["cli"] = IF net[k].end["cli"] = "reset" THEN "broken" ELSE net[k].end["cli"]
    <3>1. /\ n.queue = net[k].queue
          /\ n.end = [net[k].end EXCEPT !["cli"] = IF @ = "reset" THEN "broken" ELSE @]
      BY <1>3, <2>1
    <3> HIDE DEF n
    <3> QED
      BY <1>3, <3>1 DEF Ends
  <2>3. net[k].end["cli"] # "open"
    BY <1>1, <1>2, <1>6, ErrorKinds DEF CliRecv, RecvResult
  <2>4. Whole(n) /\ n.end["cli"] # "closed" /\ n.queue["cli"] = rest
    BY <1>2, <1>6, <2>2, <2>3 DEF Whole
  <2> HIDE DEF n
  <2> QED
    BY <1>1, <1>2, <1>4, <2>2, <2>3, <2>4, ClientKeeps
<1> QED
  BY <1>5, <1>6

(* It has sent: to a server that reads, or that no longer does.            *)
LEMMA ClientSends ==
    ASSUME TransferInv, InStepInv, UNCHANGED serverVars, UNCHANGED conn,
           NEW c \in Clients, Linked(c), at[c] \in Sending, NEW units \in Seq(Unit),
           CliSend(c, Len(units)) \in Sent, CliWrites(c, units),
           NEW p, at' = [at EXCEPT ![c] = p], NEW j, job' = [job EXCEPT ![c] = j],
           JobFits(p, j), Shape(p, j.left, <<>>),
           CliSend(c, Len(units)) = "ok" =>
              /\ Gives(p, j.left, <<>>) \in Expectation
              /\ Leads(units, Gives(at[c], job[c].left, <<>>), Gives(p, j.left, <<>>))
    PROVE  InStepInv'
<1>1. PICK k : k = conn[c]
  OBVIOUS
<1>2. /\ k \in Conns /\ net[k] \in Link /\ Queue(c) = net[k].queue["cli"]
      /\ net[k].queue["srv"] \in Seq(Unit)
      /\ Whole(net[k]) /\ net[k].end["cli"] # "closed" /\ Shape(at[c], job[c].left, Queue(c))
      /\ Awaited(k) =>
            /\ net[k].end["srv"] = "open" /\ net[k].end["cli"] = "open"
            /\ Leads(net[k].queue["srv"], Expects(k), Gives(at[c], job[c].left, Queue(c)))
            /\ Gives(at[c], job[c].left, Queue(c)) \in Expectation
  BY <1>1, LinkedTalk
<1>3. Queue(c) = <<>>
  BY <1>2 DEF Shape, Sending
<1>4. /\ net[k].queue \in [Ends -> Seq(Unit)] /\ net[k].end \in [Ends -> EndStates]
      /\ net[k] = [end |-> net[k].end, queue |-> net[k].queue]
  BY <1>2 DEF Link
<1>5. PICK n \in AfterSend(net[k], "cli", units) : net' = [net EXCEPT ![k] = n]
  BY <1>1 DEF CliWrites
<1>6. UNCHANGED backlog
  BY DEF CliWrites
<1>7. CASE net[k].end["cli"] = "open"
  <2>1. CliSend(c, Len(units)) = "ok"
    BY <1>1, <1>7, ErrorKinds DEF CliSend, SendResult
  <2>2. n = [net[k] EXCEPT !.queue["srv"] = @ \o units]
    BY <1>5, <1>7 DEF AfterSend, Other
  <2>3. /\ n.end = net[k].end /\ n.queue["cli"] = <<>>
        /\ n.queue["srv"] = net[k].queue["srv"] \o units
    BY <1>2, <1>3, <1>4, <2>2 DEF Ends
  <2>4. Awaited(k) => Leads(n.queue["srv"], Expects(k), Gives(p, j.left, <<>>))
    BY <1>2, <1>3, <2>1, <2>3, BothLead
  <2>5. Whole(n) /\ n.end["cli"] # "closed" /\ n.end["srv"] = net[k].end["srv"]
    BY <1>2, <2>3 DEF Whole
  <2> QED
    BY <1>1, <1>2, <1>5, <1>6, <2>1, <2>3, <2>4, <2>5, ClientKeeps
<1>8. CASE net[k].end["cli"] # "open"
  <2>1. n = net[k] \/ n = [net[k] EXCEPT !.end["cli"] = "broken"]
    BY <1>2, <1>5, <1>8 DEF AfterSend
  <2>2. /\ n.queue = net[k].queue /\ n.end["srv"] = net[k].end["srv"]
        /\ n.end["cli"] = net[k].end["cli"] \/ n.end["cli"] = "broken"
    BY <1>4, <2>1 DEF Ends
  <2>3. Whole(n) /\ n.end["cli"] # "closed" /\ n.queue["cli"] = <<>>
    BY <1>2, <1>3, <1>8, <2>2 DEF Whole
  <2> QED
    BY <1>1, <1>2, <1>5, <1>6, <1>8, <2>2, <2>3, ClientKeeps
<1> QED
  BY <1>7, <1>8

(* It neither sends nor receives.                                          *)
LEMMA ClientDecides ==
    ASSUME TransferInv, InStepInv, UNCHANGED serverVars, UNCHANGED <<conn, net, backlog>>,
           NEW c \in Clients,
           NEW p, at' = [at EXCEPT ![c] = p], NEW j, job' = [job EXCEPT ![c] = j],
           JobFits(p, j), Gives(p, j.left, <<>>) = Gives(at[c], job[c].left, <<>>),
           at[c] \in {"prompt", "ask", "dead"}, Shape(p, j.left, <<>>)
    PROVE  InStepInv'
<1>1. CASE Linked(c)
  <2>1. PICK k : k = conn[c]
    OBVIOUS
  <2>2. /\ k \in Conns /\ net[k] \in Link /\ Queue(c) = net[k].queue["cli"]
        /\ Whole(net[k]) /\ net[k].end["cli"] # "closed" /\ Shape(at[c], job[c].left, Queue(c))
        /\ Awaited(k) =>
              /\ Leads(net[k].queue["srv"], Expects(k), Gives(at[c], job[c].left, Queue(c)))
              /\ Gives(at[c], job[c].left, Queue(c)) \in Expectation
    BY <1>1, <2>1, LinkedTalk
  <2>3. Queue(c) = <<>>
    BY <2>2 DEF Shape
  <2>4. net' = [net EXCEPT ![k] = net[k]]
    BY DEF TransferInv, NetInv
  <2>5. net[k].queue["cli"] = <<>>
    BY <2>2, <2>3
  <2>6. /\ Shape(p, j.left, net[k].queue["cli"])
        /\ Gives(p, j.left, net[k].queue["cli"]) = Gives(at[c], job[c].left, Queue(c))
    BY <2>3, <2>5
  <2> QED
    BY <2>1, <2>2, <2>4, <2>6, ClientKeeps
<1>2. CASE ~Linked(c)
  <2>1. conn[c] \notin Conns
    BY <1>2 DEF Linked
  <2>2. /\ at'[c] = p /\ job'[c] = j
        /\ \A d \in Clients \ {c} : at'[d] = at[d] /\ job'[d] = job[d]
    BY DEF TransferInv, ClientInv
  <2>3. CommandInv'
    BY <2>1, <2>2 DEF InStepInv, CommandInv
  <2>4. LinksInv' /\ OwnersInv'
    BY DEF InStepInv, LinksInv, OwnersInv
  <2>5. UNCHANGED <<pc, packet, ul>>
    BY DEF serverVars
  <2>6. ServiceInv'
    <3>1. \A l \in Conns : (Awaited(l) => net[l].end["srv"] # "closed")
                           /\ (Serves(l) => l \notin backlog)
      BY DEF InStepInv, ServiceInv
    <3>2. \A l \in Conns : (Awaited(l)' => net'[l].end["srv"] # "closed")
                           /\ (Serves(l)' => l \notin backlog')
      BY <3>1, ServerSame
    <3> QED
      BY <2>5, <3>2 DEF InStepInv, ServiceInv
  <2>7. ASSUME NEW l \in Conns PROVE Talk(l)'
    <3>1. (Awaited(l)' <=> Awaited(l)) /\ Expects(l)' = Expects(l)
      BY ServerSame
    <3>2. \A d \in Clients : conn'[d] = l => conn[d] = l /\ at'[d] = at[d] /\ job'[d] = job[d]
      BY <2>1, <2>2
    <3>3. Talk(l)
      BY DEF InStepInv
    <3> QED
      BY <3>1, <3>2, <3>3 DEF Talk
  <2> QED
    BY <2>3, <2>4, <2>6, <2>7 DEF InStepInv
<1> QED
  BY <1>1, <1>2

(* One end of a connection closes.                                         *)
LEMMA ClosedLemma ==
    ASSUME NEW n \in Link, Whole(n)
    PROVE  /\ Whole(Close(n, "cli")) /\ Whole(Close(n, "srv")) /\ Whole(Abort(n))
           /\ Close(n, "cli").end["cli"] = "closed"
           /\ Close(n, "cli").end["srv"] = "closed" <=> n.end["srv"] = "closed"
           /\ Close(n, "cli").queue["srv"] = n.queue["srv"]
           /\ Close(n, "srv").end["cli"] = "closed" <=> n.end["cli"] = "closed"
           /\ Close(n, "srv").queue["cli"] = n.queue["cli"]
           /\ Abort(n).end["cli"] = "closed" <=> n.end["cli"] = "closed"
           /\ Abort(n).queue["cli"] = n.queue["cli"]
<1>1. n.queue \in [Ends -> Seq(Unit)] /\ n.end \in [Ends -> EndStates]
  BY DEF Link
<1>2. /\ Close(n, "cli").end["cli"] = "closed"
      /\ Close(n, "cli").end["srv"] = IF n.end["srv"] # "open" THEN n.end["srv"]
                                      ELSE IF n.queue["cli"] = <<>> THEN "fin" ELSE "reset"
      /\ Close(n, "cli").queue["srv"] = n.queue["srv"]
  BY <1>1 DEF Close, Other, Ends
<1>3. /\ Close(n, "srv").end["srv"] = "closed"
      /\ Close(n, "srv").end["cli"] = IF n.end["cli"] # "open" THEN n.end["cli"]
                                      ELSE IF n.queue["srv"] = <<>> THEN "fin" ELSE "reset"
      /\ Close(n, "srv").queue["cli"] = n.queue["cli"]
  BY <1>1 DEF Close, Other, Ends
<1>4. /\ Abort(n).end["srv"] = "closed"
      /\ Abort(n).end["cli"] = IF n.end["cli"] = "open" THEN "reset" ELSE n.end["cli"]
      /\ Abort(n).queue["cli"] = n.queue["cli"]
  BY <1>1 DEF Abort, Ends
<1> QED
  BY <1>2, <1>3, <1>4 DEF Whole

(* The connections once client c has let go of its own.                    *)
LEMMA DroppedFacts ==
    ASSUME TransferInv, InStepInv, NEW c \in Clients, NEW l \in Conns
    PROVE  /\ Whole(Dropped(c)[l])
           /\ Dropped(c)[l].end["srv"] = "closed" <=> net[l].end["srv"] = "closed"
           /\ Dropped(c)[l].queue["srv"] = net[l].queue["srv"]
           /\ l # conn[c] => Dropped(c)[l] = net[l]
<1>1. net \in [Conns -> Link] /\ net[l] \in Link /\ Whole(net[l])
  BY DEF TransferInv, NetInv, InStepInv, LinksInv
<1>2. CASE Linked(c) /\ l = conn[c]
  <2>1. Dropped(c)[l] = Close(net[l], "cli")
    BY <1>1, <1>2 DEF Dropped
  <2> QED
    BY <1>1, <1>2, <2>1, ClosedLemma
<1>3. CASE ~(Linked(c) /\ l = conn[c])
  <2>1. Dropped(c)[l] = net[l]
    BY <1>1, <1>3 DEF Dropped, Linked
  <2> QED
    BY <1>1, <1>3, <2>1 DEF Linked
<1> QED
  BY <1>2, <1>3

LEMMA ClientLeaves ==
    ASSUME TransferInv, InStepInv, UNCHANGED serverVars, UNCHANGED backlog,
           NEW c \in Clients, net' = Dropped(c), NEW x \in NoSocket,
           conn' = [conn EXCEPT ![c] = x],
           NEW p, at' = [at EXCEPT ![c] = p], NEW j, job' = [job EXCEPT ![c] = j],
           JobFits(p, j)
    PROVE  InStepInv'
<1>1. /\ at'[c] = p /\ job'[c] = j /\ conn'[c] = x /\ x \notin Conns
      /\ \A d \in Clients \ {c} : at'[d] = at[d] /\ job'[d] = job[d] /\ conn'[d] = conn[d]
  BY ClientAssumption DEF TransferInv, ClientInv
<1>2. \A d \in Clients \ {c} : conn[d] \in Conns => conn[d] # conn[c]
  BY DEF InStepInv, OwnersInv
<1>3. \A l \in Conns : /\ Whole(net'[l])
                       /\ net'[l].end["srv"] = "closed" <=> net[l].end["srv"] = "closed"
                       /\ net'[l].queue["srv"] = net[l].queue["srv"]
                       /\ l # conn[c] => net'[l] = net[l]
  BY DroppedFacts
<1>4. LinksInv' /\ OwnersInv'
  <2>1. LinksInv'
    BY <1>3 DEF LinksInv
  <2>2. OwnersInv'
    BY <1>1 DEF InStepInv, OwnersInv
  <2> QED
    BY <2>1, <2>2
<1>5. CommandInv'
  <2>1. ASSUME NEW d \in Clients \ {c}
        PROVE  /\ JobFits(at'[d], job'[d])
               /\ conn'[d] \in Conns =>
                     /\ net'[conn'[d]].end["cli"] # "closed"
                     /\ Shape(at'[d], job'[d].left, net'[conn'[d]].queue["cli"])
    <3>1. /\ JobFits(at[d], job[d])
          /\ conn[d] \in Conns => /\ net[conn[d]].end["cli"] # "closed"
                                  /\ Shape(at[d], job[d].left, net[conn[d]].queue["cli"])
      BY DEF InStepInv, CommandInv
    <3>2. conn[d] \in Conns => net'[conn[d]] = net[conn[d]]
      BY <1>2, <1>3
    <3> QED
      BY <1>1, <3>1, <3>2
  <2> QED
    BY <1>1, <2>1 DEF CommandInv
<1>6. ServiceInv'
  <2>1. UNCHANGED <<pc, packet, ul>>
    BY DEF serverVars
  <2>2. \A l \in Conns : (Awaited(l) => net[l].end["srv"] # "closed")
                         /\ (Serves(l) => l \notin backlog)
    BY DEF InStepInv, ServiceInv
  <2>3. \A l \in Conns : (Awaited(l)' => net'[l].end["srv"] # "closed")
                         /\ (Serves(l)' => l \notin backlog')
    BY <1>3, <2>2, ServerSame
  <2> QED
    BY <2>1, <2>3 DEF InStepInv, ServiceInv
<1>7. ASSUME NEW l \in Conns PROVE Talk(l)'
  <2>1. (Awaited(l)' <=> Awaited(l)) /\ Expects(l)' = Expects(l)
    BY ServerSame
  <2>2. net'[l].queue["srv"] = net[l].queue["srv"]
    BY <1>3
  <2>3. ASSUME NEW d \in Clients, conn'[d] = l
        PROVE  /\ conn[d] = l /\ at'[d] = at[d] /\ job'[d] = job[d]
               /\ net'[l].queue["cli"] = net[l].queue["cli"]
    <3>1. d # c
      BY <1>1, <2>3
    <3>2. conn[d] = l /\ l # conn[c]
      BY <1>1, <1>2, <2>3, <3>1
    <3> QED
      BY <1>1, <1>3, <3>1, <3>2
  <2>4. Talk(l)
    BY DEF InStepInv
  <2> QED
    BY <2>1, <2>2, <2>3, <2>4 DEF Talk
<1> QED
  BY <1>4, <1>5, <1>6, <1>7 DEF InStepInv

(* A connection is made, and waits in the backlog.                         *)
LEMMA ClientConnects ==
    ASSUME TransferInv, InStepInv, UNCHANGED serverVars,
           NEW c \in Clients, NEW k \in Conns, net[k] = Free, Connect(c, k),
           net' = [Dropped(c) EXCEPT ![k] = Fresh], backlog' = backlog \cup {k}
    PROVE  InStepInv'
<1>1. /\ at'[c] = "sendMac" /\ job'[c] = job[c] /\ conn'[c] = k
      /\ \A d \in Clients \ {c} : at'[d] = at[d] /\ job'[d] = job[d] /\ conn'[d] = conn[d]
  BY DEF TransferInv, ClientInv, Connect, Goto
<1>2. \A d \in Clients : conn[d] # k
  BY DEF InStepInv, CommandInv, Free, Ends
<1>3. ~Awaited(k)
  BY DEF InStepInv, ServiceInv, Free, Ends
<1>4. \A d \in Clients \ {c} : conn[d] \in Conns => conn[d] # conn[c]
  BY DEF InStepInv, OwnersInv
<1>5. /\ net'[k] = Fresh
      /\ \A l \in Conns \ {k} :
            /\ Whole(net'[l])
            /\ net'[l].end["srv"] = "closed" <=> net[l].end["srv"] = "closed"
            /\ net'[l].queue["srv"] = net[l].queue["srv"]
            /\ l # conn[c] => net'[l] = net[l]
  <2>1. Dropped(c) \in [Conns -> Link]
    BY DroppedLemma DEF TransferInv
  <2>2. net'[k] = Fresh /\ \A l \in Conns \ {k} : net'[l] = Dropped(c)[l]
    BY <2>1
  <2> QED
    BY <2>2, DroppedFacts
<1>6. /\ Whole(Fresh) /\ Fresh.end["cli"] = "open" /\ Fresh.end["srv"] = "open"
      /\ Fresh.queue["cli"] = <<>> /\ Fresh.queue["srv"] = <<>>
  BY DEF Fresh, Ends, Whole
<1>7. \A l \in Conns : /\ Serves(l)' <=> Serves(l)
                       /\ Awaited(l)' <=> Awaited(l) \/ l = k
                       /\ l # k => Expects(l)' = Expects(l)
                       /\ Expects(k)' = WantMac
  <2>1. UNCHANGED <<pc, clients, cur, packet, dl, ul>>
    BY DEF serverVars
  <2>2. \A l \in Conns : Serves(l)' <=> Serves(l)
    BY <2>1 DEF Serves, Me
  <2>3. Doing' = Doing
    BY <2>1 DEF Doing
  <2> QED
    BY <2>2, <2>3 DEF Awaited, Expects
<1>8. LinksInv' /\ OwnersInv'
  <2>1. LinksInv'
    BY <1>5, <1>6 DEF LinksInv
  <2>2. OwnersInv'
    BY <1>1, <1>2 DEF InStepInv, OwnersInv
  <2> QED
    BY <2>1, <2>2
<1>9. CommandInv'
  <2>1. ASSUME NEW d \in Clients
        PROVE  /\ JobFits(at'[d], job'[d])
               /\ conn'[d] \in Conns =>
                     /\ net'[conn'[d]].end["cli"] # "closed"
                     /\ Shape(at'[d], job'[d].left, net'[conn'[d]].queue["cli"])
    <3>1. CASE d = c
      <4>1. at'[d] = "sendMac" /\ conn'[d] = k
        BY <1>1, <3>1
      <4>2. JobFits(at'[d], job'[d])
        BY <4>1 DEF JobFits
      <4>3. net'[k].end["cli"] = "open" /\ net'[k].queue["cli"] = <<>>
        BY <1>5, <1>6
      <4>4. Shape("sendMac", job'[d].left, <<>>)
        BY DEF Shape
      <4> QED
        BY <4>1, <4>2, <4>3, <4>4
    <3>2. CASE d # c
      <4>1. /\ JobFits(at[d], job[d])
            /\ conn[d] \in Conns => /\ net[conn[d]].end["cli"] # "closed"
                                    /\ Shape(at[d], job[d].left, net[conn[d]].queue["cli"])
        BY DEF InStepInv, CommandInv
      <4>2. conn[d] \in Conns => net'[conn[d]] = net[conn[d]]
        BY <1>2, <1>4, <1>5, <3>2
      <4> QED
        BY <1>1, <3>2, <4>1, <4>2
    <3> QED
      BY <3>1, <3>2
  <2> QED
    BY <2>1 DEF CommandInv
<1>10. ServiceInv'
  <2>1. UNCHANGED <<pc, packet, ul>>
    BY DEF serverVars
  <2>2. \A l \in Conns : (Awaited(l) => net[l].end["srv"] # "closed")
                         /\ (Serves(l) => l \notin backlog)
    BY DEF InStepInv, ServiceInv
  <2>3. ~Serves(k)
    BY <1>3 DEF Awaited
  <2>4. \A l \in Conns : (Awaited(l)' => net'[l].end["srv"] # "closed")
                         /\ (Serves(l)' => l \notin backlog')
    BY <1>5, <1>6, <1>7, <2>2, <2>3
  <2> QED
    BY <2>1, <2>4 DEF InStepInv, ServiceInv
<1>11. ASSUME NEW l \in Conns PROVE Talk(l)'
  <2>1. CASE l = k
    <3>1. \A d \in Clients : conn'[d] = k => d = c
      BY <1>1, <1>2
    <3>2. \A d \in Clients :
             conn'[d] = k => Gives(at'[d], job'[d].left, net'[k].queue["cli"]) = WantMac
      BY <1>1, <3>1 DEF Gives
    <3>3. Leads(net'[k].queue["srv"], WantMac, WantMac) /\ WantMac \in Expectation
      BY <1>5, <1>6, LeadsNowhere, WantLemma
    <3> QED
      BY <1>7, <2>1, <3>2, <3>3 DEF Talk
  <2>2. CASE l # k
    <3>1. (Awaited(l)' <=> Awaited(l)) /\ Expects(l)' = Expects(l)
      BY <1>7, <2>2
    <3>2. net'[l].queue["srv"] = net[l].queue["srv"]
      BY <1>5, <2>2
    <3>3. ASSUME NEW d \in Clients, conn'[d] = l
          PROVE  /\ conn[d] = l /\ at'[d] = at[d] /\ job'[d] = job[d]
                 /\ net'[l].queue["cli"] = net[l].queue["cli"]
      <4>1. d # c
        BY <1>1, <2>2, <3>3
      <4>2. conn[d] = l /\ l # conn[c]
        BY <1>1, <1>4, <3>3, <4>1
      <4> QED
        BY <1>1, <1>5, <2>2, <4>1, <4>2
    <3>4. Talk(l)
      BY DEF InStepInv
    <3> QED
      BY <3>1, <3>2, <3>3, <3>4 DEF Talk
  <2> QED
    BY <2>1, <2>2
<1> QED
  BY <1>8, <1>9, <1>10, <1>11 DEF InStepInv

-----------------------------------------------------------------------------
(* What each client receives.                                              *)

LEMMA RestLemma ==
    ASSUME NEW q \in Seq(Unit), NEW u \in 0..Len(q), NEW rest,
           rest = SubSeq(q, u + 1, Len(q))
    PROVE  /\ rest \in Seq(Unit) /\ Len(rest) = Len(q) - u
           /\ \A i \in 1..Len(rest) : rest[i] = q[i + u]
           /\ u = Len(q) => rest = <<>>
<1>1. Len(q) \in Nat /\ u \in Nat /\ u <= Len(q)
  BY LenProperties
<1>2. \A i \in 1..Len(q) : q[i] \in Unit
  BY ElementOfSeq
<1>3. \A i \in (u + 1)..Len(q) : q[i] \in Unit
  BY <1>1, <1>2
<1>4. /\ SubSeq(q, u + 1, Len(q)) \in Seq(Unit)
      /\ Len(SubSeq(q, u + 1, Len(q))) = IF u + 1 <= Len(q) THEN Len(q) - (u + 1) + 1 ELSE 0
      /\ \A i \in 1..(Len(q) - (u + 1) + 1) : SubSeq(q, u + 1, Len(q))[i] = q[(u + 1) + i - 1]
  BY <1>1, <1>3, SubSeqProperties
<1>5. rest \in Seq(Unit) /\ Len(rest) = Len(q) - u
  BY <1>1, <1>4
<1>6. ASSUME NEW i \in 1..Len(rest) PROVE rest[i] = q[i + u]
  <2>1. i \in 1..(Len(q) - (u + 1) + 1) /\ (u + 1) + i - 1 = i + u
    BY <1>1, <1>5
  <2> QED
    BY <1>4, <2>1
<1>7. u = Len(q) => rest = <<>>
  <2>1. u = Len(q) => Len(rest) = 0
    BY <1>1, <1>5
  <2> QED
    BY <1>5, <2>1, EmptySeq
<1> QED
  BY <1>5, <1>6, <1>7

LEMMA TailLemma ==
    ASSUME NEW q \in Seq(Unit), q # <<>>, NEW rest, rest = SubSeq(q, 1 + 1, Len(q))
    PROVE  /\ rest \in Seq(Unit) /\ Len(rest) = Len(q) - 1
           /\ \A i \in 1..Len(rest) : rest[i] = q[i + 1]
           /\ Len(q) = 1 => rest = <<>>
<1>1. Len(q) \in Nat /\ Len(q) # 0
  BY LenProperties, EmptySeq
<1>2. PICK u : u = 1
  OBVIOUS
<1>3. u \in 0..Len(q) /\ rest = SubSeq(q, u + 1, Len(q))
  BY <1>1, <1>2
<1>4. /\ rest \in Seq(Unit) /\ Len(rest) = Len(q) - u
      /\ \A i \in 1..Len(rest) : rest[i] = q[i + u]
      /\ u = Len(q) => rest = <<>>
  BY <1>3, RestLemma
<1> QED
  BY <1>2, <1>4

(* Before a client receives: whether there is something to read.           *)
LEMMA ReceivingLemma ==
    ASSUME TransferInv, InStepInv, NEW c \in Clients, Linked(c), CliRecv(c) \in Received
    PROVE  /\ Queue(c) \in Seq(Unit) /\ Len(Queue(c)) \in Nat
           /\ Shape(at[c], job[c].left, Queue(c)) /\ JobFits(at[c], job[c])
           /\ CliRecv(c) = "ok" <=> Queue(c) # <<>>
           /\ Queue(c) # <<>> => Len(Queue(c)) >= 1 /\ Head(Queue(c)) = Queue(c)[1]
<1>1. /\ Queue(c) \in Seq(Unit) /\ Shape(at[c], job[c].left, Queue(c))
      /\ JobFits(at[c], job[c])
  BY LinkedTalk
<1>2. Len(Queue(c)) \in Nat /\ (Queue(c) # <<>> => Len(Queue(c)) >= 1)
  BY <1>1, LenProperties, EmptySeq
<1>3. Queue(c) # <<>> => Head(Queue(c)) = Queue(c)[1]
  BY <1>1, HeadTailProperties
<1>4. CliRecv(c) = "ok" <=> Queue(c) # <<>>
  BY ErrorKinds DEF CliRecv, RecvResult, Queue
<1> QED
  BY <1>1, <1>2, <1>3, <1>4

(* The end of a command takes the client back to the prompt, with nothing  *)
(* left to read.                                                           *)
LEMMA LastRead ==
    ASSUME TransferInv, InStepInv, UNCHANGED serverVars, UNCHANGED conn,
           NEW c \in Clients, Linked(c), CliRecv(c) \in Received, NEW u \in Nat, CliReads(c, u),
           NEW s, Return(c, s),
           Queue(c) # <<>> => u = Len(Queue(c))
                              /\ Gives(at[c], job[c].left, Queue(c)) = WantHeader
    PROVE  InStepInv'
<1> DEFINE q == Queue(c)
<1>1. q \in Seq(Unit) /\ Len(q) \in Nat
  BY ReceivingLemma
<1>2. q # <<>> => SubSeq(q, u + 1, Len(q)) = <<>>
  <2>1. q # <<>> => u \in 0..Len(q) /\ u = Len(q)
    BY <1>1
  <2> QED
    BY <1>1, <2>1, RestLemma
<1>3. /\ JobFits("prompt", Idle) /\ Shape("prompt", Idle.left, <<>>)
      /\ Gives("prompt", Idle.left, <<>>) = WantHeader
  BY DEF JobFits, Shape, Gives
<1>4. at' = [at EXCEPT ![c] = "prompt"] /\ job' = [job EXCEPT ![c] = Idle]
  BY DEF Return, Goto
<1> QED
  BY <1>2, <1>3, <1>4, ClientReads

LEMMA GreetingRead ==
    ASSUME TransferInv, InStepInv, UNCHANGED serverVars,
           NEW c \in Clients, Linked(c), CliRecv(c) \in Received, CliReads(c, 1),
           NEW op, CliRecv(c) = "ok" => op \in OpsIn(Head(Queue(c))),
           RecvGreeting(c, CliRecv(c), op)
    PROVE  InStepInv'
<1> DEFINE q == Queue(c)
           n == Len(q)
           left == job[c].left
<1>1. /\ q \in Seq(Unit) /\ n \in Nat /\ at[c] = "recvGreeting" /\ UNCHANGED <<conn, local>>
      /\ Shape("recvGreeting", left, q)
  BY ReceivingLemma DEF RecvGreeting
<1>2. CliRecv(c) = "ok" => n >= 1 /\ Head(q) = q[1] /\ q # <<>>
  BY ReceivingLemma
<1> HIDE DEF n, left
<1>3. CASE q = <<>>
  <2>1. CliRecv(c) # "ok"
    BY <1>3, ReceivingLemma
  <2>2. \E s : Return(c, s)
    BY <2>1 DEF RecvGreeting
  <2> QED
    BY <1>1, <1>3, <2>2, LastRead
<1>4. CASE q # <<>>
  <2>1. CliRecv(c) = "ok"
    BY <1>4, ReceivingLemma
  <2>2. n \in 1..2 /\ q[1].t = "header" /\ Head(q) = q[1]
        /\ (n = 2 => q[1].op = "DownloadRecovery" /\ q[2].t = "data")
    <3>1. /\ n <= 2
          /\ n >= 1 => q[1].t = "header"
          /\ n = 2 => q[1].op = "DownloadRecovery" /\ q[2].t = "data"
      BY <1>1 DEF Shape, n
    <3> QED
      BY <1>1, <1>2, <2>1, <3>1
  <2>3. op = q[1].op
    BY <2>1, <2>2 DEF OpsIn
  <2>4. CASE op = "DownloadRecovery"
    <3>0. PICK rest : rest = SubSeq(q, 1 + 1, Len(q))
      OBVIOUS
    <3> DEFINE m == Len(rest)
    <3> HIDE DEF q
    <3>1. q \in Seq(Unit)
      BY <1>1
    <3>2. Len(rest) = Len(q) - 1 /\ \A i \in 1..Len(rest) : rest[i] = q[i + 1]
      BY <1>4, <3>0, <3>1, TailLemma
    <3>3. m = n - 1 /\ (m = 1 => rest[1] = q[2])
      BY <3>2 DEF n
    <3> HIDE DEF m
    <3>4. Shape("recvStamp", left, rest)
      <4>1. m <= 1 /\ (m = 1 => rest[1].t = "data")
        BY <2>2, <3>3
      <4> QED
        BY <4>1 DEF Shape, m
    <3>5. Gives("recvStamp", left, rest) = Gives("recvGreeting", left, q)
      <4>1. m = 0 <=> n = 1
        BY <1>1, <3>3
      <4>2. n # 0
        BY <2>2
      <4> QED
        BY <2>3, <2>4, <4>1, <4>2 DEF Gives, n, m
    <3>6. /\ at' = [at EXCEPT ![c] = "recvStamp"] /\ UNCHANGED job
          /\ job' = [job EXCEPT ![c] = job[c]]
      BY <2>1, <2>4 DEF RecvGreeting, Goto, TransferInv, ClientInv
    <3>7. JobFits("recvStamp", job[c])
      BY DEF JobFits
    <3> QED
      BY <1>1, <1>4, <3>0, <3>4, <3>5, <3>6, <3>7, ClientReads DEF q, left
  <2>5. CASE op # "DownloadRecovery"
    <3>1. n = 1
      BY <2>2, <2>3, <2>5
    <3>2. Gives("recvGreeting", left, q) = WantHeader
      BY <2>3, <2>5, <3>1 DEF Gives, n
    <3>3. \E s : Return(c, s)
      BY <2>5 DEF RecvGreeting
    <3> QED
      BY <1>1, <3>1, <3>2, <3>3, LastRead DEF n, left
  <2> QED
    BY <2>4, <2>5
<1> QED
  BY <1>3, <1>4

LEMMA StampRead ==
    ASSUME TransferInv, InStepInv, UNCHANGED serverVars,
           NEW c \in Clients, Linked(c), CliRecv(c) \in Received, CliReads(c, 1),
           NEW name, RecvStamp(c, CliRecv(c), name)
    PROVE  InStepInv'
<1> DEFINE q == Queue(c)
           n == Len(q)
<1>1. /\ q \in Seq(Unit) /\ n \in Nat /\ at[c] = "recvStamp" /\ UNCHANGED <<conn, local>>
      /\ Shape("recvStamp", job[c].left, q)
      /\ CliRecv(c) = "ok" <=> q # <<>>
      /\ q # <<>> => n >= 1
  BY ReceivingLemma DEF RecvStamp
<1>2. q # <<>> => n = 1 /\ Gives("recvStamp", job[c].left, q) = WantHeader
  <2>1. q # <<>> => n <= 1
    BY <1>1 DEF Shape
  <2> HIDE DEF n
  <2>2. q # <<>> => n = 1
    BY <1>1, <2>1
  <2> QED
    BY <2>2 DEF Gives, n
<1>3. CASE CliRecv(c) = "ok"
  <2> DEFINE j == [Idle EXCEPT !.file = name]
             rest == SubSeq(q, 1 + 1, Len(q))
  <2>1. at' = [at EXCEPT ![c] = "ask"] /\ job' = [job EXCEPT ![c] = j]
    BY <1>3 DEF RecvStamp, Goto
  <2>2. 1 \in 0..Len(q) /\ 1 = Len(q)
    BY <1>1, <1>2, <1>3
  <2>3. rest = <<>>
    BY ZenonT(60), <1>1, <2>2, RestLemma
  <2>4. /\ JobFits("ask", j) /\ Shape("ask", j.left, <<>>)
        /\ Gives("ask", j.left, <<>>) = WantHeader
    BY DEF JobFits, Shape, Gives
  <2> HIDE DEF j
  <2> QED
    BY <1>1, <1>2, <1>3, <2>1, <2>3, <2>4, ClientReads
<1>4. CASE CliRecv(c) # "ok"
  <2>1. \E s : Return(c, s)
    BY <1>4 DEF RecvStamp
  <2> QED
    BY <1>1, <1>4, <2>1, LastRead
<1> QED
  BY <1>3, <1>4

LEMMA AnswerRead ==
    ASSUME TransferInv, InStepInv, UNCHANGED serverVars,
           NEW c \in Clients, Linked(c), CliRecv(c) \in Received, CliReads(c, 1),
           RecvAnswer(c, CliRecv(c))
    PROVE  InStepInv'
<1> DEFINE q == Queue(c)
           n == Len(q)
<1>1. /\ q \in Seq(Unit) /\ n \in Nat /\ at[c] = "recvAnswer" /\ UNCHANGED <<conn, local>>
      /\ Shape("recvAnswer", job[c].left, q)
      /\ q # <<>> => n >= 1
  BY ReceivingLemma DEF RecvAnswer
<1>2. q # <<>> => n = 1 /\ Gives("recvAnswer", job[c].left, q) = WantHeader
  <2>1. q # <<>> => n <= 1
    BY <1>1 DEF Shape
  <2> HIDE DEF n
  <2>2. q # <<>> => n = 1
    BY <1>1, <2>1
  <2> QED
    BY <2>2 DEF Gives, n
<1>3. \E s : Return(c, s)
  BY DEF RecvAnswer
<1> QED
  BY <1>1, <1>2, <1>3, LastRead

LEMMA ResponseRead ==
    ASSUME TransferInv, InStepInv, UNCHANGED serverVars,
           NEW c \in Clients, Linked(c), CliRecv(c) \in Received, CliReads(c, 1),
           NEW ready \in BOOLEAN, NEW total \in Nat,
           CliRecv(c) = "ok" => /\ \E u \in ResponsesIn(Head(Queue(c))) :
                                      ready = u.ready /\ total = u.total,
           RecvResponse(c, CliRecv(c), ready, total)
    PROVE  InStepInv'
<1> DEFINE q == Queue(c)
           n == Len(q)
           left == job[c].left
<1>1. /\ q \in Seq(Unit) /\ n \in Nat /\ at[c] = "recvResponse" /\ UNCHANGED conn
      /\ Shape("recvResponse", left, q)
      /\ CliRecv(c) = "ok" <=> q # <<>>
      /\ q # <<>> => n >= 1 /\ Head(q) = q[1]
  BY ReceivingLemma DEF RecvResponse
<1> HIDE DEF n, left
<1>2. CASE q = <<>>
  <2>1. CliRecv(c) # "ok"
    BY <1>1, <1>2
  <2>2. \E s : Return(c, s)
    BY <2>1 DEF RecvResponse, FailDownload
  <2> QED
    BY <1>1, <1>2, <2>2, LastRead
<1>3. CASE q # <<>>
  <2>1. n >= 1
    BY <1>1, <1>3
  <2>2. /\ q[1].t = "response" /\ AllBlocks(q, 2)
        /\ n - 1 <= IF q[1].ready THEN q[1].total ELSE 0
    BY <1>1, <2>1 DEF Shape, n
  <2>3. ready = q[1].ready /\ total = q[1].total
    BY <1>1, <1>3, <2>2 DEF ResponsesIn
  <2>4. n # 0 /\ Gives("recvResponse", left, q) =
                   IF ready THEN Streams(total - (n - 1)) ELSE WantHeader
    BY <2>1, <2>3 DEF Gives, n
  <2>5. CASE ready /\ total > 0
    <3>0. PICK rest : rest = SubSeq(q, 1 + 1, Len(q))
      OBVIOUS
    <3> DEFINE m == Len(rest)
               j == [job[c] EXCEPT !.left = total]
    <3>1. q \in Seq(Unit)
      BY <1>1
    <3>2. Len(rest) = Len(q) - 1 /\ \A i \in 1..Len(rest) : rest[i] = q[i + 1]
      BY <1>3, <3>0, <3>1, TailLemma
    <3>3. m = n - 1 /\ m <= total
      BY <2>2, <2>3, <2>5, <3>2 DEF n
    <3>4. ASSUME NEW i \in 1..m PROVE rest[i].t = "block"
      <4>1. i + 1 \in 2..n /\ rest[i] = q[i + 1]
        BY <1>1, <3>2, <3>3
      <4> QED
        BY <2>2, <4>1 DEF AllBlocks, n
    <3> HIDE DEF m
    <3>5. Shape("recvFile", total, rest)
      BY <2>5, <3>3, <3>4 DEF Shape, AllBlocks, m
    <3>6. Gives("recvFile", total, rest) = Gives("recvResponse", left, q)
      BY <2>4, <2>5, <3>3 DEF Gives, m
    <3>7. job[c] \in Job /\ j.left = total
      BY KeepLemma DEF TransferInv, Job
    <3>8. at' = [at EXCEPT ![c] = "recvFile"] /\ job' = [job EXCEPT ![c] = j]
      BY <1>1, <1>3, <2>5 DEF RecvResponse, Goto
    <3>9. JobFits("recvFile", j)
      BY DEF JobFits
    <3> HIDE DEF j
    <3> QED
      BY <1>1, <1>3, <3>0, <3>5, <3>6, <3>7, <3>8, <3>9, ClientReads DEF left
  <2>6. CASE ~(ready /\ total > 0)
    <3>1. n = 1
      BY <1>1, <2>1, <2>2, <2>3, <2>6
    <3>2. Gives("recvResponse", left, q) = WantHeader
      <4>1. ready => total = 0 /\ total - (n - 1) = 0
        BY <2>6, <3>1
      <4> QED
        BY <2>4, <4>1 DEF Streams
    <3>3. \E s : Return(c, s)
      BY <2>6 DEF RecvResponse, FailDownload
    <3> QED
      BY <1>1, <3>1, <3>2, <3>3, LastRead DEF n, left
  <2> QED
    BY <2>5, <2>6
<1> QED
  BY <1>2, <1>3

LEMMA ChunkFits ==
    ASSUME NEW q \in Seq(Unit), NEW left \in Nat, NEW d \in BlocksAt(q, left)
    PROVE  Len(d) \in 1..Len(q) /\ Len(d) <= left /\ Len(d) \in Nat
<1>1. PICK n \in 1..ChunkSize(left) : n <= Len(q) /\ d = [i \in 1..n |-> q[i].block]
  BY DEF BlocksAt
<1>2. Len(d) <= left /\ Len(d) \in 1..BufferSize /\ d \in Seq(Blocks)
  BY BlocksAtLemma
<1>3. n \in Nat /\ Len(q) \in Nat /\ Len(d) \in Nat
  BY <1>1, <1>2, LenProperties, ProtocolAssumption DEF ChunkSize
<1>4. Len(d) = n
  BY <1>1, <1>2, <1>3, LenProperties
<1> QED
  BY <1>1, <1>2, <1>3, <1>4

LEMMA FileRead ==
    ASSUME TransferInv, InStepInv, UNCHANGED serverVars,
           NEW c \in Clients, Linked(c), CliRecv(c) \in Received,
           NEW d, CliReads(c, Len(d)), Len(d) \in Nat,
           CliRecv(c) = "ok" => d \in BlocksAt(Queue(c), job[c].left),
           RecvFile(c, CliRecv(c), d)
    PROVE  InStepInv'
<1> DEFINE q == Queue(c)
           n == Len(q)
           left == job[c].left
           m == Len(d)
<1>1. /\ q \in Seq(Unit) /\ n \in Nat /\ at[c] = "recvFile" /\ UNCHANGED conn
      /\ Shape("recvFile", left, q)
      /\ CliRecv(c) = "ok" <=> q # <<>>
      /\ q # <<>> => n >= 1 /\ Head(q) = q[1]
  BY ReceivingLemma DEF RecvFile
<1>2. job[c] \in Job /\ left \in Nat
  BY KeepLemma DEF TransferInv, Job
<1> HIDE DEF n, left, m
<1>3. CASE q = <<>>
  <2>1. CliRecv(c) # "ok"
    BY <1>1, <1>3
  <2>2. \E s : Return(c, s)
    BY <2>1 DEF RecvFile, FailDownload
  <2> QED
    BY <1>1, <1>3, <2>2, LastRead
<1>4. CASE q # <<>>
  <2>1. m \in 1..n /\ m <= left /\ m \in Nat
    BY <1>1, <1>2, <1>4, ChunkFits DEF n, m, left
  <2>2. n <= left /\ AllBlocks(q, 1)
    BY <1>1 DEF Shape, n
  <2>3. Gives("recvFile", left, q) = Streams(left - n)
    BY DEF Gives, n
  <2>4. CASE left > m
    <3> DEFINE j == [job[c] EXCEPT !.left = left - m]
    <3>1. PICK rest : rest = SubSeq(q, m + 1, Len(q))
      OBVIOUS
    <3> DEFINE l == Len(rest)
    <3>2. q \in Seq(Unit) /\ m \in 0..Len(q)
      BY <1>1, <2>1 DEF n
    <3>3. Len(rest) = Len(q) - m /\ \A i \in 1..Len(rest) : rest[i] = q[i + m]
      BY <3>1, <3>2, RestLemma
    <3>4. l = n - m /\ l <= left - m /\ left - m > 0
      BY <1>1, <1>2, <2>1, <2>2, <2>4, <3>3 DEF n
    <3>5. ASSUME NEW i \in 1..l PROVE rest[i].t = "block"
      <4>1. i + m \in 1..n /\ rest[i] = q[i + m]
        BY <1>1, <2>1, <3>3, <3>4
      <4> QED
        BY <2>2, <4>1 DEF AllBlocks, n
    <3> HIDE DEF l
    <3>6. Shape("recvFile", left - m, rest)
      BY <3>4, <3>5 DEF Shape, AllBlocks, l
    <3>7. Gives("recvFile", left - m, rest) = Gives("recvFile", left, q)
      <4>1. (left - m) - l = left - n
        BY <1>1, <1>2, <2>1, <3>4
      <4> QED
        BY <2>3, <4>1 DEF Gives, l
    <3>8. j.left = left - m
      BY <1>2 DEF Job
    <3>9. at' = [at EXCEPT ![c] = "recvFile"] /\ job' = [job EXCEPT ![c] = j]
      <4>1. UNCHANGED at /\ job' = [job EXCEPT ![c].left = @ - Len(d)]
        BY <1>1, <1>4, <2>4 DEF RecvFile, MoreToReceive, left, m
      <4> QED
        BY <1>1, <4>1 DEF TransferInv, ClientInv, left, m
    <3>10. JobFits("recvFile", j)
      BY DEF JobFits
    <3> HIDE DEF j
    <3> QED
      BY <1>1, <1>4, <2>1, <3>1, <3>6, <3>7, <3>8, <3>9, <3>10, ClientReads DEF left, m
  <2>5. CASE ~(left > m)
    <3>1. m = n /\ left - n = 0
      BY <1>1, <1>2, <2>1, <2>2, <2>5
    <3>2. Gives("recvFile", left, q) = WantHeader
      BY <2>3, <3>1 DEF Streams
    <3>3. \E s : Return(c, s)
      BY <2>5 DEF RecvFile, FailDownload, MoreToReceive, left, m
    <3> QED
      BY <1>1, <2>1, <3>1, <3>2, <3>3, LastRead DEF n, left, m
  <2> QED
    BY <2>4, <2>5
<1> QED
  BY <1>3, <1>4

LEMMA TcpReceiveInStep ==
    ASSUME TransferInv, InStepInv, Numbers = Nat, UNCHANGED serverVars,
           NEW c \in Clients, TcpReceive(c)
    PROVE  InStepInv'
<1> DEFINE r == CliRecv(c)
           u == Head(Queue(c))
<1>1. Linked(c) /\ r \in Received /\ (r = "ok" => u \in Unit)
  BY LinkedLemma DEF TcpReceive, TransferInv
<1>2. ASSUME NEW op \in IF r = "ok" THEN OpsIn(u) ELSE {"None"}, RecvGreeting(c, r, op),
             CliReads(c, 1)
      PROVE  InStepInv'
  BY <1>1, <1>2, GreetingRead
<1>3. ASSUME NEW name, RecvStamp(c, r, name), CliReads(c, 1)
      PROVE  InStepInv'
  BY <1>1, <1>3, StampRead
<1>4. ASSUME IF r = "ok"
             THEN \E response \in ResponsesIn(u) :
                     RecvResponse(c, r, response.ready, response.total)
             ELSE RecvResponse(c, r, FALSE, 0),
             CliReads(c, 1)
      PROVE  InStepInv'
  <2>1. CASE r = "ok"
    <3>1. PICK response \in ResponsesIn(u) : RecvResponse(c, r, response.ready, response.total)
      BY <1>4, <2>1
    <3>2. response.ready \in BOOLEAN /\ response.total \in Nat
      BY <1>1, <2>1, <3>1, ReadLemma
    <3> QED
      BY <1>1, <1>4, <3>1, <3>2, ResponseRead
  <2>2. CASE r # "ok"
    <3>1. RecvResponse(c, r, FALSE, 0) /\ FALSE \in BOOLEAN /\ 0 \in Nat
      BY <1>4, <2>2
    <3> QED
      BY <1>1, <1>4, <2>2, <3>1, ResponseRead
  <2> QED
    BY <2>1, <2>2
<1>5. ASSUME IF r = "ok"
             THEN \E d \in BlocksAt(Queue(c), job[c].left) :
                     RecvFile(c, r, d) /\ CliReads(c, Len(d))
             ELSE RecvFile(c, r, <<>>) /\ CliReads(c, 0)
      PROVE  InStepInv'
  <2>1. CASE r = "ok"
    <3>1. PICK d \in BlocksAt(Queue(c), job[c].left) : RecvFile(c, r, d) /\ CliReads(c, Len(d))
      BY <1>5, <2>1
    <3>2. Queue(c) \in Seq(Unit) /\ job[c].left \in Nat
      BY <1>1, LinkedLemma, KeepLemma DEF TransferInv, Job
    <3>3. Len(d) \in Nat
      BY <3>1, <3>2, ChunkFits
    <3> QED
      BY <1>1, <3>1, <3>3, FileRead
  <2>2. CASE r # "ok"
    <3>1. RecvFile(c, r, <<>>) /\ CliReads(c, Len(<<>>)) /\ Len(<<>>) \in Nat
      BY <1>5, <2>2
    <3> QED
      BY <1>1, <2>2, <3>1, FileRead
  <2> QED
    BY <2>1, <2>2
<1>6. ASSUME RecvAnswer(c, r), CliReads(c, 1) PROVE InStepInv'
  BY <1>1, <1>6, AnswerRead
<1> QED
  BY <1>2, <1>3, <1>4, <1>5, <1>6 DEF TcpReceive

-----------------------------------------------------------------------------
(* What each client sends.                                                 *)

LEMMA ContentsShape ==
    \A s \in Seq(Blocks), from \in Nat, n \in Nat : from + n <= Len(s) =>
        /\ Contents(SubSeq(s, from + 1, from + n)) \in Seq(Unit)
        /\ Len(Contents(SubSeq(s, from + 1, from + n))) = n
        /\ \A i \in 1..n : Contents(SubSeq(s, from + 1, from + n))[i].t = "block"
<1> TAKE s \in Seq(Blocks), from \in Nat, n \in Nat
<1> HAVE from + n <= Len(s)
<1> DEFINE part == SubSeq(s, from + 1, from + n)
           units == Contents(part)
<1>1. Len(s) \in Nat /\ \A i \in 1..Len(s) : s[i] \in Blocks
  BY LenProperties, ElementOfSeq
<1>2. \A i \in (from + 1)..(from + n) : s[i] \in Blocks
  BY <1>1
<1>3. part \in Seq(Blocks) /\ Len(part) = n
  <2>1. /\ SubSeq(s, from + 1, from + n) \in Seq(Blocks)
        /\ Len(SubSeq(s, from + 1, from + n)) =
              IF from + 1 <= from + n THEN (from + n) - (from + 1) + 1 ELSE 0
    BY <1>2, SubSeqProperties
  <2> QED
    BY <2>1
<1>4. units \in Seq(Unit)
  BY ContentsLemma
<1> HIDE DEF part
<1>5. units = [i \in 1..n |-> [t |-> "block", block |-> part[i]]]
  BY <1>3 DEF Contents
<1> HIDE DEF units
<1>6. Len(units) = n
  BY <1>4, <1>5, LenProperties
<1>7. \A i \in 1..n : units[i].t = "block"
  BY <1>5
<1>8. units \in Seq(Unit) /\ Len(units) = n /\ \A i \in 1..n : units[i].t = "block"
  BY <1>4, <1>6, <1>7
<1> QED
  BY <1>8 DEF units, part

LEMMA LeadsTo ==
    ASSUME NEW x \in Expectation, NEW u \in Unit, x.t = u.t, NEW y, AfterUnit(x, u) = y
    PROVE  Leads(<<u>>, x, y)
  BY OneLeads

LEMMA HeaderLeads ==
    /\ \A op \in {"Echo", "Download", "Upload"} : Leads(<<Header(op)>>, WantHeader, WantData(op))
    /\ Leads(<<Header("Time")>>, WantHeader, Owes("answer"))
    /\ Leads(<<Header("Close")>>, WantHeader, WantHeader)
<1>1. WantHeader \in Expectation /\ WantHeader.t = "header"
  BY WantLemma DEF WantHeader, Want
<1>2. \A op \in Opcodes : Header(op) \in Unit /\ Header(op).t = "header"
  BY DEF Header, Unit
<1>3. ASSUME NEW op \in {"Echo", "Download", "Upload"}
      PROVE  Leads(<<Header(op)>>, WantHeader, WantData(op))
  <2>1. AfterUnit(WantHeader, Header(op)) = WantData(op)
    BY <1>1 DEF AfterUnit, AfterOp, HasData, Header
  <2>2. op \in Opcodes
    BY DEF Opcodes
  <2> QED
    BY <1>1, <1>2, <2>1, <2>2, LeadsTo
<1>4. /\ AfterUnit(WantHeader, Header("Time")) = Owes("answer")
      /\ AfterUnit(WantHeader, Header("Close")) = WantHeader
  BY <1>1 DEF AfterUnit, AfterOp, HasData, Header
<1>5. "Time" \in Opcodes /\ "Close" \in Opcodes
  BY DEF Opcodes
<1> QED
  BY <1>1, <1>2, <1>3, <1>4, <1>5, LeadsTo

LEMMA DataLeads ==
    ASSUME NEW arg \in Nat, NEW name \in Names, NEW file \in Seq(Blocks)
    PROVE  /\ Leads(<<Data(arg, name, file)>>, WantData("Echo"), Owes("answer"))
           /\ Leads(<<Data(arg, name, file)>>, WantData("Download"), Owes("response"))
           /\ Leads(<<Data(arg, name, file)>>, WantData("Upload"), WantBlocks(arg))
<1> DEFINE u == Data(arg, name, file)
<1>1. u \in Unit /\ u.t = "data" /\ u.arg = arg
  BY DEF Data, Unit
<1>2. \A op \in Opcodes : WantData(op) \in Expectation /\ WantData(op).t = "data"
                          /\ WantData(op).op = op
  BY WantLemma DEF WantData, Want
<1>3. {"Echo", "Download", "Upload"} \subseteq Opcodes
  BY DEF Opcodes
<1> HIDE DEF u
<1>4. /\ AfterUnit(WantData("Echo"), u) = Owes("answer")
      /\ AfterUnit(WantData("Download"), u) = Owes("response")
      /\ AfterUnit(WantData("Upload"), u) = WantBlocks(arg)
  BY <1>1, <1>2, <1>3 DEF AfterUnit, AfterData
<1> QED
  BY <1>1, <1>2, <1>3, <1>4, LeadsTo DEF u

LEMMA PacketsLead ==
    ASSUME TransferInv, InStepInv, NEW c \in Clients
    PROVE  /\ at[c] = "sendMac" => Leads(Packets(c), WantMac, Owes("greeting"))
           /\ at[c] = "downloadHeader" => Leads(Packets(c), WantHeader, WantData("Download"))
           /\ at[c] = "downloadData" => Leads(Packets(c), WantData("Download"), Owes("response"))
           /\ at[c] = "uploadHeader" => Leads(Packets(c), WantHeader, WantData("Upload"))
           /\ at[c] = "uploadData" =>
                 Leads(Packets(c), WantData("Upload"), WantBlocks(job[c].left))
           /\ at[c] = "sendFile" =>
                 Leads(Packets(c), WantBlocks(job[c].left),
                       WantBlocks(job[c].left - ChunkSize(job[c].left)))
           /\ at[c] = "askHeader" =>
                 Leads(Packets(c), WantHeader, IF job[c].op = "Echo" THEN WantData("Echo")
                                                                   ELSE Owes("answer"))
           /\ at[c] = "askData" => Leads(Packets(c), WantData("Echo"), Owes("answer"))
           /\ at[c] = "sendClose" => Leads(Packets(c), WantHeader, WantHeader)
<1> DEFINE file == local[c][job[c].file].data
           left == job[c].left
<1>1. /\ job[c].op \in Opcodes /\ job[c].file \in Names /\ left \in Nat /\ job[c].start \in Nat
      /\ local[c] \in [Names -> Entry] /\ JobFits(at[c], job[c]) /\ ClientInv
  BY KeepLemma DEF TransferInv, Job, InStepInv, CommandInv
<1>2. file \in Seq(Blocks) /\ <<>> \in Seq(Blocks)
  BY <1>1, EmptySeq DEF Entry
<1>3. MacOf[c] \in Macs /\ FileName[job[c].file] \in Names /\ SomeName \in Names
  BY <1>1, TransferAssumption, NoneLemma
<1>4. CASE at[c] = "sendMac"
  <2>1. Packets(c) = <<Mac(MacOf[c])>>
    BY <1>4 DEF Packets
  <2>2. /\ Mac(MacOf[c]) \in Unit /\ Mac(MacOf[c]).t = "mac" /\ WantMac.t = "mac"
    BY <1>3 DEF Mac, Unit, WantMac, Want
  <2>3. AfterUnit(WantMac, Mac(MacOf[c])) = Owes("greeting")
    BY <2>2 DEF AfterUnit
  <2> QED
    BY <1>4, <2>1, <2>2, <2>3, WantLemma, LeadsTo
<1>5. CASE at[c] \in {"downloadHeader", "uploadHeader", "askHeader", "sendClose"}
  <2>1. Packets(c) = <<Header(job[c].op)>>
    BY <1>5 DEF Packets
  <2> QED
    BY <1>1, <1>5, <2>1, HeaderLeads DEF JobFits
<1>6. CASE at[c] = "downloadData"
  <2>1. Packets(c) = <<Data(job[c].start, job[c].file, <<>>)>>
    BY <1>6 DEF Packets
  <2> QED
    BY <1>1, <1>2, <1>6, <2>1, DataLeads
<1>7. CASE at[c] = "uploadData"
  <2>1. Packets(c) = <<Data(left, FileName[job[c].file], file)>>
    BY <1>7 DEF Packets
  <2> QED
    BY <1>1, <1>2, <1>3, <1>7, <2>1, DataLeads
<1>8. CASE at[c] = "askData"
  <2>1. Packets(c) = <<Data(0, SomeName, <<>>)>>
    BY <1>8 DEF Packets
  <2> QED
    BY <1>2, <1>3, <1>8, <2>1, DataLeads
<1>9. CASE at[c] = "sendFile"
  <2> DEFINE sent == Len(file) - left
             n == ChunkSize(left)
  <2>1. left > 0 /\ left <= Len(file) /\ Len(file) \in Nat
    BY <1>1, <1>2, <1>9, LenProperties DEF JobFits, ClientInv, LeftInv, UploadingPlaces
  <2>2. Packets(c) = Contents(SubSeq(file, sent + 1, sent + n))
    BY <1>9 DEF Packets
  <2> HIDE DEF file, left
  <2>3. sent \in Nat /\ n \in Nat /\ sent + n <= Len(file) /\ n <= left
    BY <1>1, <2>1, ProtocolAssumption DEF ChunkSize
  <2> HIDE DEF sent, n
  <2>4. /\ Packets(c) \in Seq(Unit) /\ Len(Packets(c)) = n
        /\ \A i \in 1..Len(Packets(c)) : Packets(c)[i].t = "block"
    BY <1>2, <2>2, <2>3, ContentsShape
  <2>5. Leads(Packets(c), WantBlocks(left), WantBlocks(left - n))
    BY <1>1, <2>1, <2>3, <2>4, FileLeads
  <2> QED
    BY <1>9, <2>5 DEF left, n
<1> QED
  BY <1>4, <1>5, <1>6, <1>7, <1>8, <1>9

(* What the server is to expect of a client at each sending place.         *)
LEMMA SenderGives ==
    ASSUME NEW left \in Nat
    PROVE  /\ Gives("sendMac", left, <<>>) = WantMac
           /\ \A p \in {"downloadHeader", "uploadHeader", "askHeader", "sendClose", "prompt"} :
                 Gives(p, left, <<>>) = WantHeader
           /\ Gives("downloadData", left, <<>>) = WantData("Download")
           /\ Gives("uploadData", left, <<>>) = WantData("Upload")
           /\ Gives("askData", left, <<>>) = WantData("Echo")
           /\ Gives("sendFile", left, <<>>) = WantBlocks(left)
           /\ Gives("recvGreeting", left, <<>>) = Owes("greeting")
           /\ Gives("recvAnswer", left, <<>>) = Owes("answer")
           /\ Gives("recvResponse", left, <<>>) = Owes("response")
<1>1. Len(<<>>) = 0
  OBVIOUS
<1> QED
  BY <1>1 DEF Gives

LEMMA EmptyShape ==
    ASSUME NEW p, p # "recvFile", NEW left PROVE Shape(p, left, <<>>)
<1>1. Len(<<>>) = 0
  OBVIOUS
<1> QED
  BY <1>1 DEF Shape

(* After the last packet of a command, or after a failure, and after one   *)
(* that others follow.                                                     *)
Transmits(c) ==
    /\ c \in Clients /\ Linked(c) /\ at[c] \in Sending
    /\ CliSend(c, Len(Packets(c))) \in Sent
    /\ CliWrites(c, Packets(c))

LEMMA SentReturns ==
    ASSUME TransferInv, InStepInv, UNCHANGED serverVars, UNCHANGED conn,
           NEW c, Transmits(c), NEW s, Return(c, s),
           CliSend(c, Len(Packets(c))) = "ok" =>
              Leads(Packets(c), Gives(at[c], job[c].left, <<>>), WantHeader)
    PROVE  InStepInv'
<1>1. at' = [at EXCEPT ![c] = "prompt"] /\ job' = [job EXCEPT ![c] = Idle]
  BY DEF Return, Goto
<1>2. /\ JobFits("prompt", Idle) /\ Shape("prompt", Idle.left, <<>>)
      /\ Gives("prompt", Idle.left, <<>>) = WantHeader /\ WantHeader \in Expectation
  BY EmptyShape, WantLemma DEF JobFits, Gives
<1>3. Packets(c) \in Seq(Unit)
  BY PacketsLemma DEF TransferInv, Transmits
<1> QED
  BY <1>1, <1>2, <1>3, ClientSends DEF Transmits

LEMMA SentGoes ==
    ASSUME TransferInv, InStepInv, UNCHANGED serverVars, UNCHANGED <<conn, job>>,
           NEW c, Transmits(c), NEW p, Goto(c, p), p # "recvFile", JobFits(p, job[c]),
           Gives(p, job[c].left, <<>>) \in Expectation,
           Leads(Packets(c), Gives(at[c], job[c].left, <<>>), Gives(p, job[c].left, <<>>))
    PROVE  InStepInv'
<1>1. at' = [at EXCEPT ![c] = p] /\ job' = [job EXCEPT ![c] = job[c]]
  BY DEF Goto, TransferInv, ClientInv
<1>2. Shape(p, job[c].left, <<>>)
  BY EmptyShape
<1>3. Packets(c) \in Seq(Unit)
  BY PacketsLemma DEF TransferInv, Transmits
<1> QED
  BY <1>1, <1>2, <1>3, ClientSends DEF Transmits

LEMMA TcpSendInStep ==
    ASSUME TransferInv, InStepInv, UNCHANGED serverVars, NEW c \in Clients, TcpSend(c)
    PROVE  InStepInv'
<1> DEFINE r == CliSend(c, Len(Packets(c)))
           left == job[c].left
<1>1. Transmits(c)
  BY DEF TcpSend, Transmits
<1>2. left \in Nat /\ job[c].op \in Opcodes /\ JobFits(at[c], job[c])
      /\ at[c] \in ClientPlaces /\ job \in [Clients -> Job]
  BY KeepLemma DEF TransferInv, Job, ClientInv, InStepInv, CommandInv
<1>4. CASE SendMac(c, r)
  <2>1. at[c] = "sendMac" /\ UNCHANGED conn
    BY <1>4 DEF SendMac
  <2>2. CASE r = "ok"
    <3>1. Goto(c, "recvGreeting") /\ UNCHANGED job
      BY <1>4, <2>2 DEF SendMac
    <3>2. JobFits("recvGreeting", job[c]) /\ Owes("greeting") \in Expectation
      BY WantLemma DEF JobFits, Replies
    <3> QED
      BY <1>1, <1>2, <2>1, <3>1, <3>2, PacketsLead, SenderGives, SentGoes
  <2>3. CASE r # "ok"
    BY <1>1, <1>4, <2>1, <2>3, SentReturns DEF SendMac
  <2> QED
    BY <2>2, <2>3
<1>5. CASE SendDownload(c, r)
  <2>1. at[c] \in {"downloadHeader", "downloadData"} /\ UNCHANGED conn
    BY <1>5 DEF SendDownload
  <2>2. CASE r = "ok" /\ at[c] = "downloadHeader"
    <3>1. Goto(c, "downloadData") /\ UNCHANGED job
      BY <1>5, <2>2 DEF SendDownload
    <3>2. JobFits("downloadData", job[c]) /\ WantData("Download") \in Expectation
      BY WantLemma DEF JobFits, Opcodes
    <3> QED
      BY <1>1, <1>2, <2>1, <2>2, <3>1, <3>2, PacketsLead, SenderGives, SentGoes
  <2>3. CASE r = "ok" /\ at[c] = "downloadData"
    <3>1. Goto(c, "recvResponse") /\ UNCHANGED job
      BY <1>5, <2>3 DEF SendDownload
    <3>2. JobFits("recvResponse", job[c]) /\ Owes("response") \in Expectation
      BY WantLemma DEF JobFits, Replies
    <3> QED
      BY <1>1, <1>2, <2>1, <2>3, <3>1, <3>2, PacketsLead, SenderGives, SentGoes
  <2>4. CASE r # "ok"
    BY <1>1, <1>5, <2>1, <2>4, SentReturns DEF SendDownload, FailDownload
  <2> QED
    BY <2>1, <2>2, <2>3, <2>4
<1>6. CASE SendUpload(c, r)
  <2>1. at[c] \in {"uploadHeader", "uploadData"} /\ UNCHANGED conn
    BY <1>6 DEF SendUpload
  <2>2. CASE r = "ok" /\ at[c] = "uploadHeader"
    <3>1. Goto(c, "uploadData") /\ UNCHANGED job
      BY <1>6, <2>2 DEF SendUpload
    <3>2. JobFits("uploadData", job[c]) /\ WantData("Upload") \in Expectation
      BY WantLemma DEF JobFits, Opcodes
    <3> QED
      BY <1>1, <1>2, <2>1, <2>2, <3>1, <3>2, PacketsLead, SenderGives, SentGoes
  <2>3. CASE r = "ok" /\ at[c] = "uploadData" /\ left > 0
    <3>1. Goto(c, "sendFile") /\ UNCHANGED job
      BY <1>6, <2>3 DEF SendUpload
    <3>2. JobFits("sendFile", job[c]) /\ WantBlocks(left) \in Expectation
      BY <1>2, <2>3, WantLemma DEF JobFits
    <3> QED
      BY <1>1, <1>2, <2>1, <2>3, <3>1, <3>2, PacketsLead, SenderGives, SentGoes
  <2>4. CASE r = "ok" /\ at[c] = "uploadData" /\ left = 0
    <3>1. WantBlocks(left) = WantHeader
      BY <2>4 DEF WantBlocks
    <3>2. \E s : Return(c, s)
      BY <1>6, <2>4 DEF SendUpload
    <3> QED
      BY <1>1, <1>2, <2>1, <2>4, <3>1, <3>2, PacketsLead, SenderGives, SentReturns
  <2>5. CASE r # "ok"
    <3>1. \E s : Return(c, s)
      BY <1>6, <2>5 DEF SendUpload
    <3> QED
      BY <1>1, <2>1, <2>5, <3>1, SentReturns
  <2> QED
    BY <1>2, <2>1, <2>2, <2>3, <2>4, <2>5
<1>7. CASE SendFile(c, r)
  <2> DEFINE rest == left - ChunkSize(left)
             j == [job[c] EXCEPT !.left = rest]
  <2>1. at[c] = "sendFile" /\ UNCHANGED conn
    BY <1>7 DEF SendFile
  <2>2. rest \in Nat /\ j.left = rest
    BY <1>2, ProtocolAssumption DEF ChunkSize, Job
  <2>3. CASE r = "ok" /\ rest > 0
    <3>1. at' = [at EXCEPT ![c] = "sendFile"] /\ job' = [job EXCEPT ![c] = j]
      <4>1. job' = [job EXCEPT ![c].left = rest] /\ UNCHANGED at
        BY <1>7, <2>3 DEF SendFile
      <4> QED
        BY <2>1, <4>1 DEF TransferInv, ClientInv
    <3>2. JobFits("sendFile", j) /\ WantBlocks(rest) \in Expectation
      BY <2>2, <2>3, WantLemma DEF JobFits
    <3>3. Gives("sendFile", j.left, <<>>) = WantBlocks(rest)
      BY <2>2, SenderGives
    <3>4. Leads(Packets(c), Gives(at[c], left, <<>>), WantBlocks(rest))
      BY <1>2, <2>1, PacketsLead, SenderGives
    <3>5. Packets(c) \in Seq(Unit) /\ Shape("sendFile", j.left, <<>>)
      BY PacketsLemma, EmptyShape DEF TransferInv
    <3> HIDE DEF j, rest
    <3> QED
      BY <1>1, <2>1, <3>1, <3>2, <3>3, <3>4, <3>5, ClientSends DEF Transmits
  <2>4. CASE r = "ok" /\ rest = 0
    <3>1. WantBlocks(rest) = WantHeader
      BY <2>4 DEF WantBlocks
    <3>2. \E s : Return(c, s)
      BY <1>7, <2>4 DEF SendFile
    <3> QED
      BY <1>1, <1>2, <2>1, <2>4, <3>1, <3>2, PacketsLead, SenderGives, SentReturns
  <2>5. CASE r # "ok"
    <3>1. \E s : Return(c, s)
      BY <1>7, <2>5 DEF SendFile
    <3> QED
      BY <1>1, <2>1, <2>5, <3>1, SentReturns
  <2> QED
    BY <2>2, <2>3, <2>4, <2>5
<1>8. CASE SendAsk(c, r)
  <2>1. at[c] \in {"askHeader", "askData"} /\ UNCHANGED conn
    BY <1>8 DEF SendAsk
  <2>2. JobFits("askData", job[c]) /\ JobFits("recvAnswer", job[c])
        /\ WantData("Echo") \in Expectation /\ Owes("answer") \in Expectation
    BY WantLemma DEF JobFits, Opcodes, Replies
  <2>3. CASE r = "ok" /\ at[c] = "askHeader" /\ job[c].op = "Echo"
    <3>1. Goto(c, "askData") /\ UNCHANGED job
      BY <1>8, <2>3 DEF SendAsk
    <3> QED
      BY <1>1, <1>2, <2>1, <2>2, <2>3, <3>1, PacketsLead, SenderGives, SentGoes
  <2>4. CASE r = "ok" /\ at[c] = "askHeader" /\ job[c].op # "Echo"
    <3>1. Goto(c, "recvAnswer") /\ UNCHANGED job
      BY <1>8, <2>4 DEF SendAsk
    <3> QED
      BY <1>1, <1>2, <2>1, <2>2, <2>4, <3>1, PacketsLead, SenderGives, SentGoes
  <2>5. CASE r = "ok" /\ at[c] = "askData"
    <3>1. Goto(c, "recvAnswer") /\ UNCHANGED job
      BY <1>8, <2>5 DEF SendAsk
    <3> QED
      BY <1>1, <1>2, <2>1, <2>2, <2>5, <3>1, PacketsLead, SenderGives, SentGoes
  <2>6. CASE r # "ok"
    BY <1>1, <1>8, <2>1, <2>6, SentReturns DEF SendAsk
  <2> QED
    BY <2>1, <2>3, <2>4, <2>5, <2>6
<1>9. CASE SendClose(c, r)
  <2>1. at[c] = "sendClose" /\ UNCHANGED conn /\ \E s : Return(c, s)
    BY <1>9 DEF SendClose
  <2> QED
    BY <1>1, <1>2, <2>1, PacketsLead, SenderGives, SentReturns
<1> QED
  BY <1>4, <1>5, <1>6, <1>7, <1>8, <1>9 DEF TcpSend

-----------------------------------------------------------------------------
(* What else clients do.                                                   *)

LEMMA ClientDiesInStep ==
    ASSUME TransferInv, InStepInv, UNCHANGED serverVars, UNCHANGED backlog,
           NEW c \in Clients, ClientDies(c), net' = Dropped(c)
    PROVE  InStepInv'
<1>1. /\ at' = [at EXCEPT ![c] = "dead"] /\ job' = [job EXCEPT ![c] = Idle]
      /\ conn' = [conn EXCEPT ![c] = "null"]
  BY DEF ClientDies, Goto
<1>2. "null" \in NoSocket /\ JobFits("dead", Idle)
  BY DEF NoSocket, JobFits
<1> QED
  BY <1>1, <1>2, ClientLeaves

(* A command begins, or the prompt is there again.                         *)
LEMMA CommandBegins ==
    ASSUME TransferInv, InStepInv, UNCHANGED serverVars, UNCHANGED <<conn, net, backlog>>,
           NEW c \in Clients, at[c] \in {"prompt", "ask", "dead"},
           NEW p \in {"prompt", "downloadHeader", "uploadHeader", "askHeader", "sendClose"},
           at' = [at EXCEPT ![c] = p], NEW j \in Job, job' = [job EXCEPT ![c] = j],
           JobFits(p, j)
    PROVE  InStepInv'
<1>1. job[c].left \in Nat /\ j.left \in Nat
  BY KeepLemma DEF TransferInv, Job
<1>2. Gives(p, j.left, <<>>) = WantHeader
  BY <1>1, SenderGives
<1>3. Gives(at[c], job[c].left, <<>>) = WantHeader
  BY DEF Gives
<1>4. Shape(p, j.left, <<>>)
  BY <1>1, EmptyShape
<1> QED
  BY <1>2, <1>3, <1>4, ClientDecides

LEMMA UserDecides ==
    ASSUME TransferInv, InStepInv, UNCHANGED serverVars, UNCHANGED <<net, backlog>>,
           NEW c \in Clients,
           \/ \E yes, canSave \in BOOLEAN : Answer(c, yes, canSave)
           \/ \E name \in Names, canSave \in BOOLEAN : DownloadCmd(c, name, canSave)
           \/ \E name \in Names : UploadCmd(c, name)
           \/ \E op : AskCmd(c, op)
           \/ CloseCmd(c)
           \/ StartClient(c)
    PROVE  InStepInv'
<1>1. /\ ClientInv /\ job[c] \in Job /\ JobFits(at[c], job[c]) /\ local[c] \in [Names -> Entry]
      /\ at \in [Clients -> ClientPlaces] /\ job \in [Clients -> Job]
  BY KeepLemma DEF TransferInv, ClientInv, InStepInv, CommandInv
<1>2. ASSUME NEW s, Return(c, s), UNCHANGED conn, at[c] \in {"prompt", "ask"}
      PROVE  InStepInv'
  BY <1>2, IdleLemma, CommandBegins DEF Return, Goto, JobFits
<1>3. ASSUME NEW name \in Names, NEW start \in Nat, NEW canSave,
             StartDownload(c, name, start, canSave), at[c] \in {"prompt", "ask"}
      PROVE  InStepInv'
  <2>1. CASE canSave
    <3>1. PICK j : j = [Idle EXCEPT !.op = "Download", !.file = name, !.start = start]
      OBVIOUS
    <3>2. j \in Job /\ JobFits("downloadHeader", j)
      BY <3>1, IdleLemma DEF JobFits, Opcodes, Idle
    <3> QED
      BY <1>3, <2>1, <3>1, <3>2, CommandBegins DEF StartDownload, Goto
  <2>2. CASE ~canSave
    BY <1>2, <1>3, <2>2 DEF StartDownload
  <2> QED
    BY <2>1, <2>2
<1>4. CASE \E yes, canSave \in BOOLEAN : Answer(c, yes, canSave)
  <2>1. job[c].file \in Names /\ LocalSize(c, job[c].file) \in Nat
    <3>1. job[c].file \in Names
      BY <1>1 DEF Job
    <3>2. local[c][job[c].file].data \in Seq(Blocks)
      BY <1>1, <3>1 DEF Entry
    <3> QED
      BY <3>1, <3>2, LenProperties DEF LocalSize
  <2> QED
    BY <1>2, <1>3, <1>4, <2>1 DEF Answer
<1>5. CASE \E name \in Names, canSave \in BOOLEAN : DownloadCmd(c, name, canSave)
  BY <1>3, <1>5 DEF DownloadCmd
<1>6. CASE \E name \in Names : UploadCmd(c, name)
  <2>1. PICK name \in Names : UploadCmd(c, name)
    BY <1>6
  <2>2. PICK n : n = Len(local[c][name].data)
    OBVIOUS
  <2>3. n \in Nat
    <3>1. local[c][name].data \in Seq(Blocks)
      BY <1>1 DEF Entry
    <3> QED
      BY <2>2, <3>1, LenProperties
  <2>4. PICK j : j = [Idle EXCEPT !.op = "Upload", !.file = name, !.left = n]
    OBVIOUS
  <2>5. j \in Job /\ JobFits("uploadHeader", j)
    BY <2>3, <2>4, IdleLemma DEF JobFits, Opcodes, Idle
  <2> QED
    BY <2>1, <2>2, <2>4, <2>5, CommandBegins DEF UploadCmd, Goto
<1>7. CASE (\E op : AskCmd(c, op)) \/ CloseCmd(c)
  <2>1. PICK p \in {"askHeader", "sendClose"}, op \in Opcodes :
           /\ p = "askHeader" => op \in {"Echo", "Time"}
           /\ p = "sendClose" => op = "Close"
           /\ at[c] = "prompt" /\ at' = [at EXCEPT ![c] = p]
           /\ job' = [job EXCEPT ![c] = [Idle EXCEPT !.op = op]]
           /\ UNCHANGED conn
    BY <1>7 DEF AskCmd, CloseCmd, Goto, Opcodes
  <2>2. PICK j : j = [Idle EXCEPT !.op = op]
    OBVIOUS
  <2>3. j \in Job /\ JobFits(p, j)
    BY <2>1, <2>2, IdleLemma DEF JobFits, Idle
  <2> QED
    BY <2>1, <2>2, <2>3, CommandBegins
<1>8. CASE StartClient(c)
  <2>1. at[c] = "dead" /\ at' = [at EXCEPT ![c] = "prompt"] /\ UNCHANGED <<conn, job>>
    BY <1>8 DEF StartClient, Goto
  <2>2. job' = [job EXCEPT ![c] = job[c]] /\ JobFits("prompt", job[c])
    BY <1>1, <2>1 DEF JobFits
  <2> QED
    BY <1>1, <2>1, <2>2, CommandBegins
<1> QED
  BY <1>4, <1>5, <1>6, <1>7, <1>8

LEMMA ClientInStep ==
    ASSUME TransferInv, InStepInv, Numbers = Nat, NEW c \in Clients,
           ClientStep(c) \/ UserStep(c) \/ KillClient(c)
    PROVE  InStepInv'
<1>1. UNCHANGED serverVars
  BY DEF ClientStep, UserStep, KillClient
<1>2. CASE TcpReceive(c) \/ TcpSend(c)
  BY <1>1, <1>2, TcpReceiveInStep, TcpSendInStep
<1>3. CASE TcpSendUnconnected(c)
  <2>1. ClientDies(c) /\ UNCHANGED <<net, backlog>> /\ conn[c] \in NoSocket
    BY <1>3 DEF TcpSendUnconnected, SendUnconnected
  <2>2. net' = Dropped(c)
    BY <2>1, ClientAssumption DEF Dropped, Linked
  <2> QED
    BY <1>1, <2>1, <2>2, ClientDiesInStep
<1>4. CASE ClientDies(c) /\ net' = Dropped(c) /\ UNCHANGED backlog
  BY <1>1, <1>4, ClientDiesInStep
<1>5. CASE TcpConnect(c)
  BY <1>1, <1>5, ClientConnects DEF TcpConnect
<1>6. CASE TcpConnectFails(c)
  <2>1. /\ at' = [at EXCEPT ![c] = "prompt"] /\ job' = [job EXCEPT ![c] = Idle]
        /\ conn' = [conn EXCEPT ![c] = "unconnected"]
        /\ net' = Dropped(c) /\ UNCHANGED backlog
    BY <1>6 DEF TcpConnectFails, ConnectFails, Return, Goto
  <2>2. "unconnected" \in NoSocket /\ JobFits("prompt", Idle)
    BY DEF NoSocket, JobFits
  <2> QED
    BY <1>1, <2>1, <2>2, ClientLeaves
<1>7. ASSUME \/ \E yes \in BOOLEAN, canSave \in OpenResults : Answer(c, yes, canSave)
             \/ \E name \in Wanted[c], canSave \in OpenResults : DownloadCmd(c, name, canSave)
             \/ \E name \in Offered[c] : UploadCmd(c, name)
             \/ \E op \in Asks[c] \ {"Close"} : AskCmd(c, op)
             \/ "Close" \in Asks[c] /\ CloseCmd(c)
             \/ StartClient(c),
             UNCHANGED <<net, backlog>>
      PROVE  InStepInv'
  <2>1. Wanted[c] \subseteq Names /\ Offered[c] \subseteq Names /\ OpenResults \subseteq BOOLEAN
    BY TransferAssumption
  <2> QED
    BY <1>1, <1>7, <2>1, UserDecides
<1> QED
  BY <1>1, <1>2, <1>3, <1>4, <1>5, <1>6, <1>7
     DEF ClientStep, UserStep, KillClient, TcpQuit, QuitCmd, TcpClientSigpipe

-----------------------------------------------------------------------------
(* How the steps of the server keep it.                                    *)

(* The server goes on with connection k, or gives it up.                   *)
LEMMA ServerServes ==
    ASSUME TransferInv, Serving(pc), pc \notin {"Listen", "Dead"}, NEW k, k = S
    PROVE  /\ k \in Conns /\ net[k] \in Link /\ cur = Len(clients) /\ Len(clients) \in Nat
           /\ \A l : Serves(l) <=> l = k
<1>1. k \in Conns /\ net[k] \in Link
  BY ServedLemma DEF TransferInv
<1>2. Len(clients) \in Nat /\ cur = Len(clients)
  <2>1. clients \in Seq(Handle) /\ cur \in {Len(clients), Len(clients) + 1}
    BY DEF TransferInv, IInv, TypeOK, HandleInv, ServedHandleIsLast
  <2> QED
    BY <2>1, LenProperties DEF Serving
<1>3. \A l : Serves(l) <=> l = k
  BY DEF Serves, Serving, S
<1> QED
  BY <1>1, <1>2, <1>3

LEMMA ServerGoesOn ==
    ASSUME TransferInv, InStepInv, Serving(pc), pc \notin {"Listen", "Dead"}, NEW k, k = S,
           UNCHANGED clientVars, UNCHANGED <<backlog, cur>>,
           NEW n \in Link, SrvUpdate(n), Whole(n), n.end["srv"] # "closed",
           n.end["cli"] = "closed" <=> net[k].end["cli"] = "closed",
           \/ Len(clients') < Len(clients)
           \/ Len(clients') = Len(clients) /\ clients'[cur].conn = k,
           Len(clients') \in Nat,
           pc' = "RecvData" => packet'.op \in {"Echo", "Download", "Upload"},
           pc' = "Discard" => ul'.left > 0,
           \A c \in Clients : conn[c] = k => Shape(at[c], job[c].left, n.queue["cli"]),
           pc' \notin {"Listen", "Dead"} /\ Len(clients') = Len(clients) =>
              \E y \in Expectation :
                 /\ Leads(n.queue["srv"], Doing', y)
                 /\ \A c \in Clients :
                       conn[c] = k => y = Gives(at[c], job[c].left, n.queue["cli"])
    PROVE  InStepInv'
<1>1. /\ k \in Conns /\ net[k] \in Link /\ cur = Len(clients) /\ Len(clients) \in Nat
      /\ \A l : Serves(l) <=> l = k
  BY ServerServes
<1> DEFINE m == net'[k]
<1>2. /\ m = IF Len(clients') < Len(clients) THEN Close(n, "srv") ELSE n
      /\ \A l \in Conns \ {k} : net'[l] = net[l]
  BY <1>1 DEF SrvUpdate, TransferInv, NetInv
<1>3. /\ Whole(m) /\ m.queue["cli"] = n.queue["cli"]
      /\ m.end["cli"] = "closed" <=> net[k].end["cli"] = "closed"
      /\ Len(clients') = Len(clients) => m = n
  BY <1>1, <1>2, ClosedLemma
<1> HIDE DEF m
<1>4. \A l \in Conns : Serves(l)' => /\ l = k /\ Len(clients') = Len(clients)
                                     /\ pc' \notin {"Listen", "Dead"}
  BY <1>1 DEF Serves, Me
<1>5. k \notin backlog
  BY <1>1 DEF InStepInv, ServiceInv
<1>6. UNCHANGED <<at, conn, job>>
  BY DEF clientVars
<1>7. LinksInv'
  BY <1>1, <1>2, <1>3 DEF InStepInv, LinksInv, m
<1>8. OwnersInv'
  BY <1>6 DEF InStepInv, OwnersInv
<1>9. CommandInv'
  <2>1. ASSUME NEW c \in Clients
        PROVE  /\ JobFits(at[c], job[c])
               /\ conn[c] \in Conns => /\ net'[conn[c]].end["cli"] # "closed"
                                       /\ Shape(at[c], job[c].left, net'[conn[c]].queue["cli"])
    <3>1. /\ JobFits(at[c], job[c])
          /\ conn[c] \in Conns => /\ net[conn[c]].end["cli"] # "closed"
                                  /\ Shape(at[c], job[c].left, net[conn[c]].queue["cli"])
      BY DEF InStepInv, CommandInv
    <3>2. CASE conn[c] = k
      BY <1>1, <1>3, <3>1, <3>2 DEF m
    <3>3. CASE conn[c] # k
      BY <1>2, <3>1, <3>3
    <3> QED
      BY <3>2, <3>3
  <2> QED
    BY <1>6, <2>1 DEF CommandInv
<1>10. ServiceInv'
  <2>1. ASSUME NEW l \in Conns
        PROVE  (Awaited(l)' => net'[l].end["srv"] # "closed") /\ (Serves(l)' => l \notin backlog')
    <3>1. CASE Serves(l)'
      BY <1>3, <1>4, <1>5, <3>1 DEF m
    <3>2. CASE ~Serves(l)' /\ l \in backlog
      <4>1. l # k /\ net[l].end["srv"] # "closed"
        BY <1>5, <3>2 DEF InStepInv, ServiceInv, Awaited
      <4> QED
        BY <1>2, <3>2, <4>1
    <3> QED
      BY <3>1, <3>2 DEF Awaited
  <2> QED
    BY <2>1 DEF ServiceInv
<1>11. ASSUME NEW l \in Conns PROVE Talk(l)'
  <2>1. CASE Serves(l)'
    <3>1. l = k /\ Expects(l)' = Doing' /\ net'[k] = n
      BY <1>3, <1>4, <1>5, <2>1 DEF Expects, m
    <3> QED
      BY <1>4, <1>6, <2>1, <3>1 DEF Talk
  <2>2. CASE ~Serves(l)' /\ l \in backlog
    <3>1. l # k /\ Talk(l) /\ Awaited(l) /\ Expects(l) = WantMac /\ Expects(l)' = WantMac
      BY <1>5, <2>2 DEF InStepInv, Awaited, Expects
    <3> QED
      BY <1>2, <1>6, <3>1 DEF Talk
  <2>3. CASE ~Serves(l)' /\ l \notin backlog
    BY <2>3 DEF Talk, Awaited
  <2> QED
    BY <2>1, <2>2, <2>3
<1> QED
  BY <1>7, <1>8, <1>9, <1>10, <1>11 DEF InStepInv

(* What the server does with the connection, step by step, is one of two   *)
(* things: it reads, or it sends.                                          *)
LEMMA DoingLemma ==
    ASSUME TransferInv' PROVE Doing' \in Expectation
<1>1. packet'.op \in Opcodes /\ packet'.arg \in Nat /\ dl'.left \in Nat /\ ul'.left \in Nat
  BY DEF TransferInv, IInv, TypeOK, Packet
<1> QED
  BY <1>1, WantLemma DEF Doing, Replies

(* Once an end has something to report, the other has closed: nobody is    *)
(* linked to it.                                                           *)
LEMMA ServerAlone ==
    ASSUME TransferInv, InStepInv, Serving(pc), pc \notin {"Listen", "Dead"}, NEW k, k = S
    PROVE  /\ net[k].end["srv"] # "closed" /\ Whole(net[k])
           /\ net[k].end["srv"] # "open" => \A c \in Clients : conn[c] # k
<1>1. k \in Conns /\ Serves(k)
  BY ServerServes
<1>2. net[k].end["srv"] # "closed" /\ Whole(net[k])
  BY <1>1 DEF InStepInv, ServiceInv, LinksInv, Awaited
<1>3. net[k].end["srv"] # "open" => net[k].end["cli"] = "closed"
  BY <1>2 DEF Whole
<1> QED
  BY <1>1, <1>2, <1>3 DEF InStepInv, CommandInv

(* A client that is linked to the connection being served.                 *)
LEMMA ServerTalk ==
    ASSUME TransferInv, InStepInv, Serving(pc), pc \notin {"Listen", "Dead"}, NEW k, k = S
    PROVE  /\ net[k].queue["srv"] \in Seq(Unit) /\ net[k].queue["cli"] \in Seq(Unit)
           /\ \A c \in Clients : conn[c] = k =>
                 Shape(at[c], job[c].left, net[k].queue["cli"]) /\ job[c].left \in Nat
           /\ \E y \in Expectation :
                 /\ Leads(net[k].queue["srv"], Doing, y)
                 /\ \A c \in Clients :
                       conn[c] = k => y = Gives(at[c], job[c].left, net[k].queue["cli"])
<1>1. k \in Conns /\ Serves(k) /\ net[k] \in Link
  BY ServerServes
<1>2. net[k].queue["srv"] \in Seq(Unit) /\ net[k].queue["cli"] \in Seq(Unit)
  BY <1>1 DEF Link, Ends
<1>3. \A c \in Clients : conn[c] = k =>
                 Shape(at[c], job[c].left, net[k].queue["cli"]) /\ job[c].left \in Nat
  BY <1>1, KeepLemma DEF TransferInv, Job, InStepInv, CommandInv
<1>4. Expects(k) = Doing /\ Awaited(k)
  BY <1>1 DEF Expects, Awaited, InStepInv, ServiceInv
<1>5. \E y \in Expectation :
                 /\ Leads(net[k].queue["srv"], Doing, y)
                 /\ \A c \in Clients :
                       conn[c] = k => y = Gives(at[c], job[c].left, net[k].queue["cli"])
  BY <1>1, <1>4 DEF InStepInv, Talk
<1> QED
  BY <1>2, <1>3, <1>5

(* After u units, what is left leads to where all of it led before.        *)
LeadsOn(u) ==
    pc' \notin {"Listen", "Dead"} /\ SrvQueue # <<>> =>
        \A y : Leads(SrvQueue, Doing, y)
                  => Leads(SubSeq(SrvQueue, u + 1, Len(SrvQueue)), Doing', y)

LEMMA ServerReads ==
    ASSUME TransferInv, TransferInv', InStepInv, Serving(pc), pc \notin {"Listen", "Dead"},
           UNCHANGED clientVars, UNCHANGED cur, NEW u \in Nat, SrvReads(u), LeadsOn(u),
           SrvRecv \in Received,
           \/ Len(clients') < Len(clients)
           \/ Len(clients') = Len(clients) /\ clients'[cur].conn = S,
           Len(clients') \in Nat,
           pc' = "RecvData" => packet'.op \in {"Echo", "Download", "Upload"},
           pc' = "Discard" => ul'.left > 0
    PROVE  InStepInv'
<1>1. PICK k : k = S
  OBVIOUS
<1>2. k \in Conns /\ net[k] \in Link /\ SrvQueue = net[k].queue["srv"]
  BY <1>1, ServerServes DEF SrvQueue
<1>3. /\ net[k].end["srv"] # "closed" /\ Whole(net[k])
      /\ net[k].end["srv"] # "open" => \A c \in Clients : conn[c] # k
  BY <1>1, ServerAlone
<1>4. /\ net[k].queue["srv"] \in Seq(Unit) /\ net[k].queue["cli"] \in Seq(Unit)
      /\ \A c \in Clients : conn[c] = k => Shape(at[c], job[c].left, net[k].queue["cli"])
  BY <1>1, ServerTalk
<1>5. PICK y \in Expectation :
         /\ Leads(net[k].queue["srv"], Doing, y)
         /\ \A c \in Clients : conn[c] = k => y = Gives(at[c], job[c].left, net[k].queue["cli"])
  BY <1>1, ServerTalk
<1>6. PICK n : n = AfterRecv(net[k], "srv", u)
  OBVIOUS
<1>7. n \in Link /\ SrvUpdate(n) /\ UNCHANGED backlog
  BY <1>1, <1>2, <1>6, AfterRecvLemma DEF SrvReads, Ends
<1>8. /\ net[k].queue \in [Ends -> Seq(Unit)] /\ net[k].end \in [Ends -> EndStates]
      /\ net[k] = [end |-> net[k].end, queue |-> net[k].queue]
  BY <1>2 DEF Link
<1>9. CASE SrvQueue # <<>>
  <2>1. /\ n.end = net[k].end /\ n.queue["cli"] = net[k].queue["cli"]
        /\ n.queue["srv"] = SubSeq(SrvQueue, u + 1, Len(SrvQueue))
    BY <1>2, <1>6, <1>8, <1>9 DEF AfterRecv, Ends
  <2>2. Whole(n) /\ n.end["srv"] # "closed"
    BY <1>3, <2>1 DEF Whole
  <2>3. pc' \notin {"Listen", "Dead"} => Leads(n.queue["srv"], Doing', y)
    BY <1>2, <1>5, <1>9, <2>1 DEF LeadsOn
  <2>4. pc' \notin {"Listen", "Dead"} =>
           \E z \in Expectation :
              /\ Leads(n.queue["srv"], Doing', z)
              /\ \A c \in Clients : conn[c] = k => z = Gives(at[c], job[c].left, n.queue["cli"])
    BY <1>5, <2>1, <2>3
  <2>5. \A c \in Clients : conn[c] = k => Shape(at[c], job[c].left, n.queue["cli"])
    BY <1>4, <2>1
  <2> QED
    BY <1>1, <1>7, <2>1, <2>2, <2>4, <2>5, ServerGoesOn
<1>10. CASE SrvQueue = <<>>
  <2>1. net[k].end["srv"] # "open"
    BY <1>1, <1>2, <1>10, ErrorKinds DEF SrvRecv, RecvResult
  <2>2. /\ n.queue = net[k].queue /\ n.end["cli"] = net[k].end["cli"]
        /\ n.end["srv"] = net[k].end["srv"] \/ n.end["srv"] = "broken"
    BY <1>2, <1>6, <1>8, <1>10 DEF AfterRecv, Ends
  <2>3. Whole(n) /\ n.end["srv"] # "closed"
    BY <1>3, <2>1, <2>2 DEF Whole
  <2>4. n.queue["srv"] = <<>> /\ Leads(<<>>, Doing', Doing') /\ Doing' \in Expectation
    BY <1>2, <1>10, <2>2, DoingLemma, LeadsNowhere
  <2> QED
    BY <1>1, <1>3, <1>7, <2>1, <2>2, <2>3, <2>4, ServerGoesOn
<1> QED
  BY <1>9, <1>10

LEMMA ServerWrites ==
    ASSUME TransferInv, TransferInv', InStepInv, Serving(pc), pc \notin {"Listen", "Dead"},
           UNCHANGED clientVars, UNCHANGED cur, NEW units \in Seq(Unit), SrvWrites(units),
           \/ Len(clients') < Len(clients)
           \/ Len(clients') = Len(clients) /\ clients'[cur].conn = S,
           Len(clients') \in Nat,
           pc' \notin {"RecvData", "Discard"},
           Doing.t \in {"reply", "stream"},
           \A p \in ClientPlaces, left \in Nat, q \in Seq(Unit) :
              Shape(p, left, q) /\ Gives(p, left, q) = Doing =>
                 /\ Shape(p, left, q \o units)
                 /\ net[S].end["srv"] = "open" /\ pc' \notin {"Listen", "Dead"} =>
                       Gives(p, left, q \o units) = Doing'
    PROVE  InStepInv'
<1>1. PICK k : k = S
  OBVIOUS
<1>2. k \in Conns /\ net[k] \in Link
  BY <1>1, ServerServes
<1>3. /\ net[k].end["srv"] # "closed" /\ Whole(net[k])
      /\ net[k].end["srv"] # "open" => \A c \in Clients : conn[c] # k
  BY <1>1, ServerAlone
<1>4. /\ net[k].queue["srv"] \in Seq(Unit) /\ net[k].queue["cli"] \in Seq(Unit)
      /\ \A c \in Clients : conn[c] = k => Shape(at[c], job[c].left, net[k].queue["cli"])
                                           /\ job[c].left \in Nat
  BY <1>1, ServerTalk
<1>5. PICK y \in Expectation :
         /\ Leads(net[k].queue["srv"], Doing, y)
         /\ \A c \in Clients : conn[c] = k => y = Gives(at[c], job[c].left, net[k].queue["cli"])
  BY <1>1, ServerTalk
<1>6. net[k].queue["srv"] = <<>> /\ y = Doing
  BY <1>4, <1>5, SenderLeads
<1>7. PICK n \in AfterSend(net[k], "srv", units) : SrvUpdate(n) /\ UNCHANGED backlog
  BY <1>1 DEF SrvWrites
<1>8. n \in Link
  BY <1>2, <1>7, AfterSendLemma DEF Ends
<1>9. /\ net[k].queue \in [Ends -> Seq(Unit)] /\ net[k].end \in [Ends -> EndStates]
      /\ net[k] = [end |-> net[k].end, queue |-> net[k].queue]
  BY <1>2 DEF Link
<1>10. Leads(<<>>, Doing', Doing') /\ Doing' \in Expectation
  BY DoingLemma, LeadsNowhere
<1>11. CASE net[k].end["srv"] = "open"
  <2>1. n = [net[k] EXCEPT !.queue["cli"] = @ \o units]
    BY <1>7, <1>11 DEF AfterSend, Other
  <2>2. /\ n.end = net[k].end /\ n.queue["srv"] = <<>>
        /\ n.queue["cli"] = net[k].queue["cli"] \o units
    BY <1>6, <1>9, <2>1 DEF Ends
  <2>3. Whole(n) /\ n.end["srv"] # "closed"
    BY <1>3, <2>2 DEF Whole
  <2>4. \A c \in Clients : conn[c] = k =>
           /\ Shape(at[c], job[c].left, n.queue["cli"])
           /\ pc' \notin {"Listen", "Dead"} =>
                 Gives(at[c], job[c].left, n.queue["cli"]) = Doing'
    <3>1. SUFFICES ASSUME NEW c \in Clients, conn[c] = k
                   PROVE  /\ Shape(at[c], job[c].left, n.queue["cli"])
                          /\ pc' \notin {"Listen", "Dead"} =>
                                Gives(at[c], job[c].left, n.queue["cli"]) = Doing'
      OBVIOUS
    <3>2. PICK p, left, q : p = at[c] /\ left = job[c].left /\ q = net[k].queue["cli"]
      OBVIOUS
    <3>3. Shape(p, left, q) /\ Gives(p, left, q) = Doing
      BY <1>4, <1>5, <1>6, <3>1, <3>2
    <3>4. /\ Shape(p, left, q \o units)
          /\ pc' \notin {"Listen", "Dead"} => Gives(p, left, q \o units) = Doing'
      <4>1. p \in ClientPlaces /\ left \in Nat /\ q \in Seq(Unit)
        BY <1>4, <3>1, <3>2, KeepLemma DEF TransferInv
      <4> QED
        BY <1>1, <1>11, <3>3, <4>1
    <3> QED
      BY <2>2, <3>2, <3>4
  <2> QED
    BY <1>1, <1>7, <1>8, <1>10, <2>2, <2>3, <2>4, ServerGoesOn
<1>12. CASE net[k].end["srv"] # "open"
  <2>1. n = net[k] \/ n = [net[k] EXCEPT !.end["srv"] = "broken"]
    BY <1>2, <1>7, <1>12 DEF AfterSend
  <2>2. /\ n.queue = net[k].queue /\ n.end["cli"] = net[k].end["cli"]
        /\ n.end["srv"] = net[k].end["srv"] \/ n.end["srv"] = "broken"
    BY <1>9, <2>1 DEF Ends
  <2>3. Whole(n) /\ n.end["srv"] # "closed" /\ n.queue["srv"] = <<>>
    BY <1>3, <1>6, <1>12, <2>2 DEF Whole
  <2> QED
    BY <1>1, <1>3, <1>7, <1>8, <1>10, <1>12, <2>2, <2>3, ServerGoesOn
<1> QED
  BY <1>11, <1>12

(* CheckFail removes the handle being served, or leaves it as it is.       *)
LEMMA CheckedLemma ==
    ASSUME TransferInv, NEW p, Serving(p), NEW cs \in Seq(Handle), Len(cs) = Len(clients),
           cs[cur].conn = S, NEW st, clients' = AfterCheckFail(cs, st)
    PROVE  /\ \/ Len(clients') < Len(clients)
              \/ Len(clients') = Len(clients) /\ clients'[cur].conn = S
           /\ Len(clients') \in Nat
<1>1. Len(cs) \in Nat /\ cur \in 1..Len(cs)
  BY LenProperties DEF Serving
<1>2. SwapRemove(cs, cur) \in Seq(Handle) /\ Len(SwapRemove(cs, cur)) = Len(cs) - 1
  BY <1>1, SwapRemoveLemma
<1> QED
  BY <1>1, <1>2 DEF AfterCheckFail

LEMMA ServedKept ==
    ASSUME TransferInv, NEW p, Serving(p)
    PROVE  /\ clients \in Seq(Handle) /\ clients[cur].conn = S /\ Len(clients) \in Nat
           /\ UNCHANGED <<clients, cur>> =>
                 Len(clients') = Len(clients) /\ clients'[cur].conn = S /\ Len(clients') \in Nat
<1>1. clients \in Seq(Handle) /\ clients[cur].conn = S
  BY DEF TransferInv, IInv, TypeOK, S, Me
<1> QED
  BY <1>1, LenProperties

(* What the server reads is what it expects.                               *)
LEMMA ReadsRight ==
    ASSUME TransferInv, InStepInv, Serving(pc), pc \notin {"Listen", "Dead"}, SrvQueue # <<>>
    PROVE  /\ SrvQueue \in Seq(Unit) /\ Head(SrvQueue) \in Unit /\ SrvRecv = "ok"
           /\ Head(SrvQueue).t = Doing.t
           /\ \A y : Leads(SrvQueue, Doing, y) =>
                 Leads(SubSeq(SrvQueue, 1 + 1, Len(SrvQueue)),
                       AfterUnit(Doing, Head(SrvQueue)), y)
<1>1. SrvQueue \in Seq(Unit) /\ \E y : Leads(SrvQueue, Doing, y)
  BY ServerTalk DEF SrvQueue
<1>2. Head(SrvQueue) \in Unit
  BY <1>1, HeadTailProperties
<1>3. SrvRecv = "ok"
  BY DEF SrvRecv, RecvResult, SrvQueue
<1>4. 1 + 1 = 2
  OBVIOUS
<1> QED
  BY <1>1, <1>2, <1>3, <1>4, FirstLeads

LEMMA MacRead ==
    ASSUME TcpRecvMac, pc' \notin {"Listen", "Dead"}
    PROVE  AfterUnit(Doing, Head(SrvQueue)) = Doing'
<1>1. pc = "RecvMac" /\ pc' = "Greet"
  BY DEF TcpRecvMac, RecvMac, Serving
<1> QED
  BY <1>1 DEF Doing, AfterUnit, WantMac, Want

LEMMA HeaderRead ==
    ASSUME TransferInv, InStepInv, TcpRecvHeader, pc' \notin {"Listen", "Dead"},
           SrvQueue # <<>>
    PROVE  AfterUnit(Doing, Head(SrvQueue)) = Doing'
<1>1. Serving(pc) /\ pc = "RecvHeader"
  BY DEF TcpRecvHeader, Serving
<1>2. PICK op \in IF SrvRecv = "ok" THEN OpsIn(Head(SrvQueue)) ELSE {"None"} :
         RecvHeader(SrvRecv, op, HasData(op), 0, SomeName)
  BY DEF TcpRecvHeader
<1>3. Head(SrvQueue).t = "header" /\ SrvRecv = "ok" /\ Doing = WantHeader
  BY <1>1, ReadsRight DEF Doing, WantHeader, Want
<1>4. op = Head(SrvQueue).op
  BY <1>2, <1>3 DEF OpsIn
<1>5. /\ pc' = AfterHeader(op, HasData(op)) /\ pc' # "Listen"
      /\ pc' \in {"RecvData", "Reply"} => packet'.op = op
  BY <1>2, <1>3, ErrorKinds DEF RecvHeader, NoPacket
<1>6. Doing' = AfterOp(op)
  BY <1>5 DEF Doing, AfterHeader, Handler, HasData, AfterOp
<1> QED
  BY <1>3, <1>4, <1>6 DEF AfterUnit, WantHeader, Want

LEMMA DataRead ==
    ASSUME TransferInv, InStepInv, TcpRecvData, pc' \notin {"Listen", "Dead"},
           SrvQueue # <<>>
    PROVE  AfterUnit(Doing, Head(SrvQueue)) = Doing'
<1>1. Serving(pc) /\ pc = "RecvData"
  BY DEF TcpRecvData, Serving
<1>2. packet \in Packet /\ packet.op \in {"Echo", "Download", "Upload"}
  BY <1>1 DEF InStepInv, ServiceInv, TransferInv, IInv, TypeOK
<1>3. Head(SrvQueue).t = "data" /\ SrvRecv = "ok" /\ Doing = WantData(packet.op)
  BY <1>1, ReadsRight DEF Doing, WantData, Want
<1>4. RecvData("ok", Head(SrvQueue).arg, Head(SrvQueue).name)
  BY <1>3 DEF TcpRecvData, DataIn
<1>5. pc' = Handler(packet.op) /\ packet'.arg = Head(SrvQueue).arg
  BY <1>2, <1>4 DEF RecvData, Packet
<1>6. Doing' = AfterData(packet.op, Head(SrvQueue).arg)
  BY <1>2, <1>5 DEF Doing, Handler, AfterData
<1> QED
  BY <1>3, <1>6 DEF AfterUnit, WantData, Want

LEMMA UnitLeads ==
    ASSUME TransferInv, InStepInv, TcpRecvMac \/ TcpRecvHeader \/ TcpRecvData
    PROVE  SrvReads(1) /\ LeadsOn(1)
<1>1. /\ SrvReads(1) /\ Serving(pc) /\ pc \notin {"Listen", "Dead"}
  BY DEF TcpRecvMac, TcpRecvHeader, TcpRecvData, Serving
<1>2. ASSUME pc' \notin {"Listen", "Dead"}, SrvQueue # <<>>
      PROVE  AfterUnit(Doing, Head(SrvQueue)) = Doing'
  BY <1>2, MacRead, HeaderRead, DataRead
<1> QED
  BY <1>1, <1>2, ReadsRight DEF LeadsOn

(* Some of the blocks of an upload are read, and as many fewer are to come.*)
LEMMA BlocksRead ==
    ASSUME TransferInv, InStepInv, Serving(pc), pc \in {"RecvChunk", "Discard"}, ul.left > 0,
           NEW d \in BlocksAt(SrvQueue, ul.left)
    PROVE  /\ Len(d) \in Nat /\ ul.left - Len(d) \in Nat
           /\ \A y : Leads(SrvQueue, Doing, y) =>
                 Leads(SubSeq(SrvQueue, Len(d) + 1, Len(SrvQueue)),
                       WantBlocks(ul.left - Len(d)), y)
<1>1. SrvQueue \in Seq(Unit) /\ ul.left \in Nat
  BY ServedLemma DEF TransferInv, IInv, TypeOK
<1>2. Len(d) \in 1..Len(SrvQueue) /\ Len(d) <= ul.left /\ Len(d) \in Nat
  BY <1>1, ChunkFits
<1>3. Doing = WantBlocks(ul.left)
  BY DEF Doing
<1> QED
  BY <1>1, <1>2, <1>3, BlocksLead

LEMMA BlocksLeft ==
    ASSUME TransferInv, InStepInv, TcpRecvChunk \/ TcpDiscard
    PROVE  \E u \in Nat : SrvReads(u) /\ LeadsOn(u)
<1>1. Serving(pc) /\ pc \in {"RecvChunk", "Discard"} /\ SrvRecv \in Received
  BY DEF TcpRecvChunk, TcpDiscard, Serving
<1>2. ul.left > 0 /\ ul \in [name : Names, size : Nat, left : Nat]
  BY <1>1 DEF TransferInv, IInv, UploadInv, TypeOK, InStepInv, ServiceInv
<1>3. CASE SrvQueue # <<>>
  <2>1. SrvRecv = "ok"
    BY <1>1, <1>3, ReadsRight
  <2>2. PICK d \in BlocksAt(SrvQueue, ul.left) :
           SrvReads(Len(d)) /\ (RecvChunk("ok", d) \/ Discard("ok", Len(d)))
    BY <2>1 DEF TcpRecvChunk, TcpDiscard
  <2>3. Len(d) \in Nat /\ ul.left - Len(d) \in Nat
    BY <1>1, <1>2, <2>2, BlocksRead
  <2>4. /\ pc' \in {"RecvChunk", "RecvHeader", "Discard", "Listen"}
        /\ pc' \in {"RecvChunk", "Discard"} => ul'.left = ul.left - Len(d)
        /\ pc' = "RecvHeader" => ul.left - Len(d) = 0
    BY <1>2, <2>2, <2>3, ErrorKinds DEF RecvChunk, UploadDone, Discard
  <2>5. pc' # "Listen" => Doing' = WantBlocks(ul.left - Len(d))
    BY <2>4 DEF Doing, WantBlocks
  <2> QED
    BY <1>1, <1>2, <2>2, <2>3, <2>5, BlocksRead DEF LeadsOn
<1>4. CASE SrvQueue = <<>>
  <2>1. SrvRecv # "ok"
    BY <1>4 DEF SrvRecv, SrvQueue, RecvResult
  <2>2. SrvReads(0)
    BY <2>1 DEF TcpRecvChunk, TcpDiscard
  <2> QED
    BY <1>4, <2>2 DEF LeadsOn
<1> QED
  BY <1>3, <1>4

LEMMA TcpRecvMacInStep ==
    ASSUME TransferInv, TransferInv', InStepInv, UNCHANGED clientVars, TcpRecvMac
    PROVE  InStepInv'
<1>1. Serving("RecvMac") /\ pc = "RecvMac" /\ SrvRecv \in Received
  BY DEF TcpRecvMac, Serving
<1>2. PICK m \in IF SrvRecv = "ok" THEN MacsIn(Head(SrvQueue)) ELSE {ZeroMac} :
         RecvMac(SrvRecv, m)
  BY DEF TcpRecvMac
<1>3. /\ \/ Len(clients') < Len(clients)
         \/ Len(clients') = Len(clients) /\ clients'[cur].conn = S
      /\ Len(clients') \in Nat
  <2>1. clients \in Seq(Handle) /\ clients[cur].conn = S /\ S \in Conns /\ cur \in 1..Len(clients)
    BY <1>1, ServedKept, ServedLemma DEF TransferInv, Serving
  <2>2. m \in Macs
    <3>1. SrvRecv = "ok" => Head(SrvQueue) \in Unit
      BY <1>1, ServedLemma DEF TransferInv
    <3> QED
      BY <1>2, <3>1, ServerAssumption DEF MacsIn, Unit
  <2>3. PICK cs : cs = IF SrvRecv = "ok" THEN [clients EXCEPT ![cur] = [conn |-> Me.conn, mac |-> m]]
                                         ELSE clients
    OBVIOUS
  <2>4. cs \in Seq(Handle) /\ Len(cs) = Len(clients) /\ cs[cur].conn = S
    <3>1. [conn |-> Me.conn, mac |-> m] \in Handle
      BY <2>1, <2>2 DEF Handle, S
    <3> QED
      BY <2>1, <2>3, <3>1, ExceptSeq DEF S
  <2>5. \E st : clients' = AfterCheckFail(cs, st)
    BY <1>2, <2>3 DEF RecvMac
  <2> QED
    BY <1>1, <2>4, <2>5, CheckedLemma
<1>4. pc' \in {"Listen", "Greet"} /\ UNCHANGED cur
  BY <1>2 DEF RecvMac
<1> QED
  BY <1>1, <1>3, <1>4, UnitLeads, ServerReads

LEMMA TcpRecvHeaderInStep ==
    ASSUME TransferInv, TransferInv', InStepInv, UNCHANGED clientVars, TcpRecvHeader
    PROVE  InStepInv'
<1>1. Serving("RecvHeader") /\ pc = "RecvHeader" /\ SrvRecv \in Received
  BY DEF TcpRecvHeader, Serving
<1>2. PICK op : RecvHeader(SrvRecv, op, HasData(op), 0, SomeName)
  BY DEF TcpRecvHeader
<1>3. /\ \/ Len(clients') < Len(clients)
         \/ Len(clients') = Len(clients) /\ clients'[cur].conn = S
      /\ Len(clients') \in Nat
  BY <1>1, <1>2, ServedKept, CheckedLemma DEF RecvHeader
<1>4. /\ UNCHANGED cur /\ pc' # "Discard"
      /\ pc' = "RecvData" => packet'.op \in {"Echo", "Download", "Upload"}
  BY <1>2 DEF RecvHeader, AfterHeader, Handler, HasData, NoPacket
<1> QED
  BY <1>1, <1>3, <1>4, UnitLeads, ServerReads

LEMMA TcpRecvDataInStep ==
    ASSUME TransferInv, TransferInv', InStepInv, UNCHANGED clientVars, TcpRecvData
    PROVE  InStepInv'
<1>1. Serving("RecvData") /\ pc = "RecvData" /\ SrvRecv \in Received
  BY DEF TcpRecvData, Serving
<1>2. PICK r, arg, name : RecvData(r, arg, name)
  BY DEF TcpRecvData
<1>3. packet \in Packet /\ packet.op \in {"Echo", "Download", "Upload"}
  BY <1>1 DEF InStepInv, ServiceInv, TransferInv, IInv, TypeOK
<1>4. UNCHANGED <<clients, cur>> /\ pc' \notin {"RecvData", "Discard"}
  BY <1>2, <1>3 DEF RecvData, Handler
<1> QED
  BY <1>1, <1>4, ServedKept, UnitLeads, ServerReads

LEMMA TcpRecvChunkInStep ==
    ASSUME TransferInv, TransferInv', InStepInv, UNCHANGED clientVars, TcpRecvChunk
    PROVE  InStepInv'
<1>1. Serving("RecvChunk") /\ pc = "RecvChunk" /\ SrvRecv \in Received
  BY DEF TcpRecvChunk, Serving
<1>2. PICK r, d : RecvChunk(r, d)
  BY DEF TcpRecvChunk
<1>3. /\ \/ Len(clients') < Len(clients)
         \/ Len(clients') = Len(clients) /\ clients'[cur].conn = S
      /\ Len(clients') \in Nat
  BY <1>1, <1>2, ServedKept, CheckedLemma DEF RecvChunk
<1>4. UNCHANGED cur /\ pc' \in {"Listen", "RecvChunk", "RecvHeader"}
  BY <1>2 DEF RecvChunk, UploadDone
<1> QED
  BY <1>1, <1>3, <1>4, BlocksLeft, ServerReads

LEMMA TcpDiscardInStep ==
    ASSUME TransferInv, TransferInv', InStepInv, UNCHANGED clientVars, TcpDiscard
    PROVE  InStepInv'
<1>1. Serving("Discard") /\ pc = "Discard" /\ SrvRecv \in Received
  BY DEF TcpDiscard, Serving
<1>2. ul.left > 0 /\ ul \in [name : Names, size : Nat, left : Nat]
  BY <1>1 DEF TransferInv, IInv, TypeOK, InStepInv, ServiceInv
<1>3. PICK r, n : Discard(r, n)
  BY DEF TcpDiscard
<1>4. /\ \/ Len(clients') < Len(clients)
         \/ Len(clients') = Len(clients) /\ clients'[cur].conn = S
      /\ Len(clients') \in Nat
  BY <1>1, <1>3, ServedKept, CheckedLemma DEF Discard
<1>5. UNCHANGED cur /\ pc' \in {"Listen", "Discard"} /\ (pc' = "Discard" => ul'.left > 0)
  <2>1. n \in 1..ChunkSize(ul.left) => n \in Nat
    BY <1>2, ProtocolAssumption DEF ChunkSize
  <2> QED
    BY <1>2, <1>3, <2>1 DEF Discard
<1> QED
  BY <1>1, <1>4, <1>5, BlocksLeft, ServerReads

(* What an upload request announces is what the server then waits for, or  *)
(* throws away.                                                            *)
LEMMA UploadKeeps ==
    ASSUME TransferInv, TcpUpload
    PROVE  /\ Serving("Upload") /\ pc = "Upload" /\ UNCHANGED <<net, backlog, clients, cur>>
           /\ pc' \in {"Listen", "RecvChunk", "Discard"}
           /\ pc' # "Listen" => ul'.left > 0 /\ Doing' = Doing
<1>1. PICK canOpen \in OpenResults : Upload(canOpen)
  BY DEF TcpUpload
<1>2. Serving("Upload") /\ pc = "Upload" /\ UNCHANGED <<net, backlog>>
  BY <1>1 DEF TcpUpload, SrvLocal, Upload, Serving
<1>3. packet.arg \in Nat
  BY DEF TransferInv, IInv, TypeOK, Packet
<1>4. /\ UNCHANGED <<clients, cur>>
      /\ pc' \in {"Listen", "RecvChunk", "Discard"}
      /\ pc' # "Listen" => ul'.left = packet.arg /\ packet.arg > 0
  BY <1>1, <1>3 DEF Upload
<1>5. pc' # "Listen" => Doing' = Doing
  BY <1>2, <1>4 DEF Doing
<1> QED
  BY <1>2, <1>4, <1>5

LEMMA TcpUploadInStep ==
    ASSUME TransferInv, TransferInv', InStepInv, UNCHANGED clientVars, TcpUpload
    PROVE  InStepInv'
<1>1. PICK k : k = S
  OBVIOUS
<1>2. Serving("Upload") /\ pc = "Upload" /\ UNCHANGED <<net, backlog, clients, cur>>
  BY UploadKeeps
<1>3. k \in Conns /\ net[k] \in Link
  BY <1>1, <1>2, ServerServes
<1>4. net[k].end["srv"] # "closed" /\ Whole(net[k])
  BY <1>1, <1>2, ServerAlone
<1>5. /\ \A c \in Clients : conn[c] = k => Shape(at[c], job[c].left, net[k].queue["cli"])
      /\ \E y \in Expectation :
            /\ Leads(net[k].queue["srv"], Doing, y)
            /\ \A c \in Clients :
                  conn[c] = k => y = Gives(at[c], job[c].left, net[k].queue["cli"])
  BY <1>1, <1>2, ServerTalk
<1>6. SrvUpdate(net[k])
  BY <1>1, <1>2, <1>3, ServedKept DEF SrvUpdate, TransferInv, NetInv
<1> QED
  BY <1>1, <1>2, <1>3, <1>4, <1>5, <1>6, UploadKeeps, ServedKept, ServerGoesOn

(* Where a client is whose server is about to send.                        *)
LEMMA ReaderPlaces ==
    ASSUME NEW p \in ClientPlaces, NEW left \in Nat, NEW q \in Seq(Unit), Shape(p, left, q)
    PROVE  /\ Gives(p, left, q) = Owes("greeting") => p = "recvGreeting" /\ q = <<>>
           /\ Gives(p, left, q) = Owes("stamp") =>
                 \/ /\ p = "recvGreeting" /\ Len(q) = 1
                    /\ q[1].t = "header" /\ q[1].op = "DownloadRecovery"
                 \/ p = "recvStamp" /\ q = <<>>
           /\ Gives(p, left, q) = Owes("answer") => p = "recvAnswer" /\ q = <<>>
           /\ Gives(p, left, q) = Owes("response") => p = "recvResponse" /\ q = <<>>
           /\ \A n \in Nat \ {0} : Gives(p, left, q) = Streams(n) =>
                 \/ /\ p = "recvResponse" /\ Len(q) >= 1 /\ q[1].ready
                    /\ q[1].total - (Len(q) - 1) = n
                 \/ p = "recvFile" /\ left - Len(q) = n
<1> DEFINE len == Len(q)
<1>1. len \in Nat /\ (len = 0 <=> q = <<>>)
  BY LenProperties, EmptySeq
<1>2. /\ \A r \in Replies : Owes(r).t = "reply" /\ Owes(r).op = r
      /\ WantMac.t = "mac" /\ WantHeader.t = "header"
      /\ \A op : WantData(op).t = "data"
      /\ \A n : WantBlocks(n).t \in {"header", "block"}
      /\ \A n : /\ Streams(n).t \in {"header", "stream"}
                /\ n # 0 => Streams(n).t = "stream"
                /\ Streams(n).t = "stream" => Streams(n).n = n
  BY DEF Owes, WantMac, WantHeader, WantData, WantBlocks, Streams, Want
<1>3. CASE p = "recvGreeting"
  <2>1. len = 0 \/ len = 1 \/ len = 2
    <3>1. len <= 2
      BY <1>3 DEF Shape
    <3> HIDE DEF len
    <3> QED
      BY <1>1, <3>1
  <2>2. len >= 1 => q[1].t = "header"
    BY <1>3 DEF Shape
  <2>3. Gives(p, left, q) = IF len = 0 THEN Owes("greeting")
                            ELSE IF q[1].op = "DownloadRecovery" /\ len = 1
                                 THEN Owes("stamp") ELSE WantHeader
    BY <1>3 DEF Gives
  <2> HIDE DEF len
  <2> QED
    BY <1>1, <1>2, <1>3, <2>1, <2>2, <2>3 DEF Replies, len
<1>4. CASE p = "recvStamp"
  BY <1>1, <1>2, <1>4 DEF Gives, Replies
<1>5. CASE p = "recvAnswer"
  BY <1>1, <1>2, <1>5 DEF Gives, Replies
<1>6. CASE p = "recvResponse"
  <2>1. Gives(p, left, q) = IF len = 0 THEN Owes("response")
                            ELSE IF q[1].ready THEN Streams(q[1].total - (len - 1))
                                 ELSE WantHeader
    BY <1>6 DEF Gives
  <2>2. len # 0 => len >= 1
    BY <1>1
  <2> HIDE DEF len
  <2> QED
    BY <1>1, <1>2, <1>6, <2>1, <2>2 DEF Replies, len
<1>7. CASE p = "recvFile"
  <2>1. Gives(p, left, q) = Streams(left - len)
    BY <1>7 DEF Gives
  <2> HIDE DEF len
  <2> QED
    BY <1>1, <1>2, <1>7, <2>1 DEF Replies, len
<1>8. CASE p \notin {"recvGreeting", "recvStamp", "recvAnswer", "recvResponse", "recvFile"}
  <2>1. Gives(p, left, q).t \in {"mac", "header", "data", "block"}
    BY <1>2, <1>8 DEF Gives
  <2> QED
    BY <1>2, <2>1 DEF Replies
<1> QED
  BY <1>3, <1>4, <1>5, <1>6, <1>7, <1>8

(* What it has when that has come.                                         *)
LEMMA Greeted ==
    ASSUME NEW left, NEW op \in {"None", "DownloadRecovery"}
    PROVE  /\ Shape("recvGreeting", left, <<>> \o <<Header(op)>>)
           /\ Gives("recvGreeting", left, <<>> \o <<Header(op)>>) =
                 IF op = "DownloadRecovery" THEN Owes("stamp") ELSE WantHeader
<1>1. PICK q : q = <<>> \o <<Header(op)>>
  OBVIOUS
<1>2. Len(q) = 1 /\ q[1].t = "header" /\ q[1].op = op
  BY <1>1 DEF Header
<1> QED
  BY <1>1, <1>2 DEF Shape, Gives

LEMMA Stamped ==
    ASSUME NEW left, NEW arg \in Nat, NEW name \in Names
    PROVE  /\ Shape("recvStamp", left, <<>> \o <<Data(arg, name, <<>>)>>)
           /\ Gives("recvStamp", left, <<>> \o <<Data(arg, name, <<>>)>>) = WantHeader
           /\ \A q \in Seq(Unit) :
                 Len(q) = 1 /\ q[1].t = "header" /\ q[1].op = "DownloadRecovery" =>
                    /\ Shape("recvGreeting", left, q \o <<Data(arg, name, <<>>)>>)
                    /\ Gives("recvGreeting", left, q \o <<Data(arg, name, <<>>)>>) = WantHeader
<1>1. PICK u : u = Data(arg, name, <<>>)
  OBVIOUS
<1>2. u.t = "data" /\ <<u>> \in Seq(Unit) /\ Len(<<u>>) = 1 /\ <<u>>[1] = u
  BY <1>1, EmptySeq, UnitLemma DEF Data
<1>3. Shape("recvStamp", left, <<>> \o <<u>>) /\ Gives("recvStamp", left, <<>> \o <<u>>) = WantHeader
  <2>1. PICK q : q = <<>> \o <<u>>
    OBVIOUS
  <2>2. Len(q) = 1 /\ q[1] = u
    BY <2>1
  <2> QED
    BY <1>2, <2>1, <2>2 DEF Shape, Gives
<1>4. ASSUME NEW q \in Seq(Unit), Len(q) = 1, q[1].t = "header", q[1].op = "DownloadRecovery"
      PROVE  /\ Shape("recvGreeting", left, q \o <<u>>)
             /\ Gives("recvGreeting", left, q \o <<u>>) = WantHeader
  <2>1. PICK r : r = q \o <<u>>
    OBVIOUS
  <2>2. Len(r) = 2 /\ r[1] = q[1] /\ r[2] = u
    <3>1. /\ Len(q \o <<u>>) = Len(q) + Len(<<u>>)
          /\ \A i \in 1..(Len(q) + Len(<<u>>)) :
                (q \o <<u>>)[i] = IF i <= Len(q) THEN q[i] ELSE <<u>>[i - Len(q)]
      BY <1>2, <1>4, ConcatProperties
    <3>2. 1 \in 1..(Len(q) + Len(<<u>>)) /\ 2 \in 1..(Len(q) + Len(<<u>>))
      BY <1>2, <1>4
    <3>3. Len(r) = 2 /\ r[1] = q[1] /\ r[2] = <<u>>[1]
      BY <1>2, <1>4, <2>1, <3>1, <3>2
    <3> QED
      BY <1>2, <3>3
  <2> QED
    BY <1>2, <1>4, <2>1, <2>2 DEF Shape, Gives
<1> QED
  BY <1>1, <1>3, <1>4

LEMMA Replied ==
    ASSUME NEW left, NEW ready \in BOOLEAN, NEW total \in Nat
    PROVE  /\ Shape("recvAnswer", left, <<>> \o <<Answered>>)
           /\ Gives("recvAnswer", left, <<>> \o <<Answered>>) = WantHeader
           /\ Shape("recvResponse", left, <<>> \o <<Response(ready, total)>>)
           /\ Gives("recvResponse", left, <<>> \o <<Response(ready, total)>>) =
                 IF ready THEN Streams(total) ELSE WantHeader
<1>1. Shape("recvAnswer", left, <<>> \o <<Answered>>)
      /\ Gives("recvAnswer", left, <<>> \o <<Answered>>) = WantHeader
  <2>1. PICK q : q = <<>> \o <<Answered>>
    OBVIOUS
  <2>2. Len(q) = 1 /\ q[1].t = "answer"
    BY <2>1 DEF Answered
  <2> QED
    BY <2>1, <2>2 DEF Shape, Gives
<1>2. /\ Shape("recvResponse", left, <<>> \o <<Response(ready, total)>>)
      /\ Gives("recvResponse", left, <<>> \o <<Response(ready, total)>>) =
            IF ready THEN Streams(total) ELSE WantHeader
  <2>1. PICK q : q = <<>> \o <<Response(ready, total)>>
    OBVIOUS
  <2>2. Len(q) = 1 /\ q[1].t = "response" /\ q[1].ready = ready /\ q[1].total = total
    BY <2>1 DEF Response
  <2>3. AllBlocks(q, 2) /\ Len(q) - 1 = 0 /\ total - (Len(q) - 1) = total
    BY <2>2 DEF AllBlocks
  <2> QED
    BY <2>1, <2>2, <2>3 DEF Shape, Gives
<1> QED
  BY <1>1, <1>2

LEMMA Streamed ==
    ASSUME NEW p \in {"recvResponse", "recvFile"}, NEW left \in Nat, NEW q \in Seq(Unit),
           Shape(p, left, q), NEW n \in Nat \ {0},
           p = "recvResponse" => /\ Len(q) >= 1 /\ q[1].ready
                                 /\ q[1].total - (Len(q) - 1) = n,
           p = "recvFile" => left - Len(q) = n,
           NEW units \in Seq(Unit), \A i \in 1..Len(units) : units[i].t = "block",
           Len(units) <= n
    PROVE  /\ Shape(p, left, q \o units)
           /\ Gives(p, left, q \o units) = Streams(n - Len(units))
<1>1. PICK r : r = q \o units
  OBVIOUS
<1>2. PICK a, b, c : a = Len(q) /\ b = Len(units) /\ c = Len(r)
  OBVIOUS
<1>3. /\ a \in Nat /\ b \in Nat /\ c = a + b
      /\ \A i \in 1..c : r[i] = IF i <= a THEN q[i] ELSE units[i - a]
  BY <1>1, <1>2, LenProperties, ConcatProperties
<1>4. \A i \in (a + 1)..c : r[i].t = "block"
  <2>1. SUFFICES ASSUME NEW i \in (a + 1)..c PROVE r[i].t = "block"
    OBVIOUS
  <2>2. i \in 1..c /\ ~(i <= a) /\ i - a \in 1..b
    BY <1>3
  <2> QED
    BY <1>2, <1>3, <2>2
<1>5. CASE p = "recvResponse"
  <2>1. /\ a >= 1 /\ q[1].ready /\ q[1].total - (a - 1) = n
        /\ q[1].t = "response" /\ AllBlocks(q, 2)
    BY <1>2, <1>5 DEF Shape
  <2>2. q[1] \in Unit /\ q[1].total \in Nat
    <3>1. q[1] \in Unit
      BY <1>2, <1>3, <2>1, ElementOfSeq
    <3> QED
      BY <2>1, <3>1 DEF Unit
  <2>3. r[1] = q[1] /\ c >= 1 /\ c # 0 /\ 1 \in 1..c
    BY <1>3, <2>1
  <2>4. AllBlocks(r, 2)
    <3>1. SUFFICES ASSUME NEW i \in 2..c PROVE r[i].t = "block"
      BY <1>2 DEF AllBlocks
    <3>2. CASE i <= a
      BY <1>2, <1>3, <2>1, <3>2 DEF AllBlocks
    <3>3. CASE ~(i <= a)
      BY <1>3, <1>4, <3>3
    <3> QED
      BY <3>2, <3>3
  <2>5. q[1].total - (c - 1) = n - b /\ c - 1 <= q[1].total
    BY <1>2, <1>3, <2>1, <2>2
  <2>6. Shape(p, left, r)
    BY <1>2, <1>5, <2>1, <2>3, <2>4, <2>5 DEF Shape
  <2>7. Gives(p, left, r) = Streams(n - b)
    BY <1>2, <1>5, <2>1, <2>3, <2>5 DEF Gives
  <2> QED
    BY <1>1, <1>2, <2>6, <2>7
<1>6. CASE p = "recvFile"
  <2>1. left > 0 /\ AllBlocks(q, 1) /\ left - a = n
    BY <1>2, <1>6 DEF Shape
  <2>2. AllBlocks(r, 1)
    <3>1. SUFFICES ASSUME NEW i \in 1..c PROVE r[i].t = "block"
      BY <1>2 DEF AllBlocks
    <3>2. CASE i <= a
      BY <1>2, <1>3, <2>1, <3>2 DEF AllBlocks
    <3>3. CASE ~(i <= a)
      BY <1>3, <1>4, <3>3
    <3> QED
      BY <3>2, <3>3
  <2>3. left - c = n - b /\ c <= left
    BY <1>2, <1>3, <2>1
  <2>4. Shape(p, left, r) /\ Gives(p, left, r) = Streams(n - b)
    BY <1>2, <1>6, <2>1, <2>2, <2>3 DEF Shape, Gives
  <2> QED
    BY <1>1, <1>2, <2>4
<1> QED
  BY <1>5, <1>6

LEMMA TcpGreetInStep ==
    ASSUME TransferInv, TransferInv', InStepInv, UNCHANGED clientVars, TcpGreet
    PROVE  InStepInv'
<1>1. Serving("Greet") /\ pc = "Greet" /\ Doing = Owes("greeting") /\ Doing.t = "reply"
  BY DEF TcpGreet, Serving, Doing, Owes, Want
<1>2. PICK op \in {"None", "DownloadRecovery"} :
         /\ SrvWrites(<<Header(op)>>)
         /\ op = "None" => GreetNone(SrvSend(1))
         /\ op = "DownloadRecovery" => GreetRecovery(SrvSend(1))
  BY DEF TcpGreet
<1>3. /\ \/ Len(clients') < Len(clients)
         \/ Len(clients') = Len(clients) /\ clients'[cur].conn = S
      /\ Len(clients') \in Nat
  BY <1>1, <1>2, ServedKept, CheckedLemma DEF GreetNone, GreetRecovery
<1>4. /\ UNCHANGED cur
      /\ op = "None" => pc' \in {"Listen", "RecvHeader"}
      /\ op = "DownloadRecovery" => pc' = "SendStamp"
  BY <1>2 DEF GreetNone, GreetRecovery
<1>5. pc' # "Listen" =>
         Doing' = IF op = "DownloadRecovery" THEN Owes("stamp") ELSE WantHeader
  BY <1>4 DEF Doing
<1>6. ASSUME NEW p \in ClientPlaces, NEW left \in Nat, NEW q \in Seq(Unit),
             Shape(p, left, q), Gives(p, left, q) = Doing
      PROVE  /\ Shape(p, left, q \o <<Header(op)>>)
             /\ pc' # "Listen" => Gives(p, left, q \o <<Header(op)>>) = Doing'
  <2>1. p = "recvGreeting" /\ q = <<>>
    BY <1>1, <1>6, ReaderPlaces
  <2> QED
    BY <1>5, <2>1, Greeted
<1>7. <<Header(op)>> \in Seq(Unit)
  BY UnitLemma DEF Opcodes
<1> QED
  BY <1>1, <1>2, <1>3, <1>4, <1>6, <1>7, ServerWrites

LEMMA TcpSendStampInStep ==
    ASSUME TransferInv, TransferInv', InStepInv, UNCHANGED clientVars, TcpSendStamp
    PROVE  InStepInv'
<1>1. Serving("SendStamp") /\ pc = "SendStamp" /\ Doing = Owes("stamp") /\ Doing.t = "reply"
  BY DEF TcpSendStamp, Serving, Doing, Owes, Want
<1>2. SendStamp(SrvSend(1))
  BY DEF TcpSendStamp
<1>3. PICK arg \in Nat, name \in Names : SrvWrites(<<Data(arg, name, <<>>)>>)
  <2>1. PICK s \in MyStamps : SrvWrites(<<Data(s.position, FileName[s.file], <<>>)>>)
    BY DEF TcpSendStamp
  <2>2. s \in Stamp
    BY <2>1 DEF MyStamps, TransferInv, IInv, TypeOK
  <2>3. s.position \in Nat /\ FileName[s.file] \in Names
    BY <2>2, TransferAssumption DEF Stamp
  <2> QED
    BY <2>1, <2>3
<1>4. /\ \/ Len(clients') < Len(clients)
         \/ Len(clients') = Len(clients) /\ clients'[cur].conn = S
      /\ Len(clients') \in Nat
  BY <1>1, <1>2, ServedKept, CheckedLemma DEF SendStamp
<1>5. UNCHANGED cur /\ pc' \in {"Listen", "RecvHeader"}
  BY <1>2 DEF SendStamp
<1>6. pc' # "Listen" => Doing' = WantHeader
  BY <1>5 DEF Doing
<1>7. ASSUME NEW p \in ClientPlaces, NEW left \in Nat, NEW q \in Seq(Unit),
             Shape(p, left, q), Gives(p, left, q) = Doing
      PROVE  /\ Shape(p, left, q \o <<Data(arg, name, <<>>)>>)
             /\ pc' # "Listen" => Gives(p, left, q \o <<Data(arg, name, <<>>)>>) = Doing'
  <2>1. \/ /\ p = "recvGreeting" /\ Len(q) = 1
           /\ q[1].t = "header" /\ q[1].op = "DownloadRecovery"
        \/ p = "recvStamp" /\ q = <<>>
    BY <1>1, <1>7, ReaderPlaces
  <2> QED
    BY <1>6, <2>1, Stamped
<1>8. <<Data(arg, name, <<>>)>> \in Seq(Unit)
  BY UnitLemma, EmptySeq
<1> QED
  BY <1>1, <1>3, <1>4, <1>5, <1>7, <1>8, ServerWrites

LEMMA TcpReplyInStep ==
    ASSUME TransferInv, TransferInv', InStepInv, UNCHANGED clientVars, TcpReply
    PROVE  InStepInv'
<1>1. Serving("Reply") /\ pc = "Reply" /\ Doing = Owes("answer") /\ Doing.t = "reply"
  BY DEF TcpReply, Serving, Doing, Owes, Want
<1>2. Reply(SrvSend(1)) /\ SrvWrites(<<Answered>>)
  BY DEF TcpReply
<1>3. /\ \/ Len(clients') < Len(clients)
         \/ Len(clients') = Len(clients) /\ clients'[cur].conn = S
      /\ Len(clients') \in Nat
  BY <1>1, <1>2, ServedKept, CheckedLemma DEF Reply
<1>4. UNCHANGED cur /\ pc' \in {"Listen", "RecvHeader"}
  BY <1>2 DEF Reply
<1>5. pc' # "Listen" => Doing' = WantHeader
  BY <1>4 DEF Doing
<1>6. ASSUME NEW p \in ClientPlaces, NEW left \in Nat, NEW q \in Seq(Unit),
             Shape(p, left, q), Gives(p, left, q) = Doing
      PROVE  /\ Shape(p, left, q \o <<Answered>>)
             /\ pc' # "Listen" => Gives(p, left, q \o <<Answered>>) = Doing'
  <2>1. p = "recvAnswer" /\ q = <<>>
    BY <1>1, <1>6, ReaderPlaces
  <2> QED
    BY <1>5, <2>1, Replied
<1>7. <<Answered>> \in Seq(Unit)
  BY UnitLemma
<1> QED
  BY <1>1, <1>2, <1>3, <1>4, <1>6, <1>7, ServerWrites

LEMMA TcpDownloadInStep ==
    ASSUME TransferInv, TransferInv', InStepInv, UNCHANGED clientVars, TcpDownload
    PROVE  InStepInv'
<1>1. Serving("Download") /\ pc = "Download" /\ Doing = Owes("response") /\ Doing.t = "reply"
  BY DEF TcpDownload, Serving, Doing, Owes, Want
<1>2. PICK canOpen \in OpenResults :
         /\ Download(SrvSend(1), canOpen)
         /\ SrvWrites(<<Response(DownloadStatus(canOpen) = "Ready", TotalSize)>>)
  BY DEF TcpDownload
<1>3. PICK ready \in BOOLEAN : ready <=> DownloadStatus(canOpen) = "Ready"
  OBVIOUS
<1>4. TotalSize \in Nat
  <2>1. packet.arg \in Nat /\ disk[packet.name].data \in Seq(Blocks)
    BY DEF TransferInv, IInv, TypeOK, Packet, Entry
  <2>2. Len(disk[packet.name].data) \in Nat
    BY <2>1, LenProperties
  <2> QED
    BY <2>1, <2>2 DEF TotalSize
<1>5. SrvWrites(<<Response(ready, TotalSize)>>)
  <2>1. ready = (DownloadStatus(canOpen) = "Ready")
    BY <1>3
  <2> QED
    BY <1>2, <2>1
<1>6. /\ \/ Len(clients') < Len(clients)
         \/ Len(clients') = Len(clients) /\ clients'[cur].conn = S
      /\ Len(clients') \in Nat
  BY <1>1, <1>2, ServedKept, CheckedLemma DEF Download
<1>7. /\ UNCHANGED cur /\ pc' \in {"Listen", "SendChunk", "RecvHeader"}
      /\ pc' = "SendChunk" => ready /\ dl'.left = TotalSize
      /\ pc' = "RecvHeader" => ~(ready /\ TotalSize > 0)
  BY <1>2, <1>3 DEF Download
<1>8. pc' # "Listen" => Doing' = IF ready THEN Streams(TotalSize) ELSE WantHeader
  BY <1>4, <1>7 DEF Doing, Streams
<1>9. ASSUME NEW p \in ClientPlaces, NEW left \in Nat, NEW q \in Seq(Unit),
             Shape(p, left, q), Gives(p, left, q) = Doing
      PROVE  /\ Shape(p, left, q \o <<Response(ready, TotalSize)>>)
             /\ pc' # "Listen" => Gives(p, left, q \o <<Response(ready, TotalSize)>>) = Doing'
  <2>1. p = "recvResponse" /\ q = <<>>
    BY <1>1, <1>9, ReaderPlaces
  <2> QED
    BY <1>4, <1>8, <2>1, Replied
<1>10. <<Response(ready, TotalSize)>> \in Seq(Unit)
  BY <1>4, UnitLemma
<1> QED
  BY <1>1, <1>5, <1>6, <1>7, <1>9, <1>10, ServerWrites

LEMMA TcpSendChunkInStep ==
    ASSUME TransferInv, TransferInv', InStepInv, UNCHANGED clientVars, TcpSendChunk
    PROVE  InStepInv'
<1> DEFINE from == dl.start + dl.total - dl.left
           n == ChunkSize(dl.left)
           file == disk[dl.file].data
           units == Contents(SubSeq(file, from + 1, from + n))
<1>1. /\ Serving("SendChunk") /\ pc = "SendChunk" /\ SrvWrites(units)
      /\ SendChunk(SrvSend(n)) /\ SrvSend(n) \in Sent
  BY DEF TcpSendChunk, Serving
<1>2. /\ file \in Seq(Blocks) /\ Len(file) \in Nat
      /\ dl.start \in Nat /\ dl.total \in Nat /\ dl.left \in 1..dl.total
      /\ dl.start + dl.total = Len(file)
  <2>1. dl \in [file : Names, start : Nat, total : Nat, left : Nat] /\ disk \in [Names -> Entry]
    BY DEF TransferInv, IInv, TypeOK
  <2>2. file \in Seq(Blocks)
    BY <2>1 DEF Entry
  <2> QED
    BY <1>1, <2>1, <2>2, LenProperties DEF TransferInv, IInv, DownloadInv
<1>3. dl.left \in Nat \ {0} /\ Doing = Streams(dl.left) /\ Doing.t = "stream"
  BY <1>1, <1>2 DEF Doing, Streams, Want
<1> HIDE DEF file
<1>4. /\ from \in Nat /\ n \in Nat /\ n <= dl.left /\ from + n <= Len(file)
      /\ dl.left - n \in Nat
  BY <1>2, ProtocolAssumption DEF ChunkSize
<1> HIDE DEF from, n
<1>5. units = Contents(SubSeq(file, from + 1, from + n))
  OBVIOUS
<1> HIDE DEF units
<1>6. /\ units \in Seq(Unit) /\ Len(units) = n /\ \A i \in 1..Len(units) : units[i].t = "block"
  <2>1. /\ Contents(SubSeq(file, from + 1, from + n)) \in Seq(Unit)
        /\ Len(Contents(SubSeq(file, from + 1, from + n))) = n
        /\ \A i \in 1..n : Contents(SubSeq(file, from + 1, from + n))[i].t = "block"
    BY <1>2, <1>4, ContentsShape
  <2> QED
    BY <1>5, <2>1
<1>7. /\ UNCHANGED <<clients, cur>> /\ pc' \in {"Listen", "SendChunk", "RecvHeader"}
      /\ pc' = "SendChunk" => dl'.left = dl.left - n
      /\ pc' = "RecvHeader" => dl.left - n = 0
  <2>1. dl \in [file : Names, start : Nat, total : Nat, left : Nat]
    BY DEF TransferInv, IInv, TypeOK
  <2> QED
    BY <1>1, <1>4, <2>1 DEF SendChunk, n
<1>8. pc' # "Listen" => Doing' = Streams(dl.left - n)
  BY <1>7 DEF Doing, Streams
<1>9. ASSUME NEW p \in ClientPlaces, NEW left \in Nat, NEW q \in Seq(Unit),
             Shape(p, left, q), Gives(p, left, q) = Doing
      PROVE  /\ Shape(p, left, q \o units)
             /\ pc' # "Listen" => Gives(p, left, q \o units) = Doing'
  <2>1. \/ /\ p = "recvResponse" /\ Len(q) >= 1 /\ q[1].ready
           /\ q[1].total - (Len(q) - 1) = dl.left
        \/ p = "recvFile" /\ left - Len(q) = dl.left
    BY <1>3, <1>9, ReaderPlaces
  <2>2. Shape(p, left, q \o units) /\ Gives(p, left, q \o units) = Streams(dl.left - n)
    <3>1. Len(units) <= dl.left
      BY <1>4, <1>6
    <3>2. CASE /\ p = "recvResponse" /\ Len(q) >= 1 /\ q[1].ready
               /\ q[1].total - (Len(q) - 1) = dl.left
      BY ZenonT(60), <1>3, <1>6, <1>9, <3>1, <3>2, Streamed
    <3>3. CASE p = "recvFile" /\ left - Len(q) = dl.left
      BY <1>3, <1>6, <1>9, <3>1, <3>3, Streamed
    <3> QED
      BY <2>1, <3>2, <3>3
  <2> QED
    BY <1>8, <2>2
<1> QED
  BY <1>1, <1>3, <1>6, <1>7, <1>9, ServedKept, ServerWrites

-----------------------------------------------------------------------------
(* The server accepts a connection, ends, and starts again.                *)

LEMMA TcpAcceptInStep ==
    ASSUME TransferInv, InStepInv, UNCHANGED clientVars, TcpAccept
    PROVE  InStepInv'
<1>1. PICK k \in backlog : Accept(k) /\ backlog' = backlog \ {k} /\ UNCHANGED net
  BY DEF TcpAccept
<1>2. k \in Conns
  BY <1>1 DEF TransferInv, NetInv
<1>3. /\ pc = "Listen" /\ pc' = "RecvMac" /\ cur' = Len(clients) + 1
      /\ clients' = Append(clients, [conn |-> k, mac |-> ZeroMac])
  BY <1>1 DEF Accept, NewIndex
<1>4. clients'[cur'].conn = k
  BY <1>3 DEF TransferInv, IInv, TypeOK
<1>5. \A l : (Serves(l)' => l = k) /\ ~Serves(l)
  BY <1>3, <1>4 DEF Serves, Me
<1>6. \A l : Awaited(l)' => Awaited(l) /\ Expects(l)' = WantMac /\ Expects(l) = WantMac
  BY <1>1, <1>3, <1>5 DEF Awaited, Expects, Doing
<1>7. UNCHANGED <<at, conn, job, net>>
  BY <1>1 DEF clientVars
<1>8. LinksInv' /\ OwnersInv' /\ CommandInv'
  BY <1>7 DEF InStepInv, LinksInv, OwnersInv, CommandInv
<1>9. ServiceInv'
  BY <1>1, <1>3, <1>5, <1>6, <1>7 DEF InStepInv, ServiceInv
<1>10. \A l \in Conns : Talk(l)'
  BY <1>6, <1>7 DEF InStepInv, Talk
<1> QED
  BY <1>8, <1>9, <1>10 DEF InStepInv

LEMMA ServerEnds ==
    ASSUME TransferInv, InStepInv, UNCHANGED clientVars, SrvCloses, pc' = "Dead"
    PROVE  InStepInv'
<1>1. UNCHANGED <<at, conn, job>> /\ backlog' = {}
  BY DEF clientVars, SrvCloses
<1>2. ASSUME NEW l \in Conns
      PROVE  /\ Whole(net'[l]) /\ net'[l].queue["cli"] = net[l].queue["cli"]
             /\ net'[l].end["cli"] = "closed" <=> net[l].end["cli"] = "closed"
  <2>1. net[l] \in Link /\ Whole(net[l])
    BY DEF TransferInv, NetInv, InStepInv, LinksInv
  <2>2. net'[l] \in {Close(net[l], "srv"), Abort(net[l]), net[l]}
    BY DEF SrvCloses
  <2> QED
    BY <2>1, <2>2, ClosedLemma
<1>3. \A l : ~Serves(l)' /\ ~Awaited(l)'
  BY <1>1 DEF Serves, Awaited
<1>4. LinksInv' /\ OwnersInv' /\ CommandInv'
  BY <1>1, <1>2 DEF InStepInv, LinksInv, OwnersInv, CommandInv
<1>5. ServiceInv' /\ \A l \in Conns : Talk(l)'
  BY <1>3 DEF ServiceInv, Talk
<1> QED
  BY <1>4, <1>5 DEF InStepInv

LEMMA ServerRestarts ==
    ASSUME TransferInv, InStepInv, UNCHANGED clientVars, RestartServer
    PROVE  InStepInv'
<1>1. UNCHANGED <<at, conn, job, net, backlog>> /\ pc = "Dead" /\ pc' = "Listen"
  BY DEF clientVars, RestartServer, Restart
<1>2. \A l : ~Serves(l) /\ ~Serves(l)'
  BY <1>1 DEF Serves
<1>3. \A l : Awaited(l)' => Awaited(l) /\ Expects(l)' = WantMac /\ Expects(l) = WantMac
  BY <1>1, <1>2 DEF Awaited, Expects
<1>4. LinksInv' /\ OwnersInv' /\ CommandInv'
  BY <1>1 DEF InStepInv, LinksInv, OwnersInv, CommandInv
<1>5. ServiceInv'
  BY <1>1, <1>2, <1>3 DEF InStepInv, ServiceInv
<1>6. \A l \in Conns : Talk(l)'
  BY <1>1, <1>3 DEF InStepInv, Talk
<1> QED
  BY <1>4, <1>5, <1>6 DEF InStepInv

LEMMA ServerInStep ==
    ASSUME TransferInv, TransferInv', InStepInv, UNCHANGED clientVars,
           ServerStep \/ KillServer \/ RestartServer
    PROVE  InStepInv'
<1>1. CASE TcpSigpipe \/ TcpUseAfterRemove \/ KillServer
  BY <1>1, ServerEnds DEF TcpSigpipe, TcpUseAfterRemove, KillServer, Sigpipe, UseAfterRemove,
     Kill, Die
<1>2. CASE TcpAccept \/ RestartServer
  BY <1>2, TcpAcceptInStep, ServerRestarts
<1>3. CASE \/ TcpRecvMac \/ TcpRecvHeader \/ TcpRecvData
           \/ TcpUpload \/ TcpRecvChunk \/ TcpDiscard
  BY <1>3, TcpRecvMacInStep, TcpRecvHeaderInStep, TcpRecvDataInStep, TcpUploadInStep,
     TcpRecvChunkInStep, TcpDiscardInStep
<1>4. CASE TcpGreet \/ TcpSendStamp \/ TcpReply \/ TcpDownload \/ TcpSendChunk
  BY <1>4, TcpGreetInStep, TcpSendStampInStep, TcpReplyInStep, TcpDownloadInStep,
     TcpSendChunkInStep
<1> QED
  BY <1>1, <1>2, <1>3, <1>4 DEF ServerStep

-----------------------------------------------------------------------------
LEMMA NextInStepInv ==
    ASSUME Numbers = Nat, TransferInv, TransferInv', InStepInv, [TransferNext]_vars
    PROVE  InStepInv'
<1>1. CASE (ServerStep \/ KillServer \/ RestartServer) /\ UNCHANGED clientVars
  BY <1>1, ServerInStep
<1>2. CASE \E c \in Clients : ClientStep(c) \/ UserStep(c) \/ KillClient(c)
  BY <1>2, ClientInStep
<1>3. CASE UNCHANGED vars
  <2>1. UNCHANGED serverVars /\ UNCHANGED <<at, conn, job, net, backlog>>
    BY <1>3 DEF vars, clientVars
  <2>2. LinksInv' /\ OwnersInv' /\ CommandInv'
    BY <2>1 DEF InStepInv, LinksInv, OwnersInv, CommandInv
  <2>3. \A l \in Conns : /\ (Serves(l)' <=> Serves(l)) /\ (Awaited(l)' <=> Awaited(l))
                         /\ Expects(l)' = Expects(l)
    BY <2>1, ServerSame
  <2>4. UNCHANGED <<pc, packet, ul>>
    BY <2>1 DEF serverVars
  <2>5. ServiceInv'
    BY <2>1, <2>3, <2>4 DEF InStepInv, ServiceInv
  <2>6. \A l \in Conns : Talk(l)'
    BY <2>1, <2>3 DEF InStepInv, Talk
  <2> QED
    BY <2>2, <2>5, <2>6 DEF InStepInv
<1> QED
  BY <1>1, <1>2, <1>3 DEF TransferNext

(* Server and clients never lose step: what either program is about to     *)
(* read is what the other sent for it to read there, for any number of     *)
(* clients and connections, whatever their users ask for in whatever       *)
(* order, however the bytes of a file are cut into reads, and whoever is   *)
(* killed when.                                                            *)
THEOREM TransferInStep ==
    ASSUME Numbers = Nat
    PROVE  TransferSpec => []InStep
<1>1. TransferInit => TransferInv /\ InStepInv
  BY InitTransferInv, InitInStepInv
<1>2. TransferInv /\ InStepInv /\ [TransferNext]_vars => TransferInv' /\ InStepInv'
  BY NextTransferInv, NextInStepInv
<1>3. TransferInv /\ InStepInv => InStep
  BY InStepInvImplies
<1> QED
  BY <1>1, <1>2, <1>3, PTL DEF TransferSpec
=============================================================================
