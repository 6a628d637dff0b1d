---------------------------- MODULE UploadProofs ----------------------------
(***************************************************************************)
(* Proof that a finished upload has left the file its client sent          *)
(* (UploadIntegrity of FileTransfer).                                      *)
(*                                                                         *)
(* FileTransferProofs says that the server takes for blocks what was sent  *)
(* as blocks; here the invariant says which ones.  Every request to upload *)
(* that is under way on a connection the server still attends to is        *)
(* followed there by the blocks of its file, in their order, as far as     *)
(* they have been sent; its client still holds the file, and the rest of   *)
(* it is what it has left to send.                                         *)
(***************************************************************************)
EXTENDS FileTransferProofs

-----------------------------------------------------------------------------
(* The invariant.                                                          *)

Incoming(k) == net[k].queue["srv"]

(* The file that the command of client c is about.                         *)
JobFile(c) == local[c][job[c].file].data

(* After its first i units, what waits at connection k is the rest of      *)
(* `file', whose first `got' blocks have arrived.                          *)
Arrived(q, i, got, file) ==
    \A m \in 1..Len(q) : i + m <= Len(q) /\ got + m <= Len(file)
                            => q[i + m].block = file[got + m]
Sends(c, rest, file) == at[c] = "sendFile" /\ JobFile(c) = file /\ job[c].left = rest
Arrives(k, i, got, file) ==
    LET sent == got + (Len(Incoming(k)) - i)
    IN  /\ Arrived(Incoming(k), i, got, file)
        /\ \A c \in Clients :
              conn[c] = k /\ sent < Len(file) => Sends(c, Len(file) - sent, file)

(* A request to upload announces as many blocks as its file has.           *)
Announces(q, i) == q[i].t = "data" => q[i].arg = Len(q[i].file)
RequestsInv(k) ==
    LET q == Incoming(k)
    IN  /\ \A i \in 1..Len(q) : q[i].t = "data" => Arrives(k, i, 0, q[i].file)
        /\ \A i \in 2..Len(q) :
              q[i - 1].t = "header" /\ q[i - 1].op = "Upload" => Announces(q, i)

(* The upload that the server has begun, on the connection it serves.      *)
Uploaded == disk[ul.name].data
UploadingInv(k) ==
    /\ pc = "RecvData" /\ packet.op = "Upload" /\ Incoming(k) # <<>> => Announces(Incoming(k), 1)
    /\ pc = "Upload" => packet.arg = Len(asked[k]) /\ Arrives(k, 0, 0, asked[k])
    /\ pc = "RecvChunk" =>
          /\ Len(Uploaded) + ul.left = Len(asked[k])
          /\ \A m \in 1..Len(Uploaded) : Uploaded[m] = asked[k][m]
          /\ Arrives(k, 0, Len(Uploaded), asked[k])

ContentInv(k) ==
    /\ Awaited(k) => RequestsInv(k)
    /\ Serves(k) => UploadingInv(k)

(* A client that is about to request an upload has all of it to send.      *)
WholeInv ==
    \A c \in Clients :
        at[c] \in {"uploadHeader", "uploadData"} => job[c].left = Len(JobFile(c))

UploadsInv == WholeInv /\ \A k \in Conns : ContentInv(k)

-----------------------------------------------------------------------------
(* What leaves a connection alone.                                         *)

(* Nothing comes to the server, and who sends goes on where it was.        *)
Steady(k) ==
    /\ Incoming(k)' = Incoming(k)
    /\ \A c \in Clients :
          conn'[c] = k => /\ conn[c] = k
                          /\ at[c] = "sendFile" => /\ at'[c] = "sendFile"
                                                   /\ job'[c].left = job[c].left
                                                   /\ JobFile(c)' = JobFile(c)

LEMMA ArrivesSteady ==
    ASSUME NEW k, Steady(k), NEW i, NEW got, NEW file, Arrives(k, i, got, file)
    PROVE  Arrives(k, i, got, file)'
<1>1. Arrived(Incoming(k), i, got, file)'
  BY DEF Arrives, Arrived, Steady
<1>2. ASSUME NEW c \in Clients, conn'[c] = k, got + (Len(Incoming(k)) - i) < Len(file)
      PROVE  Sends(c, Len(file) - (got + (Len(Incoming(k)) - i)), file)'
  <2>1. Sends(c, Len(file) - (got + (Len(Incoming(k)) - i)), file)
    BY <1>2 DEF Arrives, Steady
  <2> QED
    BY <1>2, <2>1 DEF Sends, Steady
<1> QED
  BY <1>1, <1>2 DEF Arrives, Steady

LEMMA RequestsSteady ==
    ASSUME NEW k, Steady(k), RequestsInv(k)
    PROVE  RequestsInv(k)'
<1>1. PICK q : q = Incoming(k) /\ q = Incoming(k)'
  BY DEF Steady
<1>2. ASSUME NEW i \in 1..Len(q), q[i].t = "data"
      PROVE  Arrives(k, i, 0, q[i].file)'
  <2>1. Arrives(k, i, 0, q[i].file)
    BY <1>1, <1>2 DEF RequestsInv
  <2> QED
    BY <2>1, ArrivesSteady
<1> QED
  BY <1>1, <1>2 DEF RequestsInv, Announces

LEMMA ContentSteady ==
    ASSUME NEW k, Steady(k), UNCHANGED serverVars, UNCHANGED asked,
           k \in backlog' <=> k \in backlog, ContentInv(k)
    PROVE  ContentInv(k)'
<1>1. UNCHANGED <<pc, clients, cur, packet, disk, ul>>
  BY DEF serverVars
<1>2. (Awaited(k)' <=> Awaited(k)) /\ (Serves(k)' <=> Serves(k))
  BY <1>1 DEF Awaited, Serves, Me
<1>3. Awaited(k) => RequestsInv(k)'
  BY RequestsSteady DEF ContentInv
<1>4. ASSUME UploadingInv(k) PROVE UploadingInv(k)'
  <2>1. PICK file, got : file = asked[k] /\ got = Len(Uploaded) /\ UNCHANGED Uploaded
    BY <1>1 DEF Uploaded
  <2>2. pc = "Upload" => Arrives(k, 0, 0, file)'
    BY <1>4, <2>1, ArrivesSteady DEF UploadingInv
  <2>3. pc = "RecvChunk" => Arrives(k, 0, got, file)'
    BY <1>4, <2>1, ArrivesSteady DEF UploadingInv
  <2> QED
    BY <1>1, <1>4, <2>1, <2>2, <2>3 DEF UploadingInv, Announces, Steady
<1> QED
  BY <1>2, <1>3, <1>4 DEF ContentInv

-----------------------------------------------------------------------------
(* The steps of the clients that send nothing.                             *)

(* A client only changes what is its own.                                  *)
Others(c) ==
    \A d \in Clients \ {c} :
        at'[d] = at[d] /\ conn'[d] = conn[d] /\ job'[d] = job[d] /\ local'[d] = local[d]

LEMMA OwnReceive ==
    ASSUME ClientInv, NEW c \in Clients, TcpReceive(c)
    PROVE  Others(c) /\ UNCHANGED conn /\ at[c] # "sendFile"
<1>1. ASSUME NEW r, NEW op, RecvGreeting(c, r, op)
      PROVE  Others(c) /\ UNCHANGED conn /\ at[c] # "sendFile"
  BY <1>1 DEF RecvGreeting, Return, Goto, Others, ClientInv
<1>2. ASSUME NEW r, NEW name, RecvStamp(c, r, name)
      PROVE  Others(c) /\ UNCHANGED conn /\ at[c] # "sendFile"
  BY <1>2 DEF RecvStamp, Return, Goto, Others, ClientInv
<1>3. ASSUME NEW r, NEW ready, NEW total, RecvResponse(c, r, ready, total)
      PROVE  Others(c) /\ UNCHANGED conn /\ at[c] # "sendFile"
  BY <1>3 DEF RecvResponse, FailDownload, RemoveSaved, Return, Goto, Others, ClientInv
<1>4. ASSUME NEW r, NEW d, RecvFile(c, r, d)
      PROVE  Others(c) /\ UNCHANGED conn /\ at[c] # "sendFile"
  BY <1>4 DEF RecvFile, FailDownload, RemoveSaved, Return, Goto, Others, ClientInv
<1>5. ASSUME NEW r, RecvAnswer(c, r)
      PROVE  Others(c) /\ UNCHANGED conn /\ at[c] # "sendFile"
  BY <1>5 DEF RecvAnswer, Return, Goto, Others, ClientInv
<1> QED
  BY <1>1, <1>2, <1>3, <1>4, <1>5 DEF TcpReceive

LEMMA OwnSend ==
    ASSUME ClientInv, NEW c \in Clients, TcpSend(c)
    PROVE  Others(c) /\ UNCHANGED conn
<1>1. ASSUME NEW r, \/ SendMac(c, r) \/ SendDownload(c, r) \/ SendUpload(c, r)
                    \/ SendFile(c, r) \/ SendAsk(c, r) \/ SendClose(c, r)
      PROVE  Others(c) /\ UNCHANGED conn
  <2>1. CASE SendMac(c, r) \/ SendAsk(c, r) \/ SendClose(c, r)
    BY <2>1 DEF SendMac, SendAsk, SendClose, Return, Goto, Others, ClientInv
  <2>2. CASE SendDownload(c, r)
    BY <2>2 DEF SendDownload, FailDownload, RemoveSaved, Return, Goto, Others, ClientInv
  <2>3. CASE SendUpload(c, r)
    BY <2>3 DEF SendUpload, Return, Goto, Others, ClientInv
  <2>4. CASE SendFile(c, r)
    BY <2>4 DEF SendFile, Return, Goto, Others, ClientInv
  <2> QED
    BY <1>1, <2>1, <2>2, <2>3, <2>4
<1> QED
  BY <1>1 DEF TcpSend

LEMMA OwnEnd ==
    ASSUME ClientInv, NEW c \in Clients, ClientDies(c)
    PROVE  Others(c) /\ conn'[c] \notin Conns
  BY ClientAssumption DEF ClientDies, Goto, Others, ClientInv, NoSocket

LEMMA OwnCommand ==
    ASSUME ClientInv, NEW c \in Clients,
           \/ \E yes \in BOOLEAN, canSave \in OpenResults : Answer(c, yes, canSave)
           \/ \E name \in Wanted[c], canSave \in OpenResults : DownloadCmd(c, name, canSave)
           \/ \E name \in Offered[c] : UploadCmd(c, name)
           \/ \E op \in Asks[c] \ {"Close"} : AskCmd(c, op)
           \/ "Close" \in Asks[c] /\ CloseCmd(c)
           \/ StartClient(c)
    PROVE  Others(c) /\ UNCHANGED conn /\ at[c] # "sendFile"
<1>1. ASSUME NEW name, NEW start, NEW canSave, StartDownload(c, name, start, canSave)
      PROVE  Others(c) /\ UNCHANGED conn
  BY <1>1 DEF StartDownload, Return, Goto, Others, ClientInv
<1>2. CASE \E yes \in BOOLEAN, canSave \in OpenResults : Answer(c, yes, canSave)
  BY <1>1, <1>2 DEF Answer, Return, Goto, Others, ClientInv
<1>3. CASE \E name \in Wanted[c], canSave \in OpenResults : DownloadCmd(c, name, canSave)
  BY <1>1, <1>3 DEF DownloadCmd
<1>4. CASE \/ \E name \in Offered[c] : UploadCmd(c, name)
           \/ \E op \in Asks[c] \ {"Close"} : AskCmd(c, op)
           \/ CloseCmd(c)
           \/ StartClient(c)
  BY <1>4 DEF UploadCmd, AskCmd, CloseCmd, StartClient, Goto, Others, ClientInv
<1> QED
  BY <1>2, <1>3, <1>4

LEMMA OthersSteady ==
    ASSUME NEW c \in Clients, Others(c), NEW k, Incoming(k)' = Incoming(k),
           conn'[c] = k => conn[c] = k /\ at[c] # "sendFile"
    PROVE  Steady(k)
  BY DEF Others, Steady, JobFile

(* What a client receives leaves what comes to the server as it is.        *)
LEMMA ReceiveIncoming ==
    ASSUME NetInv, NEW c \in Clients, Linked(c), NEW u, CliReads(c, u), NEW k \in Conns
    PROVE  Incoming(k)' = Incoming(k)
<1>1. net[k] \in Link /\ net[k].queue \in [Ends -> Seq(Unit)]
  BY DEF NetInv, Link
<1>2. net'[k] = IF k = conn[c] THEN AfterRecv(net[k], "cli", u) ELSE net[k]
  BY DEF CliReads, NetInv, Linked
<1>3. AfterRecv(net[k], "cli", u).queue["srv"] = net[k].queue["srv"]
  BY <1>1 DEF AfterRecv, Link, Ends
<1> QED
  BY <1>2, <1>3 DEF Incoming

-----------------------------------------------------------------------------
(* What a client sends.                                                    *)

LEMMA ContentsBlocks ==
    \A s \in Seq(Blocks), from \in Nat, n \in Nat : from + n <= Len(s) =>
        \A i \in 1..n : Contents(SubSeq(s, from + 1, from + n))[i].block = s[from + i]
<1> TAKE s \in Seq(Blocks), from \in Nat, n \in Nat
<1> HAVE from + n <= Len(s)
<1> DEFINE part == SubSeq(s, from + 1, from + n)
<1>1. Len(s) \in Nat /\ \A i \in 1..Len(s) : s[i] \in Blocks
  BY LenProperties, ElementOfSeq
<1>2. \A i \in (from + 1)..(from + n) : s[i] \in Blocks
  BY <1>1
<1>3. Len(part) = n /\ \A i \in 1..n : part[i] = s[from + i]
  <2>1. /\ Len(part) = IF from + 1 <= from + n THEN (from + n) - (from + 1) + 1 ELSE 0
        /\ \A i \in 1..((from + n) - (from + 1) + 1) : part[i] = s[(from + 1) + i - 1]
    BY <1>2, SubSeqProperties
  <2> HIDE DEF part
  <2>2. (from + n) - (from + 1) + 1 = n /\ Len(part) = n
    BY <2>1
  <2>3. \A i \in 1..n : (from + 1) + i - 1 = from + i
    OBVIOUS
  <2> QED
    BY <2>1, <2>2, <2>3
<1> HIDE DEF part
<1>4. \A i \in 1..n : Contents(part)[i].block = s[from + i]
  BY <1>3 DEF Contents
<1> QED
  BY <1>4 DEF part

LEMMA BlocksSent ==
    ASSUME ClientInv, NEW c \in Clients, at[c] = "sendFile", job[c].left > 0
    PROVE  /\ JobFile(c) \in Seq(Blocks) /\ job[c].left \in Nat
           /\ Len(JobFile(c)) \in Nat /\ job[c].left <= Len(JobFile(c))
           /\ ChunkSize(job[c].left) \in 1..job[c].left
           /\ Packets(c) \in Seq(Unit) /\ Len(Packets(c)) = ChunkSize(job[c].left)
           /\ \A i \in 1..ChunkSize(job[c].left) :
                 /\ Packets(c)[i].t = "block"
                 /\ Packets(c)[i].block = JobFile(c)[(Len(JobFile(c)) - job[c].left) + i]
<1>1. PICK file, left : file = JobFile(c) /\ left = job[c].left
  OBVIOUS
<1>2. left \in Nat /\ left > 0 /\ file \in Seq(Blocks) /\ Len(file) \in Nat
  <2>1. job[c].file \in Names /\ job[c].left \in Nat /\ local[c] \in [Names -> Entry]
    BY KeepLemma DEF Job
  <2> QED
    BY <1>1, <2>1, LenProperties DEF Entry, JobFile
<1>3. left <= Len(file)
  BY <1>1 DEF ClientInv, LeftInv, UploadingPlaces, JobFile
<1>4. PICK sent, n : sent = Len(file) - left /\ n = ChunkSize(left)
  OBVIOUS
<1>5. Packets(c) = Contents(SubSeq(file, sent + 1, sent + n))
  BY <1>1, <1>4 DEF Packets, JobFile
<1>6. sent \in Nat /\ n \in 1..left /\ n \in Nat /\ sent + n <= Len(file)
  BY <1>2, <1>3, <1>4, ProtocolAssumption DEF ChunkSize
<1>7. /\ Packets(c) \in Seq(Unit) /\ Len(Packets(c)) = n
      /\ \A i \in 1..n : Packets(c)[i].t = "block"
  BY <1>2, <1>5, <1>6, ContentsShape
<1>8. \A i \in 1..n : Packets(c)[i].block = file[sent + i]
  <2>1. \A i \in 1..n : Contents(SubSeq(file, sent + 1, sent + n))[i].block = file[sent + i]
    BY <1>2, <1>6, ContentsBlocks
  <2> QED
    BY <1>5, <2>1
<1>9. ChunkSize(job[c].left) = n /\ Len(JobFile(c)) - job[c].left = sent
  BY <1>1, <1>4
<1>10. /\ JobFile(c) \in Seq(Blocks) /\ job[c].left \in Nat
       /\ Len(JobFile(c)) \in Nat /\ job[c].left <= Len(JobFile(c))
       /\ ChunkSize(job[c].left) \in 1..job[c].left
  BY <1>1, <1>2, <1>3, <1>4, <1>6
<1>11. \A i \in 1..n : /\ Packets(c)[i].t = "block"
                       /\ Packets(c)[i].block = JobFile(c)[sent + i]
  BY <1>1, <1>7, <1>8
<1> QED
  BY <1>7, <1>9, <1>10, <1>11

(* A client sends on a connection that the server still attends to.        *)
LEMMA SentIncoming ==
    ASSUME TransferInv, InStepInv, NEW c \in Clients, TcpSend(c),
           NEW k, k = conn[c], Awaited(k)
    PROVE  /\ k \in Conns /\ CliSend(c, Len(Packets(c))) = "ok"
           /\ Incoming(k) \in Seq(Unit) /\ Packets(c) \in Seq(Unit)
           /\ Incoming(k)' = Incoming(k) \o Packets(c)
           /\ Leads(Incoming(k), Expects(k), Gives(at[c], job[c].left, <<>>))
           /\ \A d \in Clients : conn[d] = k => d = c
<1>1. Linked(c) /\ at[c] \in Sending
      /\ CliSend(c, Len(Packets(c))) \in Sent /\ CliWrites(c, Packets(c))
  BY DEF TcpSend
<1>2. /\ k \in Conns /\ net[k] \in Link /\ Queue(c) = net[k].queue["cli"]
      /\ Incoming(k) \in Seq(Unit) /\ Shape(at[c], job[c].left, Queue(c))
      /\ net[k].end["srv"] = "open" /\ net[k].end["cli"] = "open"
      /\ Leads(net[k].queue["srv"], Expects(k), Gives(at[c], job[c].left, Queue(c)))
  BY <1>1, LinkedTalk DEF Incoming
<1>3. Queue(c) = <<>>
  BY <1>1, <1>2 DEF Shape, Sending
<1>4. CliSend(c, Len(Packets(c))) = "ok"
  BY <1>1, <1>2, ErrorKinds DEF CliSend, SendResult
<1>5. PICK n \in AfterSend(net[k], "cli", Packets(c)) : net' = [net EXCEPT ![k] = n]
  BY <1>1 DEF CliWrites
<1>6. n = [net[k] EXCEPT !.queue["srv"] = @ \o Packets(c)]
  BY <1>2, <1>5 DEF AfterSend, Other
<1>7. n.queue["srv"] = net[k].queue["srv"] \o Packets(c)
  BY <1>2, <1>6 DEF Link, Ends
<1>8. net'[k] = n
  BY <1>2, <1>5 DEF TransferInv, NetInv
<1>9. Packets(c) \in Seq(Unit)
  BY PacketsLemma DEF TransferInv
<1>10. \A d \in Clients : conn[d] = k => d = c
  BY <1>2 DEF InStepInv, OwnersInv
<1> QED
  BY <1>2, <1>3, <1>4, <1>7, <1>8, <1>9, <1>10 DEF Incoming

(* What a connection without a client's step has: the others.              *)
LEMMA SentElsewhere ==
    ASSUME TransferInv, NEW c \in Clients, TcpSend(c), NEW l \in Conns, l # conn[c]
    PROVE  Incoming(l)' = Incoming(l)
  BY DEF TcpSend, CliWrites, TransferInv, NetInv, Incoming

(* What has all arrived is not added to; what has not gets its next blocks.*)
LEMMA ArrivesSent ==
    ASSUME TransferInv, InStepInv, NEW c \in Clients, TcpSend(c),
           NEW k, k = conn[c], Awaited(k),
           NEW i \in 0..Len(Incoming(k)), NEW got \in Nat, NEW file \in Seq(Blocks),
           Arrives(k, i, got, file)
    PROVE  Arrives(k, i, got, file)'
<1>1. PICK q, units : q = Incoming(k) /\ units = Packets(c)
  OBVIOUS
<1>2. /\ q \in Seq(Unit) /\ units \in Seq(Unit) /\ Incoming(k)' = q \o units
      /\ CliSend(c, Len(units)) = "ok" /\ \A d \in Clients : conn[d] = k => d = c
  BY <1>1, SentIncoming
<1>3. PICK n, u, len, sent : n = Len(q) /\ u = Len(units) /\ len = Len(file) /\ sent = got + (n - i)
  OBVIOUS
<1>4. n \in Nat /\ u \in Nat /\ len \in Nat /\ i \in 0..n /\ sent \in Nat
  BY <1>1, <1>2, <1>3, LenProperties
<1>5. /\ Len(q \o units) = n + u
      /\ \A j \in 1..n : (q \o units)[j] = q[j]
      /\ \A j \in (n + 1)..(n + u) : (q \o units)[j] = units[j - n]
  BY <1>2, <1>3, ConcatProperties
<1>6. \A m \in 1..n : i + m <= n /\ got + m <= len => q[i + m].block = file[got + m]
  BY <1>1, <1>3 DEF Arrives, Arrived
<1>7. UNCHANGED conn /\ ClientInv
  BY OwnSend DEF TransferInv
<1>8. SUFFICES /\ \A m \in 1..(n + u) : i + m <= n + u /\ got + m <= len
                                            => (q \o units)[i + m].block = file[got + m]
               /\ sent + u < len => Sends(c, len - (sent + u), file)'
  <2>1. got + ((n + u) - i) = sent + u
    BY <1>3, <1>4
  <2> QED
    BY <1>2, <1>3, <1>5, <1>7, <2>1 DEF Arrives, Arrived
<1>9. CASE sent >= len
  <2>1. ASSUME NEW m \in 1..(n + u), i + m <= n + u, got + m <= len
        PROVE  (q \o units)[i + m].block = file[got + m]
    <3>1. m \in 1..n /\ i + m <= n /\ i + m \in 1..n
      BY <1>3, <1>4, <1>9, <2>1
    <3> QED
      BY <1>5, <1>6, <2>1, <3>1
  <2>2. ~(sent + u < len)
    BY <1>4, <1>9
  <2> QED
    BY <2>1, <2>2
<1>10. CASE sent < len
  <2>1. PICK left : left = job[c].left
    OBVIOUS
  <2>2. at[c] = "sendFile" /\ JobFile(c) = file /\ left = len - sent
    BY <1>1, <1>3, <1>10, <2>1 DEF Arrives, Sends
  <2>3. left > 0 /\ left \in Nat
    BY <1>4, <1>10, <2>2
  <2>4. /\ u = ChunkSize(left) /\ u \in 1..left
        /\ \A j \in 1..u : units[j].block = file[(len - left) + j]
    BY <1>1, <1>3, <1>7, <2>1, <2>2, <2>3, BlocksSent
  <2>5. ASSUME NEW m \in 1..(n + u), i + m <= n + u, got + m <= len
        PROVE  (q \o units)[i + m].block = file[got + m]
    <3>1. CASE i + m <= n
      <4>1. m \in 1..n /\ i + m \in 1..n
        BY <1>4, <3>1
      <4> QED
        BY <1>5, <1>6, <2>5, <3>1, <4>1
    <3>2. CASE i + m > n
      <4>1. PICK j : j = (i + m) - n
        OBVIOUS
      <4>2. /\ j \in 1..u /\ i + m \in (n + 1)..(n + u) /\ (len - left) + j = got + m
        BY <1>3, <1>4, <2>2, <2>3, <2>5, <3>2, <4>1
      <4>3. (q \o units)[i + m] = units[j]
        BY <1>5, <4>1, <4>2
      <4> QED
        BY <2>4, <4>2, <4>3
    <3>3. i + m <= n \/ i + m > n
      BY <1>4
    <3> QED
      BY <3>1, <3>2, <3>3
  <2>6. ASSUME sent + u < len
        PROVE  Sends(c, len - (sent + u), file)'
    <3>1. SendFile(c, "ok")
      <4>1. PICK r : r = "ok" /\ r = CliSend(c, Len(Packets(c)))
        BY <1>1, <1>2
      <4>2. \/ SendMac(c, r) \/ SendDownload(c, r) \/ SendUpload(c, r) \/ SendFile(c, r)
            \/ SendAsk(c, r) \/ SendClose(c, r)
        BY <4>1 DEF TcpSend
      <4> QED
        BY <2>2, <4>1, <4>2 DEF SendMac, SendDownload, SendUpload, SendAsk, SendClose
    <3>2. left - u > 0 /\ left - u = len - (sent + u)
      BY <1>4, <2>2, <2>3, <2>4, <2>6
    <3>3. job' = [job EXCEPT ![c].left = left - u] /\ UNCHANGED <<at, local>>
      BY <2>1, <2>4, <3>1, <3>2 DEF SendFile
    <3>4. job'[c].left = left - u /\ job'[c].file = job[c].file
      BY <1>7, <3>3, KeepLemma DEF ClientInv, Job
    <3> QED
      BY <2>2, <3>2, <3>3, <3>4 DEF Sends, JobFile
  <2> QED
    BY <2>5, <2>6
<1>11. sent >= len \/ sent < len
  BY <1>4
<1> QED
  BY <1>9, <1>10, <1>11

(* A client sends data for an upload only where the server expects them.   *)
LEMMA SendsUploadData ==
    ASSUME NEW p \in Sending, NEW left \in Nat, Gives(p, left, <<>>) = WantData("Upload")
    PROVE  p = "uploadData"
<1>1. Gives(p, left, <<>>) \in {WantMac, WantHeader, WantBlocks(left), WantData("Download"),
                               WantData("Echo")} \/ p = "uploadData"
  BY SenderGives DEF Sending
<1>2. /\ WantData("Upload").t = "data" /\ WantData("Upload").op = "Upload"
      /\ WantMac.t = "mac" /\ WantHeader.t = "header" /\ WantBlocks(left).t \in {"header", "block"}
      /\ WantData("Download").op = "Download" /\ WantData("Echo").op = "Echo"
  BY DEF WantMac, WantHeader, WantData, WantBlocks, Want
<1> QED
  BY <1>1, <1>2

(* What comes after a last header is what its client gives.                *)
LEMMA LastLeads ==
    ASSUME NEW q \in Seq(Unit), q # <<>>, NEW x, NEW y, Leads(q, x, y),
           q[Len(q)].t = "header"
    PROVE  y = AfterOp(q[Len(q)].op)
<1>1. PICK e \in [0..Len(q) -> Expectation] : Follows(q, e) /\ e[0] = x /\ e[Len(q)] = y
  BY DEF Leads
<1>2. PICK n : n = Len(q)
  OBVIOUS
<1>3. n \in 1..Len(q)
  BY <1>2, LenProperties, EmptySeq
<1>4. e[n - 1].t = q[n].t /\ e[n] = AfterUnit(e[n - 1], q[n])
  BY <1>1, <1>3 DEF Follows
<1> QED
  BY <1>1, <1>2, <1>4 DEF AfterUnit

(* The data that a client sends announce what follows; there are none      *)
(* among the blocks of a file.                                             *)
LEMMA DataSent ==
    ASSUME TransferInv, InStepInv, WholeInv, NEW c \in Clients, TcpSend(c),
           NEW units, units = Packets(c), CliSend(c, Len(units)) = "ok",
           NEW i \in 1..Len(units), units[i].t = "data"
    PROVE  /\ i = 1 /\ Len(units) = 1
           /\ at[c] = "uploadData" => units[1].arg = Len(units[1].file)
           /\ units[1].file = <<>> \/ Sends(c, Len(units[1].file), units[1].file)'
           /\ units[1].file \in Seq(Blocks)
<1>1. PICK r : r = "ok" /\ r = CliSend(c, Len(units))
  OBVIOUS
<1>2. \/ SendMac(c, r) \/ SendDownload(c, r) \/ SendUpload(c, r) \/ SendFile(c, r)
      \/ SendAsk(c, r) \/ SendClose(c, r)
  BY <1>1 DEF TcpSend
<1>3. at[c] \in Sending /\ ClientInv /\ JobFits(at[c], job[c])
  BY DEF TcpSend, TransferInv, InStepInv, CommandInv
<1>4. /\ job[c].left \in Nat /\ <<>> \in Seq(Blocks)
      /\ JobFile(c) \in Seq(Blocks) /\ Len(JobFile(c)) \in Nat
  <2>1. job[c].file \in Names /\ job[c].left \in Nat /\ local[c] \in [Names -> Entry]
    BY <1>3, KeepLemma DEF Job
  <2> QED
    BY <2>1, LenProperties, EmptySeq DEF Entry, JobFile
<1>5. ASSUME NEW u, units = <<u>>
      PROVE  i = 1 /\ Len(units) = 1 /\ units[1] = u /\ u.t = "data"
  BY <1>5
<1>6. CASE at[c] = "uploadData"
  <2>1. units = <<Data(job[c].left, FileName[job[c].file], JobFile(c))>>
    BY <1>6 DEF Packets, JobFile
  <2>2. i = 1 /\ Len(units) = 1 /\ units[1].arg = job[c].left /\ units[1].file = JobFile(c)
    BY <1>5, <2>1 DEF Data
  <2>3. job[c].left = Len(JobFile(c))
    BY <1>6 DEF WholeInv
  <2>4. CASE job[c].left = 0
    BY <1>4, <2>2, <2>3, <2>4, EmptySeq
  <2>5. CASE job[c].left > 0
    <3>1. SendUpload(c, r)
      BY <1>2, <1>6 DEF SendMac, SendDownload, SendFile, SendAsk, SendClose
    <3>2. at' = [at EXCEPT ![c] = "sendFile"] /\ UNCHANGED <<job, local>>
      BY <1>1, <1>6, <2>5, <3>1 DEF SendUpload, Goto
    <3>3. Sends(c, Len(JobFile(c)), JobFile(c))'
      BY <1>3, <2>3, <3>2 DEF Sends, JobFile, ClientInv
    <3>4. PICK f : f = JobFile(c) /\ UNCHANGED JobFile(c)
      BY <3>2 DEF JobFile
    <3>5. Sends(c, Len(f), f)'
      BY <3>3, <3>4
    <3> QED
      BY <1>4, <2>2, <2>3, <3>4, <3>5
  <2>6. job[c].left = 0 \/ job[c].left > 0
    BY <1>4
  <2> QED
    BY <2>4, <2>5, <2>6
<1>7. CASE at[c] \in {"downloadData", "askData"}
  <2>1. \E arg, name : units = <<Data(arg, name, <<>>)>>
    BY <1>7 DEF Packets
  <2>2. i = 1 /\ Len(units) = 1 /\ units[1].file = <<>>
    BY <1>5, <2>1 DEF Data
  <2> QED
    BY <1>4, <1>7, <2>2
<1>8. CASE at[c] = "sendFile"
  <2>1. job[c].left > 0
    BY <1>3, <1>8 DEF JobFits
  <2> QED
    BY <1>3, <1>8, <2>1, BlocksSent
<1>9. CASE at[c] \in {"sendMac", "downloadHeader", "uploadHeader", "askHeader", "sendClose"}
  <2>1. units = <<Mac(MacOf[c])>> \/ units = <<Header(job[c].op)>>
    BY <1>9 DEF Packets
  <2> QED
    BY <1>5, <2>1 DEF Mac, Header
<1> QED
  BY <1>3, <1>6, <1>7, <1>8, <1>9 DEF Sending

(* The units of a queue that a client adds to.                             *)
LEMMA RequestsSent ==
    ASSUME TransferInv, InStepInv, WholeInv, NEW c \in Clients, TcpSend(c),
           NEW k, k = conn[c], Awaited(k), RequestsInv(k)
    PROVE  RequestsInv(k)'
<1>1. PICK q, units : q = Incoming(k) /\ units = Packets(c)
  OBVIOUS
<1>2. /\ q \in Seq(Unit) /\ units \in Seq(Unit) /\ Incoming(k)' = q \o units
      /\ CliSend(c, Len(units)) = "ok" /\ \A d \in Clients : conn[d] = k => d = c
      /\ Leads(q, Expects(k), Gives(at[c], job[c].left, <<>>))
  BY <1>1, SentIncoming
<1>3. PICK n, u : n = Len(q) /\ u = Len(units)
  OBVIOUS
<1>4. n \in Nat /\ u \in Nat
  BY <1>2, <1>3, LenProperties
<1>5. /\ Len(q \o units) = n + u
      /\ \A j \in 1..n : (q \o units)[j] = q[j]
      /\ \A j \in (n + 1)..(n + u) : (q \o units)[j] = units[j - n]
  BY <1>2, <1>3, ConcatProperties
<1>6. PICK r : r = q \o units
  OBVIOUS
<1>7. \A i \in 1..(n + u) : /\ i <= n => i \in 1..n /\ r[i] = q[i]
                            /\ i > n => i - n \in 1..u /\ r[i] = units[i - n]
                            /\ i <= n \/ i > n
  BY <1>4, <1>5, <1>6
<1>8. ASSUME NEW i \in 1..(n + u), r[i].t = "data", i > n
      PROVE  /\ i = n + 1 /\ u = 1 /\ r[i].file \in Seq(Blocks)
             /\ at[c] = "uploadData" => r[i].arg = Len(r[i].file)
             /\ r[i].file = <<>> \/ Sends(c, Len(r[i].file), r[i].file)'
  <2>1. i - n \in 1..Len(units) /\ units[i - n].t = "data" /\ r[i] = units[i - n]
    BY <1>3, <1>7, <1>8
  <2>2. /\ i - n = 1 /\ u = 1
        /\ at[c] = "uploadData" => units[1].arg = Len(units[1].file)
        /\ units[1].file = <<>> \/ Sends(c, Len(units[1].file), units[1].file)'
        /\ units[1].file \in Seq(Blocks)
    BY <1>1, <1>2, <1>3, <2>1, DataSent
  <2>3. i = n + 1
    BY <1>4, <2>2
  <2> QED
    BY <2>1, <2>2, <2>3
<1>9. ASSUME NEW i \in 1..(n + u), r[i].t = "data"
      PROVE  Arrives(k, i, 0, r[i].file)'
  <2>1. CASE i <= n
    <3>1. i \in 1..n /\ i \in 0..n /\ r[i] = q[i] /\ q[i] \in Unit
      BY <1>2, <1>3, <1>4, <1>7, <2>1, ElementOfSeq
    <3>2. q[i].file \in Seq(Blocks)
      BY <1>9, <3>1 DEF Unit
    <3>3. Arrives(k, i, 0, q[i].file)
      BY <1>1, <1>3, <1>9, <3>1 DEF RequestsInv
    <3> QED
      BY <1>1, <1>3, <3>1, <3>2, <3>3, ArrivesSent
  <2>2. CASE i > n
    <3>1. PICK file : file = r[i].file
      OBVIOUS
    <3>2. /\ i = n + 1 /\ u = 1 /\ file \in Seq(Blocks)
          /\ file = <<>> \/ Sends(c, Len(file), file)'
      BY <1>8, <1>9, <2>2, <3>1
    <3>3. Len(file) \in Nat /\ (file = <<>> => Len(file) = 0)
      BY <3>2, LenProperties
    <3>4. Arrived(r, i, 0, file)
      BY <1>4, <1>5, <1>6, <3>2 DEF Arrived
    <3>5. 0 + (Len(r) - i) = 0 /\ Len(file) - 0 = Len(file)
      BY <1>4, <1>5, <1>6, <3>2, <3>3
    <3>6. UNCHANGED conn
      BY OwnSend DEF TransferInv
    <3>7. ASSUME NEW d \in Clients, conn'[d] = k, 0 + (Len(r) - i) < Len(file)
          PROVE  Sends(d, Len(file) - (0 + (Len(r) - i)), file)'
      <4>1. PICK sent : sent = 0 + (Len(r) - i)
        OBVIOUS
      <4>2. sent = 0 /\ Len(file) - sent = Len(file) /\ d = c /\ file # <<>>
        <5>1. sent = 0 /\ Len(file) - 0 = Len(file)
          BY <3>5, <4>1
        <5>2. Len(file) > 0
          BY <3>5, <3>7
        <5>3. file # <<>>
          BY <3>3, <5>2
        <5>4. d = c
          BY <1>2, <3>6, <3>7
        <5> QED
          BY <5>1, <5>3, <5>4
      <4>3. Sends(c, Len(file), file)'
        BY <3>2, <4>2
      <4>4. Sends(d, Len(file) - sent, file)'
        BY <4>2, <4>3
      <4> QED
        BY <4>1, <4>4
    <3>8. Arrives(k, i, 0, file)'
      BY <1>2, <1>6, <3>4, <3>7 DEF Arrives
    <3> QED
      BY <3>1, <3>8
  <2> QED
    BY <1>7, <2>1, <2>2
<1>10. ASSUME NEW i \in 2..(n + u), r[i - 1].t = "header", r[i - 1].op = "Upload",
              r[i].t = "data"
       PROVE  r[i].arg = Len(r[i].file)
  <2>1. i \in 1..(n + u) /\ i - 1 \in 1..(n + u)
    BY <1>4
  <2>2. CASE i <= n
    <3>1. i \in 2..n /\ r[i] = q[i] /\ r[i - 1] = q[i - 1]
      BY <1>4, <1>7, <2>1, <2>2
    <3> QED
      BY <1>1, <1>3, <1>10, <3>1 DEF RequestsInv, Announces
  <2>3. CASE i > n
    <3>1. i = n + 1 /\ (at[c] = "uploadData" => r[i].arg = Len(r[i].file))
      BY <1>8, <1>10, <2>1, <2>3
    <3>2. i - 1 = n /\ n \in 1..n /\ r[n] = q[n] /\ q # <<>>
      <4>1. i - 1 = n /\ n >= 1
        BY <1>4, <3>1
      <4>2. n \in 1..n /\ n \in 1..(n + u) /\ n <= n
        BY <1>4, <4>1
      <4> QED
        BY <1>3, <1>7, <4>1, <4>2
    <3>3. Gives(at[c], job[c].left, <<>>) = AfterOp("Upload")
      BY <1>2, <1>3, <1>10, <3>2, LastLeads
    <3>4. AfterOp("Upload") = WantData("Upload")
      BY DEF AfterOp, HasData
    <3>5. job[c].left \in Nat /\ at[c] \in Sending
      BY KeepLemma DEF TransferInv, Job, TcpSend
    <3> QED
      BY <3>1, <3>3, <3>4, <3>5, SendsUploadData
  <2> QED
    BY <1>7, <2>1, <2>2, <2>3
<1>11. Incoming(k)' = r /\ Len(r) = n + u
  BY <1>2, <1>5, <1>6
<1> QED
  BY <1>9, <1>10, <1>11 DEF RequestsInv, Announces

(* What a request announces is still to come when it has come alone.       *)
LEMMA UploadingSent ==
    ASSUME TransferInv, InStepInv, WholeInv, UNCHANGED serverVars, UNCHANGED asked,
           NEW c \in Clients, TcpSend(c), NEW k, k = conn[c], Serves(k), UploadingInv(k)
    PROVE  UploadingInv(k)'
<1>1. PICK q, units : q = Incoming(k) /\ units = Packets(c)
  OBVIOUS
<1>2. Awaited(k)
  BY DEF Awaited
<1>3. /\ k \in Conns /\ q \in Seq(Unit) /\ units \in Seq(Unit) /\ Incoming(k)' = q \o units
      /\ CliSend(c, Len(units)) = "ok"
      /\ Leads(q, Expects(k), Gives(at[c], job[c].left, <<>>))
  BY <1>1, <1>2, SentIncoming
<1>4. UNCHANGED <<pc, packet, disk, ul>>
  BY DEF serverVars
<1>5. PICK file, got : file = asked[k] /\ got = Len(Uploaded) /\ UNCHANGED Uploaded
  BY <1>4 DEF Uploaded
<1>6. file \in Seq(Blocks) /\ got \in Nat /\ 0 \in 0..Len(q)
  <2>1. ul.name \in Names /\ disk \in [Names -> Entry] /\ asked \in [Conns -> Seq(Blocks)]
    BY DEF TransferInv, IInv, TypeOK, NetInv
  <2>2. Uploaded \in Seq(Blocks)
    BY <2>1 DEF Uploaded, Entry
  <2> QED
    BY <1>3, <1>5, <2>1, <2>2, LenProperties
<1>7. pc = "Upload" => Arrives(k, 0, 0, file)'
  BY <1>1, <1>2, <1>5, <1>6, ArrivesSent DEF UploadingInv
<1>8. pc = "RecvChunk" => Arrives(k, 0, got, file)'
  BY <1>1, <1>2, <1>5, <1>6, ArrivesSent DEF UploadingInv
<1>9. ASSUME pc = "RecvData", packet.op = "Upload", q \o units # <<>>
      PROVE  Announces(q \o units, 1)
  <2>1. CASE q # <<>>
    <3>1. (q \o units)[1] = q[1]
      BY <1>3, <2>1, ConcatProperties, LenProperties, EmptySeq
    <3> QED
      BY <1>1, <1>9, <2>1, <3>1 DEF UploadingInv, Announces
  <2>2. CASE q = <<>>
    <3>1. q \o units = units /\ units # <<>>
      BY <1>3, <1>9, <2>2, ConcatProperties, EmptySeq
    <3>2. 1 \in 1..Len(units)
      BY <1>3, <3>1, LenProperties, EmptySeq
    <3>3. k \notin backlog
      BY <1>3 DEF InStepInv, ServiceInv
    <3>4. Gives(at[c], job[c].left, <<>>) = WantData("Upload")
      BY <1>3, <1>9, <2>2, <3>3, LeadsNowhere DEF Expects, Doing
    <3>5. at[c] = "uploadData"
      <4>1. job[c].left \in Nat /\ at[c] \in Sending
        BY KeepLemma DEF TransferInv, Job, TcpSend
      <4> QED
        BY <3>4, <4>1, SendsUploadData
    <3>6. units[1].t = "data" => units[1].arg = Len(units[1].file)
      BY <1>1, <1>3, <3>2, <3>5, DataSent
    <3> QED
      BY <3>1, <3>6 DEF Announces
  <2> QED
    BY <2>1, <2>2
<1> QED
  BY <1>3, <1>4, <1>5, <1>7, <1>8, <1>9 DEF UploadingInv

-----------------------------------------------------------------------------
(* Every step of a client.                                                 *)

LEMMA OtherContent ==
    ASSUME UNCHANGED serverVars, UNCHANGED asked, NEW c \in Clients, Others(c),
           NEW l, Incoming(l)' = Incoming(l), l \in backlog' <=> l \in backlog,
           conn'[c] = l => conn[c] = l /\ at[c] # "sendFile", ContentInv(l)
    PROVE  ContentInv(l)'
  BY OthersSteady, ContentSteady

LEMMA ReceiveContent ==
    ASSUME TransferInv, UNCHANGED serverVars, UNCHANGED asked,
           NEW c \in Clients, TcpReceive(c), NEW l \in Conns, ContentInv(l)
    PROVE  ContentInv(l)'
<1>1. PICK u : Linked(c) /\ CliReads(c, u)
  BY DEF TcpReceive
<1>2. Incoming(l)' = Incoming(l) /\ UNCHANGED backlog
  BY <1>1, ReceiveIncoming DEF TransferInv, CliReads
<1>3. Others(c) /\ UNCHANGED conn /\ at[c] # "sendFile"
  BY OwnReceive DEF TransferInv
<1> QED
  BY <1>2, <1>3, OtherContent

LEMMA SendContent ==
    ASSUME TransferInv, InStepInv, WholeInv, UNCHANGED serverVars, UNCHANGED asked,
           NEW c \in Clients, TcpSend(c), NEW l \in Conns, ContentInv(l)
    PROVE  ContentInv(l)'
<1>1. Others(c) /\ UNCHANGED <<conn, backlog>>
  BY OwnSend DEF TransferInv, TcpSend, CliWrites
<1>2. CASE l # conn[c]
  <2>1. Incoming(l)' = Incoming(l)
    BY <1>2, SentElsewhere
  <2> QED
    BY <1>1, <1>2, <2>1, OtherContent
<1>3. CASE l = conn[c]
  <2>1. (Serves(l)' <=> Serves(l)) /\ (Awaited(l)' <=> Awaited(l))
    BY <1>1, ServerSame
  <2>2. Awaited(l) => RequestsInv(l)'
    BY <1>3, RequestsSent DEF ContentInv
  <2>3. Serves(l) => UploadingInv(l)'
    BY <1>3, UploadingSent DEF ContentInv
  <2> QED
    BY <2>1, <2>2, <2>3 DEF ContentInv
<1> QED
  BY <1>2, <1>3

(* A client that ends, or lets go of its connection.                       *)
LEMMA LeaveContent ==
    ASSUME TransferInv, InStepInv, UNCHANGED serverVars, UNCHANGED <<asked, backlog>>,
           NEW c \in Clients, ClientDies(c) \/ ConnectFails(c),
           UNCHANGED net \/ net' = Dropped(c), NEW l \in Conns, ContentInv(l)
    PROVE  ContentInv(l)'
<1>1. Others(c) /\ conn'[c] \notin Conns
  <2>1. CASE ClientDies(c)
    BY <2>1, OwnEnd DEF TransferInv
  <2>2. CASE ConnectFails(c)
    BY <2>2, ClientAssumption
    DEF ConnectFails, Return, Goto, Others, TransferInv, ClientInv, NoSocket
  <2> QED
    BY <2>1, <2>2
<1>2. Incoming(l)' = Incoming(l)
  BY DroppedFacts DEF Incoming
<1> QED
  BY <1>1, <1>2, OtherContent

(* Nothing has come on a new connection.                                   *)
LEMMA ConnectContent ==
    ASSUME TransferInv, InStepInv, UNCHANGED serverVars, UNCHANGED asked,
           NEW c \in Clients, TcpConnect(c), NEW l \in Conns, ContentInv(l)
    PROVE  ContentInv(l)'
<1>1. PICK k \in Conns : /\ net[k] = Free /\ Connect(c, k)
                         /\ net' = [Dropped(c) EXCEPT ![k] = Fresh]
                         /\ backlog' = backlog \cup {k}
  BY DEF TcpConnect
<1>2. Others(c) /\ conn'[c] = k
  BY <1>1 DEF Connect, Goto, Others, TransferInv, ClientInv
<1>3. DOMAIN Dropped(c) = Conns
  BY DEF Dropped, TransferInv, NetInv
<1>4. CASE l # k
  <2>1. net'[l] = Dropped(c)[l]
    BY <1>1, <1>3, <1>4
  <2>2. Incoming(l)' = Incoming(l)
    BY <2>1, DroppedFacts DEF Incoming
  <2> QED
    BY <1>1, <1>2, <1>4, <2>2, OtherContent
<1>5. CASE l = k
  <2>1. net[k].end["srv"] = "closed"
    BY <1>1 DEF Free, Ends
  <2>2. ~Serves(k)
    BY <2>1 DEF InStepInv, ServiceInv, Awaited
  <2>3. UNCHANGED <<pc, clients, cur>>
    BY DEF serverVars
  <2>4. ~Serves(k)'
    BY <2>2, <2>3 DEF Serves, Me
  <2>5. net'[k] = Fresh
    BY <1>1, <1>3
  <2>6. Incoming(k)' = <<>>
    BY <2>5 DEF Incoming, Fresh, Ends
  <2>7. Len(<<>>) = 0
    OBVIOUS
  <2>8. RequestsInv(k)'
    BY <2>6, <2>7 DEF RequestsInv
  <2> QED
    BY <1>5, <2>4, <2>8 DEF ContentInv
<1> QED
  BY <1>4, <1>5

LEMMA ClientContent ==
    ASSUME TransferInv, InStepInv, WholeInv,
           NEW c \in Clients, ClientStep(c) \/ UserStep(c) \/ KillClient(c),
           NEW l \in Conns, ContentInv(l)
    PROVE  ContentInv(l)'
<1>1. UNCHANGED serverVars /\ UNCHANGED asked
  BY DEF ClientStep, UserStep, KillClient
<1>2. CASE TcpReceive(c) \/ TcpSend(c) \/ TcpConnect(c)
  BY <1>1, <1>2, ReceiveContent, SendContent, ConnectContent
<1>3. CASE \/ TcpSendUnconnected(c) \/ TcpClientSigpipe(c) \/ KillClient(c)
           \/ TcpConnectFails(c) \/ TcpQuit(c)
  <2>1. /\ ClientDies(c) \/ ConnectFails(c)
        /\ UNCHANGED net \/ net' = Dropped(c)
    BY <1>3 DEF TcpSendUnconnected, SendUnconnected, TcpClientSigpipe, KillClient,
       TcpConnectFails, TcpQuit, QuitCmd
  <2>2. UNCHANGED backlog
    BY <1>3 DEF TcpSendUnconnected, SendUnconnected, TcpClientSigpipe, KillClient,
       TcpConnectFails, TcpQuit, QuitCmd
  <2> QED
    BY <1>1, <2>1, <2>2, LeaveContent
<1>4. CASE /\ \/ \E yes \in BOOLEAN, canSave \in OpenResults : Answer(c, yes, canSave)
              \/ \E name \in Wanted[c], canSave \in OpenResults : DownloadCmd(c, name, canSave)
              \/ \E name \in Offered[c] : UploadCmd(c, name)
              \/ \E op \in Asks[c] \ {"Close"} : AskCmd(c, op)
              \/ "Close" \in Asks[c] /\ CloseCmd(c)
              \/ StartClient(c)
           /\ UNCHANGED <<net, backlog>>
  <2>1. Others(c) /\ UNCHANGED conn /\ at[c] # "sendFile"
    BY <1>4, OwnCommand DEF TransferInv
  <2>2. Incoming(l)' = Incoming(l)
    BY <1>4 DEF Incoming
  <2> QED
    BY <1>1, <1>4, <2>1, <2>2, OtherContent
<1> QED
  BY <1>2, <1>3, <1>4 DEF ClientStep, UserStep

LEMMA WholeOthers ==
    ASSUME WholeInv, NEW c \in Clients, Others(c),
           at'[c] \in {"uploadHeader", "uploadData"} => job'[c].left = Len(JobFile(c)')
    PROVE  WholeInv'
  BY DEF WholeInv, Others, JobFile

(* Nobody but the user begins an upload.                                   *)
LEMMA ClientWhole ==
    ASSUME TransferInv, WholeInv,
           NEW c \in Clients, ClientStep(c) \/ UserStep(c) \/ KillClient(c)
    PROVE  WholeInv'
<1>1. ClientInv /\ at[c] \in ClientPlaces
  BY DEF TransferInv, ClientInv
<1>2. CASE TcpReceive(c)
  <2>1. Others(c)
    BY <1>1, <1>2, OwnReceive
  <2>2. at'[c] \notin {"uploadHeader", "uploadData"}
    <3>1. ASSUME NEW r, NEW op, RecvGreeting(c, r, op) PROVE at'[c] \in {"recvStamp", "prompt"}
      BY <1>1, <3>1 DEF RecvGreeting, Return, Goto, ClientInv
    <3>2. ASSUME NEW r, NEW name, RecvStamp(c, r, name) PROVE at'[c] \in {"ask", "prompt"}
      BY <1>1, <3>2 DEF RecvStamp, Return, Goto, ClientInv
    <3>3. ASSUME NEW r, NEW ready, NEW total, RecvResponse(c, r, ready, total)
          PROVE  at'[c] \in {"recvFile", "prompt"}
      BY <1>1, <3>3 DEF RecvResponse, FailDownload, Return, Goto, ClientInv
    <3>4. ASSUME NEW r, NEW d, RecvFile(c, r, d) PROVE at'[c] \in {"recvFile", "prompt"}
      BY <1>1, <3>4 DEF RecvFile, FailDownload, Return, Goto, ClientInv
    <3>5. ASSUME NEW r, RecvAnswer(c, r) PROVE at'[c] = "prompt"
      BY <1>1, <3>5 DEF RecvAnswer, Return, Goto, ClientInv
    <3> QED
      BY <1>2, <3>1, <3>2, <3>3, <3>4, <3>5 DEF TcpReceive
  <2> QED
    BY <2>1, <2>2, WholeOthers
<1>3. CASE TcpSend(c)
  <2>1. Others(c)
    BY <1>1, <1>3, OwnSend
  <2>2. PICK r : \/ SendMac(c, r) \/ SendDownload(c, r) \/ SendUpload(c, r)
                 \/ SendFile(c, r) \/ SendAsk(c, r) \/ SendClose(c, r)
    BY <1>3 DEF TcpSend
  <2>3. CASE SendMac(c, r) \/ SendAsk(c, r) \/ SendClose(c, r) \/ SendFile(c, r)
    <3>1. at'[c] \in {"recvGreeting", "askData", "recvAnswer", "sendFile", "prompt"}
      BY <1>1, <2>3 DEF SendMac, SendAsk, SendClose, SendFile, Return, Goto, ClientInv
    <3> QED
      BY <2>1, <3>1, WholeOthers
  <2>4. CASE SendDownload(c, r)
    <3>1. at'[c] \in {"downloadData", "recvResponse", "prompt"}
      BY <1>1, <2>4 DEF SendDownload, FailDownload, Return, Goto, ClientInv
    <3> QED
      BY <2>1, <3>1, WholeOthers
  <2>5. CASE SendUpload(c, r)
    <3>1. \/ at'[c] \in {"sendFile", "prompt"}
          \/ at[c] = "uploadHeader" /\ UNCHANGED <<job, local>>
      BY <1>1, <2>5 DEF SendUpload, Return, Goto, ClientInv
    <3>2. at[c] = "uploadHeader" /\ UNCHANGED <<job, local>> => job'[c].left = Len(JobFile(c)')
      BY DEF WholeInv, JobFile
    <3> QED
      BY <2>1, <3>1, <3>2, WholeOthers
  <2> QED
    BY <2>2, <2>3, <2>4, <2>5
<1>4. CASE ClientDies(c) \/ ConnectFails(c) \/ \E k \in Conns : Connect(c, k)
  <2>1. Others(c)
    BY <1>1, <1>4, OwnEnd DEF ConnectFails, Connect, Return, Goto, Others, ClientInv
  <2>2. at'[c] \in {"dead", "prompt", "sendMac"}
    BY <1>1, <1>4 DEF ClientDies, ConnectFails, Connect, Return, Goto, ClientInv
  <2> QED
    BY <2>1, <2>2, WholeOthers
<1>5. CASE \/ \E yes \in BOOLEAN, canSave \in OpenResults : Answer(c, yes, canSave)
           \/ \E name \in Wanted[c], canSave \in OpenResults : DownloadCmd(c, name, canSave)
           \/ \E name \in Offered[c] : UploadCmd(c, name)
           \/ \E op \in Asks[c] \ {"Close"} : AskCmd(c, op)
           \/ "Close" \in Asks[c] /\ CloseCmd(c)
           \/ StartClient(c)
  <2>1. Others(c)
    BY <1>1, <1>5, OwnCommand
  <2>2. ASSUME NEW name, NEW start, NEW canSave, StartDownload(c, name, start, canSave)
        PROVE  at'[c] \in {"downloadHeader", "prompt"}
    BY <1>1, <2>2 DEF StartDownload, Return, Goto, ClientInv
  <2>3. CASE \/ \E yes \in BOOLEAN, canSave \in OpenResults : Answer(c, yes, canSave)
             \/ \E name \in Wanted[c], canSave \in OpenResults : DownloadCmd(c, name, canSave)
             \/ \E op \in Asks[c] \ {"Close"} : AskCmd(c, op)
             \/ "Close" \in Asks[c] /\ CloseCmd(c)
             \/ StartClient(c)
    <3>1. at'[c] \in {"downloadHeader", "prompt", "askHeader", "sendClose"}
      BY <1>1, <2>2, <2>3
      DEF Answer, DownloadCmd, AskCmd, CloseCmd, StartClient, Return, Goto, ClientInv
    <3> QED
      BY <2>1, <3>1, WholeOthers
  <2>4. CASE \E name \in Offered[c] : UploadCmd(c, name)
    <3>1. PICK name : UploadCmd(c, name)
      BY <2>4
    <3>2. /\ job'[c].file = name /\ job'[c].left = Len(local[c][name].data)
          /\ UNCHANGED local
      BY <1>1, <3>1 DEF UploadCmd, Goto, Idle, ClientInv
    <3> QED
      BY <2>1, <3>2, WholeOthers DEF JobFile
  <2> QED
    BY <1>5, <2>3, <2>4
<1> QED
  BY <1>2, <1>3, <1>4, <1>5 DEF ClientStep, UserStep, KillClient, TcpSendUnconnected,
     SendUnconnected, TcpClientSigpipe, TcpConnect, TcpConnectFails, TcpQuit, QuitCmd

-----------------------------------------------------------------------------
(* What the server reads.                                                  *)

(* After u units are read, what came after the first i comes after the     *)
(* first j, and of a file `had' blocks are no longer to come.              *)
LEMMA ArrivesShift ==
    ASSUME UNCHANGED clientVars, NEW k, NEW q \in Seq(Unit), q = Incoming(k),
           NEW u \in 0..Len(q), NEW rest, rest = SubSeq(q, u + 1, Len(q)), Incoming(k)' = rest,
           NEW i \in 0..Len(q), NEW got \in Nat, NEW file \in Seq(Blocks),
           Arrives(k, i, got, file),
           NEW j \in Nat, NEW more \in Nat, j + u = i + more
    PROVE  Arrives(k, j, got + more, file)'
<1>1. PICK n : n = Len(q)
  OBVIOUS
<1>2. n \in Nat /\ Len(file) \in Nat /\ u \in 0..n /\ i \in 0..n
  BY <1>1, LenProperties
<1>3. Len(rest) = n - u /\ \A m \in 1..(n - u) : rest[m] = q[m + u]
  <2>1. Len(rest) = Len(q) - u /\ \A m \in 1..Len(rest) : rest[m] = q[m + u]
    BY RestLemma, SMTT(60)
  <2>2. Len(rest) = n - u
    BY <1>1, <2>1
  <2> QED
    BY <2>1, <2>2
<1>4. \A m \in 1..n : i + m <= n /\ got + m <= Len(file) => q[i + m].block = file[got + m]
  BY <1>1 DEF Arrives, Arrived
<1>5. ASSUME NEW m \in 1..(n - u), j + m <= n - u, (got + more) + m <= Len(file)
      PROVE  rest[j + m].block = file[(got + more) + m]
  <2>1. j + m \in 1..(n - u) /\ more + m \in 1..n /\ i + (more + m) <= n
    BY <1>2, <1>5
  <2>2. (j + m) + u = i + (more + m) /\ got + (more + m) = (got + more) + m
    BY <1>2, <1>5
  <2>3. q[i + (more + m)].block = file[got + (more + m)]
    BY <1>4, <1>5, <2>1, <2>2
  <2>4. rest[j + m] = q[(j + m) + u]
    BY <1>3, <2>1
  <2> QED
    BY <2>2, <2>3, <2>4
<1>6. PICK sent : sent = got + (n - i) /\ sent = (got + more) + ((n - u) - j)
  BY <1>2
<1>7. UNCHANGED <<at, conn, job, local>>
  BY DEF clientVars
<1>8. ASSUME NEW c \in Clients, conn'[c] = k, sent < Len(file)
      PROVE  Sends(c, Len(file) - sent, file)'
  <2>1. Sends(c, Len(file) - sent, file)
    BY <1>1, <1>6, <1>7, <1>8 DEF Arrives
  <2> QED
    BY <1>7, <2>1 DEF Sends, JobFile
<1>9. Arrived(rest, j, got + more, file)
  BY <1>3, <1>5 DEF Arrived
<1> QED
  BY <1>3, <1>6, <1>8, <1>9 DEF Arrives

LEMMA RequestsShift ==
    ASSUME UNCHANGED clientVars, NEW k, NEW q \in Seq(Unit), q = Incoming(k),
           NEW u \in 0..Len(q), NEW rest, rest = SubSeq(q, u + 1, Len(q)), Incoming(k)' = rest,
           RequestsInv(k)
    PROVE  RequestsInv(k)'
<1>1. PICK n : n = Len(q)
  OBVIOUS
<1>2. n \in Nat /\ u \in 0..n
  BY <1>1, LenProperties
<1>3. Len(rest) = n - u /\ \A m \in 1..(n - u) : rest[m] = q[m + u]
  <2>1. Len(rest) = Len(q) - u /\ \A m \in 1..Len(rest) : rest[m] = q[m + u]
    BY RestLemma, SMTT(60)
  <2>2. Len(rest) = n - u
    BY <1>1, <2>1
  <2> QED
    BY <2>1, <2>2
<1>4. ASSUME NEW j \in 1..(n - u), rest[j].t = "data"
      PROVE  Arrives(k, j, 0, rest[j].file)'
  <2>1. PICK i, file : i = j + u /\ file = rest[j].file
    OBVIOUS
  <2>2. i \in 1..n /\ i \in 0..n /\ j \in Nat /\ j + u = i + 0 /\ 0 \in Nat /\ 0 + 0 = 0
    BY <1>2, <2>1
  <2>3. q[i].t = "data" /\ q[i].file = file /\ q[i] \in Unit
    BY <1>1, <1>3, <1>4, <2>1, <2>2, ElementOfSeq
  <2>4. file \in Seq(Blocks)
    BY <2>3 DEF Unit
  <2>5. Arrives(k, i, 0, file)
    BY <1>1, <2>2, <2>3 DEF RequestsInv
  <2>6. Arrives(k, j, 0 + 0, file)'
    BY <1>1, <2>2, <2>4, <2>5, ArrivesShift
  <2> QED
    BY <2>1, <2>2, <2>6
<1>5. ASSUME NEW j \in 2..(n - u), rest[j - 1].t = "header", rest[j - 1].op = "Upload"
      PROVE  Announces(rest, j)
  <2>1. PICK i : i = j + u
    OBVIOUS
  <2>2. i \in 2..n /\ i - 1 = (j - 1) + u /\ j \in 1..(n - u) /\ j - 1 \in 1..(n - u)
    BY <1>2, <2>1
  <2>3. rest[j] = q[i] /\ rest[j - 1] = q[i - 1]
    BY <1>3, <2>1, <2>2
  <2>4. Announces(q, i)
    BY <1>1, <1>5, <2>2, <2>3 DEF RequestsInv
  <2> QED
    BY <2>3, <2>4 DEF Announces
<1> QED
  BY <1>3, <1>4, <1>5 DEF RequestsInv, Announces

(* A step of the server that serves k only matters there.                  *)
LEMMA ServedContent ==
    ASSUME TransferInv, InStepInv, Serving(pc), pc \notin {"Listen", "Dead"},
           \A l \in Conns : ContentInv(l), UNCHANGED clientVars, UNCHANGED <<backlog, cur>>,
           NEW k, k = S, NEW n, SrvUpdate(n),
           \/ Len(clients') < Len(clients)
           \/ Len(clients') = Len(clients) /\ clients'[cur].conn = k,
           Len(clients') \in Nat,
           pc' \notin {"Listen", "Dead"} /\ Len(clients') = Len(clients) /\ net'[k] = n =>
              RequestsInv(k)' /\ UploadingInv(k)'
    PROVE  \A l \in Conns : ContentInv(l)'
<1>1. k \in Conns /\ cur = Len(clients) /\ Len(clients) \in Nat /\ \A l : Serves(l) <=> l = k
  BY ServerServes
<1>2. UNCHANGED <<at, conn, job, local>>
  BY DEF clientVars
<1>3. Serves(k) /\ k \notin backlog
  BY <1>1 DEF InStepInv, ServiceInv
<1> TAKE l \in Conns
<1>4. CASE l # k
  <2>1. net'[l] = net[l]
    BY <1>4 DEF SrvUpdate, TransferInv, NetInv
  <2>2. ~Serves(l)'
    BY <1>1, <1>4 DEF Serves, Me
  <2>3. Awaited(l)' => Awaited(l)
    BY <2>2 DEF Awaited
  <2>4. Steady(l)
    BY <1>2, <2>1 DEF Steady, Incoming, JobFile
  <2>5. Awaited(l) => RequestsInv(l)'
    BY <2>4, RequestsSteady DEF ContentInv
  <2> QED
    BY <2>2, <2>3, <2>5 DEF ContentInv
<1>5. CASE l = k
  <2>1. Awaited(k)' => Serves(k)'
    BY <1>3 DEF Awaited
  <2>2. Serves(k)' => pc' \notin {"Listen", "Dead"} /\ Len(clients') = Len(clients)
    BY <1>1 DEF Serves
  <2>3. Len(clients') = Len(clients) => net'[k] = n
    BY <1>1 DEF SrvUpdate, TransferInv, NetInv
  <2> QED
    BY <1>5, <2>1, <2>2, <2>3 DEF ContentInv
<1> QED
  BY <1>4, <1>5

(* The server reads u units, and goes on to where no upload is under way.  *)
LEMMA ReadsContent ==
    ASSUME TransferInv, InStepInv, Serving(pc), pc \notin {"Listen", "Dead"},
           \A l \in Conns : ContentInv(l), UNCHANGED clientVars, UNCHANGED cur,
           NEW u \in Nat, SrvReads(u), SrvQueue # <<>> => u <= Len(SrvQueue),
           \/ Len(clients') < Len(clients)
           \/ Len(clients') = Len(clients) /\ clients'[cur].conn = S,
           Len(clients') \in Nat,
           NEW k, k = S, NEW rest, rest = SubSeq(SrvQueue, u + 1, Len(SrvQueue)),
           pc' \notin {"Listen", "Dead"} /\ Len(clients') = Len(clients) =>
              \/ pc' \notin {"RecvData", "Upload", "RecvChunk"}
              \/ SrvQueue # <<>> /\ (Incoming(k)' = rest => UploadingInv(k)')
    PROVE  \A l \in Conns : ContentInv(l)'
<1>1. /\ k \in Conns /\ net[k] \in Link /\ SrvQueue = Incoming(k) /\ Incoming(k) \in Seq(Unit)
      /\ UNCHANGED backlog
  BY ServerServes, ServerTalk DEF SrvQueue, Incoming, SrvReads
<1>2. PICK n : n = AfterRecv(net[k], "srv", u) /\ SrvUpdate(n)
  BY DEF SrvReads
<1>3. RequestsInv(k)
  BY <1>1, ServerServes DEF ContentInv, Awaited
<1>4. ASSUME pc' \notin {"Listen", "Dead"}, Len(clients') = Len(clients), net'[k] = n
      PROVE  RequestsInv(k)' /\ UploadingInv(k)'
  <2>1. CASE SrvQueue # <<>>
    <3>1. n.queue["srv"] = rest
      BY <1>1, <1>2, <2>1 DEF AfterRecv, Link, Ends, SrvQueue, Incoming
    <3>2. Incoming(k)' = rest
      BY <1>4, <3>1 DEF Incoming
    <3>3. PICK q : q = Incoming(k) /\ q = SrvQueue
      BY <1>1
    <3>4. u \in 0..Len(q) /\ q \in Seq(Unit) /\ rest = SubSeq(q, u + 1, Len(q))
      BY <1>1, <2>1, <3>3, LenProperties
    <3>5. RequestsInv(k)'
      BY <1>3, <3>2, <3>3, <3>4, RequestsShift
    <3>6. pc' \notin {"RecvData", "Upload", "RecvChunk"} => UploadingInv(k)'
      BY DEF UploadingInv
    <3> QED
      BY <1>4, <3>2, <3>5, <3>6
  <2>2. CASE SrvQueue = <<>>
    <3>1. n.queue = net[k].queue
      BY <1>1, <1>2, <2>2 DEF AfterRecv, Link, Incoming
    <3>2. Incoming(k)' = <<>>
      BY <1>1, <1>4, <2>2, <3>1 DEF Incoming
    <3>3. Len(<<>>) = 0
      OBVIOUS
    <3>4. RequestsInv(k)'
      BY <3>2, <3>3 DEF RequestsInv
    <3>5. UploadingInv(k)'
      BY <1>4, <2>2 DEF UploadingInv
    <3> QED
      BY <3>4, <3>5
  <2> QED
    BY <2>1, <2>2
<1> QED
  BY <1>1, <1>2, <1>4, ServedContent

(* What the server sends changes nothing of what comes to it.              *)
LEMMA WritesContent ==
    ASSUME TransferInv, InStepInv, Serving(pc), pc \notin {"Listen", "Dead"},
           \A l \in Conns : ContentInv(l), UNCHANGED clientVars, UNCHANGED cur,
           NEW units, SrvWrites(units),
           \/ Len(clients') < Len(clients)
           \/ Len(clients') = Len(clients) /\ clients'[cur].conn = S,
           Len(clients') \in Nat,
           pc' \notin {"RecvData", "Upload", "RecvChunk"}
    PROVE  \A l \in Conns : ContentInv(l)'
<1>1. PICK k : k = S
  OBVIOUS
<1>2. k \in Conns /\ net[k] \in Link /\ Serves(k)
  BY <1>1, ServerServes
<1>3. PICK n \in AfterSend(net[k], "srv", units) : SrvUpdate(n)
  BY <1>1 DEF SrvWrites
<1>4. n.queue["srv"] = net[k].queue["srv"]
  BY <1>2, <1>3 DEF AfterSend, Other, Link, Ends
<1>5. UNCHANGED backlog /\ RequestsInv(k)
  BY <1>2 DEF SrvWrites, ContentInv, Awaited
<1>6. UNCHANGED <<at, conn, job, local>>
  BY DEF clientVars
<1>7. ASSUME net'[k] = n PROVE RequestsInv(k)'
  <2>1. Steady(k)
    BY <1>4, <1>6, <1>7 DEF Steady, Incoming, JobFile
  <2> QED
    BY <1>5, <2>1, RequestsSteady
<1>8. UploadingInv(k)'
  BY DEF UploadingInv
<1> QED
  BY <1>1, <1>3, <1>5, <1>7, <1>8, ServedContent

-----------------------------------------------------------------------------
(* Every step of the server.                                               *)

LEMMA RecvMacContent ==
    ASSUME TransferInv, InStepInv, \A l \in Conns : ContentInv(l), UNCHANGED clientVars,
           TcpRecvMac
    PROVE  \A l \in Conns : ContentInv(l)'
<1>1. Serving("RecvMac") /\ Serving(pc) /\ pc = "RecvMac" /\ SrvReads(1)
  BY DEF TcpRecvMac, Serving
<1>2. PICK m \in IF SrvRecv = "ok" THEN MacsIn(Head(SrvQueue)) ELSE {ZeroMac} :
         RecvMac(SrvRecv, m)
  BY DEF TcpRecvMac
<1>3. PICK cs, st : /\ cs = IF SrvRecv = "ok"
                            THEN [clients EXCEPT ![cur] = [conn |-> Me.conn, mac |-> m]]
                            ELSE clients
                    /\ clients' = AfterCheckFail(cs, st)
  BY <1>2 DEF RecvMac
<1>4. clients \in Seq(Handle) /\ clients[cur].conn = S /\ S \in Conns /\ cur \in 1..Len(clients)
  BY <1>1, ServedKept, ServedLemma DEF TransferInv, Serving
<1>5. m \in Macs
  <2>1. SrvRecv = "ok" => Head(SrvQueue) \in Unit
    BY <1>1, ServedLemma DEF TransferInv
  <2> QED
    BY <1>2, <2>1, ServerAssumption DEF MacsIn, Unit
<1>6. cs \in Seq(Handle) /\ Len(cs) = Len(clients) /\ cs[cur].conn = S
  <2>1. [conn |-> Me.conn, mac |-> m] \in Handle
    BY <1>4, <1>5 DEF Handle, S
  <2> QED
    BY <1>3, <1>4, <2>1, ExceptSeq DEF S
<1>7. /\ \/ Len(clients') < Len(clients)
         \/ Len(clients') = Len(clients) /\ clients'[cur].conn = S
      /\ Len(clients') \in Nat
  BY <1>1, <1>3, <1>6, CheckedLemma
<1>8. pc' \in {"Listen", "Greet"} /\ UNCHANGED cur
  BY <1>2 DEF RecvMac
<1>9. SrvQueue # <<>> => 1 <= Len(SrvQueue)
  BY <1>1, ServedLemma, LenProperties, EmptySeq DEF TransferInv
<1> QED
  BY <1>1, <1>7, <1>8, <1>9, ReadsContent

LEMMA RecvHeaderContent ==
    ASSUME TransferInv, InStepInv, \A l \in Conns : ContentInv(l), UNCHANGED clientVars,
           TcpRecvHeader
    PROVE  \A l \in Conns : ContentInv(l)'
<1>1. Serving("RecvHeader") /\ Serving(pc) /\ pc = "RecvHeader" /\ SrvReads(1)
  BY DEF TcpRecvHeader, Serving
<1>2. PICK op \in IF SrvRecv = "ok" THEN OpsIn(Head(SrvQueue)) ELSE {"None"} :
         RecvHeader(SrvRecv, op, HasData(op), 0, SomeName)
  BY DEF TcpRecvHeader
<1>3. /\ \/ Len(clients') < Len(clients)
         \/ Len(clients') = Len(clients) /\ clients'[cur].conn = S
      /\ Len(clients') \in Nat
  BY <1>1, <1>2, ServedKept, CheckedLemma DEF RecvHeader
<1>4. UNCHANGED cur /\ pc' \in {"Listen", "RecvData", "Reply"}
  BY <1>2 DEF RecvHeader, AfterHeader, Handler, HasData
<1>5. PICK k, q, rest : k = S /\ q = SrvQueue /\ rest = SubSeq(SrvQueue, 1 + 1, Len(SrvQueue))
  OBVIOUS
<1>6. /\ q \in Seq(Unit) /\ q = Incoming(k) /\ RequestsInv(k)
      /\ q # <<>> => Len(q) \in Nat /\ 1 <= Len(q) /\ Head(q) = q[1]
  <2>1. k \in Conns /\ Serves(k)
    BY <1>1, <1>5, ServerServes
  <2>2. q \in Seq(Unit) /\ q = Incoming(k)
    BY <1>1, <1>5, ServedLemma DEF TransferInv, SrvQueue, Incoming
  <2> QED
    BY <2>1, <2>2, LenProperties, EmptySeq, HeadTailProperties DEF ContentInv, Awaited
<1>7. ASSUME pc' = "RecvData" PROVE q # <<>> /\ (Incoming(k)' = rest => UploadingInv(k)')
  <2>1. SrvRecv = "ok"
    BY <1>2, <1>7 DEF RecvHeader
  <2>2. q # <<>>
    BY <1>5, <2>1 DEF SrvRecv, SrvQueue, RecvResult
  <2>3. q[1].t = "header" /\ op = q[1].op
    <3>1. Head(q).t = "header"
      BY <1>1, <1>5, <2>2, ReadsRight DEF Doing, WantHeader, Want
    <3> QED
      BY <1>2, <1>5, <1>6, <2>1, <2>2, <3>1 DEF OpsIn
  <2>4. packet'.op = op
    BY <1>2, <1>7, <2>1, ErrorKinds DEF RecvHeader, NoPacket
  <2>5. ASSUME op = "Upload", rest # <<>> PROVE Announces(rest, 1)
    <3>1. rest \in Seq(Unit) /\ Len(rest) = Len(q) - 1
          /\ (\A i \in 1..Len(rest) : rest[i] = q[i + 1])
      BY <1>5, <1>6, <2>2, TailLemma
    <3>2. 1 \in 1..Len(rest) /\ 2 \in 2..Len(q) /\ 1 + 1 = 2 /\ 2 - 1 = 1
      BY <1>6, <2>2, <2>5, <3>1, LenProperties, EmptySeq
    <3>3. rest[1] = q[2] /\ Announces(q, 2)
      BY <1>6, <2>3, <2>5, <3>1, <3>2 DEF RequestsInv
    <3> QED
      BY <3>3 DEF Announces
  <2> QED
    BY <1>7, <2>2, <2>4, <2>5 DEF UploadingInv, Announces
<1>8. SrvQueue # <<>> => 1 <= Len(SrvQueue)
  BY <1>5, <1>6
<1> QED
  BY <1>1, <1>3, <1>4, <1>5, <1>7, <1>8, ReadsContent

LEMMA RecvDataContent ==
    ASSUME TransferInv, InStepInv, \A l \in Conns : ContentInv(l), UNCHANGED clientVars,
           TcpRecvData
    PROVE  \A l \in Conns : ContentInv(l)'
<1>1. Serving("RecvData") /\ Serving(pc) /\ pc = "RecvData" /\ SrvReads(1)
  BY DEF TcpRecvData, Serving
<1>2. \/ /\ SrvRecv = "ok"
         /\ \E d \in DataIn(Head(SrvQueue)) :
               /\ RecvData("ok", d.arg, d.name)
               /\ asked' = IF packet.op = "Upload" THEN [asked EXCEPT ![S] = d.file] ELSE asked
      \/ SrvRecv # "ok" /\ RecvData(SrvRecv, 0, SomeName)
  BY DEF TcpRecvData
<1>3. packet \in Packet /\ packet.op \in {"Echo", "Download", "Upload"}
  BY <1>1 DEF InStepInv, ServiceInv, TransferInv, IInv, TypeOK
<1>4. /\ UNCHANGED <<clients, cur>> /\ pc' \in {"Listen", "Reply", "Download", "Upload"}
      /\ pc' = "Upload" => SrvRecv = "ok" /\ packet.op = "Upload"
  BY <1>2, <1>3 DEF RecvData, Handler
<1>5. PICK k, q, rest : k = S /\ q = SrvQueue /\ rest = SubSeq(SrvQueue, 1 + 1, Len(SrvQueue))
  OBVIOUS
<1>6. /\ q \in Seq(Unit) /\ q = Incoming(k) /\ RequestsInv(k) /\ UploadingInv(k) /\ k \in Conns
      /\ q # <<>> => /\ Len(q) \in Nat /\ 1 <= Len(q) /\ Head(q) = q[1] /\ Head(q) \in Unit
                     /\ 1 \in 1..Len(q) /\ 1 \in 0..Len(q)
  <2>1. k \in Conns /\ Serves(k)
    BY <1>1, <1>5, ServerServes
  <2>2. q \in Seq(Unit) /\ q = Incoming(k)
    BY <1>1, <1>5, ServedLemma DEF TransferInv, SrvQueue, Incoming
  <2> QED
    BY <2>1, <2>2, LenProperties, EmptySeq, HeadTailProperties DEF ContentInv, Awaited
<1>7. ASSUME pc' = "Upload" PROVE q # <<>> /\ (Incoming(k)' = rest => UploadingInv(k)')
  <2>1. q # <<>> /\ SrvRecv = "ok" /\ packet.op = "Upload"
    BY <1>4, <1>5, <1>7 DEF SrvRecv, SrvQueue, RecvResult
  <2>2. q[1].t = "data"
    BY <1>1, <1>5, <1>6, <2>1, ReadsRight DEF Doing, WantData, Want
  <2>3. /\ RecvData("ok", q[1].arg, q[1].name)
        /\ asked' = [asked EXCEPT ![k] = q[1].file]
    BY <1>2, <1>5, <1>6, <2>1, <2>2 DEF DataIn
  <2>4. packet'.arg = q[1].arg
    BY <1>3, <1>7, <2>3, ErrorKinds DEF RecvData, Packet
  <2>5. PICK file : file = q[1].file
    OBVIOUS
  <2>6. asked'[k] = file /\ file \in Seq(Blocks)
    BY <1>6, <2>1, <2>2, <2>3, <2>5 DEF TransferInv, NetInv, Unit
  <2>7. q[1].arg = Len(file)
    BY <1>1, <1>6, <2>1, <2>2, <2>5 DEF UploadingInv, Announces
  <2>8. ASSUME Incoming(k)' = rest PROVE Arrives(k, 0, 0, file)'
    <3>1. Arrives(k, 1, 0, file)
      BY <1>6, <2>1, <2>2, <2>5 DEF RequestsInv
    <3>2. 0 \in Nat /\ 0 + 1 = 1 + 0 /\ 0 + 0 = 0
      OBVIOUS
    <3>3. Arrives(k, 0, 0 + 0, file)'
      BY <1>5, <1>6, <2>1, <2>6, <2>8, <3>1, <3>2, ArrivesShift
    <3> QED
      BY <3>2, <3>3
  <2> QED
    BY <1>7, <2>1, <2>4, <2>6, <2>7, <2>8 DEF UploadingInv
<1>8. SrvQueue # <<>> => 1 <= Len(SrvQueue)
  BY <1>5, <1>6
<1> QED
  BY <1>1, <1>4, <1>5, <1>7, <1>8, ServedKept, ReadsContent

(* The blocks read are the next ones of the file.                          *)
LEMMA ChunkIs ==
    ASSUME NEW q \in Seq(Unit), NEW left \in Nat, NEW d \in BlocksAt(q, left)
    PROVE  \A i \in 1..Len(d) : d[i] = q[i].block
<1>1. PICK n \in 1..ChunkSize(left) : n <= Len(q) /\ d = [i \in 1..n |-> q[i].block]
  BY DEF BlocksAt
<1>2. d \in Seq(Blocks) /\ Len(d) \in Nat /\ DOMAIN d = 1..Len(d)
  BY BlocksAtLemma, LenProperties
<1>3. DOMAIN d = 1..n
  BY <1>1
<1> QED
  BY <1>1, <1>2, <1>3

LEMMA NextOfFile ==
    ASSUME TransferInv, InStepInv, Serving(pc), pc = "RecvChunk", NEW k, k = S, UploadingInv(k),
           NEW d \in BlocksAt(SrvQueue, ul.left), disk' = [disk EXCEPT ![ul.name] = File(@.data \o d)]
    PROVE  /\ disk'[ul.name] = File(Uploaded \o d) /\ Uploaded \o d \in Seq(Blocks)
           /\ Len(Uploaded \o d) = Len(Uploaded) + Len(d)
           /\ Len(Uploaded) \in Nat /\ Len(d) \in Nat /\ ul.left \in Nat /\ Len(d) <= ul.left
           /\ asked[k] \in Seq(Blocks) /\ Len(Uploaded) + ul.left = Len(asked[k])
           /\ Len(d) \in 0..Len(SrvQueue)
           /\ \A m \in 1..Len(Uploaded \o d) : (Uploaded \o d)[m] = asked[k][m]
<1>1. PICK s, q, file, left : s = Uploaded /\ q = SrvQueue /\ file = asked[k] /\ left = ul.left
  OBVIOUS
<1>2. /\ ul.name \in Names /\ ul.left \in Nat /\ disk \in [Names -> Entry]
      /\ asked \in [Conns -> Seq(Blocks)]
  BY DEF TransferInv, IInv, TypeOK, NetInv
<1>3. k \in Conns /\ q \in Seq(Unit) /\ q = Incoming(k)
  BY <1>1, ServedLemma DEF TransferInv, SrvQueue, Incoming
<1>4. s \in Seq(Blocks) /\ file \in Seq(Blocks) /\ left \in Nat
  BY <1>1, <1>2, <1>3 DEF Uploaded, Entry
<1>5. d \in Seq(Blocks) /\ Len(d) <= left /\ Len(d) \in 1..Len(q)
  BY <1>1, <1>3, <1>4, BlocksAtLemma, ChunkFits
<1>6. PICK n, l, f : n = Len(s) /\ l = Len(d) /\ f = Len(file)
  OBVIOUS
<1>7. n \in Nat /\ l \in Nat /\ f \in Nat /\ Len(q) \in Nat /\ l <= Len(q)
  BY <1>3, <1>4, <1>5, <1>6, LenProperties
<1>8. /\ s \o d \in Seq(Blocks) /\ Len(s \o d) = n + l
      /\ \A m \in 1..n : (s \o d)[m] = s[m]
      /\ \A m \in (n + 1)..(n + l) : (s \o d)[m] = d[m - n]
  BY <1>4, <1>5, <1>6, ConcatProperties
<1>9. /\ n + left = f /\ \A m \in 1..n : s[m] = file[m]
      /\ Arrived(q, 0, n, file)
  BY <1>1, <1>3, <1>6 DEF UploadingInv, Arrives
<1>10. \A i \in 1..l : d[i] = q[i].block
  <2>1. d \in BlocksAt(q, left)
    BY <1>1
  <2>2. \A i \in 1..Len(d) : d[i] = q[i].block
    BY <1>3, <1>4, <2>1, ChunkIs
  <2> QED
    BY <1>6, <2>2
<1>11. ASSUME NEW m \in 1..(n + l) PROVE (s \o d)[m] = file[m]
  <2>1. CASE m <= n
    <3>1. m \in 1..n
      BY <1>7, <2>1
    <3> QED
      BY <1>8, <1>9, <3>1
  <2>2. CASE m > n
    <3>1. PICK i : i = m - n
      OBVIOUS
    <3>2. /\ m \in (n + 1)..(n + l) /\ i \in 1..l /\ i \in 1..Len(q)
          /\ 0 + i = i /\ n + i = m /\ i <= Len(q) /\ m <= f
      BY <1>4, <1>5, <1>6, <1>7, <1>9, <2>2, <3>1
    <3>3. q[0 + i].block = file[n + i]
      BY <1>6, <1>9, <3>2 DEF Arrived
    <3> QED
      BY <1>8, <1>10, <3>1, <3>2, <3>3
  <2>3. m <= n \/ m > n
    BY <1>7
  <2> QED
    BY <2>1, <2>2, <2>3
<1>12. disk'[ul.name] = File(s \o d)
  BY <1>1, <1>2 DEF Uploaded
<1>13. Len(d) \in 0..Len(q)
  BY <1>6, <1>7
<1> QED
  BY <1>1, <1>4, <1>5, <1>6, <1>7, <1>8, <1>9, <1>11, <1>12, <1>13

LEMMA RecvChunkContent ==
    ASSUME TransferInv, InStepInv, \A l \in Conns : ContentInv(l), UNCHANGED clientVars,
           TcpRecvChunk
    PROVE  \A l \in Conns : ContentInv(l)'
<1>1. Serving("RecvChunk") /\ Serving(pc) /\ pc = "RecvChunk"
  BY DEF TcpRecvChunk, Serving
<1>2. UNCHANGED asked /\ SrvRecv \in Received
  BY DEF TcpRecvChunk
<1>3. CASE SrvQueue # <<>>
  <2>1. SrvRecv = "ok"
    BY <1>1, <1>3, ReadsRight
  <2>2. PICK d \in BlocksAt(SrvQueue, ul.left) : RecvChunk("ok", d) /\ SrvReads(Len(d))
    BY <2>1 DEF TcpRecvChunk
  <2>3. /\ UNCHANGED <<clients, cur>> /\ pc' \in {"RecvChunk", "RecvHeader"}
        /\ disk' = [disk EXCEPT ![ul.name] = File(@.data \o d)]
        /\ pc' = "RecvChunk" => ul' = [ul EXCEPT !.left = @ - Len(d)]
    <3>1. ~("ok" \in Errors)
      BY ErrorKinds
    <3> QED
      BY <2>2, <3>1 DEF RecvChunk, UploadDone
  <2>4. PICK k, q, rest : /\ k = S /\ q = SrvQueue
                          /\ rest = SubSeq(SrvQueue, Len(d) + 1, Len(SrvQueue))
    OBVIOUS
  <2>5. k \in Conns /\ q = Incoming(k) /\ q \in Seq(Unit) /\ UploadingInv(k)
    BY <1>1, <2>4, ServerServes, ServedLemma
    DEF ContentInv, SrvQueue, Incoming, TransferInv
  <2>6. PICK s, file, left : s = Uploaded /\ file = asked[k] /\ left = ul.left
    OBVIOUS
  <2>7. /\ disk'[ul.name] = File(s \o d)
        /\ Len(s \o d) = Len(s) + Len(d)
        /\ Len(s) \in Nat /\ Len(d) \in Nat /\ left \in Nat /\ Len(d) <= left
        /\ file \in Seq(Blocks) /\ Len(s) + left = Len(file)
        /\ Len(d) \in 0..Len(q)
        /\ \A m \in 1..Len(s \o d) : (s \o d)[m] = file[m]
    BY <1>1, <2>2, <2>3, <2>4, <2>5, <2>6, NextOfFile
  <2>8. ASSUME pc' = "RecvChunk", Incoming(k)' = rest PROVE UploadingInv(k)'
    <3>1. ul'.name = ul.name /\ ul'.left = left - Len(d)
      <4>1. ul \in [name : Names, size : Nat, left : Nat]
        BY DEF TransferInv, IInv, TypeOK
      <4> QED
        BY <2>3, <2>6, <2>8, <4>1
    <3>2. Uploaded' = s \o d
      <4>1. disk'[ul'.name] = File(s \o d)
        BY <2>7, <3>1
      <4>2. File(s \o d).data = s \o d
        BY DEF File
      <4> QED
        BY <4>1, <4>2 DEF Uploaded
    <3>3. PICK got : got = Len(s) + Len(d)
      OBVIOUS
    <3>4. Len(file) \in Nat /\ got + (left - Len(d)) = Len(file)
      BY <2>7, <3>3, LenProperties
    <3>5. Arrives(k, 0, got, file)'
      <4>1. Arrives(k, 0, Len(s), file)
        BY <1>1, <2>5, <2>6 DEF UploadingInv
      <4>2. 0 \in 0..Len(q) /\ 0 \in Nat /\ 0 + Len(d) = 0 + Len(d)
        BY <2>5, LenProperties
      <4>3. PICK n, u : n = Len(s) /\ u = Len(d)
        OBVIOUS
      <4>4. Arrives(k, 0, n + u, file)'
        BY <2>4, <2>5, <2>7, <2>8, <4>1, <4>2, <4>3, ArrivesShift
      <4> QED
        BY <3>3, <4>3, <4>4
    <3>6. asked'[k] = file
      BY <1>2, <2>6
    <3> QED
      BY <2>7, <2>8, <3>1, <3>2, <3>3, <3>4, <3>5, <3>6 DEF UploadingInv
  <2>9. Len(d) <= Len(SrvQueue)
    BY <2>4, <2>5, <2>7, LenProperties
  <2> QED
    BY <1>1, <1>3, <2>2, <2>3, <2>4, <2>7, <2>8, <2>9, ServedKept, ReadsContent
<1>4. CASE SrvQueue = <<>>
  <2>1. SrvRecv # "ok" /\ SrvRecv \in Received
    BY <1>2, <1>4 DEF SrvRecv, SrvQueue, RecvResult
  <2>2. RecvChunk(SrvRecv, <<>>) /\ SrvReads(0)
    BY <2>1 DEF TcpRecvChunk
  <2>3. /\ \/ Len(clients') < Len(clients)
           \/ Len(clients') = Len(clients) /\ clients'[cur].conn = S
        /\ Len(clients') \in Nat
    BY <1>1, <2>1, <2>2, ServedKept, CheckedLemma DEF RecvChunk
  <2>4. UNCHANGED cur
    BY <2>1, <2>2 DEF RecvChunk
  <2>5. pc' # "Listen" => Len(clients') < Len(clients)
    <3>1. SrvRecv \in Errors /\ clients' = AfterCheckFail(clients, SrvRecv)
          /\ (pc' # "Listen" => ~CheckFail(SrvRecv))
      BY <2>1, <2>2 DEF RecvChunk
    <3>2. SrvRecv # "Success"
      BY <3>1, ProtocolAssumption
    <3>3. pc' # "Listen" => clients' = SwapRemove(clients, cur)
      BY <3>1, <3>2 DEF AfterCheckFail, CheckFail
    <3>4. clients \in Seq(Handle) /\ Len(clients) \in Nat /\ cur \in 1..Len(clients)
      BY <1>1, ServedKept DEF Serving
    <3>5. Len(SwapRemove(clients, cur)) = Len(clients) - 1
      BY <3>4, SwapRemoveLemma
    <3> QED
      BY <3>3, <3>4, <3>5
  <2>6. pc' # "Listen" => Len(clients') # Len(clients)
    <3>1. Len(clients) \in Nat
      BY <1>1, ServedKept
    <3> QED
      BY <2>3, <2>5, <3>1
  <2>7. 0 \in Nat
    OBVIOUS
  <2> QED
    BY <1>1, <1>4, <2>2, <2>3, <2>4, <2>6, <2>7, ReadsContent
<1> QED
  BY <1>3, <1>4

LEMMA DiscardContent ==
    ASSUME TransferInv, InStepInv, \A l \in Conns : ContentInv(l), UNCHANGED clientVars,
           TcpDiscard
    PROVE  \A l \in Conns : ContentInv(l)'
<1>1. Serving("Discard") /\ Serving(pc) /\ pc = "Discard" /\ SrvRecv \in Received
  BY DEF TcpDiscard, Serving
<1>2. ul.left \in Nat
  BY DEF TransferInv, IInv, TypeOK
<1>3. CASE SrvQueue # <<>>
  <2>1. SrvRecv = "ok"
    BY <1>1, <1>3, ReadsRight
  <2>2. PICK d \in BlocksAt(SrvQueue, ul.left) : Discard("ok", Len(d)) /\ SrvReads(Len(d))
    BY <2>1 DEF TcpDiscard
  <2>3. UNCHANGED <<clients, cur>> /\ pc' \in {"Discard", "Listen"}
    BY <2>2, ErrorKinds DEF Discard
  <2>4. SrvQueue \in Seq(Unit)
    BY <1>1, ServedLemma DEF TransferInv
  <2>5. Len(d) \in Nat /\ Len(d) <= Len(SrvQueue)
    BY <1>2, <2>2, <2>4, ChunkFits, LenProperties
  <2> QED
    BY <1>1, <2>2, <2>3, <2>5, ServedKept, ReadsContent
<1>4. CASE SrvQueue = <<>>
  <2>1. SrvRecv # "ok"
    BY <1>4 DEF SrvRecv, SrvQueue, RecvResult
  <2>2. Discard(SrvRecv, 0) /\ SrvReads(0)
    BY <2>1 DEF TcpDiscard
  <2>3. /\ \/ Len(clients') < Len(clients)
           \/ Len(clients') = Len(clients) /\ clients'[cur].conn = S
        /\ Len(clients') \in Nat
    BY <1>1, <2>1, <2>2, ServedKept, CheckedLemma DEF Discard
  <2>4. UNCHANGED cur /\ pc' \in {"Listen", "Discard"} /\ 0 \in Nat
    BY <2>1, <2>2 DEF Discard
  <2> QED
    BY <1>1, <1>4, <2>2, <2>3, <2>4, ReadsContent
<1> QED
  BY <1>3, <1>4

(* The server opens the file that the request names.                       *)
LEMMA UploadContent ==
    ASSUME TransferInv, InStepInv, \A l \in Conns : ContentInv(l), UNCHANGED clientVars,
           TcpUpload
    PROVE  \A l \in Conns : ContentInv(l)'
<1>1. PICK canOpen \in OpenResults : Upload(canOpen)
  BY DEF TcpUpload
<1>2. /\ Serving("Upload") /\ Serving(pc) /\ pc = "Upload" /\ UNCHANGED <<net, backlog, asked>>
      /\ UNCHANGED <<clients, cur>>
  BY <1>1 DEF TcpUpload, SrvLocal, Upload, Serving
<1>3. packet.arg \in Nat /\ packet.name \in Names /\ disk \in [Names -> Entry]
  BY DEF TransferInv, IInv, TypeOK, Packet
<1>4. PICK k : k = S
  OBVIOUS
<1>5. k \in Conns /\ Serves(k) /\ UploadingInv(k) /\ RequestsInv(k)
  BY <1>2, <1>4, ServerServes DEF ContentInv, Awaited
<1>6. UNCHANGED <<at, conn, job, local>>
  BY DEF clientVars
<1>7. Steady(k)
  BY <1>2, <1>6 DEF Steady, Incoming, JobFile
<1>8. PICK file : file = asked[k] /\ file = asked'[k]
  BY <1>2
<1>9. RequestsInv(k)' /\ Arrives(k, 0, 0, file)'
  BY <1>2, <1>5, <1>7, <1>8, ArrivesSteady, RequestsSteady DEF UploadingInv
<1>10. packet.arg = Len(file)
  BY <1>2, <1>5, <1>8 DEF UploadingInv
<1>11. UploadingInv(k)'
  <2>1. pc' \in {"Listen", "RecvChunk", "Discard"}
    BY <1>1 DEF Upload
  <2>2. ASSUME pc' = "RecvChunk"
        PROVE  Uploaded' = <<>> /\ ul'.left = Len(file)
    <3>1. /\ disk' = OpenOfstream(packet.name)
          /\ ul' = [name |-> packet.name, size |-> packet.arg, left |-> packet.arg]
      BY <1>1, <1>3, <2>2 DEF Upload
    <3>2. disk'[packet.name] = File(<<>>)
      BY <1>3, <3>1 DEF OpenOfstream
    <3> QED
      BY <1>10, <3>1, <3>2 DEF Uploaded, File
  <2>3. Len(<<>>) = 0 /\ 0 + Len(file) = Len(file)
    <3>1. file \in Seq(Blocks)
      BY <1>5, <1>8 DEF TransferInv, NetInv
    <3> QED
      BY <3>1, LenProperties
  <2> QED
    BY <1>8, <1>9, <2>1, <2>2, <2>3 DEF UploadingInv
<1>12. SrvUpdate(net[k])
  BY <1>2, <1>4, <1>5, ServedKept DEF SrvUpdate, TransferInv, NetInv
<1> QED
  BY <1>2, <1>4, <1>9, <1>11, <1>12, ServedKept, ServedContent

LEMMA SendsContent ==
    ASSUME TransferInv, InStepInv, \A l \in Conns : ContentInv(l), UNCHANGED clientVars,
           TcpGreet \/ TcpSendStamp \/ TcpReply \/ TcpDownload \/ TcpSendChunk
    PROVE  \A l \in Conns : ContentInv(l)'
<1>1. Serving(pc) /\ pc \in {"Greet", "SendStamp", "Reply", "Download", "SendChunk"}
  BY DEF TcpGreet, TcpSendStamp, TcpReply, TcpDownload, TcpSendChunk, Serving
<1>2. UNCHANGED cur /\ pc' \notin {"RecvData", "Upload", "RecvChunk"}
  BY DEF TcpGreet, TcpSendStamp, TcpReply, TcpDownload, TcpSendChunk,
     GreetRecovery, GreetNone, SendStamp, Reply, Download, SendChunk
<1>3. \/ UNCHANGED clients
      \/ \E st : clients' = AfterCheckFail(clients, st)
  BY DEF TcpGreet, TcpSendStamp, TcpReply, TcpDownload, TcpSendChunk,
     GreetRecovery, GreetNone, SendStamp, Reply, Download, SendChunk
<1>4. /\ \/ Len(clients') < Len(clients)
         \/ Len(clients') = Len(clients) /\ clients'[cur].conn = S
      /\ Len(clients') \in Nat
  BY <1>1, <1>2, <1>3, ServedKept, CheckedLemma
<1>5. \E units : SrvWrites(units)
  BY DEF TcpGreet, TcpSendStamp, TcpReply, TcpDownload, TcpSendChunk
<1> QED
  BY <1>1, <1>2, <1>4, <1>5, WritesContent

LEMMA AcceptContent ==
    ASSUME TransferInv, InStepInv, \A l \in Conns : ContentInv(l), UNCHANGED clientVars,
           TcpAccept
    PROVE  \A l \in Conns : ContentInv(l)'
<1>1. PICK k \in backlog : Accept(k) /\ backlog' = backlog \ {k} /\ UNCHANGED net
  BY DEF TcpAccept
<1>2. pc' = "RecvMac" /\ clients' = Append(clients, [conn |-> k, mac |-> ZeroMac])
      /\ cur' = Len(clients) + 1
  BY <1>1 DEF Accept, NewIndex
<1>3. clients \in Seq(Handle) /\ k \in Conns
  BY DEF TransferInv, IInv, TypeOK, NetInv
<1>4. clients'[cur'] = [conn |-> k, mac |-> ZeroMac]
  <2>1. [conn |-> k, mac |-> ZeroMac] \in Handle
    BY <1>3, ServerAssumption DEF Handle
  <2> QED
    BY <1>2, <1>3, <2>1, AppendProperties
<1>5. \A l : Serves(l)' => l = k
  BY <1>4 DEF Serves, Me
<1>6. \A l : Awaited(l)' => Awaited(l)
  BY <1>1, <1>5 DEF Awaited
<1>7. UNCHANGED <<at, conn, job, local>>
  BY DEF clientVars
<1> TAKE l \in Conns
<1>8. Steady(l)
  BY <1>1, <1>7 DEF Steady, Incoming, JobFile
<1>9. Awaited(l) => RequestsInv(l)'
  BY <1>8, RequestsSteady DEF ContentInv
<1>10. UploadingInv(l)'
  BY <1>2 DEF UploadingInv
<1> QED
  BY <1>6, <1>9, <1>10 DEF ContentInv

(* A server that ends, or starts again, has no upload under way.           *)
LEMMA EndContent ==
    ASSUME \A l \in Conns : ContentInv(l), UNCHANGED clientVars,
           TcpSigpipe \/ TcpUseAfterRemove \/ KillServer \/ RestartServer
    PROVE  \A l \in Conns : ContentInv(l)'
<1>1. \A l : ~Serves(l)'
  BY DEF TcpSigpipe, TcpUseAfterRemove, KillServer, RestartServer, Sigpipe, UseAfterRemove,
     Kill, Restart, Die, Serves
<1>2. CASE TcpSigpipe \/ TcpUseAfterRemove \/ KillServer
  <2>1. backlog' = {}
    BY <1>2 DEF TcpSigpipe, TcpUseAfterRemove, KillServer, SrvCloses
  <2> QED
    BY <1>1, <2>1 DEF ContentInv, Awaited
<1>3. CASE RestartServer
  <2>1. UNCHANGED <<at, conn, job, local, net, backlog>>
    BY <1>3 DEF clientVars, RestartServer
  <2> TAKE l \in Conns
  <2>2. Steady(l)
    BY <2>1 DEF Steady, Incoming, JobFile
  <2>3. Awaited(l) => RequestsInv(l)'
    BY <2>2, RequestsSteady DEF ContentInv
  <2>4. Awaited(l)' => Awaited(l)
    BY <1>1, <2>1 DEF Awaited
  <2> QED
    BY <1>1, <2>3, <2>4 DEF ContentInv
<1> QED
  BY <1>2, <1>3

-----------------------------------------------------------------------------
LEMMA InitUploadsInv == TransferInit => UploadsInv
<1> SUFFICES ASSUME TransferInit PROVE UploadsInv
  OBVIOUS
<1>1. WholeInv
  BY DEF TransferInit, ClientInit, WholeInv
<1>2. \A l \in Conns : ~Awaited(l) /\ ~Serves(l)
  BY DEF TransferInit, ServerInit, Awaited, Serves
<1> QED
  BY <1>1, <1>2 DEF UploadsInv, ContentInv

LEMMA NextUploadsInv ==
    ASSUME TransferInv, InStepInv, UploadsInv, [TransferNext]_vars
    PROVE  UploadsInv'
<1>1. WholeInv /\ \A l \in Conns : ContentInv(l)
  BY DEF UploadsInv
<1>2. CASE (ServerStep \/ KillServer \/ RestartServer) /\ UNCHANGED clientVars
  <2>1. UNCHANGED <<at, job, local>>
    BY <1>2 DEF clientVars
  <2>2. WholeInv'
    BY <1>1, <2>1 DEF WholeInv, JobFile
  <2>3. \A l \in Conns : ContentInv(l)'
    BY <1>1, <1>2, RecvMacContent, RecvHeaderContent, RecvDataContent, RecvChunkContent,
       DiscardContent, UploadContent, SendsContent, AcceptContent, EndContent DEF ServerStep
  <2> QED
    BY <2>2, <2>3 DEF UploadsInv
<1>3. CASE \E c \in Clients : ClientStep(c) \/ UserStep(c) \/ KillClient(c)
  BY <1>1, <1>3, ClientWhole, ClientContent DEF UploadsInv
<1>4. CASE UNCHANGED vars
  <2>1. UNCHANGED serverVars /\ UNCHANGED <<at, conn, job, local, net, backlog, asked>>
    BY <1>4 DEF vars, clientVars
  <2>2. WholeInv'
    BY <1>1, <2>1 DEF WholeInv, JobFile
  <2>3. \A l \in Conns : ContentInv(l)'
    <3> TAKE l \in Conns
    <3>1. Steady(l)
      BY <2>1 DEF Steady, Incoming, JobFile
    <3> QED
      BY <1>1, <2>1, <3>1, ContentSteady
  <2> QED
    BY <2>2, <2>3 DEF UploadsInv
<1> QED
  BY <1>2, <1>3, <1>4 DEF TransferNext

(* When the loop of HandleUpload ends, all the file has come.              *)
LEMMA UploadEndsWhole ==
    ASSUME TransferInv, InStepInv, UploadsInv, [TransferNext]_vars,
           pc = "RecvChunk", pc' = "RecvHeader"
    PROVE  disk'[ul.name] = File(asked[S])
<1>1. TcpRecvChunk
  <2>1. ~UNCHANGED pc
    OBVIOUS
  <2>2. ~UNCHANGED serverVars
    BY <2>1 DEF serverVars
  <2>3. ServerStep \/ KillServer \/ RestartServer
    BY <2>2 DEF TransferNext, ClientStep, UserStep, KillClient, vars
  <2>4. ~KillServer /\ ~RestartServer /\ ~TcpSigpipe /\ ~TcpUseAfterRemove
    BY DEF KillServer, RestartServer, TcpSigpipe, TcpUseAfterRemove, Kill, Restart, Sigpipe,
       UseAfterRemove, Die
  <2>5. /\ ~TcpAccept /\ ~TcpRecvMac /\ ~TcpGreet /\ ~TcpSendStamp /\ ~TcpRecvHeader
        /\ ~TcpRecvData /\ ~TcpReply /\ ~TcpDownload /\ ~TcpSendChunk /\ ~TcpDiscard
    BY DEF TcpAccept, Accept, TcpRecvMac, TcpGreet, TcpSendStamp, TcpRecvHeader, TcpRecvData,
       TcpReply, TcpDownload, TcpSendChunk, TcpDiscard, Serving
  <2>6. ~TcpUpload
    BY DEF TcpUpload, Upload, Serving
  <2> QED
    BY <2>3, <2>4, <2>5, <2>6 DEF ServerStep
<1>2. Serving(pc) /\ Serving("RecvChunk")
  BY <1>1 DEF TcpRecvChunk, Serving
<1>3. SrvRecv = "ok"
  BY <1>1 DEF TcpRecvChunk, RecvChunk
<1>4. PICK d \in BlocksAt(SrvQueue, ul.left) : RecvChunk("ok", d)
  BY <1>1, <1>3 DEF TcpRecvChunk
<1>5. disk' = [disk EXCEPT ![ul.name] = File(@.data \o d)] /\ ~(ul.left > Len(d))
  <2>1. ~("ok" \in Errors)
    BY ErrorKinds
  <2> QED
    BY <1>4, <2>1 DEF RecvChunk
<1>6. PICK k : k = S
  OBVIOUS
<1>7. UploadingInv(k)
  BY <1>2, <1>6, ServerServes DEF UploadsInv, ContentInv
<1>8. PICK s, file, left : s = Uploaded \o d /\ file = asked[k] /\ left = ul.left
  OBVIOUS
<1>9. /\ disk'[ul.name] = File(s) /\ s \in Seq(Blocks) /\ file \in Seq(Blocks)
      /\ Len(s) = Len(Uploaded) + Len(d) /\ Len(Uploaded) + left = Len(file)
      /\ Len(Uploaded) \in Nat /\ Len(d) \in Nat /\ left \in Nat /\ Len(d) <= left
      /\ \A m \in 1..Len(s) : s[m] = file[m]
  BY <1>2, <1>4, <1>5, <1>6, <1>7, <1>8, NextOfFile
<1>10. Len(s) = Len(file)
  BY <1>5, <1>8, <1>9
<1>11. s = file
  BY <1>9, <1>10, SeqEqual
<1> QED
  BY <1>6, <1>8, <1>9, <1>11

(* An upload the server finishes leaves the file its client had when it    *)
(* sent the request, all of it and nothing else: for files of any size,    *)
(* however they are cut into sends and reads, with any number of clients   *)
(* and connections, any commands, any failures to open a file, and         *)
(* processes killed at any point.                                          *)
THEOREM TransferUploads ==
    ASSUME Numbers = Nat
    PROVE  TransferSpec => UploadIntegrity
<1>1. TransferInit => TransferInv /\ InStepInv /\ UploadsInv
  BY InitTransferInv, InitInStepInv, InitUploadsInv
<1>2. TransferInv /\ InStepInv /\ UploadsInv /\ [TransferNext]_vars
         => TransferInv' /\ InStepInv' /\ UploadsInv'
  BY NextTransferInv, NextInStepInv, NextUploadsInv
<1>3. TransferInv /\ InStepInv /\ UploadsInv /\ [TransferNext]_vars
         => [pc = "RecvChunk" /\ pc' = "RecvHeader" => disk'[ul.name] = File(asked[S])]_vars
  BY UploadEndsWhole
<1> QED
  BY <1>1, <1>2, <1>3, PTL DEF TransferSpec, UploadIntegrity
=============================================================================
