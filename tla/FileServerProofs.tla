-------------------------- MODULE FileServerProofs --------------------------
(***************************************************************************)
(* Proofs about FileServer, for any number of clients, files and           *)
(* descriptors and against any network.                                    *)
(***************************************************************************)
EXTENDS FileServer, SequenceTheorems, TLAPS

(* Where the server stands once Listen has told the client of its stamp.   *)
HandlePlaces == {"RecvHeader", "RecvData", "Reply", "Download", "SendChunk",
                 "Upload", "RecvChunk", "Discard"}

(* The strengthening.  Only SendChunk makes stamps, and it runs when there *)
(* are none: Listen erases the client's own stamp or clears the map before *)
(* Handle is ever called.  The locals of the loops count what is left.     *)
HandleInv ==
    /\ ServedHandleIsLast
    /\ pc = "SendStamp" => cur = Len(clients) /\ Len(clients) > 0

StampInv ==
    /\ OnePendingStamp
    /\ StampWithinFile
    /\ pc \in HandlePlaces => stamps = {}
    /\ pc = "SendStamp" => \A s \in stamps : s.mac = clients[cur].mac

DownloadInv ==
    pc = "SendChunk" =>
        /\ disk[dl.file].kind = "file"
        /\ dl.left \in 1..dl.total
        /\ dl.start + dl.total = Len(disk[dl.file].data)

UploadInv ==
    pc = "RecvChunk" =>
        /\ disk[ul.name].kind = "file"
        /\ ul.left \in 1..ul.size
        /\ Len(disk[ul.name].data) + ul.left = ul.size

IInv == TypeOK /\ HandleInv /\ StampInv /\ DownloadInv /\ UploadInv

-----------------------------------------------------------------------------
(* What the helpers return.                                                *)

(* SwapRemove (iter_swap and pop_back) leaves handles, one fewer.          *)
LEMMA SwapRemoveLemma ==
    ASSUME NEW cs \in Seq(Handle), NEW i \in 1..Len(cs)
    PROVE  /\ SwapRemove(cs, i) \in Seq(Handle)
           /\ Len(SwapRemove(cs, i)) = Len(cs) - 1
<1> DEFINE n == Len(cs)
           f == [j \in 1..(n - 1) |->
                    IF j = i THEN [conn |-> cs[i].conn, mac |-> cs[n].mac] ELSE cs[j]]
<1>1. n \in Nat /\ n > 0 /\ n - 1 \in Nat
  BY LenProperties
<1>2. \A j \in 1..n : cs[j] \in Handle
  BY ElementOfSeq
<1>3. f \in [1..(n - 1) -> Handle]
  BY <1>1, <1>2 DEF Handle
<1>4. f \in Seq(Handle)
  BY <1>1, <1>3, SeqDef
<1>5. Len(f) = n - 1
  BY <1>1, <1>4, LenProperties
<1> QED
  BY <1>4, <1>5 DEF SwapRemove

(* CheckFail removes one handle for a status it lists, none otherwise.     *)
LEMMA AfterCheckFailLemma ==
    ASSUME NEW cs \in Seq(Handle), cur \in 1..Len(cs), NEW st
    PROVE  /\ AfterCheckFail(cs, st) \in Seq(Handle)
           /\ Len(AfterCheckFail(cs, st)) \in {Len(cs), Len(cs) - 1}
           /\ st \notin Removable => AfterCheckFail(cs, st) = cs
BY SwapRemoveLemma DEF AfterCheckFail

(* What Latch leaves in Socket::status is a status.                        *)
LEMMA LatchLemma ==
    ASSUME TypeOK, NEW r
    PROVE  Latch(r) \in {"Success"} \cup Errors
BY DEF Latch, TypeOK

(* The handle being served is a handle, and it is the last one.            *)
LEMMA ServingLemma ==
    ASSUME TypeOK, ServedHandleIsLast, NEW p, Serving(p), p \notin {"Listen", "Dead"}
    PROVE  /\ cur = Len(clients)
           /\ cur \in 1..Len(clients)
           /\ Me \in Handle
<1>1. clients \in Seq(Handle) /\ cur \in 1..Len(clients) /\ pc = p
  BY DEF TypeOK, Serving
<1>2. Me \in Handle
  BY <1>1, ElementOfSeq DEF Me
<1>3. Len(clients) \in Nat
  BY <1>1, LenProperties
<1> QED
  BY <1>1, <1>2, <1>3 DEF ServedHandleIsLast

(* What one Receive into the buffer returns is a nonempty part of a file.  *)
LEMMA ChunksLemma ==
    ASSUME NEW d \in Chunks
    PROVE  d \in Seq(Blocks) /\ Len(d) \in Nat
<1>1. PICK n \in 1..BufferSize : d \in [1..n -> Blocks]
  BY DEF Chunks
<1>2. n \in Nat
  BY <1>1, ServerAssumption, ProtocolAssumption
<1>3. d \in Seq(Blocks)
  BY <1>1, <1>2, SeqDef
<1> QED
  BY <1>3, LenProperties

(* The values that stand for nothing have the types of what they stand for. *)
LEMMA NoneLemma ==
    /\ SomeName \in Names
    /\ NoEntry \in Entry
    /\ NoPacket \in Packet
    /\ NoDownload \in [file : Names, start : Nat, total : Nat, left : Nat]
    /\ NoUpload \in [name : Names, size : Nat, left : Nat]
<1>1. SomeName \in Names
  BY ServerAssumption, ProtocolAssumption DEF SomeName
<1>2. <<>> \in Seq(Blocks)
  BY EmptySeq
<1> QED
  BY <1>1, <1>2 DEF NoEntry, Entry, NoPacket, Packet, Opcodes, NoDownload, NoUpload

(* Any sequence of blocks makes a file.                                    *)
LEMMA FileLemma ==
    ASSUME NEW s \in Seq(Blocks)
    PROVE  File(s) \in Entry /\ File(s).kind = "file" /\ File(s).data = s
BY DEF File, Entry

-----------------------------------------------------------------------------
(* The initial states.                                                     *)

(* A server that starts satisfies IInv.                                    *)
LEMMA InitIInv == ServerInit => IInv
<1> SUFFICES ASSUME ServerInit PROVE IInv
  OBVIOUS
<1>1. clients \in Seq(Handle)
  BY EmptySeq DEF ServerInit
<1>2. TypeOK
  BY <1>1, NoneLemma, ServerAssumption, ProtocolAssumption DEF ServerInit, TypeOK, Places
<1>3. HandleInv /\ StampInv /\ DownloadInv /\ UploadInv
  BY DEF ServerInit, HandleInv, ServedHandleIsLast, StampInv, OnePendingStamp, StampWithinFile,
         HandlePlaces, DownloadInv, UploadInv
<1> QED
  BY <1>2, <1>3 DEF IInv
-----------------------------------------------------------------------------
(* Every step of Listen preserves IInv.                                    *)

(* TcpServer::Listen appends the handle that is served next.               *)
LEMMA AcceptStep ==
    ASSUME IInv, NEW k \in Conns, Accept(k)
    PROVE  IInv'
<1>1. TypeOK /\ stamps' = stamps /\ disk' = disk
  BY DEF IInv, Accept
<1>2. clients' \in Seq(Handle) /\ Len(clients') = Len(clients) + 1 /\ Len(clients) \in Nat
  <2>1. [conn |-> k, mac |-> ZeroMac] \in Handle
    BY ServerAssumption, ProtocolAssumption DEF Handle
  <2> QED
    BY <1>1, <2>1, AppendProperties, LenProperties DEF Accept, TypeOK
<1>3. TypeOK'
  BY <1>1, <1>2 DEF Accept, NewIndex, TypeOK, Places
<1>4. HandleInv'
  BY <1>2 DEF Accept, NewIndex, HandleInv, ServedHandleIsLast
<1>5. StampInv'
  BY <1>1 DEF IInv, StampInv, OnePendingStamp, StampWithinFile, Accept, HandlePlaces
<1>6. DownloadInv' /\ UploadInv'
  BY DEF Accept, DownloadInv, UploadInv
<1> QED
  BY <1>3, <1>4, <1>5, <1>6 DEF IInv

(* The MAC address, or its failure, leaves at most one stamp.              *)
LEMMA RecvMacStep ==
    ASSUME IInv, NEW r \in Received, NEW m \in Macs, RecvMac(r, m)
    PROVE  IInv'
<1> DEFINE cs == IF r = "ok" THEN [clients EXCEPT ![cur] = [conn |-> Me.conn, mac |-> m]]
                            ELSE clients
<1>1. /\ TypeOK /\ stamps' = stamps /\ disk' = disk /\ cur' = cur
      /\ pc' \in {"Listen", "Greet"}
      /\ clients' = AfterCheckFail(cs, Latch(r))
  BY DEF IInv, RecvMac
<1>2. cur = Len(clients) /\ cur \in 1..Len(clients) /\ Me \in Handle
  BY ServingLemma DEF IInv, HandleInv, RecvMac
<1>3. cs \in Seq(Handle) /\ Len(cs) = Len(clients)
  <2>1. [conn |-> Me.conn, mac |-> m] \in Handle
    BY <1>2 DEF Handle
  <2> QED
    BY <1>1, <1>2, <2>1, ExceptSeq DEF TypeOK
<1>4. clients' \in Seq(Handle) /\ Len(clients') \in {Len(clients), Len(clients) - 1}
  BY <1>1, <1>2, <1>3, AfterCheckFailLemma
<1>5. TypeOK'
  BY <1>1, <1>4 DEF RecvMac, TypeOK, Places
<1>6. HandleInv'
  BY <1>1, <1>2, <1>4 DEF HandleInv, ServedHandleIsLast
<1>7. StampInv'
  BY <1>1 DEF IInv, StampInv, OnePendingStamp, StampWithinFile, HandlePlaces
<1>8. DownloadInv' /\ UploadInv'
  BY <1>1 DEF DownloadInv, UploadInv
<1> QED
  BY <1>5, <1>6, <1>7, <1>8 DEF IInv

(* The only stamp there is belongs to this client.                         *)
LEMMA GreetRecoveryStep ==
    ASSUME IInv, NEW r \in Sent, GreetRecovery(r)
    PROVE  IInv'
<1>1. /\ TypeOK /\ pc' = "SendStamp"
      /\ UNCHANGED <<clients, cur, packet, stamps, disk, dl, ul>>
  BY DEF IInv, GreetRecovery
<1>2. cur = Len(clients) /\ cur \in 1..Len(clients)
  BY ServingLemma DEF IInv, HandleInv, GreetRecovery
<1>3. TypeOK'
  BY <1>1, LatchLemma DEF GreetRecovery, TypeOK, Places
<1>4. HandleInv'
  BY <1>1, <1>2 DEF HandleInv, ServedHandleIsLast
<1>5. StampInv'
  <2>1. PICK t \in stamps : t.mac = clients[cur].mac
    BY DEF GreetRecovery, MyStamps, Me
  <2>2. \A s \in stamps : s = t
    BY <2>1 DEF IInv, StampInv, OnePendingStamp
  <2>3. (\A s \in stamps : s.mac = clients[cur].mac)'
    BY <1>1, <2>1, <2>2
  <2> QED
    BY <1>1, <2>3 DEF IInv, StampInv, OnePendingStamp, StampWithinFile, HandlePlaces
<1>6. DownloadInv' /\ UploadInv'
  BY <1>1 DEF DownloadInv, UploadInv
<1> QED
  BY <1>3, <1>4, <1>5, <1>6 DEF IInv

(* Erasing it leaves no stamp.                                             *)
LEMMA SendStampStep ==
    ASSUME IInv, NEW r \in Sent, SendStamp(r)
    PROVE  IInv'
<1>1. /\ TypeOK /\ pc = "SendStamp" /\ pc' \in {"Listen", "RecvHeader"}
      /\ cur' = cur /\ disk' = disk
      /\ clients' = AfterCheckFail(clients, Latch(r))
  BY DEF IInv, SendStamp, Serving
<1>2. cur = Len(clients) /\ cur \in 1..Len(clients)
  BY ServingLemma DEF IInv, HandleInv, SendStamp
<1>3. clients' \in Seq(Handle) /\ Len(clients') \in {Len(clients), Len(clients) - 1}
  BY <1>1, <1>2, AfterCheckFailLemma DEF TypeOK
<1>4. stamps' = {}
  BY <1>1 DEF IInv, StampInv, SendStamp, EraseStamp, MyStamps, Me
<1>5. TypeOK'
  BY <1>1, <1>3, <1>4 DEF SendStamp, TypeOK, Places
<1>6. HandleInv'
  BY <1>1, <1>2, <1>3 DEF HandleInv, ServedHandleIsLast
<1>7. StampInv'
  BY <1>1, <1>4 DEF StampInv, OnePendingStamp, StampWithinFile
<1>8. DownloadInv' /\ UploadInv'
  BY <1>1 DEF DownloadInv, UploadInv
<1> QED
  BY <1>5, <1>6, <1>7, <1>8 DEF IInv

(* recoveryStamps.clear(): no stamp is left when Handle begins.            *)
LEMMA GreetNoneStep ==
    ASSUME IInv, NEW r \in Sent, GreetNone(r)
    PROVE  IInv'
<1>1. /\ TypeOK /\ pc' \in {"Listen", "RecvHeader"}
      /\ cur' = cur /\ disk' = disk /\ stamps' = {}
      /\ clients' = AfterCheckFail(clients, Latch(r))
  BY DEF IInv, GreetNone, ClearStamps
<1>2. cur = Len(clients) /\ cur \in 1..Len(clients)
  BY ServingLemma DEF IInv, HandleInv, GreetNone
<1>3. clients' \in Seq(Handle) /\ Len(clients') \in {Len(clients), Len(clients) - 1}
  BY <1>1, <1>2, AfterCheckFailLemma DEF TypeOK
<1>4. TypeOK'
  BY <1>1, <1>3 DEF GreetNone, TypeOK, Places
<1>5. HandleInv'
  BY <1>1, <1>2, <1>3 DEF HandleInv, ServedHandleIsLast
<1>6. StampInv'
  BY <1>1 DEF StampInv, OnePendingStamp, StampWithinFile
<1>7. DownloadInv' /\ UploadInv'
  BY <1>1 DEF DownloadInv, UploadInv
<1> QED
  BY <1>4, <1>5, <1>6, <1>7 DEF IInv

-----------------------------------------------------------------------------
(* Every step of Handle preserves IInv.  There are no stamps meanwhile, so *)
(* only a failing SendChunk has something to say of them.                  *)

(* A packet header is one of the seven opcodes, and only three have data.  *)
LEMMA RecvHeaderStep ==
    ASSUME IInv, NEW r \in Received, NEW op \in Opcodes, NEW hasData \in BOOLEAN,
           NEW arg \in Numbers, NEW name \in Names, RecvHeader(r, op, hasData, arg, name)
    PROVE  IInv'
<1>1. /\ TypeOK /\ pc' \in {"RecvData", "Reply", "Download", "Upload", "Listen"}
      /\ cur' = cur /\ disk' = disk /\ stamps' = stamps /\ dl' = dl /\ ul' = ul
      /\ clients' \in {clients, AfterCheckFail(clients, Latch(r))}
      /\ status' \in {status, "Success"}
  BY DEF IInv, RecvHeader, AfterHeader, Handler
<1>2. cur = Len(clients) /\ cur \in 1..Len(clients)
  BY ServingLemma DEF IInv, HandleInv, RecvHeader
<1>3. clients' \in Seq(Handle) /\ Len(clients') \in {Len(clients), Len(clients) - 1}
  BY <1>1, <1>2, AfterCheckFailLemma DEF TypeOK
<1>4. packet' \in Packet
  BY NoneLemma, ServerAssumption DEF RecvHeader, Packet
<1>5. TypeOK'
  BY <1>1, <1>3, <1>4 DEF TypeOK, Places
<1>6. HandleInv'
  BY <1>1, <1>2, <1>3 DEF HandleInv, ServedHandleIsLast
<1>7. StampInv'
  BY <1>1 DEF IInv, StampInv, OnePendingStamp, StampWithinFile, HandlePlaces, RecvHeader, Serving
<1>8. DownloadInv' /\ UploadInv'
  BY <1>1, NoneLemma DEF DownloadInv, UploadInv, RecvHeader, AfterHeader, Handler, Packet
<1> QED
  BY <1>5, <1>6, <1>7, <1>8 DEF IInv

(* The data of a packet lead to the handler of its opcode.                 *)
LEMMA RecvDataStep ==
    ASSUME IInv, NEW r \in Received, NEW arg \in Numbers, NEW name \in Names,
           RecvData(r, arg, name)
    PROVE  IInv'
<1>1. /\ TypeOK /\ pc = "RecvData" /\ pc' \in {"Reply", "Download", "Upload", "Listen"}
      /\ UNCHANGED <<clients, cur, stamps, disk, dl, ul>>
  BY DEF IInv, RecvData, Handler, Serving
<1>2. cur = Len(clients) /\ cur \in 1..Len(clients)
  BY ServingLemma DEF IInv, HandleInv, RecvData
<1>3. packet' \in Packet /\ status' \in {"Success"} \cup Errors
  <2>1. CASE r = "ok"
    BY <1>1, <2>1, NoneLemma, ServerAssumption, ProtocolAssumption DEF RecvData, Packet, TypeOK
  <2>2. CASE r # "ok"
    <3>1. status' = Latch(r) /\ packet' = NoPacket
      BY <2>2 DEF RecvData
    <3> QED
      BY <1>1, <3>1, NoneLemma, LatchLemma
  <2> QED
    BY <2>1, <2>2
<1>4. TypeOK'
  BY <1>1, <1>3 DEF TypeOK, Places
<1>5. HandleInv'
  BY <1>1, <1>2 DEF HandleInv, ServedHandleIsLast
<1>6. StampInv'
  BY <1>1 DEF IInv, StampInv, OnePendingStamp, StampWithinFile, HandlePlaces
<1>7. DownloadInv' /\ UploadInv'
  BY <1>1 DEF DownloadInv, UploadInv
<1> QED
  BY <1>4, <1>5, <1>6, <1>7 DEF IInv

(* The answers to Echo and Time touch nothing but the handles.             *)
LEMMA ReplyStep ==
    ASSUME IInv, NEW r \in Sent, Reply(r)
    PROVE  IInv'
<1>1. /\ TypeOK /\ pc' \in {"RecvHeader", "Listen"}
      /\ cur' = cur /\ disk' = disk /\ stamps' = stamps /\ dl' = dl /\ ul' = ul
      /\ clients' = AfterCheckFail(clients, Latch(r))
  BY DEF IInv, Reply
<1>2. cur = Len(clients) /\ cur \in 1..Len(clients)
  BY ServingLemma DEF IInv, HandleInv, Reply
<1>3. clients' \in Seq(Handle) /\ Len(clients') \in {Len(clients), Len(clients) - 1}
  BY <1>1, <1>2, AfterCheckFailLemma DEF TypeOK
<1>4. TypeOK'
  BY <1>1, <1>3, NoneLemma DEF Reply, TypeOK, Places
<1>5. HandleInv'
  BY <1>1, <1>2, <1>3 DEF HandleInv, ServedHandleIsLast
<1>6. StampInv'
  BY <1>1 DEF IInv, StampInv, OnePendingStamp, StampWithinFile, HandlePlaces, Reply, Serving
<1>7. DownloadInv' /\ UploadInv'
  BY <1>1 DEF DownloadInv, UploadInv
<1> QED
  BY <1>4, <1>5, <1>6, <1>7 DEF IInv

(* The loop starts with everything from the start position to the end of   *)
(* the file still to send.                                                 *)
LEMMA DownloadStep ==
    ASSUME IInv, NEW r \in Sent, NEW canOpen \in BOOLEAN, Download(r, canOpen)
    PROVE  IInv'
<1>1. /\ TypeOK /\ pc' \in {"RecvHeader", "SendChunk", "Listen"}
      /\ cur' = cur /\ disk' = disk /\ stamps' = stamps /\ ul' = ul
      /\ clients' = AfterCheckFail(clients, Latch(r))
      /\ status' = "Success" /\ packet' = NoPacket
  BY DEF IInv, Download
<1>2. cur = Len(clients) /\ cur \in 1..Len(clients)
  BY ServingLemma DEF IInv, HandleInv, Download
<1>3. clients' \in Seq(Handle) /\ Len(clients') \in {Len(clients), Len(clients) - 1}
  BY <1>1, <1>2, AfterCheckFailLemma DEF TypeOK
<1> DEFINE size == Len(disk[packet.name].data)
           loop == ~CheckFail(Latch(r)) /\ DownloadStatus(canOpen) = "Ready" /\ TotalSize > 0
<1>4. size \in Nat /\ packet.arg \in Nat /\ packet.name \in Names
      /\ disk[packet.name].kind \in {"none", "file", "dir"}
  BY <1>1, LenProperties DEF TypeOK, Packet, Entry
<1>5. dl' \in [file : Names, start : Nat, total : Nat, left : Nat] /\ DownloadInv'
  <2>1. CASE loop
    <3>1. /\ disk[packet.name].kind = "file"
          /\ TotalSize = size - packet.arg /\ TotalSize \in Nat /\ TotalSize > 0
      BY <1>4, <2>1 DEF DownloadStatus, TotalSize
    <3>2. dl' = [file |-> packet.name, start |-> packet.arg, total |-> TotalSize,
                 left |-> TotalSize]
      BY <2>1 DEF Download
    <3> QED
      BY <1>1, <1>4, <3>1, <3>2 DEF DownloadInv
  <2>2. CASE ~loop
    <3>1. dl' = NoDownload /\ pc' # "SendChunk"
      BY <2>2 DEF Download
    <3> QED
      BY <3>1, NoneLemma DEF DownloadInv
  <2> QED
    BY <2>1, <2>2
<1>6. TypeOK'
  BY <1>1, <1>3, <1>5, NoneLemma DEF TypeOK, Places
<1>7. HandleInv'
  BY <1>1, <1>2, <1>3 DEF HandleInv, ServedHandleIsLast
<1>8. StampInv'
  BY <1>1 DEF IInv, StampInv, OnePendingStamp, StampWithinFile, HandlePlaces, Download, Serving
<1>9. UploadInv'
  BY <1>1 DEF UploadInv
<1> QED
  BY <1>5, <1>6, <1>7, <1>8, <1>9 DEF IInv

(* A chunk is not empty and not more than what is left.                    *)
LEMMA ChunkSizeLemma ==
    ASSUME NEW left \in Nat, left > 0
    PROVE  ChunkSize(left) \in 1..left
BY ServerAssumption, ProtocolAssumption DEF ChunkSize

(* A failing Send makes the only stamp, strictly before the end of a file. *)
LEMMA SendChunkStep ==
    ASSUME IInv, NEW r \in Sent, SendChunk(r)
    PROVE  IInv'
<1>1. /\ TypeOK /\ pc = "SendChunk" /\ stamps = {}
      /\ UNCHANGED <<clients, cur, packet, disk, ul>>
  BY DEF IInv, StampInv, HandlePlaces, SendChunk, Serving
<1>2. cur = Len(clients) /\ cur \in 1..Len(clients) /\ Me \in Handle
  BY ServingLemma DEF IInv, HandleInv, SendChunk
<1>3. /\ dl \in [file : Names, start : Nat, total : Nat, left : Nat]
      /\ disk[dl.file].kind = "file"
      /\ dl.left \in 1..dl.total
      /\ dl.start + dl.total = Len(disk[dl.file].data)
  BY <1>1 DEF IInv, DownloadInv, TypeOK
<1>4. UploadInv'
  BY DEF UploadInv, SendChunk
<1>5. CASE r = "ok"
  <2> DEFINE left == dl.left - ChunkSize(dl.left)
  <2>1. left \in 0..(dl.left - 1)
    BY <1>3, ChunkSizeLemma
  <2>2. /\ pc' = IF left > 0 THEN "SendChunk" ELSE "RecvHeader"
        /\ dl' = IF left > 0 THEN [dl EXCEPT !.left = left] ELSE NoDownload
        /\ status' = status /\ stamps' = stamps
    BY <1>5, ServerAssumption, ProtocolAssumption DEF SendChunk, Removable, Unlisted
  <2>3. dl' \in [file : Names, start : Nat, total : Nat, left : Nat]
    BY <1>3, <2>1, <2>2, NoneLemma
  <2>4. TypeOK'
    BY <1>1, <2>2, <2>3 DEF TypeOK, Places
  <2>5. HandleInv'
    BY <1>1, <1>2, <2>2 DEF HandleInv, ServedHandleIsLast
  <2>6. StampInv'
    BY <1>1, <2>2 DEF StampInv, OnePendingStamp, StampWithinFile
  <2>7. DownloadInv'
    BY <1>1, <1>3, <2>1, <2>2 DEF DownloadInv
  <2> QED
    BY <1>4, <2>4, <2>5, <2>6, <2>7 DEF IInv
<1>6. CASE r # "ok"
  <2> DEFINE stamp == [mac |-> Me.mac, file |-> dl.file,
                       position |-> dl.start + dl.total - dl.left]
  <2>1. stamps' = {stamp} /\ status' = Latch(r) /\ pc' = "Listen" /\ dl' = NoDownload
    BY <1>1, <1>6 DEF SendChunk, StampPosition, MyStamps
  <2>2. stamp \in Stamp
    BY <1>2, <1>3 DEF Stamp, Handle
  <2>3. TypeOK'
    BY <1>1, <2>1, <2>2, NoneLemma, LatchLemma DEF TypeOK, Places
  <2>4. HandleInv'
    BY <2>1 DEF HandleInv, ServedHandleIsLast
  <2>5. StampInv'
    <3>1. stamp.position < Len(disk[stamp.file].data) /\ disk[stamp.file].kind = "file"
      BY <1>3
    <3> QED
      BY <1>1, <2>1, <3>1 DEF StampInv, OnePendingStamp, StampWithinFile, HandlePlaces
  <2>6. DownloadInv'
    BY <2>1 DEF DownloadInv
  <2> QED
    BY <1>4, <2>3, <2>4, <2>5, <2>6 DEF IInv
<1> QED
  BY <1>5, <1>6

(* HandleUpload starts with an empty file and all of it to receive.        *)
LEMMA UploadStep ==
    ASSUME IInv, NEW canOpen \in BOOLEAN, Upload(canOpen)
    PROVE  IInv'
<1>1. /\ TypeOK /\ pc = "Upload" /\ stamps = {}
      /\ pc' \in {"Listen", "RecvChunk", "Discard"} /\ packet' = NoPacket
      /\ UNCHANGED <<clients, cur, status, stamps, dl>>
  BY DEF IInv, StampInv, HandlePlaces, Upload, Serving
<1>2. cur = Len(clients) /\ cur \in 1..Len(clients)
  BY ServingLemma DEF IInv, HandleInv, Upload
<1>3. packet.arg \in Nat /\ packet.name \in Names /\ disk \in [Names -> Entry]
  BY <1>1 DEF TypeOK, Packet
<1>4. ul' \in [name : Names, size : Nat, left : Nat]
  BY <1>3, NoneLemma DEF Upload
<1>5. File(<<>>) \in Entry /\ File(<<>>).kind = "file" /\ Len(File(<<>>).data) = 0
  BY EmptySeq, FileLemma
<1>6. disk' \in [Names -> Entry]
  BY <1>3, <1>5 DEF Upload, OpenOfstream
<1>7. TypeOK'
  BY <1>1, <1>4, <1>6, NoneLemma DEF TypeOK, Places
<1>8. HandleInv'
  BY <1>1, <1>2 DEF HandleInv, ServedHandleIsLast
<1>9. StampInv'
  BY <1>1 DEF StampInv, OnePendingStamp, StampWithinFile
<1>10. DownloadInv'
  BY <1>1 DEF DownloadInv
<1>11. UploadInv'
  <2> SUFFICES ASSUME pc' = "RecvChunk" PROVE UploadInv'
    BY DEF UploadInv
  <2>1. /\ packet.arg > 0
        /\ disk' = [disk EXCEPT ![packet.name] = File(<<>>)]
        /\ ul' = [name |-> packet.name, size |-> packet.arg, left |-> packet.arg]
    BY <1>3 DEF Upload, OpenOfstream
  <2> QED
    BY <1>3, <1>5, <2>1 DEF UploadInv
<1> QED
  BY <1>7, <1>8, <1>9, <1>10, <1>11 DEF IInv

(* What was received and what is left add up to the announced size.        *)
LEMMA RecvChunkStep ==
    ASSUME IInv, NEW r \in Received, NEW d \in Chunks, RecvChunk(r, d)
    PROVE  IInv'
<1>1. /\ TypeOK /\ pc = "RecvChunk" /\ stamps = {}
      /\ UNCHANGED <<cur, packet, stamps, dl>>
      /\ disk \in [Names -> Entry]
  BY DEF IInv, StampInv, HandlePlaces, RecvChunk, Serving, TypeOK
<1>2. cur = Len(clients) /\ cur \in 1..Len(clients) /\ clients \in Seq(Handle)
  BY ServingLemma DEF IInv, HandleInv, RecvChunk, TypeOK
<1>3. /\ ul \in [name : Names, size : Nat, left : Nat]
      /\ disk[ul.name].kind = "file"
      /\ ul.left \in 1..ul.size
      /\ Len(disk[ul.name].data) + ul.left = ul.size
      /\ disk[ul.name].data \in Seq(Blocks)
  BY <1>1 DEF IInv, UploadInv, TypeOK, Entry
<1>4. DownloadInv'
  BY DEF DownloadInv, RecvChunk, UploadDone
<1>5. StampInv'
  BY <1>1, <1>2 DEF StampInv, OnePendingStamp, StampWithinFile, RecvChunk
<1>6. CASE r = "ok"
  <2> DEFINE data == disk[ul.name].data \o d
  <2>1. /\ Len(d) \in 1..ChunkSize(ul.left)
        /\ disk' = [disk EXCEPT ![ul.name] = File(data)]
        /\ pc' = IF ul.left > Len(d) THEN "RecvChunk" ELSE "RecvHeader"
        /\ ul' = IF ul.left > Len(d) THEN [ul EXCEPT !.left = ul.left - Len(d)] ELSE NoUpload
        /\ UNCHANGED <<clients, status>>
    BY <1>6, ServerAssumption, ProtocolAssumption DEF RecvChunk, UploadDone, Removable, Unlisted
  <2>2. data \in Seq(Blocks) /\ Len(data) = Len(disk[ul.name].data) + Len(d)
    BY <1>3, ChunksLemma, ConcatProperties
  <2>3. /\ File(data) \in Entry /\ File(data).kind = "file" /\ File(data).data = data
        /\ Len(d) \in Nat /\ Len(disk[ul.name].data) \in Nat
    BY <1>3, <2>2, FileLemma, ChunksLemma, LenProperties
  <2>4. ul' \in [name : Names, size : Nat, left : Nat]
    <3>1. CASE ul.left > Len(d)
      <4>1. ul.left - Len(d) \in Nat
        BY <1>3, <2>3, <3>1
      <4>2. ul' = [ul EXCEPT !.left = ul.left - Len(d)]
        BY <2>1, <3>1
      <4> QED
        BY <1>3, <4>1, <4>2
    <3>2. CASE ~(ul.left > Len(d))
      <4>1. ul' = NoUpload
        BY <2>1, <3>2
      <4> QED
        BY <4>1, NoneLemma
    <3> QED
      BY <3>1, <3>2
  <2>5. disk' \in [Names -> Entry]
    BY <1>1, <2>1, <2>3
  <2>6. TypeOK'
    BY <1>1, <2>1, <2>4, <2>5 DEF TypeOK, Places
  <2>7. HandleInv'
    BY <1>1, <1>2, <2>1 DEF HandleInv, ServedHandleIsLast
  <2>8. UploadInv'
    <3> SUFFICES ASSUME ul.left > Len(d) PROVE UploadInv'
      BY <2>1 DEF UploadInv
    <3>1. ul' = [ul EXCEPT !.left = ul.left - Len(d)]
      BY <2>1
    <3>2. ul'.name = ul.name /\ ul'.size = ul.size /\ ul'.left = ul.left - Len(d)
      BY <1>3, <3>1
    <3>3. disk'[ul.name] = File(data)
      BY <1>1, <1>3, <2>1
    <3>4. Len(disk'[ul.name].data) = Len(disk[ul.name].data) + Len(d)
      BY <2>2, <2>3, <3>3
    <3>5. ul.left - Len(d) \in 1..ul.size
      BY <1>3, <2>1, <2>3
    <3> QED
      BY <1>3, <2>3, <3>2, <3>3, <3>4, <3>5 DEF UploadInv
  <2> QED
    BY <1>4, <1>5, <2>6, <2>7, <2>8 DEF IInv
<1>7. CASE r \in Errors
  <2>1. /\ clients' = AfterCheckFail(clients, r)
        /\ pc' = IF CheckFail(r) THEN "Listen" ELSE "RecvChunk"
        /\ ul' = IF CheckFail(r) THEN NoUpload ELSE ul
        /\ disk' = IF CheckFail(r) THEN [disk EXCEPT ![ul.name] = NoEntry] ELSE disk
        /\ status' = "Success"
    BY <1>7, ServerAssumption, ProtocolAssumption DEF RecvChunk, RemoveFile, Removable, Unlisted
  <2>2. clients' \in Seq(Handle) /\ Len(clients') \in {Len(clients), Len(clients) - 1}
    BY <1>2, <2>1, AfterCheckFailLemma
  <2>3. TypeOK'
    BY <1>1, <1>3, <2>1, <2>2, NoneLemma DEF TypeOK, Places
  <2>4. HandleInv'
    BY <1>1, <1>2, <2>1, <2>2 DEF HandleInv, ServedHandleIsLast
  <2>5. UploadInv'
    BY <1>3, <2>1 DEF UploadInv
  <2> QED
    BY <1>4, <1>5, <2>3, <2>4, <2>5 DEF IInv
<1> QED
  BY <1>6, <1>7 DEF RecvChunk

(* ignoreContent writes nothing.                                           *)
LEMMA DiscardStep ==
    ASSUME IInv, NEW r \in Received, NEW n \in 1..BufferSize, Discard(r, n)
    PROVE  IInv'
<1>1. /\ TypeOK /\ pc = "Discard" /\ stamps = {}
      /\ pc' \in {"Discard", "Listen"}
      /\ UNCHANGED <<cur, packet, stamps, disk, dl>>
  BY DEF IInv, StampInv, HandlePlaces, Discard, Serving
<1>2. /\ cur = Len(clients) /\ cur \in 1..Len(clients) /\ clients \in Seq(Handle)
      /\ ul \in [name : Names, size : Nat, left : Nat]
  BY ServingLemma DEF IInv, HandleInv, Discard, TypeOK
<1>3. /\ clients' \in {clients, AfterCheckFail(clients, r)}
      /\ status' \in {status, "Success"}
      /\ ul' \in {ul, NoUpload} \/ (ul.left > n /\ ul' = [ul EXCEPT !.left = ul.left - n])
  BY DEF Discard
<1>4. ul' \in [name : Names, size : Nat, left : Nat]
  <2>1. n \in Nat
    BY ServerAssumption, ProtocolAssumption
  <2> QED
    BY <1>2, <1>3, <2>1, NoneLemma
<1>5. clients' \in Seq(Handle) /\ Len(clients') \in {Len(clients), Len(clients) - 1}
  BY <1>2, <1>3, AfterCheckFailLemma
<1>6. TypeOK'
  BY <1>1, <1>3, <1>4, <1>5 DEF TypeOK, Places
<1>7. HandleInv'
  BY <1>1, <1>2, <1>5 DEF HandleInv, ServedHandleIsLast
<1>8. StampInv'
  BY <1>1 DEF StampInv, OnePendingStamp, StampWithinFile
<1>9. DownloadInv' /\ UploadInv'
  BY <1>1 DEF DownloadInv, UploadInv
<1> QED
  BY <1>6, <1>7, <1>8, <1>9 DEF IInv

-----------------------------------------------------------------------------
(* The end of the process and its restart, then every step.                *)

(* The end of the process leaves nothing but the host directory.           *)
LEMMA DieStep ==
    ASSUME IInv, Die
    PROVE  IInv'
<1>1. TypeOK'
  BY NoneLemma, EmptySeq DEF IInv, Die, TypeOK, Places
<1>2. HandleInv' /\ StampInv' /\ DownloadInv' /\ UploadInv'
  BY DEF Die, HandleInv, ServedHandleIsLast, StampInv, OnePendingStamp, StampWithinFile,
         HandlePlaces, DownloadInv, UploadInv
<1> QED
  BY <1>1, <1>2 DEF IInv

(* Whatever ends or starts the process preserves IInv.                     *)
LEMMA ProcessStep ==
    ASSUME IInv, Process
    PROVE  IInv'
<1>1. CASE Die
  BY <1>1, DieStep
<1>2. CASE Restart
  <2>1. TypeOK'
    BY <1>2 DEF IInv, Restart, TypeOK, Places
  <2>2. HandleInv' /\ StampInv' /\ DownloadInv' /\ UploadInv'
    BY <1>2 DEF IInv, Restart, HandleInv, ServedHandleIsLast, StampInv, OnePendingStamp,
                StampWithinFile, HandlePlaces, DownloadInv, UploadInv
  <2> QED
    BY <2>1, <2>2 DEF IInv
<1> QED
  BY <1>1, <1>2 DEF Process, UseAfterRemove, Sigpipe, Kill

(* A step of somebody else preserves IInv.                                 *)
LEMMA StutterStep ==
    ASSUME IInv, UNCHANGED serverVars
    PROVE  IInv'
BY DEF IInv, serverVars, TypeOK, HandleInv, ServedHandleIsLast, StampInv, OnePendingStamp,
       StampWithinFile, DownloadInv, UploadInv

(* IInv is inductive.                                                      *)
LEMMA NextIInv == IInv /\ [ServerNext]_serverVars => IInv'
<1> SUFFICES ASSUME IInv, [ServerNext]_serverVars PROVE IInv'
  OBVIOUS
<1>1. CASE Listening
  BY <1>1, AcceptStep, RecvMacStep, GreetRecoveryStep, SendStampStep, GreetNoneStep
     DEF Listening
<1>2. CASE Handling
  BY <1>2, RecvHeaderStep, RecvDataStep, ReplyStep, SendChunkStep, DownloadStep, UploadStep,
     RecvChunkStep, DiscardStep DEF Handling
<1>3. CASE Process
  BY <1>3, ProcessStep
<1>4. CASE UNCHANGED serverVars
  BY <1>4, StutterStep
<1> QED
  BY <1>1, <1>2, <1>3, <1>4 DEF ServerNext

-----------------------------------------------------------------------------
(* The strengthening is an invariant of the server.                        *)
THEOREM ServerInvariant == ServerSpec => []IInv
BY InitIInv, NextIInv, PTL DEF ServerSpec

(* Every variable keeps its type.                                          *)
THEOREM ServerTypeOK == ServerSpec => []TypeOK
<1>1. IInv => TypeOK
  BY DEF IInv
<1> QED
  BY <1>1, ServerInvariant, PTL

(* However many clients break off their downloads, at most one of them can *)
(* be offered its recovery.                                                *)
THEOREM ServerOnePendingStamp == ServerSpec => []OnePendingStamp
<1>1. IInv => OnePendingStamp
  BY DEF IInv, StampInv
<1> QED
  BY <1>1, ServerInvariant, PTL

(* A pending stamp always points inside an existing file.                  *)
THEOREM ServerStampWithinFile == ServerSpec => []StampWithinFile
<1>1. IInv => StampWithinFile
  BY DEF IInv, StampInv
<1> QED
  BY <1>1, ServerInvariant, PTL

(* The swap of CheckFail's swap-remove never has two handles to swap.      *)
THEOREM ServerHandleIsLast == ServerSpec => []ServedHandleIsLast
<1>1. IInv => ServedHandleIsLast
  BY DEF IInv, HandleInv
<1> QED
  BY <1>1, ServerInvariant, PTL

-----------------------------------------------------------------------------
(* The host directory changes only in HandleUpload.                        *)
LEMMA DiskSteps ==
    ASSUME ServerNext
    PROVE  \/ disk' = disk
           \/ pc \in {"Upload", "RecvChunk"}
<1>1. CASE Listening
  BY <1>1 DEF Listening, Accept, RecvMac, GreetRecovery, SendStamp, GreetNone
<1>2. CASE Handling
  BY <1>2 DEF Handling, RecvHeader, RecvData, Reply, Download, SendChunk, Upload, RecvChunk,
              Discard, Serving
<1>3. CASE Process
  BY <1>3 DEF Process, UseAfterRemove, Sigpipe, Kill, Die, Restart
<1> QED
  BY <1>1, <1>2, <1>3 DEF ServerNext

(* While a stamp is pending its file keeps its content.                    *)
THEOREM ServerStampedFileFrozen == ServerSpec => StampedFileFrozen
<1>1. IInv /\ [ServerNext]_serverVars
        => [\A s \in stamps \cap stamps' : disk'[s.file] = disk[s.file]]_serverVars
  BY DiskSteps DEF IInv, StampInv, HandlePlaces
<1> QED
  BY <1>1, ServerInvariant, PTL DEF ServerSpec, StampedFileFrozen

(* The step that ends the receiving loop has the whole file on disk, or    *)
(* has removed it.                                                         *)
LEMMA UploadLeaves ==
    ASSUME IInv, ServerNext, pc = "RecvChunk", pc' \notin {"RecvChunk", "Dead"}
    PROVE  disk'[ul.name] = NoEntry \/ Len(disk'[ul.name].data) = ul.size
<1>1. PICK r \in Received, d \in Chunks : RecvChunk(r, d)
  BY DEF ServerNext, Listening, Accept, RecvMac, GreetRecovery, SendStamp, GreetNone,
         Handling, RecvHeader, RecvData, Reply, Download, SendChunk, Upload, Discard, Serving,
         Process, UseAfterRemove, Sigpipe, Kill, Die, Restart
<1>2. /\ ul \in [name : Names, size : Nat, left : Nat]
      /\ disk \in [Names -> Entry]
      /\ Len(disk[ul.name].data) + ul.left = ul.size
      /\ disk[ul.name].data \in Seq(Blocks)
      /\ ul.left \in Nat
  BY DEF IInv, UploadInv, TypeOK, Entry
<1>3. CASE r = "ok"
  <2> DEFINE data == disk[ul.name].data \o d
  <2>1. /\ disk' = [disk EXCEPT ![ul.name] = File(data)]
        /\ ~(ul.left > Len(d)) /\ Len(d) \in 1..ChunkSize(ul.left)
    BY <1>1, <1>3, ServerAssumption, ProtocolAssumption DEF RecvChunk, Removable, Unlisted
  <2>2. Len(data) = Len(disk[ul.name].data) + Len(d)
    BY <1>2, ChunksLemma, ConcatProperties
  <2>3. disk'[ul.name].data = data
    BY <1>2, <2>1, FileLemma DEF File
  <2>4. Len(d) = ul.left
    BY <1>2, <2>1, ChunksLemma, ServerAssumption, ProtocolAssumption DEF ChunkSize
  <2>5. Len(disk[ul.name].data) \in Nat
    BY <1>2, LenProperties
  <2> QED
    BY <1>2, <2>2, <2>3, <2>4, <2>5
<1>4. CASE r \in Errors
  BY <1>1, <1>2, <1>4, ServerAssumption, ProtocolAssumption DEF RecvChunk, RemoveFile, Removable, Unlisted
<1> QED
  BY <1>1, <1>3, <1>4 DEF RecvChunk

(* An upload that HandleUpload ends by itself leaves the whole file or none. *)
THEOREM ServerUploadAllOrNothing == ServerSpec => UploadAllOrNothing
<1>1. IInv /\ [ServerNext]_serverVars
        => [pc = "RecvChunk" /\ pc' \notin {"RecvChunk", "Dead"}
              => \/ disk'[ul.name] = NoEntry
                 \/ Len(disk'[ul.name].data) = ul.size]_serverVars
  BY UploadLeaves
<1> QED
  BY <1>1, ServerInvariant, PTL DEF ServerSpec, UploadAllOrNothing

-----------------------------------------------------------------------------
(* The server implements RecoverySlot: every step of it is a step of the   *)
(* slot or leaves the slot alone.                                          *)

SlotStep == Slot!Next \/ UNCHANGED Slot!vars

Waiting == {"Listen", "RecvMac", "Greet", "SendStamp"}

(* What Phase and OfferedStamps are at each place of the server.           *)
LEMMA PhaseLemma ==
    /\ pc \in Waiting => Phase = "waiting"
    /\ pc \in HandlePlaces => Phase = "serving"
    /\ pc = "Dead" => Phase = "down"
    /\ pc # "SendStamp" => OfferedStamps = {}
BY DEF Waiting, HandlePlaces, Phase, OfferedStamps

(* The same after a step.                                                  *)
LEMMA NextPhaseLemma ==
    /\ pc' \in Waiting => Phase' = "waiting"
    /\ pc' \in HandlePlaces => Phase' = "serving"
    /\ pc' = "Dead" => Phase' = "down"
    /\ pc' # "SendStamp" => OfferedStamps' = {}
BY DEF Waiting, HandlePlaces, Phase, OfferedStamps

(* The server starts with an empty slot.                                   *)
LEMMA InitSlot == ServerInit => Slot!Init
<1> SUFFICES ASSUME ServerInit PROVE Slot!Init
  OBVIOUS
<1>1. Phase = "waiting" /\ OfferedStamps = {}
  BY PhaseLemma DEF ServerInit, Waiting
<1> QED
  BY <1>1 DEF ServerInit, Slot!Init

(* A step that stays among the places of Listen and lets go of no stamp.   *)
LEMMA ListenSlot ==
    ASSUME IInv,
           \/ \E k \in Conns : Accept(k)
           \/ \E r \in Received, m \in Macs : RecvMac(r, m)
    PROVE  SlotStep
<1>1. /\ pc \in Waiting /\ pc # "SendStamp"
      /\ pc' \in Waiting /\ pc' # "SendStamp"
      /\ UNCHANGED <<stamps, disk>>
  BY DEF Accept, RecvMac, Serving, Waiting
<1>2. UNCHANGED <<Phase, OfferedStamps>>
  BY <1>1, PhaseLemma, NextPhaseLemma
<1> QED
  BY <1>1, <1>2 DEF SlotStep, Slot!vars

(* The header of the recovery packet: the client's stamp is the only one.  *)
LEMMA OfferSlot ==
    ASSUME IInv, NEW r \in Sent, GreetRecovery(r)
    PROVE  SlotStep
<1>1. /\ pc = "Greet" /\ pc' = "SendStamp" /\ MyStamps # {}
      /\ UNCHANGED <<clients, cur, stamps, disk>>
  BY DEF GreetRecovery, Serving
<1>2. MyStamps = stamps /\ OnePendingStamp
  BY <1>1 DEF IInv, StampInv, OnePendingStamp, MyStamps
<1>3. MyStamps' = MyStamps
  BY <1>1 DEF MyStamps, Me
<1>4. OfferedStamps' = stamps
  BY <1>1, <1>2, <1>3 DEF OfferedStamps
<1>5. Phase = "waiting" /\ Phase' = "waiting" /\ OfferedStamps = {}
  BY <1>1, PhaseLemma, NextPhaseLemma DEF Waiting
<1>6. Slot!Offer
  BY <1>1, <1>2, <1>4, <1>5 DEF Slot!Offer
<1> QED
  BY <1>6 DEF SlotStep, Slot!Next

(* The end of the greeting, successful or not, empties the slot.           *)
LEMMA GreetSlot ==
    ASSUME IInv, NEW r \in Sent, SendStamp(r) \/ GreetNone(r)
    PROVE  SlotStep
<1>1. /\ pc \in Waiting
      /\ pc' \in {"Listen", "RecvHeader"}
      /\ disk' = disk
  BY DEF SendStamp, GreetNone, Serving, Waiting
<1>2. stamps' = {}
  <2>1. CASE GreetNone(r)
    BY <2>1 DEF GreetNone, ClearStamps
  <2>2. CASE SendStamp(r)
    BY <2>2 DEF SendStamp, EraseStamp, MyStamps, Me, Serving, IInv, StampInv
  <2> QED
    BY <2>1, <2>2
<1>3. Phase = "waiting" /\ Phase' \in {"waiting", "serving"} /\ OfferedStamps' = {}
  BY <1>1, PhaseLemma, NextPhaseLemma DEF Waiting, HandlePlaces
<1>4. Slot!Greet
  BY <1>1, <1>2, <1>3 DEF Slot!Greet
<1> QED
  BY <1>4 DEF SlotStep, Slot!Next

(* A step of Handle that neither writes a file nor leaves a stamp.         *)
LEMMA QuietSlot ==
    ASSUME pc \in HandlePlaces, pc' \in HandlePlaces \cup {"Listen"},
           UNCHANGED <<stamps, disk>>
    PROVE  SlotStep
<1>1. /\ Phase = "serving" /\ OfferedStamps = {} /\ OfferedStamps' = {}
      /\ Phase' \in {"serving", "waiting"}
  BY PhaseLemma, NextPhaseLemma DEF HandlePlaces, Waiting
<1>2. CASE Phase' = "serving"
  BY <1>1, <1>2 DEF SlotStep, Slot!vars
<1>3. CASE Phase' = "waiting"
  <2>1. Slot!Leave
    BY <1>1, <1>3 DEF Slot!Leave
  <2> QED
    BY <2>1 DEF SlotStep, Slot!Next
<1> QED
  BY <1>1, <1>2, <1>3

(* Receiving and answering a packet, and swallowing a refused upload.      *)
LEMMA PacketSlot ==
    ASSUME IInv,
           \/ \E r \in Received, op \in Opcodes, hasData \in BOOLEAN, arg \in Numbers, name \in Names :
                 RecvHeader(r, op, hasData, arg, name)
           \/ \E r \in Received, arg \in Numbers, name \in Names : RecvData(r, arg, name)
           \/ \E r \in Sent : Reply(r)
           \/ \E r \in Sent, canOpen \in BOOLEAN : Download(r, canOpen)
           \/ \E r \in Received, n \in 1..BufferSize : Discard(r, n)
    PROVE  SlotStep
<1>1. UNCHANGED <<stamps, disk>>
  BY DEF RecvHeader, RecvData, Reply, Download, Discard
<1>2. pc \in HandlePlaces
  BY DEF RecvHeader, RecvData, Reply, Download, Discard, Serving, HandlePlaces
<1>3. pc' \in HandlePlaces \cup {"Listen"}
  BY DEF RecvHeader, AfterHeader, Handler, RecvData, Reply, Download, Discard, Serving,
         HandlePlaces
<1> QED
  BY <1>1, <1>2, <1>3, QuietSlot

(* A chunk of a download: sent, or the slot is taken.                      *)
LEMMA BreakOffSlot ==
    ASSUME IInv, IInv', NEW r \in Sent, SendChunk(r)
    PROVE  SlotStep
<1>1. pc = "SendChunk" /\ stamps = {} /\ disk' = disk
  BY DEF SendChunk, Serving, IInv, StampInv, HandlePlaces
<1>2. CASE r = "ok"
  <2>1. pc' \in HandlePlaces /\ UNCHANGED <<stamps, disk>>
    BY <1>2 DEF SendChunk, HandlePlaces
  <2> QED
    BY <1>1, <2>1, QuietSlot DEF HandlePlaces
<1>3. CASE r # "ok"
  <2> DEFINE s == [mac |-> Me.mac, file |-> dl.file, position |-> StampPosition]
  <2>1. pc' = "Listen" /\ stamps' = {s}
    BY <1>1, <1>3 DEF SendChunk
  <2>2. s \in Stamp /\ disk[s.file].kind = "file" /\ s.position < Len(disk[s.file].data)
    BY <1>1, <2>1 DEF IInv, StampInv, StampWithinFile, TypeOK
  <2>3. s.mac \in Macs /\ s.file \in Names /\ s.position \in Nat
    BY <2>2 DEF Stamp
  <2>4. Len(disk[s.file].data) \in Nat
    BY <2>3, LenProperties DEF IInv, TypeOK, Entry
  <2>5. s.position \in 0..(Len(disk[s.file].data) - 1)
    BY <2>2, <2>3, <2>4
  <2>6. Phase = "serving" /\ Phase' = "waiting" /\ OfferedStamps = {} /\ OfferedStamps' = {}
    BY <1>1, <2>1, PhaseLemma, NextPhaseLemma DEF HandlePlaces, Waiting
  <2>7. stamps' = {[mac |-> s.mac, file |-> s.file, position |-> s.position]}
    BY <2>1
  <2> HIDE DEF s
  <2>8. Slot!BreakOff
    BY <1>1, <2>2, <2>3, <2>5, <2>6, <2>7 DEF Slot!BreakOff
  <2> QED
    BY <2>8 DEF SlotStep, Slot!Next
<1> QED
  BY <1>2, <1>3

(* An upload writes to one file, and no stamp is pending then.             *)
LEMMA WriteSlot ==
    ASSUME IInv, IInv',
           \/ \E canOpen \in BOOLEAN : Upload(canOpen)
           \/ \E r \in Received, d \in Chunks : RecvChunk(r, d)
    PROVE  SlotStep
<1>1. /\ pc \in HandlePlaces /\ stamps = {} /\ stamps' = {}
      /\ pc' \in HandlePlaces \cup {"Listen"}
  BY DEF Upload, RecvChunk, UploadDone, Serving, IInv, StampInv, HandlePlaces
<1>2. PICK n \in Names : \A m \in Names \ {n} : disk'[m] = disk[m]
  <2>1. CASE \E canOpen \in BOOLEAN : Upload(canOpen)
    <3>1. packet.name \in Names /\ disk \in [Names -> Entry]
      BY DEF IInv, TypeOK, Packet
    <3>2. \A m \in Names \ {packet.name} : disk'[m] = disk[m]
      BY <2>1, <3>1 DEF Upload, OpenOfstream
    <3> QED
      BY <3>1, <3>2
  <2>2. CASE \E r \in Received, d \in Chunks : RecvChunk(r, d)
    <3>1. ul.name \in Names /\ disk \in [Names -> Entry]
      BY DEF IInv, TypeOK
    <3>2. \A m \in Names \ {ul.name} : disk'[m] = disk[m]
      BY <2>2, <3>1 DEF RecvChunk, RemoveFile
    <3> QED
      BY <3>1, <3>2
  <2> QED
    BY <2>1, <2>2
<1>3. DOMAIN disk' = Names
  BY DEF IInv, TypeOK
<1>4. /\ Phase = "serving" /\ Phase' \in {"waiting", "serving"}
      /\ OfferedStamps = {} /\ OfferedStamps' = {}
  BY <1>1, PhaseLemma, NextPhaseLemma DEF HandlePlaces, Waiting
<1>5. Slot!Write
  BY <1>1, <1>2, <1>3, <1>4 DEF Slot!Write
<1> QED
  BY <1>5 DEF SlotStep, Slot!Next

(* The end of the process, and its start.                                  *)
LEMMA ProcessSlot ==
    ASSUME IInv, Process
    PROVE  SlotStep
<1>1. CASE Restart
  <2>1. Phase = "down" /\ Phase' = "waiting" /\ OfferedStamps = {} /\ OfferedStamps' = {}
    BY <1>1, PhaseLemma, NextPhaseLemma DEF Restart, Waiting
  <2>2. Slot!Restart
    BY <1>1, <2>1 DEF Restart, Slot!Restart
  <2> QED
    BY <2>2 DEF SlotStep, Slot!Next
<1>2. CASE pc # "Dead" /\ Die
  <2>1. pc \in Waiting \cup HandlePlaces
    BY <1>2 DEF IInv, TypeOK, Places, Waiting, HandlePlaces
  <2>2. Phase # "down" /\ Phase' = "down" /\ OfferedStamps' = {}
    BY <1>2, <2>1, PhaseLemma, NextPhaseLemma DEF Die
  <2>3. Slot!Crash
    BY <1>2, <2>2 DEF Die, Slot!Crash
  <2> QED
    BY <2>3 DEF SlotStep, Slot!Next
<1> QED
  BY <1>1, <1>2 DEF Process, UseAfterRemove, Sigpipe, Kill, Serving

(* Every step of the server is a step of the slot, or none.                *)
LEMMA NextSlot ==
    ASSUME IInv, IInv', [ServerNext]_serverVars
    PROVE  SlotStep
<1>1. CASE Listening
  BY <1>1, ListenSlot, OfferSlot, GreetSlot DEF Listening
<1>2. CASE Handling
  BY <1>2, PacketSlot, BreakOffSlot, WriteSlot DEF Handling
<1>3. CASE Process
  BY <1>3, ProcessSlot
<1>4. CASE UNCHANGED serverVars
  <2>1. UNCHANGED <<Phase, OfferedStamps>>
    BY <1>4 DEF serverVars, Phase, OfferedStamps, MyStamps, Me
  <2> QED
    BY <1>4, <2>1 DEF serverVars, SlotStep, Slot!vars
<1> QED
  BY <1>1, <1>2, <1>3, <1>4 DEF ServerNext

-----------------------------------------------------------------------------
(* The server implements the slot: a broken-off download is offered to     *)
(* nobody but its owner, only until somebody is greeted, and the file it   *)
(* is about does not change before that.                                   *)
THEOREM ServerKeepsOneSlot == ServerSpec => KeepsOneSlot
<1>1. IInv /\ IInv' /\ [ServerNext]_serverVars => [Slot!Next]_(Slot!vars)
  BY NextSlot DEF SlotStep
<1> QED
  BY <1>1, InitSlot, ServerInvariant, PTL DEF ServerSpec, KeepsOneSlot, Slot!Spec
=============================================================================
