--------------------------- MODULE DownloadProofs ---------------------------
(***************************************************************************)
(* Proof that a download reported as saved has saved the server's file     *)
(* (DownloadIntegrity of FileTransfer), of what resuming one rests on      *)
(* (StampFitsCopy and PromptNamesUnfinished), and that none fails where    *)
(* nobody is killed and every file is there (QuietDownloadsSucceed).       *)
(*                                                                         *)
(* A client resumes at the size of its own copy and the server at the      *)
(* position it is asked for: nothing compares the two files.  The          *)
(* invariant follows the name and the position of a download through all   *)
(* the places where the server, or the network, holds them -- a stamp, a   *)
(* request that waits, the packet being handled, the loop that sends --    *)
(* and says that whoever they belong to has the beginning of that file and *)
(* no more of it than the position.                                        *)
(***************************************************************************)
EXTENDS UploadProofs, FiniteSetTheorems

LOCAL INSTANCE SequencesExt

-----------------------------------------------------------------------------
(* What is assumed of an instance: no two machines have one MAC address,   *)
(* and users ask for files of the host directory itself (a download from a *)
(* subdirectory is offered again under a name that is not the file's).     *)
Distinct == \A c, d \in Clients : MacOf[c] = MacOf[d] => c = d
WantedFlat == \A c \in Clients : \A n \in Wanted[c] : Flat(n)

-----------------------------------------------------------------------------
(* Copies.                                                                 *)

Kept(c, n) == local[c][n].data
Hosted(n) == disk[n].data
Begins(s, t) == Len(s) <= Len(t) /\ \A i \in 1..Len(s) : s[i] = t[i]

(* Client c has the beginning of file n, and not more of it than p blocks. *)
Copy(c, n, p) == Begins(Kept(c, n), Hosted(n)) /\ Len(Kept(c, n)) <= p

LEMMA KeptLemma ==
    ASSUME TransferInv
    PROVE  /\ \A c \in Clients, n \in Names :
                 Kept(c, n) \in Seq(Blocks) /\ Len(Kept(c, n)) \in Nat
           /\ \A n \in Names : Hosted(n) \in Seq(Blocks) /\ Len(Hosted(n)) \in Nat
<1>1. local \in [Clients -> [Names -> Entry]] /\ disk \in [Names -> Entry]
  BY DEF TransferInv, ClientInv, IInv, TypeOK
<1>2. \A e \in Entry : e.data \in Seq(Blocks) /\ Len(e.data) \in Nat
  BY LenProperties DEF Entry
<1> QED
  BY <1>1, <1>2 DEF Kept, Hosted

LEMMA PrefixLemma ==
    ASSUME NEW s \in Seq(Blocks), NEW t \in Seq(Blocks), Begins(s, t)
    PROVE  IsPrefix(s, t)
<1>1. Len(s) \in Nat /\ Len(t) \in Nat /\ Len(s) <= Len(t) /\ \A i \in 1..Len(s) : s[i] = t[i]
  BY LenProperties DEF Begins
<1>2. SubSeq(t, 1, Len(s)) = s
  <2>1. \A i \in 1..Len(s) : t[i] \in Blocks
    BY <1>1, ElementOfSeq
  <2>2. /\ SubSeq(t, 1, Len(s)) \in Seq(Blocks)
        /\ Len(SubSeq(t, 1, Len(s))) = IF 1 <= Len(s) THEN Len(s) - 1 + 1 ELSE 0
        /\ \A i \in 1..(Len(s) - 1 + 1) : SubSeq(t, 1, Len(s))[i] = t[1 + i - 1]
    BY <1>1, <2>1, SubSeqProperties
  <2>3. PICK r : r = SubSeq(t, 1, Len(s))
    OBVIOUS
  <2>4. r \in Seq(Blocks) /\ Len(r) = Len(s)
    BY <1>1, <2>2, <2>3
  <2>5. \A i \in 1..Len(s) : r[i] = t[i]
    BY <1>1, <2>2, <2>3
  <2> QED
    BY <1>1, <2>3, <2>4, <2>5, SeqEqual
<1>3. SubSeq(s, 1, Len(s)) = s
  OBVIOUS
<1> QED
  BY <1>1, <1>2, <1>3 DEF IsPrefix

(* All of it, if it is as long.                                            *)
LEMMA WholeCopy ==
    ASSUME NEW s \in Seq(Blocks), NEW t \in Seq(Blocks), Begins(s, t), Len(s) = Len(t)
    PROVE  s = t
  BY SeqEqual DEF Begins

LEMMA BeginsEmpty ==
    ASSUME NEW t \in Seq(Blocks) PROVE Begins(<<>>, t)
<1>1. Len(<<>>) = 0 /\ Len(t) \in Nat
  BY LenProperties
<1> QED
  BY <1>1 DEF Begins

LEMMA BeginsTransitive ==
    ASSUME NEW r \in Seq(Blocks), NEW s \in Seq(Blocks), NEW t \in Seq(Blocks),
           Begins(r, s), Begins(s, t)
    PROVE  Begins(r, t)
<1>1. Len(r) \in Nat /\ Len(s) \in Nat /\ Len(t) \in Nat
  BY LenProperties
<1> QED
  BY <1>1 DEF Begins

(* What was received goes on where the copy ended.                         *)
LEMMA BeginsFurther ==
    ASSUME NEW s \in Seq(Blocks), NEW d \in Seq(Blocks), NEW t \in Seq(Blocks),
           Begins(s, t), Len(s) + Len(d) <= Len(t),
           \A i \in 1..Len(d) : d[i] = t[Len(s) + i]
    PROVE  Begins(s \o d, t) /\ s \o d \in Seq(Blocks) /\ Len(s \o d) = Len(s) + Len(d)
<1>1. Len(s) \in Nat /\ Len(d) \in Nat /\ Len(t) \in Nat
  BY LenProperties
<1>2. /\ s \o d \in Seq(Blocks) /\ Len(s \o d) = Len(s) + Len(d)
      /\ \A i \in 1..(Len(s) + Len(d)) :
            (s \o d)[i] = IF i <= Len(s) THEN s[i] ELSE d[i - Len(s)]
  BY ConcatProperties
<1>3. ASSUME NEW i \in 1..(Len(s) + Len(d)) PROVE (s \o d)[i] = t[i]
  <2>1. CASE i <= Len(s)
    BY <1>1, <1>2, <1>3, <2>1 DEF Begins
  <2>2. CASE i > Len(s)
    <3>1. i - Len(s) \in 1..Len(d) /\ Len(s) + (i - Len(s)) = i /\ ~(i <= Len(s))
      BY <1>1, <1>3, <2>2
    <3> QED
      BY <1>2, <1>3, <3>1
  <2> QED
    BY <1>1, <1>3, <2>1, <2>2
<1> QED
  BY <1>2, <1>3 DEF Begins

-----------------------------------------------------------------------------
(* The invariant.                                                          *)

(* At most one connection waits to be accepted (listen(socket, 0)).        *)
QueueInv == \A k, l \in backlog : k = l

(* The address m came over connection k: k's client has it, and a client   *)
(* that has it is at k, at a connection not accepted yet, or nowhere.      *)
Elsewhere(c, k) == conn[c] \in {k} \cup backlog \/ ~Linked(c)
Named(k, m) ==
    \A c \in Clients : /\ conn[c] = k => MacOf[c] = m
                       /\ MacOf[c] = m => Elsewhere(c, k)
NamesInv(k) ==
    /\ Awaited(k) => \A i \in 1..Len(Incoming(k)) :
                         Incoming(k)[i].t = "mac" => Named(k, Incoming(k)[i].mac)
    /\ Serves(k) => IF pc = "RecvMac" THEN Me.mac = ZeroMac ELSE Named(k, Me.mac)
    /\ Serves(k) /\ (\E c \in Clients : conn[c] = k) => status = "Success"

(* Unit i of what waits at k is the data of a request to download.         *)
Requested(k, i) ==
    LET q == Incoming(k)
    IN  /\ q[i].t = "data"
        /\ IF i = 1 THEN pc = "RecvData" /\ packet.op = "Download"
           ELSE q[i - 1].t = "header" /\ q[i - 1].op = "Download"

(* The server holds, or is about to read, that the machine with address m  *)
(* has file n up to position p.                                            *)
Noted(m, n, p) ==
    \/ [mac |-> m, file |-> n, position |-> p] \in stamps
    \/ \E k \in Conns :
          /\ Serves(k) /\ m = Me.mac
          /\ \/ pc = "Download" /\ n = packet.name /\ p = packet.arg
             \/ pc = "SendChunk" /\ n = dl.file /\ p = StampPosition
             \/ \E i \in 1..Len(Incoming(k)) :
                   Requested(k, i) /\ n = Incoming(k)[i].name /\ p = Incoming(k)[i].arg
NotesInv ==
    \A m \in Macs, n \in Names, p \in Nat :
        Noted(m, n, p) => Flat(n) /\ \A c \in Clients : MacOf[c] = m => Copy(c, n, p)

(* As long as there is a stamp for a client, it is not being sent a file.  *)
Away(c) == \/ ~Linked(c) \/ conn[c] \in backlog
           \/ Serves(conn[c]) /\ pc \in {"RecvMac", "Greet", "SendStamp"}
AwayInv == \A s \in stamps, c \in Clients : MacOf[c] = s.mac => Away(c)

(* A request to resume is the first thing a client asks for: no upload of  *)
(* its own comes between the offer and it.                                 *)
EagerInv(k) ==
    Serves(k) => \A i \in 2..Len(Incoming(k)) :
        Requested(k, i) /\ Incoming(k)[i].arg > 0 => pc = "RecvHeader" /\ i = 2

-----------------------------------------------------------------------------
(* What InStepInv says of the connections the server attends to.           *)

LEMMA RepliesWait ==
    ASSUME NEW q \in Seq(Unit), NEW x, NEW y, Leads(q, x, y), x.t \in {"reply", "stream"}
    PROVE  q = <<>> /\ y = x
<1>1. ASSUME q # <<>> PROVE FALSE
  <2>1. x.t = Head(q).t /\ Head(q) \in Unit
    BY <1>1, FirstLeads, HeadTailProperties
  <2> QED
    BY <2>1, UnitKinds
<1> QED
  BY <1>1, LeadsNowhere

LEMMA MacFirst ==
    ASSUME NEW q \in Seq(Unit), NEW y, Leads(q, WantMac, y)
    PROVE  \/ q = <<>> /\ y = WantMac
           \/ Len(q) = 1 /\ q[1].t = "mac" /\ y = Owes("greeting")
<1>1. CASE q = <<>>
  BY <1>1, LeadsNowhere
<1>2. CASE q # <<>>
  <2>1. /\ Head(q).t = "mac" /\ Head(q) = q[1]
        /\ Leads(SubSeq(q, 1 + 1, Len(q)), AfterUnit(WantMac, Head(q)), y)
    BY <1>2, FirstLeads, HeadTailProperties DEF WantMac, Want
  <2>2. PICK rest : rest = SubSeq(q, 1 + 1, Len(q))
    OBVIOUS
  <2>3. rest \in Seq(Unit) /\ Len(rest) = Len(q) - 1
    BY <1>2, <2>2, TailLemma
  <2>4. AfterUnit(WantMac, Head(q)) = Owes("greeting")
    BY DEF AfterUnit, WantMac, Want
  <2>5. Owes("greeting").t = "reply"
    BY DEF Owes, Want
  <2>6. rest = <<>> /\ y = Owes("greeting")
    BY <2>1, <2>2, <2>3, <2>4, <2>5, RepliesWait
  <2>7. Len(q) = 1
    <3>1. Len(rest) = 0
      BY <2>6
    <3>2. Len(q) \in Nat
      BY LenProperties
    <3> QED
      BY <2>3, <3>1, <3>2
  <2> QED
    BY <2>1, <2>6, <2>7
<1> QED
  BY <1>1, <1>2

LEMMA GivesMac ==
    ASSUME NEW p, NEW left, NEW q, Gives(p, left, q) = WantMac
    PROVE  p = "sendMac"
<1>1. /\ \A n : Streams(n).t # "mac" /\ WantBlocks(n).t # "mac"
      /\ WantHeader.t # "mac" /\ \A r : Owes(r).t # "mac" /\ \A op : WantData(op).t # "mac"
      /\ WantMac.t = "mac"
  BY DEF Streams, WantBlocks, WantHeader, WantMac, WantData, Owes, Want
<1>2. Gives(p, left, q).t = "mac"
  BY <1>1
<1>3. p # "sendMac" => Gives(p, left, q).t # "mac"
  BY <1>1 DEF Gives
<1> QED
  BY <1>2, <1>3

(* A client on the connection being served.                                *)
LEMMA ServedClient ==
    ASSUME TransferInv, InStepInv, NEW c \in Clients, NEW k, k = conn[c], Serves(k)
    PROVE  /\ k \in Conns /\ Linked(c) /\ k \notin backlog
           /\ net[k] \in Link /\ net[k].end["srv"] = "open" /\ net[k].end["cli"] = "open"
           /\ Incoming(k) \in Seq(Unit) /\ Queue(c) \in Seq(Unit)
           /\ Queue(c) = net[k].queue["cli"]
           /\ at[c] \in ClientPlaces /\ job[c] \in Job /\ job[c].left \in Nat
           /\ Shape(at[c], job[c].left, Queue(c))
           /\ Leads(Incoming(k), Doing, Gives(at[c], job[c].left, Queue(c)))
           /\ \A d \in Clients : conn[d] = k => d = c
<1>1. clients \in Seq(Handle) /\ cur \in 1..Len(clients) /\ Me.conn = k
  BY DEF TransferInv, IInv, TypeOK, Serves
<1>2. Me \in Handle
  BY <1>1, ElementOfSeq DEF Me
<1>3. k \in Conns
  BY <1>1, <1>2 DEF Handle
<1>4. Linked(c) /\ Awaited(k) /\ k \notin backlog
  BY <1>3 DEF Linked, Awaited, InStepInv, ServiceInv
<1>5. Expects(k) = Doing
  BY <1>4 DEF Expects
<1>6. at[c] \in ClientPlaces /\ job[c] \in Job /\ job[c].left \in Nat
  BY KeepLemma DEF TransferInv, Job
<1>7. \A d \in Clients : conn[d] = k => d = c
  BY <1>3 DEF InStepInv, OwnersInv
<1> QED
  BY <1>3, <1>4, <1>5, <1>6, <1>7, LinkedTalk DEF Incoming

(* A client on a connection that waits, or whose address is to be read.    *)
LEMMA NewClient ==
    ASSUME TransferInv, InStepInv, NEW c \in Clients, NEW k, k = conn[c],
           k \in backlog \/ (Serves(k) /\ pc = "RecvMac")
    PROVE  at[c] = "sendMac" \/ (at[c] = "recvGreeting" /\ Queue(c) = <<>>)
<1>1. k \in Conns /\ Linked(c) /\ Awaited(k) /\ Expects(k) = WantMac
  <2>1. CASE k \in backlog
    BY <2>1 DEF TransferInv, NetInv, Linked, Awaited, Expects
  <2>2. CASE Serves(k) /\ pc = "RecvMac"
    BY <2>2, ServedClient DEF Awaited, Expects, Doing
  <2> QED
    BY <2>1, <2>2
<1>2. /\ Incoming(k) \in Seq(Unit) /\ Queue(c) \in Seq(Unit)
      /\ Shape(at[c], job[c].left, Queue(c))
      /\ Leads(Incoming(k), WantMac, Gives(at[c], job[c].left, Queue(c)))
  BY <1>1, LinkedTalk DEF Incoming
<1>3. at[c] \in ClientPlaces /\ job[c].left \in Nat
  BY KeepLemma DEF TransferInv, Job
<1>4. Gives(at[c], job[c].left, Queue(c)) \in {WantMac, Owes("greeting")}
  BY <1>2, MacFirst
<1> QED
  BY <1>2, <1>3, <1>4, GivesMac, ReaderPlaces

-----------------------------------------------------------------------------
(* The steps of a client.                                                  *)

Leaves(c) ==
    /\ ClientDies(c) \/ ConnectFails(c)
    /\ UNCHANGED net \/ net' = Dropped(c)
    /\ UNCHANGED backlog
Commands(c) ==
    /\ \/ \E yes \in BOOLEAN, canSave \in OpenResults : Answer(c, yes, canSave)
       \/ \E name \in Wanted[c], canSave \in OpenResults : DownloadCmd(c, name, canSave)
       \/ \E name \in Offered[c] : UploadCmd(c, name)
       \/ \E op \in Asks[c] \ {"Close"} : AskCmd(c, op)
       \/ "Close" \in Asks[c] /\ CloseCmd(c)
       \/ StartClient(c)
    /\ UNCHANGED <<net, backlog>>
Moves(c) == TcpReceive(c) \/ TcpSend(c) \/ TcpConnect(c) \/ Leaves(c) \/ Commands(c)

LEMMA ClientMoves ==
    ASSUME NEW c \in Clients, ClientStep(c) \/ UserStep(c) \/ KillClient(c)
    PROVE  Moves(c) /\ UNCHANGED serverVars /\ UNCHANGED asked
<1>1. UNCHANGED serverVars /\ UNCHANGED asked
  BY DEF ClientStep, UserStep, KillClient
<1>2. CASE \/ TcpSendUnconnected(c) \/ TcpClientSigpipe(c) \/ KillClient(c)
           \/ TcpConnectFails(c) \/ TcpQuit(c)
  BY <1>1, <1>2 DEF TcpSendUnconnected, SendUnconnected, TcpClientSigpipe, KillClient,
     TcpConnectFails, TcpQuit, QuitCmd, Leaves, Moves
<1> QED
  BY <1>1, <1>2 DEF ClientStep, UserStep, Moves, Commands

LEMMA LeavesAlone ==
    ASSUME TransferInv, InStepInv, NEW c \in Clients, Leaves(c)
    PROVE  /\ Others(c) /\ conn'[c] \notin Conns /\ UNCHANGED backlog
           /\ at'[c] \in {"prompt", "dead"}
           /\ \A l \in Conns : /\ Incoming(l)' = Incoming(l)
                               /\ l # conn[c] => net'[l] = net[l]
<1>1. Others(c) /\ conn'[c] \notin Conns /\ at'[c] \in {"prompt", "dead"}
  <2>1. CASE ClientDies(c)
    BY <2>1, OwnEnd DEF TransferInv, ClientDies, Goto, ClientInv
  <2>2. CASE ConnectFails(c)
    BY <2>2, ClientAssumption
    DEF ConnectFails, Return, Goto, Others, TransferInv, ClientInv, NoSocket
  <2> QED
    BY <2>1, <2>2 DEF Leaves
<1>2. \A l \in Conns : Incoming(l)' = Incoming(l) /\ (l # conn[c] => net'[l] = net[l])
  BY DroppedFacts DEF Incoming, Leaves
<1> QED
  BY <1>1, <1>2 DEF Leaves

LEMMA ConnectsAlone ==
    ASSUME TransferInv, InStepInv, QueueInv, UNCHANGED serverVars,
           NEW c \in Clients, TcpConnect(c), NEW k, k = conn'[c]
    PROVE  /\ Others(c) /\ k \in Conns /\ at'[c] = "sendMac" /\ local' = local
           /\ ~Serves(k) /\ ~Serves(k)'
           /\ backlog = {} /\ backlog' = {k}
           /\ Incoming(k)' = <<>>
           /\ \A l \in Conns : /\ l # k => Incoming(l)' = Incoming(l)
                               /\ l # conn[c] /\ l # k => net'[l] = net[l]
<1>1. PICK m \in Conns : /\ net[m] = Free /\ Connect(c, m)
                         /\ net' = [Dropped(c) EXCEPT ![m] = Fresh]
                         /\ backlog' = backlog \cup {m}
  BY DEF TcpConnect
<1>2. Others(c) /\ conn'[c] = m /\ at'[c] = "sendMac" /\ local' = local
  BY <1>1 DEF Connect, Goto, Others, TransferInv, ClientInv
<1>3. DOMAIN Dropped(c) = Conns
  BY DEF Dropped, TransferInv, NetInv
<1>4. backlog = {}
  <2>1. ASSUME NEW l \in backlog PROVE FALSE
    <3>1. backlog = {l}
      BY DEF QueueInv
    <3>2. Cardinality({l}) = 1
      BY FS_Singleton
    <3> QED
      BY <3>1, <3>2 DEF TcpConnect, Backlog
  <2> QED
    BY <2>1
<1>5. \A l \in Conns \ {m} : net'[l] = Dropped(c)[l]
  BY <1>1, <1>3
<1>6. \A l \in Conns \ {m} : Incoming(l)' = Incoming(l) /\ (l # conn[c] => net'[l] = net[l])
  BY <1>5, DroppedFacts DEF Incoming
<1>7. Incoming(m)' = <<>>
  BY <1>1, <1>3 DEF Incoming, Fresh, Ends
<1>8. net[m].end["srv"] = "closed"
  BY <1>1 DEF Free, Ends
<1>9. ~Serves(m)
  BY <1>8 DEF InStepInv, ServiceInv, Awaited
<1>10. ~Serves(m)'
  BY <1>9 DEF serverVars, Serves, Me
<1> QED
  BY <1>1, <1>2, <1>4, <1>6, <1>7, <1>9, <1>10

LEMMA SendsAlone ==
    ASSUME TransferInv, NEW c \in Clients, TcpSend(c)
    PROVE  /\ Others(c) /\ UNCHANGED <<conn, backlog>> /\ Linked(c)
           /\ \A l \in Conns : l # conn[c] => net'[l] = net[l]
<1>1. Others(c) /\ UNCHANGED <<conn, backlog>> /\ Linked(c)
  BY OwnSend DEF TransferInv, TcpSend, CliWrites
<1> QED
  BY <1>1 DEF TcpSend, CliWrites, TransferInv, NetInv

LEMMA ReceivesAlone ==
    ASSUME TransferInv, NEW c \in Clients, TcpReceive(c)
    PROVE  /\ Others(c) /\ UNCHANGED <<conn, backlog>> /\ Linked(c)
           /\ \A l \in Conns : /\ Incoming(l)' = Incoming(l)
                               /\ l # conn[c] => net'[l] = net[l]
<1>1. PICK u : Linked(c) /\ CliReads(c, u)
  BY DEF TcpReceive
<1>2. \A l \in Conns : Incoming(l)' = Incoming(l)
  BY <1>1, ReceiveIncoming DEF TransferInv
<1>3. Others(c) /\ UNCHANGED conn
  BY OwnReceive DEF TransferInv
<1> QED
  BY <1>1, <1>2, <1>3 DEF CliReads, TransferInv, NetInv

LEMMA CommandsAlone ==
    ASSUME TransferInv, NEW c \in Clients, Commands(c)
    PROVE  /\ Others(c) /\ UNCHANGED <<conn, net, backlog>>
           /\ \A l \in Conns : Incoming(l)' = Incoming(l)
  BY OwnCommand DEF Commands, TransferInv, Incoming

(* What they have in common.                                               *)
LEMMA MovesAlone ==
    ASSUME TransferInv, InStepInv, QueueInv, UNCHANGED serverVars,
           NEW c \in Clients, Moves(c)
    PROVE  /\ Others(c)
           /\ \A l \in Conns :
                 /\ l # conn[c] /\ l # conn'[c] => net'[l] = net[l]
                 /\ \/ Incoming(l)' = Incoming(l)
                    \/ TcpSend(c) /\ l = conn[c]
                    \/ l = conn'[c] /\ ~Serves(l)' /\ Incoming(l)' = <<>>
           /\ \/ conn'[c] = conn[c] /\ UNCHANGED backlog
              \/ conn'[c] \notin Conns /\ UNCHANGED backlog
              \/ ~Serves(conn'[c]) /\ backlog = {} /\ backlog' = {conn'[c]}
<1>1. CASE TcpConnect(c)
  <2>1. PICK k : k = conn'[c]
    OBVIOUS
  <2> QED
    BY <1>1, <2>1, ConnectsAlone
<1>2. CASE Leaves(c)
  BY <1>2, LeavesAlone
<1>3. CASE TcpSend(c)
  <2>1. /\ Others(c) /\ UNCHANGED <<conn, backlog>>
        /\ \A l \in Conns : l # conn[c] => net'[l] = net[l]
    BY <1>3, SendsAlone
  <2>2. \A l \in Conns : l # conn[c] => Incoming(l)' = Incoming(l)
    BY <2>1 DEF Incoming
  <2> QED
    BY <1>3, <2>1, <2>2
<1>4. CASE TcpReceive(c)
  BY <1>4, ReceivesAlone
<1>5. CASE Commands(c)
  BY <1>5, CommandsAlone
<1> QED
  BY <1>1, <1>2, <1>3, <1>4, <1>5 DEF Moves

-----------------------------------------------------------------------------
(* What a client sends is the last of what then waits at its connection.   *)
LEMMA PacketKinds ==
    ASSUME TransferInv, InStepInv, NEW c \in Clients, at[c] \in Sending,
           NEW units, units = Packets(c), NEW i \in 1..Len(units)
    PROVE  /\ units[i].t = "mac" => at[c] = "sendMac" /\ units[i].mac = MacOf[c]
           /\ units[i].t = "data" => i = 1 /\ Len(units) = 1
           /\ units[i].t = "data" /\ at[c] = "downloadData" =>
                 units[i].name = job[c].file /\ units[i].arg = job[c].start
<1>1. ClientInv /\ JobFits(at[c], job[c])
  BY DEF TransferInv, InStepInv, CommandInv
<1>2. ASSUME NEW u, units = <<u>>
      PROVE  i = 1 /\ Len(units) = 1 /\ units[1] = u
  BY <1>2
<1>3. CASE at[c] = "sendFile"
  <2>1. job[c].left > 0
    BY <1>1, <1>3 DEF JobFits
  <2> QED
    BY <1>1, <1>3, <2>1, BlocksSent
<1>4. CASE at[c] # "sendFile"
  <2>1. \E u : units = <<u>>
    BY <1>4 DEF Packets, Sending
  <2>2. i = 1 /\ Len(units) = 1 /\ units = <<units[1]>>
    BY <1>2, <2>1
  <2>3. CASE at[c] = "sendMac"
    BY <2>2, <2>3 DEF Packets, Mac
  <2>4. CASE at[c] \in {"downloadHeader", "uploadHeader", "askHeader", "sendClose"}
    BY <2>2, <2>4 DEF Packets, Header
  <2>5. CASE at[c] = "downloadData"
    BY <2>2, <2>5 DEF Packets, Data
  <2>6. CASE at[c] \in {"uploadData", "askData"}
    BY <2>2, <2>6 DEF Packets, Data
  <2> QED
    BY <1>4, <2>3, <2>4, <2>5, <2>6 DEF Sending
<1> QED
  BY <1>3, <1>4

LEMMA SentUnits ==
    ASSUME TransferInv, InStepInv, NEW c \in Clients, TcpSend(c),
           NEW k, k = conn[c], Awaited(k),
           NEW q, q = Incoming(k), NEW units, units = Packets(c), NEW more, more = Incoming(k)'
    PROVE  /\ q \in Seq(Unit) /\ units \in Seq(Unit) /\ more = q \o units
           /\ Len(more) = Len(q) + Len(units) /\ Len(q) \in Nat /\ Len(units) \in Nat
           /\ \A i \in 1..Len(q) : more[i] = q[i]
           /\ \A i \in 1..Len(more) : i > Len(q) =>
                 i - Len(q) \in 1..Len(units) /\ more[i] = units[i - Len(q)]
<1>1. q \in Seq(Unit) /\ units \in Seq(Unit) /\ more = q \o units
  BY SentIncoming
<1>2. Len(q) \in Nat /\ Len(units) \in Nat
  BY <1>1, LenProperties
<1>3. /\ Len(more) = Len(q) + Len(units)
      /\ \A i \in 1..(Len(q) + Len(units)) :
            more[i] = IF i <= Len(q) THEN q[i] ELSE units[i - Len(q)]
  BY <1>1, ConcatProperties
<1>4. \A i \in 1..Len(q) : more[i] = q[i]
  BY <1>2, <1>3
<1>5. \A i \in 1..Len(more) : i > Len(q) =>
         i - Len(q) \in 1..Len(units) /\ more[i] = units[i - Len(q)]
  BY <1>2, <1>3
<1> QED
  BY <1>1, <1>2, <1>3, <1>4, <1>5

(* The server attends to no connection that it did not attend to before,   *)
(* but for one that is new.                                                *)
LEMMA ClientServes ==
    ASSUME UNCHANGED serverVars
    PROVE  /\ \A k : Serves(k)' <=> Serves(k)
           /\ Me' = Me /\ pc' = pc /\ status' = status /\ stamps' = stamps /\ disk' = disk
           /\ packet' = packet /\ dl' = dl
  BY DEF serverVars, Serves, Me

LEMMA ClientNamed ==
    ASSUME TransferInv, InStepInv, QueueInv, UNCHANGED serverVars,
           NEW c \in Clients, Moves(c), NEW k \in Conns, NEW m, Named(k, m),
           k = conn'[c] => conn[c] = k
    PROVE  Named(k, m)'
<1>1. /\ Others(c)
      /\ \/ conn'[c] = conn[c] /\ UNCHANGED backlog
         \/ conn'[c] \notin Conns /\ UNCHANGED backlog
         \/ backlog = {} /\ backlog' = {conn'[c]}
  BY MovesAlone
<1>2. ASSUME NEW d \in Clients, d # c
      PROVE  /\ conn'[d] = k => MacOf[d] = m
             /\ MacOf[d] = m => conn'[d] \in {k} \cup backlog' \/ conn'[d] \notin Conns
  BY <1>1, <1>2 DEF Others, Named, Elsewhere, Linked
<1>3. /\ conn'[c] = k => MacOf[c] = m
      /\ MacOf[c] = m => conn'[c] \in {k} \cup backlog' \/ conn'[c] \notin Conns
  BY <1>1 DEF Named, Elsewhere, Linked
<1> QED
  BY <1>2, <1>3 DEF Named, Elsewhere, Linked

LEMMA ClientNames ==
    ASSUME TransferInv, InStepInv, QueueInv, Distinct, UNCHANGED serverVars,
           NEW c \in Clients, Moves(c), NEW k \in Conns, NamesInv(k)
    PROVE  NamesInv(k)'
<1>1. /\ Others(c)
      /\ \/ Incoming(k)' = Incoming(k)
         \/ TcpSend(c) /\ k = conn[c]
         \/ k = conn'[c] /\ ~Serves(k)' /\ Incoming(k)' = <<>>
      /\ \/ conn'[c] = conn[c] /\ UNCHANGED backlog
         \/ conn'[c] \notin Conns /\ UNCHANGED backlog
         \/ ~Serves(conn'[c]) /\ backlog = {} /\ backlog' = {conn'[c]}
  BY MovesAlone
<1>2. Serves(k)' <=> Serves(k)
  BY ClientServes
<1>3. CASE k = conn'[c] /\ ~Serves(k)' /\ Incoming(k)' = <<>>
  BY <1>3 DEF NamesInv
<1>4. CASE ~(k = conn'[c] /\ ~Serves(k)' /\ Incoming(k)' = <<>>)
  <2>1. /\ k = conn'[c] => conn[c] = k
        /\ k \in backlog' => k \in backlog
    <3>1. CASE TcpConnect(c)
      <4>1. PICK l : l = conn'[c]
        OBVIOUS
      <4>2. ~Serves(l)' /\ Incoming(l)' = <<>> /\ backlog' = {l}
        BY <3>1, <4>1, ConnectsAlone
      <4> QED
        BY <1>4, <4>1, <4>2
    <3>2. CASE Leaves(c)
      BY <3>2, LeavesAlone
    <3>3. CASE TcpSend(c) \/ TcpReceive(c) \/ Commands(c)
      BY <3>3, SendsAlone, ReceivesAlone, CommandsAlone
    <3> QED
      BY <3>1, <3>2, <3>3 DEF Moves
  <2>2. \A m : Named(k, m) => Named(k, m)'
    BY <2>1, ClientNamed
  <2>3. Awaited(k)' => Awaited(k)
    BY <1>1, <1>2, <2>1 DEF Awaited
  <2>4. ASSUME Awaited(k)', NEW i \in 1..Len(Incoming(k)'), Incoming(k)'[i].t = "mac"
        PROVE  \E m : m = Incoming(k)'[i].mac /\ Named(k, m)'
    <3>1. CASE Incoming(k)' = Incoming(k)
      BY <2>2, <2>3, <2>4, <3>1 DEF NamesInv
    <3>2. CASE TcpSend(c) /\ k = conn[c]
      <4>1. PICK q, units, more : q = Incoming(k) /\ units = Packets(c) /\ more = Incoming(k)'
        OBVIOUS
      <4>2. /\ \A j \in 1..Len(q) : more[j] = q[j]
            /\ i > Len(q) => i - Len(q) \in 1..Len(units) /\ more[i] = units[i - Len(q)]
            /\ Len(q) \in Nat
        BY <2>3, <2>4, <3>2, <4>1, SentUnits
      <4>3. CASE i <= Len(q)
        BY <2>2, <2>3, <2>4, <4>1, <4>2, <4>3 DEF NamesInv
      <4>4. CASE i > Len(q)
        <5>1. at[c] = "sendMac" /\ more[i].mac = MacOf[c]
          BY <2>4, <3>2, <4>1, <4>2, <4>4, PacketKinds DEF TcpSend
        <5>2. \A d \in Clients : conn[d] = k => d = c
          BY <3>2 DEF InStepInv, OwnersInv
        <5>3. Named(k, MacOf[c])
          BY <3>2, <5>2 DEF Named, Elsewhere, Distinct
        <5> QED
          BY <2>2, <4>1, <5>1, <5>3
      <4> QED
        BY <2>4, <4>2, <4>3, <4>4
    <3> QED
      BY <1>1, <1>4, <3>1, <3>2
  <2>5. Awaited(k)' => \A i \in 1..Len(Incoming(k)') :
            Incoming(k)'[i].t = "mac" => \E m : m = Incoming(k)'[i].mac /\ Named(k, m)'
    BY <2>4
  <2>6. Serves(k)' => IF pc' = "RecvMac" THEN Me'.mac = ZeroMac
                                         ELSE \E m : m = Me.mac /\ Named(k, m)'
    BY <1>2, <2>2, ClientServes DEF NamesInv
  <2>7. Serves(k)' /\ (\E d \in Clients : conn'[d] = k) => status' = "Success"
    BY <1>1, <1>2, <2>1, ClientServes DEF NamesInv, Others
  <2> QED
    BY <2>5, <2>6, <2>7, ClientServes DEF NamesInv
<1> QED
  BY <1>3, <1>4

LEMMA ClientQueue ==
    ASSUME TransferInv, InStepInv, QueueInv, UNCHANGED serverVars,
           NEW c \in Clients, Moves(c)
    PROVE  QueueInv'
<1>1. UNCHANGED backlog \/ \E k : backlog' = {k}
  BY MovesAlone
<1> QED
  BY <1>1 DEF QueueInv

-----------------------------------------------------------------------------
(* Requests.                                                               *)

LEMMA AfterRequest ==
    /\ AfterOp("Download") = WantData("Download")
    /\ \A u : AfterUnit(WantData("Download"), u) = Owes("response")
    /\ \A x, u : x.t = "header" => AfterUnit(x, u) = AfterOp(u.op)
    /\ Owes("response").t = "reply"
  BY DEF AfterOp, HasData, AfterUnit, AfterData, WantData, Want, Owes

(* After a request to download a client sends nothing: it waits.           *)
LEMMA RequestLast ==
    ASSUME NEW k, NEW q \in Seq(Unit), q = Incoming(k), NEW y, Leads(q, Doing, y),
           NEW i \in 1..Len(q), Requested(k, i)
    PROVE  i = Len(q) /\ y = Owes("response")
<1>1. PICK e \in [0..Len(q) -> Expectation] : Follows(q, e) /\ e[0] = Doing /\ e[Len(q)] = y
  BY DEF Leads
<1>2. Len(q) \in Nat /\ i \in 0..Len(q)
  BY LenProperties
<1>3. e[i] = Owes("response")
  <2>1. CASE i = 1
    <3>1. Doing = WantData("Download")
      BY <2>1 DEF Requested, Doing
    <3>2. e[i] = AfterUnit(e[0], q[i])
      BY <1>1, <2>1 DEF Follows
    <3> QED
      BY <1>1, <3>1, <3>2, AfterRequest
  <2>2. CASE i # 1
    <3>1. i - 1 \in 1..Len(q)
      BY <1>2, <2>2
    <3>2. q[i - 1].t = "header" /\ q[i - 1].op = "Download"
      BY <2>2 DEF Requested
    <3>3. /\ \A j \in 1..Len(q) : e[j - 1].t = q[j].t /\ e[j] = AfterUnit(e[j - 1], q[j])
      BY <1>1 DEF Follows
    <3>4. PICK j : j = i - 1
      OBVIOUS
    <3>5. e[j - 1].t = "header" /\ e[j] = AfterUnit(e[j - 1], q[j])
      BY <3>1, <3>2, <3>3, <3>4
    <3>6. e[j] = WantData("Download")
      BY <3>2, <3>4, <3>5, AfterRequest
    <3>7. e[i] = AfterUnit(e[i - 1], q[i])
      BY <3>3
    <3> QED
      BY <3>4, <3>6, <3>7, AfterRequest
  <2> QED
    BY <2>1, <2>2
<1>4. Leads(SubSeq(q, i + 1, Len(q)), e[i], y)
  BY <1>1, <1>2, RestLeads
<1>5. PICK rest : rest = SubSeq(q, i + 1, Len(q))
  OBVIOUS
<1>6. rest \in Seq(Unit) /\ Len(rest) = Len(q) - i
  BY <1>2, <1>5, RestLemma
<1>7. rest = <<>> /\ y = e[i]
  BY <1>3, <1>4, <1>5, <1>6, AfterRequest, RepliesWait
<1> QED
  BY <1>2, <1>3, <1>6, <1>7

LEMMA SendsDownloadData ==
    ASSUME NEW p \in Sending, NEW left \in Nat, Gives(p, left, <<>>) = WantData("Download")
    PROVE  p = "downloadData"
<1>1. Gives(p, left, <<>>) \in {WantMac, WantHeader, WantBlocks(left), WantData("Upload"),
                               WantData("Echo")} \/ p = "downloadData"
  BY SenderGives DEF Sending
<1>2. /\ WantData("Download").t = "data" /\ WantData("Download").op = "Download"
      /\ WantMac.t = "mac" /\ WantHeader.t = "header" /\ WantBlocks(left).t \in {"header", "block"}
      /\ WantData("Upload").op = "Upload" /\ WantData("Echo").op = "Echo"
  BY DEF WantMac, WantHeader, WantData, WantBlocks, Want
<1> QED
  BY <1>1, <1>2

(* Of the requests that wait, only the one its client just completed is new.*)
LEMMA NewRequest ==
    ASSUME TransferInv, InStepInv, UNCHANGED serverVars, NEW c \in Clients, TcpSend(c),
           NEW k, k = conn[c], Serves(k),
           NEW q, q = Incoming(k), NEW more, more = Incoming(k)',
           NEW i \in 1..Len(more), Requested(k, i)'
    PROVE  \/ i \in 1..Len(q) /\ Requested(k, i) /\ more[i] = q[i]
           \/ /\ i = Len(q) + 1 /\ at[c] = "downloadData"
              /\ more[i].name = job[c].file /\ more[i].arg = job[c].start
<1>1. PICK units : units = Packets(c)
  OBVIOUS
<1>2. Awaited(k) /\ Expects(k) = Doing
  BY ServedClient DEF Awaited, Expects
<1>3. /\ q \in Seq(Unit) /\ Len(q) \in Nat /\ Len(units) \in Nat
      /\ Len(more) = Len(q) + Len(units)
      /\ \A j \in 1..Len(q) : more[j] = q[j]
      /\ i > Len(q) => i - Len(q) \in 1..Len(units) /\ more[i] = units[i - Len(q)]
  BY <1>1, <1>2, SentUnits
<1>4. /\ more[i].t = "data"
      /\ IF i = 1 THEN pc = "RecvData" /\ packet.op = "Download"
         ELSE more[i - 1].t = "header" /\ more[i - 1].op = "Download"
  BY DEF Requested, serverVars
<1>5. CASE i <= Len(q)
  <2>1. i \in 1..Len(q) /\ more[i] = q[i]
    BY <1>3, <1>5
  <2>2. i # 1 => i - 1 \in 1..Len(q)
    BY <1>3, <1>5
  <2>3. i # 1 => more[i - 1] = q[i - 1]
    BY <1>3, <2>2
  <2> QED
    BY <1>4, <2>1, <2>3 DEF Requested
<1>6. CASE i > Len(q)
  <2>1. PICK j : j = i - Len(q)
    OBVIOUS
  <2>2. j \in 1..Len(units) /\ more[i] = units[j] /\ units[j].t = "data"
    BY <1>3, <1>4, <1>6, <2>1
  <2>3. at[c] \in Sending /\ job[c].left \in Nat
    BY KeepLemma DEF TcpSend, TransferInv, Job
  <2>4. j = 1 /\ (at[c] = "downloadData" => units[j].name = job[c].file
                                            /\ units[j].arg = job[c].start)
    BY <1>1, <2>2, <2>3, PacketKinds
  <2>5. i = Len(q) + 1
    BY <1>3, <2>1, <2>4
  <2>6. Leads(q, Doing, Gives(at[c], job[c].left, <<>>))
    BY <1>2, SentIncoming
  <2>7. Gives(at[c], job[c].left, <<>>) = WantData("Download")
    <3>1. CASE q = <<>>
      <4>1. i = 1
        BY <2>5, <3>1
      <4>2. Doing = WantData("Download")
        BY <1>4, <4>1 DEF Doing
      <4> QED
        BY <2>6, <3>1, <4>2, LeadsNowhere
    <3>2. CASE q # <<>>
      <4>1. PICK n : n = Len(q)
        OBVIOUS
      <4>2. n \in 1..Len(q) /\ i # 1 /\ i - 1 = n
        BY <1>3, <2>5, <3>2, <4>1, EmptySeq, LenProperties
      <4>3. q[n].t = "header" /\ q[n].op = "Download"
        BY <1>3, <1>4, <4>2
      <4> QED
        BY <1>3, <2>6, <3>2, <4>1, <4>3, LastLeads, AfterRequest
    <3> QED
      BY <3>1, <3>2
  <2>8. at[c] = "downloadData"
    BY <2>3, <2>7, SendsDownloadData
  <2> QED
    BY <2>2, <2>4, <2>5, <2>8
<1> QED
  BY <1>3, <1>5, <1>6

-----------------------------------------------------------------------------
(* The dialogue of a client with the server.                               *)

(* A download starts where the local copy ends.                            *)
StartInv(c) ==
    at[c] \in {"downloadHeader", "downloadData", "recvResponse"} =>
        Len(Kept(c, job[c].file)) = job[c].start

(* The files that the user of c has been, or will be, asked about: then    *)
(* the server waits for c's next packet, and c has a part of the file.     *)
Offers(c) ==
    CASE at[c] = "ask" -> {job[c].file}
      [] at[c] = "recvStamp" /\ Queue(c) # <<>> -> {Queue(c)[1].name}
      [] at[c] = "recvGreeting" /\ Len(Queue(c)) = 2 -> {Queue(c)[2].name}
      [] OTHER -> {}
PromptInv(c) ==
    \A n \in Offers(c) :
        /\ Flat(n) /\ pc = "RecvHeader" /\ Incoming(conn[c]) = <<>>
        /\ Begins(Kept(c, n), Hosted(n)) /\ Len(Kept(c, n)) < Len(Hosted(n))

(* A client that asks to go on: nothing has come to the server since it    *)
(* offered this but the request itself.                                    *)
Resumes(c) ==
    \/ at[c] = "downloadHeader" /\ pc = "RecvHeader" /\ Incoming(conn[c]) = <<>>
    \/ at[c] = "downloadData" /\ pc = "RecvHeader" /\ Len(Incoming(conn[c])) = 1
    \/ at[c] = "downloadData" /\ pc = "RecvData" /\ Incoming(conn[c]) = <<>>
AskingInv(c) ==
    at[c] \in {"downloadHeader", "downloadData"} =>
        /\ Flat(job[c].file)
        /\ job[c].start > 0 =>
              Begins(Kept(c, job[c].file), Hosted(job[c].file)) /\ Resumes(c)

(* Until it is answered, the request the server holds is c's.              *)
MatchInv(c) ==
    at[c] = "recvResponse" /\ Queue(c) = <<>> =>
        /\ pc = "Download" => packet.name = job[c].file /\ packet.arg = job[c].start
        /\ \A i \in 1..Len(Incoming(conn[c])) :
              Requested(conn[c], i) => /\ Incoming(conn[c])[i].name = job[c].file
                                       /\ Incoming(conn[c])[i].arg = job[c].start

(* When it has been, the server sends the file it answered for, or is done.*)
HasReply(c) == at[c] = "recvFile" \/ (at[c] = "recvResponse" /\ Queue(c) # <<>>)
QuietInv(c) ==
    HasReply(c) =>
        /\ Incoming(conn[c]) = <<>>
        /\ \/ pc = "RecvHeader"
           \/ pc = "SendChunk" /\ dl.file = job[c].file /\ asked[conn[c]] = Hosted(dl.file)

(* Client c has the beginning of the file asked for, `rest' blocks are     *)
(* missing, and what waits for it after i units is what comes next.        *)
Gets(c, i, rest) ==
    LET have == Kept(c, job[c].file)
        want == asked[conn[c]]
        q == Queue(c)
    IN  /\ Begins(have, want) /\ Len(have) + rest = Len(want)
        /\ \A m \in 1..Len(q) : i + m <= Len(q) => q[i + m].block = want[Len(have) + m]
GetsInv(c) ==
    /\ at[c] = "recvFile" => Gets(c, 0, job[c].left)
    /\ at[c] = "recvResponse" /\ Queue(c) # <<>> /\ Queue(c)[1].ready =>
          Gets(c, 1, Queue(c)[1].total)

ServedInv(c) == PromptInv(c) /\ AskingInv(c) /\ MatchInv(c) /\ QuietInv(c)
DialogueInv(c) ==
    Linked(c) => StartInv(c) /\ GetsInv(c) /\ (Serves(conn[c]) => ServedInv(c))

(* What the user of c is told of a download is told when it ends.          *)
SaidInv == DOMAIN said = Clients /\ \A c \in Clients : Downloading(c) => said[c] # "saved"

DownloadsInv ==
    /\ QueueInv /\ NotesInv /\ AwayInv /\ SaidInv
    /\ \A k \in Conns : NamesInv(k) /\ EagerInv(k)
    /\ \A c \in Clients : DialogueInv(c)

-----------------------------------------------------------------------------
(* The steps of the clients: requests and stamps.                          *)

LEMMA ClientEager ==
    ASSUME TransferInv, InStepInv, QueueInv, UNCHANGED serverVars,
           NEW c \in Clients, Moves(c), DialogueInv(c), NEW k \in Conns, EagerInv(k)
    PROVE  EagerInv(k)'
<1>1. \/ Incoming(k)' = Incoming(k)
      \/ TcpSend(c) /\ k = conn[c]
      \/ ~Serves(k)'
  BY MovesAlone
<1>2. /\ Serves(k)' <=> Serves(k)
      /\ pc' = pc /\ packet' = packet
  BY ClientServes
<1>3. CASE Incoming(k)' = Incoming(k)
  BY <1>2, <1>3 DEF EagerInv, Requested
<1>4. CASE TcpSend(c) /\ k = conn[c] /\ Serves(k)
  <2>1. PICK q, more : q = Incoming(k) /\ more = Incoming(k)'
    OBVIOUS
  <2>2. ASSUME NEW i \in 2..Len(more), Requested(k, i)', more[i].arg > 0
        PROVE  pc = "RecvHeader" /\ i = 2
    <3>1. Len(more) \in Nat /\ Len(q) \in Nat /\ q = Incoming(conn[c])
      BY <1>4, <2>1, SentUnits, ServedClient, LenProperties DEF Awaited
    <3>2. i \in 1..Len(more)
      BY <3>1
    <3>3. \/ i \in 1..Len(q) /\ Requested(k, i) /\ more[i] = q[i]
          \/ /\ i = Len(q) + 1 /\ at[c] = "downloadData"
             /\ more[i].name = job[c].file /\ more[i].arg = job[c].start
      BY <1>4, <2>1, <2>2, <3>2, NewRequest
    <3>4. CASE i \in 1..Len(q) /\ Requested(k, i) /\ more[i] = q[i]
      <4>1. i \in 2..Len(q)
        BY <3>1, <3>4
      <4> QED
        BY <1>4, <2>1, <2>2, <3>4, <4>1 DEF EagerInv
    <3>5. CASE /\ i = Len(q) + 1 /\ at[c] = "downloadData"
               /\ more[i].name = job[c].file /\ more[i].arg = job[c].start
      <4>1. Resumes(c)
        BY <1>4, <2>2, <3>5 DEF DialogueInv, ServedInv, AskingInv, Linked
      <4>2. (pc = "RecvHeader" /\ Len(q) = 1) \/ q = <<>>
        BY <3>1, <3>5, <4>1 DEF Resumes
      <4>3. q = <<>> => Len(q) = 0
        OBVIOUS
      <4>4. i \in 2..Len(more) /\ i = Len(q) + 1
        BY <2>2, <3>5
      <4>5. Len(q) # 0
        BY <3>1, <4>4
      <4>6. pc = "RecvHeader" /\ Len(q) = 1
        BY <4>2, <4>3, <4>5
      <4> QED
        BY <4>4, <4>6
    <3> QED
      BY <3>3, <3>4, <3>5
  <2> QED
    BY <1>2, <2>1, <2>2 DEF EagerInv
<1> QED
  BY <1>1, <1>2, <1>3, <1>4 DEF EagerInv

LEMMA ClientAway ==
    ASSUME TransferInv, InStepInv, QueueInv, UNCHANGED serverVars,
           NEW c \in Clients, Moves(c), AwayInv
    PROVE  AwayInv'
<1>1. /\ Others(c)
      /\ \/ conn'[c] = conn[c] /\ UNCHANGED backlog
         \/ conn'[c] \notin Conns /\ UNCHANGED backlog
         \/ backlog = {} /\ backlog' = {conn'[c]}
  BY MovesAlone
<1>2. \A d \in Clients : Away(d) => Away(d)'
  <2> SUFFICES ASSUME NEW d \in Clients, Away(d) PROVE Away(d)'
    OBVIOUS
  <2>1. PICK l : l = conn[d]
    OBVIOUS
  <2>2. Serves(l)' <=> Serves(l)
    BY ClientServes
  <2>3. pc' = pc
    BY ClientServes
  <2>4. CASE conn'[d] = conn[d]
    BY <1>1, <2>1, <2>2, <2>3, <2>4 DEF Away, Linked
  <2>5. CASE conn'[d] # conn[d]
    BY <1>1, <2>5 DEF Away, Linked, Others
  <2> QED
    BY <2>4, <2>5
<1> QED
  BY <1>2, ClientServes DEF AwayInv

-----------------------------------------------------------------------------
(* The steps of the clients: notes.                                        *)

Asked(c, m, n, p) ==
    /\ TcpSend(c) /\ Serves(conn[c]) /\ at[c] = "downloadData"
    /\ m = Me.mac /\ n = job[c].file /\ p = job[c].start

LEMMA ClientNoted ==
    ASSUME TransferInv, InStepInv, QueueInv, UNCHANGED serverVars,
           NEW c \in Clients, Moves(c), NEW m, NEW n, NEW p, Noted(m, n, p)'
    PROVE  Noted(m, n, p) \/ Asked(c, m, n, p)
<1>1. /\ pc' = pc /\ Me' = Me /\ stamps' = stamps /\ packet' = packet /\ dl' = dl
      /\ \A k : Serves(k)' <=> Serves(k)
  BY ClientServes
<1>2. StampPosition' = StampPosition
  BY <1>1 DEF StampPosition
<1>3. CASE [mac |-> m, file |-> n, position |-> p] \in stamps
  BY <1>3 DEF Noted
<1>4. CASE [mac |-> m, file |-> n, position |-> p] \notin stamps
  <2>1. PICK k \in Conns :
           /\ Serves(k)' /\ m = Me'.mac
           /\ \/ pc' = "Download" /\ n = packet'.name /\ p = packet'.arg
              \/ pc' = "SendChunk" /\ n = dl'.file /\ p = StampPosition'
              \/ \E i \in 1..Len(Incoming(k)') :
                    Requested(k, i)' /\ n = Incoming(k)'[i].name /\ p = Incoming(k)'[i].arg
    BY <1>1, <1>4 DEF Noted
  <2>2. Serves(k) /\ m = Me.mac
    BY <1>1, <2>1
  <2>3. CASE \/ pc' = "Download" /\ n = packet'.name /\ p = packet'.arg
             \/ pc' = "SendChunk" /\ n = dl'.file /\ p = StampPosition'
    BY <1>1, <1>2, <2>2, <2>3 DEF Noted
  <2>4. CASE \E i \in 1..Len(Incoming(k)') :
                Requested(k, i)' /\ n = Incoming(k)'[i].name /\ p = Incoming(k)'[i].arg
    <3>1. PICK i \in 1..Len(Incoming(k)') :
                Requested(k, i)' /\ n = Incoming(k)'[i].name /\ p = Incoming(k)'[i].arg
      BY <2>4
    <3>2. Incoming(k)' = Incoming(k) \/ (TcpSend(c) /\ k = conn[c])
      BY <2>1, MovesAlone
    <3>3. CASE Incoming(k)' = Incoming(k)
      <4>1. Requested(k, i)
        BY <1>1, <3>1, <3>3 DEF Requested
      <4> QED
        BY <2>2, <3>1, <3>3, <4>1 DEF Noted
    <3>4. CASE TcpSend(c) /\ k = conn[c]
      <4>1. PICK q, more : q = Incoming(k) /\ more = Incoming(k)'
        OBVIOUS
      <4>2. \/ i \in 1..Len(q) /\ Requested(k, i) /\ more[i] = q[i]
            \/ /\ i = Len(q) + 1 /\ at[c] = "downloadData"
               /\ more[i].name = job[c].file /\ more[i].arg = job[c].start
        BY <2>2, <3>1, <3>4, <4>1, NewRequest
      <4>3. CASE i \in 1..Len(q) /\ Requested(k, i) /\ more[i] = q[i]
        BY <2>2, <3>1, <4>1, <4>3 DEF Noted
      <4>4. CASE /\ at[c] = "downloadData"
                 /\ more[i].name = job[c].file /\ more[i].arg = job[c].start
        BY <2>2, <3>1, <3>4, <4>1, <4>4 DEF Asked
      <4> QED
        BY <4>2, <4>3, <4>4
    <3> QED
      BY <3>2, <3>3, <3>4
  <2> QED
    BY <2>1, <2>3, <2>4
<1> QED
  BY <1>3, <1>4

(* A client receives the blocks d of a file.                               *)
Grows(c, d) ==
    /\ TcpReceive(c) /\ at[c] = "recvFile" /\ d \in BlocksAt(Queue(c), job[c].left)
    /\ CliReads(c, Len(d)) /\ RecvFile(c, "ok", d)

(* What a client had of a file it still has, or a part of it, unless it    *)
(* receives more.                                                          *)
LEMMA ClientFiles ==
    ASSUME TransferInv, InStepInv, NEW c \in Clients, Moves(c)
    PROVE  \/ UNCHANGED local
           \/ \E name \in Names, f \in Entry :
                 local' = [local EXCEPT ![c][name] = f] /\ Begins(f.data, Kept(c, name))
           \/ \E d : Grows(c, d)
<1>1. /\ \A name \in Names : Kept(c, name) \in Seq(Blocks)
      /\ job[c].file \in Names
      /\ File(<<>>) \in Entry /\ File(<<>>).data = <<>> /\ NoEntry \in Entry /\ NoEntry.data = <<>>
  BY KeptLemma, KeepLemma, NoneLemma, FileLemma, EmptySeq DEF TransferInv, Job, NoEntry
<1>2. \A name \in Names : Begins(<<>>, Kept(c, name))
  BY <1>1, BeginsEmpty
<1>3. CASE Commands(c)
  <2>1. ASSUME NEW name \in Names, NEW start, NEW canSave, StartDownload(c, name, start, canSave)
        PROVE  \/ UNCHANGED local
               \/ local' = [local EXCEPT ![c][name] = File(<<>>)]
    BY <2>1 DEF StartDownload
  <2>2. Wanted[c] \subseteq Names
    BY TransferAssumption
  <2> QED
    BY ZenonT(60), <1>1, <1>2, <1>3, <2>1, <2>2
       DEF Commands, Answer, DownloadCmd, UploadCmd, AskCmd, CloseCmd, StartClient
<1>4. CASE TcpConnect(c)
  BY <1>4 DEF TcpConnect, Connect
<1>5. CASE Leaves(c)
  <2>1. CASE UNCHANGED local
    BY <2>1
  <2>2. CASE local' # local
    <3>1. PICK data : /\ data = local[c][job[c].file].data /\ Len(data) > job[c].start
                      /\ local' = [local EXCEPT ![c][job[c].file] =
                                      File(SubSeq(data, 1, Len(data) - 1))]
      BY <1>5, <2>2 DEF Leaves, ClientDies, ConnectFails
    <3>2. data \in Seq(Blocks) /\ Len(data) \in Nat /\ job[c].start \in Nat
      BY <1>1, <3>1, KeepLemma, LenProperties DEF Kept, TransferInv, Job
    <3>3. PICK less : less = SubSeq(data, 1, Len(data) - 1)
      OBVIOUS
    <3>4. /\ less \in Seq(Blocks) /\ Len(less) <= Len(data)
          /\ \A i \in 1..Len(less) : less[i] = data[i]
      <4>1. PICK n : n = Len(data) - 1
        OBVIOUS
      <4>2. n \in Nat /\ n <= Len(data)
        <5>1. PICK l, start : l = Len(data) /\ start = job[c].start
          OBVIOUS
        <5>2. l \in Nat /\ start \in Nat /\ l > start /\ n = l - 1
          BY <3>1, <3>2, <4>1, <5>1
        <5>3. n \in Nat /\ n <= l
          BY <5>2
        <5> QED
          BY <5>1, <5>3
      <4>3. \A i \in 1..n : data[i] \in Blocks
        BY <3>2, <4>1, <4>2, ElementOfSeq
      <4>4. /\ less \in Seq(Blocks)
            /\ Len(less) = IF 1 <= n THEN n - 1 + 1 ELSE 0
            /\ \A i \in 1..(n - 1 + 1) : less[i] = data[1 + i - 1]
        BY <3>3, <4>1, <4>2, <4>3, SubSeqProperties
      <4>5. Len(less) = n
        BY <4>2, <4>4
      <4>6. 1..(n - 1 + 1) = 1..n /\ \A i \in 1..n : 1 + i - 1 = i
        BY <4>2
      <4>7. \A i \in 1..n : less[i] = data[i]
        BY <4>4, <4>6
      <4> QED
        BY <4>2, <4>4, <4>5, <4>7
    <3>5. Begins(less, Kept(c, job[c].file)) /\ File(less) \in Entry /\ File(less).data = less
      BY <3>1, <3>4, FileLemma DEF Begins, Kept
    <3>6. PICK f : f = File(less)
      OBVIOUS
    <3>7. f \in Entry /\ Begins(f.data, Kept(c, job[c].file))
      BY <3>5, <3>6
    <3>8. local' = [local EXCEPT ![c][job[c].file] = f]
      BY <3>1, <3>3, <3>6
    <3> QED
      BY <1>1, <3>7, <3>8
  <2> QED
    BY <2>1, <2>2
<1>6. CASE TcpSend(c)
  <2>1. UNCHANGED local \/ local' = [local EXCEPT ![c][job[c].file] = NoEntry]
    BY <1>6 DEF TcpSend, SendMac, SendDownload, SendUpload, SendFile, SendAsk, SendClose,
       FailDownload, RemoveSaved
  <2> QED
    BY <1>1, <1>2, <2>1
<1>7. CASE TcpReceive(c)
  <2>1. CASE at[c] # "recvFile"
    <3>1. UNCHANGED local \/ local' = [local EXCEPT ![c][job[c].file] = NoEntry]
      BY <1>7, <2>1 DEF TcpReceive, RecvGreeting, RecvStamp, RecvResponse, RecvFile, RecvAnswer,
         FailDownload, RemoveSaved
    <3> QED
      BY <1>1, <1>2, <3>1
  <2>2. CASE at[c] = "recvFile"
    <3>1. \/ /\ CliRecv(c) = "ok"
             /\ \E d \in BlocksAt(Queue(c), job[c].left) :
                   RecvFile(c, "ok", d) /\ CliReads(c, Len(d))
          \/ CliRecv(c) # "ok" /\ RecvFile(c, CliRecv(c), <<>>)
      BY <1>7, <2>2 DEF TcpReceive, RecvGreeting, RecvStamp, RecvAnswer
    <3>2. CASE CliRecv(c) # "ok" /\ RecvFile(c, CliRecv(c), <<>>)
      <4>1. local' = [local EXCEPT ![c][job[c].file] = NoEntry]
        BY <3>2 DEF RecvFile, FailDownload, RemoveSaved
      <4> QED
        BY <1>1, <1>2, <4>1
    <3> QED
      BY <1>7, <2>2, <3>1, <3>2 DEF Grows
  <2> QED
    BY <2>1, <2>2
<1> QED
  BY <1>3, <1>4, <1>5, <1>6, <1>7 DEF Moves

(* What is received goes on where the copy ends.                           *)
LEMMA GetsNext ==
    ASSUME TransferInv, InStepInv, NEW c \in Clients, Linked(c), at[c] = "recvFile", GetsInv(c),
           NEW d \in BlocksAt(Queue(c), job[c].left),
           NEW have, have = Kept(c, job[c].file), NEW want, want = asked[conn[c]]
    PROVE  /\ have \in Seq(Blocks) /\ want \in Seq(Blocks) /\ d \in Seq(Blocks)
           /\ Len(d) \in 1..Len(Queue(c)) /\ Len(d) <= job[c].left
           /\ Len(have) \in Nat /\ Len(want) \in Nat /\ job[c].left \in Nat
           /\ Len(have) + job[c].left = Len(want)
           /\ Begins(have \o d, want) /\ have \o d \in Seq(Blocks)
           /\ Len(have \o d) = Len(have) + Len(d)
<1>1. /\ Queue(c) \in Seq(Unit) /\ conn[c] \in Conns
      /\ job[c].left \in Nat /\ job[c].file \in Names
  BY LinkedLemma, KeepLemma DEF TransferInv, Job
<1>2. have \in Seq(Blocks) /\ want \in Seq(Blocks) /\ Len(have) \in Nat /\ Len(want) \in Nat
  BY <1>1, KeptLemma, LenProperties DEF TransferInv, NetInv
<1>3. PICK q : q = Queue(c)
  OBVIOUS
<1>4. /\ Len(d) \in 1..Len(q) /\ Len(d) <= job[c].left /\ Len(d) \in Nat /\ d \in Seq(Blocks)
      /\ \A i \in 1..Len(d) : d[i] = q[i].block
  BY <1>1, <1>3, ChunkFits, ChunkIs, BlocksAtLemma
<1>5. /\ Begins(have, want) /\ Len(have) + job[c].left = Len(want)
      /\ \A m \in 1..Len(q) : 0 + m <= Len(q) => q[0 + m].block = want[Len(have) + m]
  BY <1>3 DEF GetsInv, Gets
<1>6. Len(q) \in Nat
  BY <1>1, <1>3, LenProperties
<1>7. \A m \in 1..Len(q) : q[m].block = want[Len(have) + m]
  <2>1. \A m \in 1..Len(q) : 0 + m = m /\ m <= Len(q)
    BY <1>6
  <2> QED
    BY <1>5, <2>1
<1>8. \A i \in 1..Len(d) : d[i] = want[Len(have) + i]
  BY <1>4, <1>6, <1>7
<1>9. Len(have) + Len(d) <= Len(want)
  BY <1>2, <1>1, <1>4, <1>5
<1> QED
  BY ZenonT(60), <1>1, <1>2, <1>3, <1>4, <1>5, <1>8, <1>9, BeginsFurther

(* A client that receives a file is one the server has greeted.            *)
LEMMA ReceiverGreeted ==
    ASSUME TransferInv, InStepInv, NEW c \in Clients, Linked(c), at[c] = "recvFile"
    PROVE  /\ conn[c] \notin backlog /\ ~Away(c)
           /\ Serves(conn[c]) => pc \notin {"RecvMac", "Greet", "SendStamp"}
<1>1. PICK k : k = conn[c]
  OBVIOUS
<1>2. k \notin backlog
  BY <1>1, NewClient
<1>3. ASSUME Serves(k), pc \in {"RecvMac", "Greet", "SendStamp"} PROVE FALSE
  <2>1. pc # "RecvMac"
    BY <1>1, <1>3, NewClient
  <2>2. /\ Incoming(k) \in Seq(Unit) /\ Queue(c) \in Seq(Unit)
        /\ at[c] \in ClientPlaces /\ job[c].left \in Nat
        /\ Shape(at[c], job[c].left, Queue(c))
        /\ Leads(Incoming(k), Doing, Gives(at[c], job[c].left, Queue(c)))
    BY <1>1, <1>3, ServedClient
  <2>3. Doing \in {Owes("greeting"), Owes("stamp")}
    BY <1>3, <2>1 DEF Doing
  <2>4. Doing.t = "reply"
    BY <2>3 DEF Owes, Want
  <2>5. Gives(at[c], job[c].left, Queue(c)) = Doing
    BY <2>2, <2>4, RepliesWait
  <2> QED
    BY <2>2, <2>3, <2>5, ReaderPlaces
<1> QED
  BY <1>1, <1>2, <1>3 DEF Away

(* The server is at least as far as what it has sent its client.           *)
LEMMA StreamReached ==
    ASSUME TransferInv, InStepInv, NEW c \in Clients, NEW k, k = conn[c], Serves(k),
           at[c] = "recvFile", pc = "SendChunk", GetsInv(c), QuietInv(c)
    PROVE  /\ StampPosition = Len(asked[k]) - (job[c].left - Len(Queue(c)))
           /\ asked[k] = Hosted(dl.file) /\ dl.file = job[c].file
           /\ dl.left = job[c].left - Len(Queue(c))
<1>1. /\ Incoming(k) \in Seq(Unit) /\ Queue(c) \in Seq(Unit)
      /\ at[c] \in ClientPlaces /\ job[c].left \in Nat
      /\ Shape(at[c], job[c].left, Queue(c))
      /\ Leads(Incoming(k), Doing, Gives(at[c], job[c].left, Queue(c)))
  BY ServedClient
<1>2. asked[k] = Hosted(dl.file) /\ dl.file = job[c].file
  BY DEF QuietInv, HasReply
<1>3. /\ dl.left \in Nat \ {0} /\ dl.start \in Nat /\ dl.total \in Nat
      /\ dl.start + dl.total = Len(Hosted(dl.file))
  BY DEF TransferInv, IInv, DownloadInv, TypeOK, Hosted
<1>4. Doing = Streams(dl.left) /\ Doing.t = "stream"
  BY <1>3 DEF Doing, Streams, Want
<1>5. Gives(at[c], job[c].left, Queue(c)) = Streams(dl.left)
  BY <1>1, <1>4, RepliesWait
<1>6. job[c].left - Len(Queue(c)) = dl.left
  BY SMTT(30), <1>1, <1>3, <1>5, ReaderPlaces
<1>7. StampPosition = Len(asked[k]) - dl.left
  BY <1>2, <1>3 DEF StampPosition
<1> QED
  BY <1>2, <1>6, <1>7

LEMMA GrowsNotes ==
    ASSUME TransferInv, InStepInv, DownloadsInv, NEW c \in Clients, NEW d, Grows(c, d),
           NEW p \in Nat, Noted(MacOf[c], job[c].file, p)
    PROVE  LET more == Kept(c, job[c].file) \o d
           IN  Begins(more, Hosted(job[c].file)) /\ Len(more) <= p
<1>1. Linked(c) /\ at[c] = "recvFile" /\ d \in BlocksAt(Queue(c), job[c].left)
  BY DEF Grows, TcpReceive
<1>2. [mac |-> MacOf[c], file |-> job[c].file, position |-> p] \notin stamps
  BY <1>1, ReceiverGreeted DEF DownloadsInv, AwayInv
<1>3. PICK k \in Conns :
          /\ Serves(k) /\ MacOf[c] = Me.mac
          /\ \/ pc = "Download"
             \/ pc = "SendChunk" /\ p = StampPosition
             \/ \E i \in 1..Len(Incoming(k)) : Requested(k, i)
  BY <1>2 DEF Noted
<1>4. MacOf[c] # ZeroMac
  BY TransferAssumption
<1>5. Named(k, Me.mac)
  BY <1>3, <1>4 DEF DownloadsInv, NamesInv
<1>6. conn[c] = k
  BY <1>1, <1>3, <1>5, ReceiverGreeted DEF Named, Elsewhere
<1>7. DialogueInv(c)
  BY DEF DownloadsInv
<1>8. GetsInv(c) /\ QuietInv(c)
  BY <1>1, <1>3, <1>6, <1>7 DEF DialogueInv, ServedInv
<1>9. Incoming(k) = <<>> /\ pc \in {"RecvHeader", "SendChunk"}
  BY <1>1, <1>6, <1>8 DEF QuietInv, HasReply
<1>10. pc = "SendChunk" /\ p = StampPosition
  <2>1. 1..Len(<<>>) = {}
    OBVIOUS
  <2> QED
    BY <1>3, <1>9, <2>1
<1>11. PICK have, want : have = Kept(c, job[c].file) /\ want = asked[k]
  OBVIOUS
<1>12. /\ Len(d) \in 1..Len(Queue(c)) /\ Len(d) <= job[c].left
       /\ Len(have) \in Nat /\ Len(want) \in Nat /\ job[c].left \in Nat
       /\ Len(have) + job[c].left = Len(want)
       /\ Begins(have \o d, want)
       /\ Len(have \o d) = Len(have) + Len(d)
  BY <1>1, <1>6, <1>8, <1>11, GetsNext
<1>13. /\ p = Len(want) - (job[c].left - Len(Queue(c)))
       /\ want = Hosted(job[c].file)
  BY <1>1, <1>3, <1>6, <1>8, <1>10, <1>11, StreamReached
<1>14. Len(Queue(c)) \in Nat
  BY <1>1, LinkedLemma, LenProperties DEF TransferInv
<1>15. Len(have) + Len(d) <= Len(want) - (job[c].left - Len(Queue(c)))
  <2>1. PICK h, w, l, q, x : /\ h = Len(have) /\ w = Len(want) /\ l = job[c].left
                             /\ q = Len(Queue(c)) /\ x = Len(d)
    OBVIOUS
  <2>2. h \in Nat /\ w \in Nat /\ l \in Nat /\ q \in Nat /\ x \in 1..q /\ h + l = w
    BY <1>12, <1>14, <2>1
  <2>3. h + x <= w - (l - q)
    BY <2>2
  <2> QED
    BY <2>1, <2>3
<1> QED
  BY <1>11, <1>12, <1>13, <1>15

(* A request that its client has just completed.                           *)
LEMMA AskedNotes ==
    ASSUME TransferInv, InStepInv, DownloadsInv, Distinct, NEW c \in Clients,
           NEW m, NEW n, NEW p, Asked(c, m, n, p), NEW d \in Clients, MacOf[d] = m
    PROVE  d = c /\ Copy(c, n, p) /\ UNCHANGED local
<1>1. PICK k : k = conn[c]
  OBVIOUS
<1>2. Serves(k) /\ TcpSend(c) /\ at[c] = "downloadData" /\ n = job[c].file /\ p = job[c].start
      /\ m = Me.mac
  BY <1>1 DEF Asked
<1>3. k \in Conns /\ Linked(c) /\ job[c].file \in Names /\ job[c].start \in Nat
  BY <1>1, <1>2, ServedClient DEF Job
<1>4. pc # "RecvMac"
  BY <1>1, <1>2, NewClient
<1>5. d = c
  <2>1. Named(k, Me.mac)
    BY <1>2, <1>3, <1>4 DEF DownloadsInv, NamesInv
  <2>2. MacOf[c] = Me.mac
    BY <1>1, <2>1 DEF Named
  <2> QED
    BY <1>2, <2>2 DEF Distinct
<1>6. StartInv(c) /\ AskingInv(c)
  BY <1>1, <1>2, <1>3 DEF DownloadsInv, DialogueInv, ServedInv
<1>7. Len(Kept(c, n)) = p
  BY <1>2, <1>6 DEF StartInv
<1>8. Kept(c, n) \in Seq(Blocks) /\ Hosted(n) \in Seq(Blocks) /\ p \in Nat
  BY <1>2, <1>3, KeptLemma
<1>9. Begins(Kept(c, n), Hosted(n))
  <2>1. CASE p > 0
    BY <1>2, <1>6, <2>1 DEF AskingInv
  <2>2. CASE p = 0
    <3>1. Kept(c, n) = <<>>
      BY <1>7, <1>8, <2>2, EmptySeq
    <3> QED
      BY <1>8, <3>1, BeginsEmpty
  <2> QED
    BY <1>8, <2>1, <2>2
<1>10. UNCHANGED local
  <2>1. CliSend(c, Len(Packets(c))) = "ok"
    BY <1>1, <1>2, SentIncoming DEF Awaited
  <2>2. SendDownload(c, "ok")
    BY <1>2, <2>1 DEF TcpSend, SendMac, SendUpload, SendFile, SendAsk, SendClose
  <2> QED
    BY <2>2 DEF SendDownload
<1> QED
  BY <1>5, <1>7, <1>8, <1>9, <1>10 DEF Copy

LEMMA ClientNotes ==
    ASSUME TransferInv, TransferInv', InStepInv, DownloadsInv, Distinct, UNCHANGED serverVars,
           NEW c \in Clients, Moves(c)
    PROVE  NotesInv'
<1> SUFFICES ASSUME NEW m \in Macs, NEW n \in Names, NEW p \in Nat, Noted(m, n, p)',
                    NEW d \in Clients, MacOf[d] = m
             PROVE  Flat(n) /\ Copy(d, n, p)'
  <2>1. (\A m \in Macs, n \in Names, p \in Nat : Noted(m, n, p)' => Flat(n))
    <3> SUFFICES ASSUME NEW m \in Macs, NEW n \in Names, NEW p \in Nat, Noted(m, n, p)'
                 PROVE  Flat(n)
      OBVIOUS
    <3>1. Noted(m, n, p) \/ Asked(c, m, n, p)
      BY ClientNoted DEF DownloadsInv
    <3>2. CASE Noted(m, n, p)
      BY <3>2 DEF DownloadsInv, NotesInv
    <3>3. CASE Asked(c, m, n, p)
      <4>1. PICK k : k = conn[c]
        OBVIOUS
      <4>2. Serves(k) /\ at[c] = "downloadData" /\ n = job[c].file
        BY <3>3, <4>1 DEF Asked
      <4>3. AskingInv(c)
        BY <4>1, <4>2, ServedClient DEF DownloadsInv, DialogueInv, ServedInv
      <4> QED
        BY <4>2, <4>3 DEF AskingInv
    <3> QED
      BY <3>1, <3>2, <3>3
  <2> QED
    BY <2>1 DEF NotesInv
<1>1. Noted(m, n, p) \/ Asked(c, m, n, p)
  BY ClientNoted DEF DownloadsInv
<1>2. disk' = disk /\ Hosted(n)' = Hosted(n) /\ Hosted(n) \in Seq(Blocks)
  BY ClientServes, KeptLemma DEF Hosted
<1>3. CASE Asked(c, m, n, p)
  <2>1. d = c /\ Copy(c, n, p) /\ UNCHANGED local
    BY <1>3, AskedNotes
  <2>2. Flat(n)
    <3>1. PICK k : k = conn[c]
      OBVIOUS
    <3>2. Serves(k) /\ at[c] = "downloadData" /\ n = job[c].file
      BY <1>3, <3>1 DEF Asked
    <3>3. AskingInv(c)
      BY <3>1, <3>2, ServedClient DEF DownloadsInv, DialogueInv, ServedInv
    <3> QED
      BY <3>2, <3>3 DEF AskingInv
  <2> QED
    BY <1>2, <2>1, <2>2 DEF Copy, Kept
<1>4. CASE Noted(m, n, p)
  <2>1. Flat(n) /\ Copy(d, n, p)
    BY <1>4 DEF DownloadsInv, NotesInv
  <2>2. CASE Kept(d, n)' = Kept(d, n)
    BY <1>2, <2>1, <2>2 DEF Copy
  <2>3. CASE Kept(d, n)' # Kept(d, n)
    <3>1. Others(c) /\ ClientInv
      BY MovesAlone DEF DownloadsInv, TransferInv
    <3>2. d = c
      BY <2>3, <3>1 DEF Others, Kept
    <3>3. Kept(c, n) \in Seq(Blocks) /\ Len(Kept(c, n)) \in Nat
      BY KeptLemma
    <3>4. \/ \E name \in Names, f \in Entry :
                local' = [local EXCEPT ![c][name] = f] /\ Begins(f.data, Kept(c, name))
          \/ \E x : Grows(c, x)
      BY <2>3, ClientFiles DEF Kept
    <3>5. CASE \E name \in Names, f \in Entry :
                  local' = [local EXCEPT ![c][name] = f] /\ Begins(f.data, Kept(c, name))
      <4>1. PICK name \in Names, f \in Entry :
                  local' = [local EXCEPT ![c][name] = f] /\ Begins(f.data, Kept(c, name))
        BY <3>5
      <4>2. name = n
        BY <2>3, <3>1, <3>2, <4>1 DEF Kept, ClientInv
      <4>3. Kept(c, n)' = f.data
        BY <3>1, <4>1, <4>2 DEF Kept, ClientInv
      <4>4. PICK data : data = f.data /\ data \in Seq(Blocks) /\ Len(data) \in Nat
        BY <4>1, LenProperties DEF Entry
      <4>5. Begins(data, Kept(c, n))
        BY <4>1, <4>2, <4>4
      <4>6. Begins(data, Hosted(n))
        BY <1>2, <2>1, <3>2, <3>3, <4>4, <4>5, BeginsTransitive DEF Copy
      <4>7. Len(data) <= p
        BY <2>1, <3>2, <3>3, <4>4, <4>5 DEF Begins, Copy
      <4> QED
        BY <1>2, <2>1, <3>2, <4>3, <4>4, <4>6, <4>7 DEF Copy
    <3>6. CASE \E x : Grows(c, x)
      <4>1. PICK x : Grows(c, x)
        BY <3>6
      <4>2. PICK more : more = Kept(c, job[c].file) \o x
        OBVIOUS
      <4>3. local' = [local EXCEPT ![c][job[c].file] = File(local[c][job[c].file].data \o x)]
        BY <4>1 DEF Grows, RecvFile
      <4>4. local' = [local EXCEPT ![c][job[c].file] = File(more)] /\ File(more).data = more
        BY <4>2, <4>3 DEF Kept, File
      <4>5. job[c].file \in Names
        BY <3>1, KeepLemma DEF Job
      <4>6. n = job[c].file
        BY <2>3, <3>1, <3>2, <4>4, <4>5 DEF Kept, ClientInv
      <4>7. Kept(c, n)' = more
        BY <3>1, <4>4, <4>5, <4>6 DEF Kept, ClientInv
      <4>8. Begins(more, Hosted(n)) /\ Len(more) <= p
        BY <1>4, <3>2, <4>1, <4>2, <4>6, GrowsNotes
      <4> QED
        BY <1>2, <2>1, <3>2, <4>7, <4>8 DEF Copy
    <3> QED
      BY <3>4, <3>5, <3>6
  <2> QED
    BY <2>2, <2>3
<1> QED
  BY <1>1, <1>3, <1>4

-----------------------------------------------------------------------------
(* The steps of the clients: the dialogue.                                 *)

LEMMA SteadyDialogue ==
    ASSUME UNCHANGED <<pc, packet, dl, disk, asked>>, NEW d, NEW k, k = conn[d],
           Serves(k)' => Serves(k),
           at'[d] = at[d], conn'[d] = k, job'[d] = job[d], local'[d] = local[d],
           k \in Conns => net'[k] = net[k], DialogueInv(d)
    PROVE  DialogueInv(d)'
<1> SUFFICES ASSUME k \in Conns
             PROVE  StartInv(d)' /\ GetsInv(d)' /\ (Serves(k)' => ServedInv(d)')
  BY DEF DialogueInv, Linked
<1>1. /\ Queue(d)' = Queue(d) /\ Incoming(k)' = Incoming(k)
      /\ \A n : Kept(d, n)' = Kept(d, n) /\ Hosted(n)' = Hosted(n)
      /\ asked'[k] = asked[k]
  BY DEF Queue, Incoming, Kept, Hosted
<1>2. StartInv(d) /\ GetsInv(d) /\ (Serves(k) => ServedInv(d))
  BY DEF DialogueInv, Linked
<1>3. StartInv(d)'
  BY <1>1, <1>2 DEF StartInv
<1>4. GetsInv(d)'
  <2>1. PICK q, have, want, j : /\ q = Queue(d) /\ have = Kept(d, job[d].file) /\ want = asked[k]
                                /\ j = job[d]
    OBVIOUS
  <2>2. Queue(d)' = q /\ Kept(d, job[d].file)' = have /\ asked'[conn'[d]] = want /\ job'[d] = j
    BY <1>1, <2>1
  <2>3. ASSUME NEW i, NEW rest, Gets(d, i, rest) PROVE Gets(d, i, rest)'
    BY <2>1, <2>2, <2>3 DEF Gets
  <2>4. CASE at[d] = "recvFile"
    <3>1. Gets(d, 0, j.left)
      BY <1>2, <2>1, <2>4 DEF GetsInv
    <3>2. Gets(d, 0, j.left)'
      BY <2>3, <3>1
    <3> QED
      BY <2>2, <2>4, <3>2 DEF GetsInv
  <2>5. CASE at[d] # "recvFile"
    <3>1. ASSUME at[d] = "recvResponse", q # <<>>, q[1].ready
          PROVE  Gets(d, 1, q[1].total)'
      BY <1>2, <2>1, <2>3, <3>1 DEF GetsInv
    <3> QED
      BY <2>2, <2>5, <3>1 DEF GetsInv
  <2> QED
    BY <2>4, <2>5
<1>5. ASSUME ServedInv(d) PROVE ServedInv(d)'
  <2>1. Offers(d)' = Offers(d)
    BY <1>1 DEF Offers
  <2>2. PromptInv(d)'
    BY <1>1, <1>5, <2>1 DEF ServedInv, PromptInv
  <2>3. AskingInv(d)'
    BY <1>1, <1>5 DEF ServedInv, AskingInv, Resumes
  <2>4. MatchInv(d)'
    BY <1>1, <1>5 DEF ServedInv, MatchInv, Requested
  <2>5. QuietInv(d)'
    BY <1>1, <1>5 DEF ServedInv, QuietInv, HasReply
  <2> QED
    BY <2>2, <2>3, <2>4, <2>5 DEF ServedInv
<1> QED
  BY <1>2, <1>3, <1>4, <1>5

LEMMA OtherDialogue ==
    ASSUME TransferInv, InStepInv, InStepInv', QueueInv, UNCHANGED serverVars, UNCHANGED asked,
           NEW c \in Clients, Moves(c), NEW d \in Clients, d # c, DialogueInv(d)
    PROVE  DialogueInv(d)'
<1>1. PICK k : k = conn[d]
  OBVIOUS
<1>2. /\ Others(c)
      /\ k \in Conns /\ k # conn[c] /\ k # conn'[c] => net'[k] = net[k]
  BY MovesAlone
<1>3. at'[d] = at[d] /\ conn'[d] = k /\ job'[d] = job[d] /\ local'[d] = local[d]
  BY <1>1, <1>2 DEF Others
<1>4. k \in Conns => k # conn[c] /\ k # conn'[c]
  BY <1>1, <1>3 DEF InStepInv, OwnersInv
<1>5. UNCHANGED <<pc, packet, dl, disk>> /\ (Serves(k)' => Serves(k))
  BY ClientServes
<1> QED
  BY <1>1, <1>2, <1>3, <1>4, <1>5, SteadyDialogue

(* A client at any other place has nothing to keep.                        *)
Dialogue == {"recvGreeting", "recvStamp", "ask", "downloadHeader", "downloadData",
             "recvResponse", "recvFile"}
LEMMA NextNoDialogue ==
    ASSUME NEW c, at'[c] \notin Dialogue \/ conn'[c] \notin Conns
    PROVE  DialogueInv(c)'
<1>1. at'[c] \notin Dialogue => Offers(c)' = {}
  BY DEF Dialogue, Offers
<1>2. conn'[c] \notin Conns => DialogueInv(c)'
  BY DEF DialogueInv, Linked
<1>3. ASSUME at'[c] \notin Dialogue PROVE DialogueInv(c)'
  <2>1. StartInv(c)' /\ GetsInv(c)'
    BY <1>3 DEF StartInv, GetsInv, Dialogue
  <2>2. PromptInv(c)' /\ AskingInv(c)' /\ MatchInv(c)' /\ QuietInv(c)'
    BY <1>1, <1>3 DEF PromptInv, AskingInv, MatchInv, QuietInv, HasReply, Dialogue
  <2> QED
    BY <2>1, <2>2 DEF DialogueInv, ServedInv
<1> QED
  BY <1>2, <1>3

(* What waits for a client after it has sent, and after it has received.   *)
LEMMA SendQueue ==
    ASSUME TransferInv, InStepInv, NEW c \in Clients, TcpSend(c)
    PROVE  Queue(c) = <<>> /\ Queue(c)' = <<>>
<1>1. Linked(c) /\ at[c] \in Sending /\ CliWrites(c, Packets(c)) /\ UNCHANGED conn
  BY OwnSend DEF TcpSend, TransferInv
<1>2. PICK k : k = conn[c]
  OBVIOUS
<1>3. k \in Conns /\ net[k] \in Link /\ Queue(c) = net[k].queue["cli"] /\ Queue(c) = <<>>
  BY <1>1, <1>2, LinkedTalk DEF Shape, Sending
<1>4. PICK n \in AfterSend(net[k], "cli", Packets(c)) : net' = [net EXCEPT ![k] = n]
  BY <1>1, <1>2 DEF CliWrites
<1>5. n.queue["cli"] = net[k].queue["cli"]
  BY <1>3, <1>4 DEF AfterSend, Other, Link, Ends
<1>6. net'[k] = n
  BY <1>3, <1>4 DEF TransferInv, NetInv
<1> QED
  BY <1>1, <1>2, <1>3, <1>5, <1>6 DEF Queue

LEMMA ReceiveQueue ==
    ASSUME TransferInv, InStepInv, NEW c \in Clients, Linked(c), UNCHANGED conn,
           Queue(c) # <<>>, NEW u \in Nat, CliReads(c, u)
    PROVE  Queue(c)' = SubSeq(Queue(c), u + 1, Len(Queue(c)))
<1>1. PICK k : k = conn[c]
  OBVIOUS
<1>2. k \in Conns /\ net[k] \in Link /\ Queue(c) = net[k].queue["cli"]
  BY <1>1, LinkedTalk
<1>3. net'[k] = AfterRecv(net[k], "cli", u)
  BY <1>1, <1>2 DEF CliReads, TransferInv, NetInv
<1>4. AfterRecv(net[k], "cli", u).queue["cli"] = SubSeq(Queue(c), u + 1, Len(Queue(c)))
  BY <1>2 DEF AfterRecv, Link, Ends
<1> QED
  BY <1>1, <1>3, <1>4 DEF Queue

(* The request to download.                                                *)
LEMMA SendDownloadDialogue ==
    ASSUME TransferInv, InStepInv, UNCHANGED serverVars, NEW c \in Clients, TcpSend(c),
           at[c] \in {"downloadHeader", "downloadData"}, DialogueInv(c)
    PROVE  DialogueInv(c)'
<1>1. PICK k : k = conn[c]
  OBVIOUS
<1>2. PICK r : SendDownload(c, r) /\ r = CliSend(c, Len(Packets(c)))
  BY DEF TcpSend, SendMac, SendUpload, SendFile, SendAsk, SendClose
<1>3. Linked(c) /\ k \in Conns /\ conn'[c] = k /\ at[c] \in Sending /\ c \in DOMAIN at
  BY <1>1, OwnSend DEF TcpSend, Linked, TransferInv, ClientInv
<1>4. CASE r # "ok"
  <2>1. at'[c] = "prompt"
    BY <1>2, <1>3, <1>4 DEF SendDownload, FailDownload, Return, Goto
  <2> QED
    BY <2>1, NextNoDialogue DEF Dialogue
<1>5. CASE r = "ok"
  <2>1. /\ at'[c] = IF at[c] = "downloadHeader" THEN "downloadData" ELSE "recvResponse"
        /\ UNCHANGED <<job, local>>
    BY <1>2, <1>3, <1>5 DEF SendDownload, Goto
  <2>2. Queue(c)' = <<>>
    BY SendQueue
  <2>3. StartInv(c) /\ (Serves(k) => AskingInv(c))
    BY <1>1, <1>3 DEF DialogueInv, ServedInv
  <2>4. StartInv(c)'
    BY <2>1, <2>3 DEF StartInv, Kept
  <2>5. GetsInv(c)'
    BY <2>1, <2>2 DEF GetsInv
  <2>6. Offers(c)' = {}
    BY <2>1, <2>2 DEF Offers
  <2>7. PromptInv(c)' /\ QuietInv(c)'
    BY <2>1, <2>2, <2>6 DEF PromptInv, QuietInv, HasReply
  <2>8. ASSUME Serves(k) PROVE AskingInv(c)' /\ MatchInv(c)'
    <3>1. PICK q, units, more : q = Incoming(k) /\ units = Packets(c) /\ more = Incoming(k)'
      OBVIOUS
    <3>2. /\ q \in Seq(Unit) /\ Len(q) \in Nat
          /\ Len(more) = Len(q) + Len(units)
      BY <1>1, <2>8, <3>1, SentUnits DEF Awaited
    <3>3. UNCHANGED <<pc, packet, dl, disk>> /\ Incoming(conn[c])' = more
      BY <1>1, <1>3, <3>1, ClientServes DEF Incoming
    <3>4. CASE at[c] = "downloadHeader"
      <4>1. Len(units) = 1
        BY <3>1, <3>4 DEF Packets
      <4>2. Resumes(c) => pc = "RecvHeader" /\ Len(more) = 1
        <5>1. Resumes(c) => pc = "RecvHeader" /\ q = <<>>
          BY <1>1, <3>1, <3>4 DEF Resumes
        <5>2. q = <<>> => Len(q) = 0
          OBVIOUS
        <5>3. Len(q) = 0 => Len(more) = 1
          BY <3>2, <4>1
        <5> QED
          BY <5>1, <5>2, <5>3
      <4>3. AskingInv(c)'
        BY <2>1, <2>3, <2>8, <3>3, <3>4, <4>2 DEF AskingInv, Resumes, Kept, Hosted
      <4>4. MatchInv(c)'
        BY <2>1, <3>4 DEF MatchInv
      <4> QED
        BY <4>3, <4>4
    <3>5. CASE at[c] = "downloadData"
      <4>1. AskingInv(c)'
        BY <2>1, <3>5 DEF AskingInv
      <4>2. Leads(q, Doing, WantData("Download"))
        <5>1. Gives(at[c], job[c].left, <<>>) = WantData("Download")
          BY <3>5, SenderGives, KeepLemma DEF TransferInv, Job
        <5>2. Awaited(k) /\ Expects(k) = Doing
          BY <1>1, <2>8, ServedClient DEF Awaited, Expects
        <5> QED
          BY <1>1, <3>1, <5>1, <5>2, SentIncoming
      <4>3. WantData("Download") # Owes("response")
        BY DEF WantData, Owes, Want
      <4>4. pc # "Download"
        <5>1. ASSUME pc = "Download" PROVE FALSE
          <6>1. Doing = Owes("response")
            BY <5>1 DEF Doing
          <6> QED
            BY <3>2, <4>2, <4>3, <6>1, RepliesWait, AfterRequest
        <5> QED
          BY <5>1
      <4>5. ASSUME NEW i \in 1..Len(more), Requested(k, i)'
            PROVE  more[i].name = job[c].file /\ more[i].arg = job[c].start
        <5>1. \/ i \in 1..Len(q) /\ Requested(k, i)
              \/ more[i].name = job[c].file /\ more[i].arg = job[c].start
          BY <1>1, <2>8, <3>1, <4>5, NewRequest
        <5> QED
          BY <3>1, <3>2, <4>2, <4>3, <5>1, RequestLast
      <4>6. MatchInv(c)'
        <5>1. PICK j : j = job[c]
          OBVIOUS
        <5>2. job'[c] = j /\ pc' # "Download" /\ conn'[c] = k /\ Incoming(k)' = more
          BY <1>3, <2>1, <3>1, <3>3, <4>4, <5>1
        <5>3. \A i \in 1..Len(more) :
                 Requested(k, i)' => more[i].name = j.file /\ more[i].arg = j.start
          BY <4>5, <5>1
        <5> QED
          BY <5>2, <5>3 DEF MatchInv
      <4> QED
        BY <4>1, <4>6
    <3> QED
      BY <3>4, <3>5
  <2>9. Serves(k)' => AskingInv(c)' /\ MatchInv(c)'
    BY <2>8, ClientServes
  <2> QED
    BY <1>3, <2>4, <2>5, <2>7, <2>9 DEF DialogueInv, ServedInv
<1> QED
  BY <1>4, <1>5

LEMMA SendDialogue ==
    ASSUME TransferInv, InStepInv, UNCHANGED serverVars, NEW c \in Clients, TcpSend(c),
           DialogueInv(c)
    PROVE  DialogueInv(c)'
<1>1. PICK r : \/ SendMac(c, r) \/ SendDownload(c, r) \/ SendUpload(c, r) \/ SendFile(c, r)
               \/ SendAsk(c, r) \/ SendClose(c, r)
  BY DEF TcpSend
<1>2. at \in [Clients -> ClientPlaces]
  BY DEF TransferInv, ClientInv
<1>3. CASE at[c] \in {"downloadHeader", "downloadData"}
  BY <1>3, SendDownloadDialogue
<1>4. CASE at[c] \notin {"downloadHeader", "downloadData"}
  <2>1. at'[c] = "recvGreeting" \/ at'[c] \notin Dialogue
    BY <1>1, <1>2, <1>4 DEF SendMac, SendDownload, SendUpload, SendFile, SendAsk, SendClose,
       Return, Goto, Dialogue
  <2>2. CASE at'[c] = "recvGreeting"
    <3>1. Queue(c)' = <<>> /\ Len(<<>>) # 2
      BY SendQueue
    <3>2. Offers(c)' = {}
      BY <2>2, <3>1 DEF Offers
    <3> QED
      BY <2>2, <3>2 DEF DialogueInv, StartInv, GetsInv, ServedInv, PromptInv, AskingInv,
         MatchInv, QuietInv, HasReply
  <2> QED
    BY <2>1, <2>2, NextNoDialogue
<1> QED
  BY <1>3, <1>4

(* The user asks for a download, or for the rest of one.                   *)
LEMMA StartDialogue ==
    ASSUME TransferInv, InStepInv, UNCHANGED serverVars, UNCHANGED <<net, conn>>,
           NEW c \in Clients, NEW name \in Names, NEW start \in Nat, NEW canSave,
           StartDownload(c, name, start, canSave),
           start # 0 => start = Len(Kept(c, name)),
           Linked(c) /\ Serves(conn[c]) =>
              /\ Flat(name)
              /\ start # 0 => /\ Begins(Kept(c, name), Hosted(name))
                              /\ pc = "RecvHeader" /\ Incoming(conn[c]) = <<>>
    PROVE  DialogueInv(c)'
<1>1. /\ at \in [Clients -> ClientPlaces] /\ job \in [Clients -> Job]
      /\ local \in [Clients -> [Names -> Entry]]
  BY DEF TransferInv, ClientInv
<1>2. CASE ~canSave
  <2>1. at'[c] = "prompt"
    BY <1>1, <1>2 DEF StartDownload, Return, Goto
  <2> QED
    BY <2>1, NextNoDialogue DEF Dialogue
<1>3. CASE canSave
  <2>1. /\ at'[c] = "downloadHeader"
        /\ job'[c].file = name /\ job'[c].start = start
        /\ local' = IF start = 0 THEN [local EXCEPT ![c][name] = File(<<>>)] ELSE local
    <3>1. /\ Goto(c, "downloadHeader")
          /\ job' = [job EXCEPT ![c] = [Idle EXCEPT !.op = "Download", !.file = name,
                                                    !.start = start]]
          /\ local' = IF start = 0 THEN [local EXCEPT ![c][name] = File(<<>>)] ELSE local
      BY <1>3 DEF StartDownload
    <3>2. at'[c] = "downloadHeader"
      BY <1>1, <3>1 DEF Goto
    <3>3. job'[c] = [Idle EXCEPT !.op = "Download", !.file = name, !.start = start]
      BY <1>1, <3>1
    <3>4. job'[c].file = name /\ job'[c].start = start
      BY <3>3 DEF Idle
    <3> QED
      BY <3>1, <3>2, <3>4
  <2>2. Len(Kept(c, name)') = start
    <3>1. CASE start = 0
      <4>1. local'[c][name].data = <<>>
        BY <1>1, <2>1, <3>1 DEF File
      <4> QED
        BY <3>1, <4>1 DEF Kept
    <3>2. CASE start # 0
      BY <2>1, <3>2 DEF Kept
    <3> QED
      BY <3>1, <3>2
  <2>3. StartInv(c)'
    BY <2>1, <2>2 DEF StartInv, Kept
  <2>4. Offers(c)' = {}
    BY <2>1 DEF Offers
  <2>5. GetsInv(c)' /\ PromptInv(c)' /\ MatchInv(c)' /\ QuietInv(c)'
    BY <2>1, <2>4 DEF GetsInv, PromptInv, MatchInv, QuietInv, HasReply
  <2>6. ASSUME Linked(c), Serves(conn[c]) PROVE AskingInv(c)'
    <3>1. start > 0 => start # 0 /\ local' = local
      BY <2>1
    <3>2. UNCHANGED <<pc, disk>> /\ Incoming(conn[c])' = Incoming(conn[c])
      BY ClientServes DEF Incoming
    <3> QED
      BY <2>1, <2>6, <3>1, <3>2 DEF AskingInv, Resumes, Kept, Hosted
  <2>7. PICK k : k = conn[c] /\ conn'[c] = k /\ (Serves(k)' <=> Serves(k))
    BY ClientServes
  <2> QED
    BY <2>3, <2>5, <2>6, <2>7 DEF DialogueInv, ServedInv, Linked
<1> QED
  BY <1>2, <1>3

LEMMA CommandDialogue ==
    ASSUME TransferInv, InStepInv, WantedFlat, UNCHANGED serverVars,
           NEW c \in Clients, Commands(c), DialogueInv(c)
    PROVE  DialogueInv(c)'
<1>1. UNCHANGED <<net, conn>> /\ at \in [Clients -> ClientPlaces]
  BY CommandsAlone DEF TransferInv, ClientInv
<1>2. CASE \E name \in Wanted[c], canSave \in OpenResults : DownloadCmd(c, name, canSave)
  <2>1. PICK name \in Wanted[c], canSave \in OpenResults : DownloadCmd(c, name, canSave)
    BY <1>2
  <2>2. name \in Names /\ Flat(name)
    BY TransferAssumption DEF WantedFlat
  <2>3. StartDownload(c, name, 0, canSave) /\ 0 \in Nat
    BY <2>1 DEF DownloadCmd
  <2> QED
    BY <1>1, <2>2, <2>3, StartDialogue
<1>3. CASE \E yes \in BOOLEAN, canSave \in OpenResults : Answer(c, yes, canSave)
  <2>1. PICK yes \in BOOLEAN, canSave \in OpenResults : Answer(c, yes, canSave)
    BY <1>3
  <2>2. CASE ~yes
    <3>1. at'[c] = "prompt"
      BY <1>1, <2>1, <2>2 DEF Answer, Return, Goto
    <3> QED
      BY <3>1, NextNoDialogue DEF Dialogue
  <2>3. CASE yes
    <3>1. PICK name, start : name = job[c].file /\ start = Len(Kept(c, name))
      OBVIOUS
    <3>2. at[c] = "ask" /\ StartDownload(c, name, start, canSave)
      BY <2>1, <2>3, <3>1 DEF Answer, LocalSize, Kept
    <3>3. name \in Names
      BY <3>1, KeepLemma DEF TransferInv, Job
    <3>4. start \in Nat
      BY <3>1, <3>3, KeptLemma
    <3>5. name \in Offers(c)
      BY <3>1, <3>2 DEF Offers
    <3>6. Linked(c) /\ Serves(conn[c]) => /\ Flat(name) /\ Begins(Kept(c, name), Hosted(name))
                                          /\ pc = "RecvHeader" /\ Incoming(conn[c]) = <<>>
      BY <3>5 DEF DialogueInv, ServedInv, PromptInv
    <3> QED
      BY <1>1, <3>1, <3>2, <3>3, <3>4, <3>6, StartDialogue
  <2> QED
    BY <2>2, <2>3
<1>4. CASE \/ \E name \in Offered[c] : UploadCmd(c, name)
           \/ \E op \in Asks[c] \ {"Close"} : AskCmd(c, op)
           \/ CloseCmd(c) \/ StartClient(c)
  <2>1. at'[c] \notin Dialogue
    BY <1>1, <1>4 DEF UploadCmd, AskCmd, CloseCmd, StartClient, Goto, Dialogue
  <2> QED
    BY <2>1, NextNoDialogue
<1> QED
  BY <1>2, <1>3, <1>4 DEF Commands

(* The offer of a recovery.                                                *)
LEMMA OfferedDialogue ==
    ASSUME TransferInv, InStepInv, UNCHANGED serverVars, UNCHANGED <<conn, local>>,
           NEW c \in Clients, Linked(c), DialogueInv(c), Incoming(conn[c])' = Incoming(conn[c]),
           at'[c] \in {"recvStamp", "ask"}, Offers(c)' \subseteq Offers(c)
    PROVE  DialogueInv(c)'
<1>1. PICK k : k = conn[c] /\ conn'[c] = k
  OBVIOUS
<1>2. StartInv(c)' /\ GetsInv(c)'
  BY DEF StartInv, GetsInv
<1>3. AskingInv(c)' /\ MatchInv(c)' /\ QuietInv(c)'
  BY DEF AskingInv, MatchInv, QuietInv, HasReply
<1>4. ASSUME Serves(k) PROVE PromptInv(c)'
  <2>1. PromptInv(c)
    BY <1>1, <1>4 DEF DialogueInv, ServedInv
  <2>2. UNCHANGED <<pc, disk>> /\ Incoming(k)' = Incoming(k)
    BY <1>1, ClientServes
  <2>3. \A n \in Offers(c) : /\ Flat(n) /\ pc = "RecvHeader" /\ Incoming(k) = <<>>
                             /\ Begins(Kept(c, n), Hosted(n)) /\ Len(Kept(c, n)) < Len(Hosted(n))
    BY <1>1, <2>1 DEF PromptInv
  <2>4. \A n : Kept(c, n)' = Kept(c, n) /\ Hosted(n)' = Hosted(n)
    BY <2>2 DEF Kept, Hosted
  <2>5. \A n \in Offers(c)' :
           /\ Flat(n) /\ pc' = "RecvHeader" /\ Incoming(k)' = <<>>
           /\ Begins(Kept(c, n)', Hosted(n)') /\ Len(Kept(c, n)') < Len(Hosted(n)')
    BY <2>2, <2>3, <2>4
  <2> QED
    BY <1>1, <2>5 DEF PromptInv
<1>5. Serves(k)' <=> Serves(k)
  BY ClientServes
<1> QED
  BY <1>1, <1>2, <1>3, <1>4, <1>5 DEF DialogueInv, ServedInv

(* A reply, or a part of the file.                                         *)
LEMMA ReceivesDialogue ==
    ASSUME TransferInv, InStepInv, UNCHANGED serverVars, UNCHANGED asked, UNCHANGED conn,
           NEW c \in Clients, Linked(c), DialogueInv(c), Incoming(conn[c])' = Incoming(conn[c]),
           HasReply(c), at'[c] = "recvFile", job'[c].file = job[c].file,
           Gets(c, 0, job[c].left)'
    PROVE  DialogueInv(c)'
<1>1. PICK k : k = conn[c] /\ conn'[c] = k
  OBVIOUS
<1>2. StartInv(c)' /\ GetsInv(c)'
  BY DEF StartInv, GetsInv
<1>3. Offers(c)' = {}
  BY DEF Offers
<1>4. PromptInv(c)' /\ AskingInv(c)' /\ MatchInv(c)'
  BY <1>3 DEF PromptInv, AskingInv, MatchInv
<1>5. ASSUME Serves(k) PROVE QuietInv(c)'
  <2>1. QuietInv(c)
    BY <1>1, <1>5 DEF DialogueInv, ServedInv
  <2>2. UNCHANGED <<pc, disk, dl>> /\ Incoming(k)' = Incoming(k)
    BY <1>1, ClientServes
  <2>3. Hosted(dl.file)' = Hosted(dl.file)
    BY <2>2 DEF Hosted
  <2> QED
    BY <1>1, <2>1, <2>2, <2>3 DEF QuietInv
<1>6. Serves(k)' <=> Serves(k)
  BY ClientServes
<1> QED
  BY <1>1, <1>2, <1>4, <1>5, <1>6 DEF DialogueInv, ServedInv

(* What the server offers is asked of the user: the greeting, the stamp.   *)
LEMMA OffersLeft ==
    ASSUME TransferInv, InStepInv, NEW c \in Clients, Linked(c),
           Queue(c) # <<>>, CliReads(c, 1),
           \/ \E op \in OpsIn(Head(Queue(c))) : RecvGreeting(c, "ok", op)
           \/ \E name \in {u.name : u \in DataIn(Head(Queue(c)))} : RecvStamp(c, "ok", name)
    PROVE  /\ UNCHANGED <<conn, local>> /\ at'[c] \in {"recvStamp", "ask", "prompt"}
           /\ Offers(c)' \subseteq Offers(c)
<1>1. /\ at \in [Clients -> ClientPlaces] /\ job \in [Clients -> Job] /\ UNCHANGED <<conn, local>>
  BY DEF TransferInv, ClientInv, RecvGreeting, RecvStamp
<1>2. PICK q, rest : q = Queue(c) /\ rest = SubSeq(q, 1 + 1, Len(q))
  OBVIOUS
<1>3. /\ q \in Seq(Unit) /\ Shape(at[c], job[c].left, q) /\ Head(q) = q[1] /\ Len(q) \in Nat
  BY <1>2, LinkedTalk, HeadTailProperties, LenProperties
<1>4. Queue(c)' = rest
  BY <1>1, <1>2, ReceiveQueue
<1>5. /\ rest \in Seq(Unit) /\ Len(rest) = Len(q) - 1
      /\ \A i \in 1..Len(rest) : rest[i] = q[i + 1]
      /\ Len(rest) \in Nat
  BY <1>2, <1>3, TailLemma, LenProperties
<1>6. ASSUME NEW op \in OpsIn(Head(q)), RecvGreeting(c, "ok", op)
      PROVE  at'[c] \in {"recvStamp", "prompt"} /\ Offers(c)' \subseteq Offers(c)
  <2>1. at[c] = "recvGreeting" /\ at'[c] \in {"recvStamp", "prompt"}
    BY <1>1, <1>6 DEF RecvGreeting, Goto, Return
  <2>2. CASE at'[c] = "prompt"
    BY <2>2 DEF Offers
  <2>3. CASE at'[c] = "recvStamp"
    <3>1. CASE rest = <<>>
      BY <1>4, <2>3, <3>1 DEF Offers
    <3>2. CASE rest # <<>>
      <4>1. Len(q) <= 2 /\ Len(rest) # 0
        BY <1>3, <1>5, <2>1, <3>2, EmptySeq DEF Shape
      <4>2. Len(q) = 2 /\ 1 \in 1..Len(rest)
        BY <1>3, <1>5, <4>1
      <4>3. rest[1] = q[2]
        BY <1>5, <4>2
      <4> QED
        BY <1>2, <1>4, <2>1, <2>3, <3>2, <4>2, <4>3 DEF Offers
    <3> QED
      BY <2>3, <3>1, <3>2
  <2> QED
    BY <2>1, <2>2, <2>3
<1>7. ASSUME NEW u \in DataIn(Head(q)), RecvStamp(c, "ok", u.name)
      PROVE  at'[c] = "ask" /\ Offers(c)' \subseteq Offers(c)
  <2>1. at[c] = "recvStamp" /\ at'[c] = "ask" /\ job'[c].file = u.name
    BY <1>1, <1>7 DEF RecvStamp, Goto, Idle
  <2>2. "recvStamp" \in DOMAIN ClientExpects \ {"recvAccept"} /\ ClientExpects["recvStamp"] = "data"
    BY DEF ClientExpects
  <2>3. q[1].t = "data"
    BY <1>2, <1>3, <2>1, <2>2, ShapeLemma
  <2>4. u = q[1]
    BY <1>3, <1>7, <2>3 DEF DataIn
  <2>5. Offers(c) = {q[1].name}
    BY <1>2, <2>1 DEF Offers
  <2>6. Offers(c)' = {job'[c].file}
    BY <2>1 DEF Offers
  <2> QED
    BY <2>1, <2>4, <2>5, <2>6
<1> QED
  BY <1>1, <1>2, <1>6, <1>7

LEMMA GreetingDialogue ==
    ASSUME TransferInv, InStepInv, UNCHANGED serverVars, NEW c \in Clients, Linked(c),
           DialogueInv(c), Incoming(conn[c])' = Incoming(conn[c]),
           Queue(c) # <<>>, CliReads(c, 1),
           \/ \E op \in OpsIn(Head(Queue(c))) : RecvGreeting(c, "ok", op)
           \/ \E name \in {u.name : u \in DataIn(Head(Queue(c)))} : RecvStamp(c, "ok", name)
    PROVE  DialogueInv(c)'
<1>1. /\ UNCHANGED <<conn, local>> /\ at'[c] \in {"recvStamp", "ask", "prompt"}
      /\ Offers(c)' \subseteq Offers(c)
  BY OffersLeft
<1>2. CASE at'[c] = "prompt"
  BY <1>2, NextNoDialogue DEF Dialogue
<1>3. CASE at'[c] \in {"recvStamp", "ask"}
  BY <1>1, <1>3, OfferedDialogue
<1> QED
  BY <1>1, <1>2, <1>3

(* The answer to a request.                                                *)
LEMMA ResponseDialogue ==
    ASSUME TransferInv, InStepInv, UNCHANGED serverVars, UNCHANGED asked,
           NEW c \in Clients, Linked(c), DialogueInv(c), UNCHANGED conn,
           Incoming(conn[c])' = Incoming(conn[c]),
           Queue(c) # <<>>, CliReads(c, 1), at[c] = "recvResponse",
           NEW u \in ResponsesIn(Head(Queue(c))), RecvResponse(c, "ok", u.ready, u.total)
    PROVE  DialogueInv(c)'
<1>1. /\ at \in [Clients -> ClientPlaces] /\ job \in [Clients -> Job]
  BY DEF TransferInv, ClientInv
<1>2. PICK q, rest : q = Queue(c) /\ rest = SubSeq(q, 1 + 1, Len(q))
  OBVIOUS
<1>3. /\ q \in Seq(Unit) /\ Shape(at[c], job[c].left, q) /\ Head(q) = q[1] /\ Len(q) \in Nat
  BY <1>2, LinkedTalk, HeadTailProperties, LenProperties
<1>4. Queue(c)' = rest
  BY <1>2, ReceiveQueue
<1>5. /\ rest \in Seq(Unit) /\ Len(rest) = Len(q) - 1
      /\ \A i \in 1..Len(rest) : rest[i] = q[i + 1]
      /\ Len(rest) \in Nat
  BY <1>2, <1>3, TailLemma, LenProperties
<1>6. u = q[1]
  <2>1. "recvResponse" \in DOMAIN ClientExpects \ {"recvAccept"}
        /\ ClientExpects["recvResponse"] = "response"
    BY DEF ClientExpects
  <2>2. Head(q).t = "response"
    BY <1>2, <1>3, <2>1, ShapeLemma
  <2> QED
    BY <1>2, <1>3, <2>2 DEF ResponsesIn
<1>7. CASE u.ready /\ u.total > 0
  <2>1. /\ at'[c] = "recvFile" /\ job'[c].left = u.total /\ job'[c].file = job[c].file
        /\ UNCHANGED local
    BY <1>1, <1>7 DEF RecvResponse, Goto, Job
  <2>2. Gets(c, 1, u.total)
    BY <1>2, <1>6, <1>7 DEF DialogueInv, GetsInv
  <2>3. PICK have, want : have = Kept(c, job[c].file) /\ want = asked[conn[c]]
    OBVIOUS
  <2>4. Kept(c, job[c].file)' = have /\ asked[conn[c]]' = want
    BY <2>1, <2>3 DEF Kept
  <2>5. /\ Begins(have, want) /\ Len(have) + u.total = Len(want)
        /\ \A m \in 1..Len(q) : 1 + m <= Len(q) => q[1 + m].block = want[Len(have) + m]
    BY <1>2, <2>2, <2>3 DEF Gets
  <2>6. \A m \in 1..Len(rest) : rest[m].block = want[Len(have) + m]
    <3> SUFFICES ASSUME NEW m \in 1..Len(rest) PROVE rest[m].block = want[Len(have) + m]
      OBVIOUS
    <3>1. m \in 1..Len(q) /\ 1 + m <= Len(q) /\ 1 + m = m + 1
      BY <1>3, <1>5
    <3>2. rest[m] = q[m + 1]
      BY <1>5
    <3> QED
      BY <2>5, <3>1, <3>2
  <2>7. Gets(c, 0, job[c].left)'
    <3>1. \A m \in 1..Len(rest) : 0 + m = m
      BY <1>5
    <3>2. \A m \in 1..Len(rest) : 0 + m <= Len(rest) => rest[0 + m].block = want[Len(have) + m]
      BY <2>6, <3>1
    <3> QED
      BY <1>4, <2>1, <2>4, <2>5, <3>2 DEF Gets
  <2>8. HasReply(c) /\ (job[c].left)' = job'[c].left
    BY DEF HasReply
  <2> QED
    BY <2>1, <2>7, <2>8, ReceivesDialogue
<1>8. CASE ~(u.ready /\ u.total > 0)
  <2>1. at'[c] = "prompt"
    BY <1>1, <1>8 DEF RecvResponse, Return, Goto, FailDownload
  <2> QED
    BY <2>1, NextNoDialogue DEF Dialogue
<1> QED
  BY <1>7, <1>8

(* A part of the file, or the last of it.                                  *)
LEMMA FileDialogue ==
    ASSUME TransferInv, InStepInv, UNCHANGED serverVars, UNCHANGED asked,
           NEW c \in Clients, Linked(c), DialogueInv(c), UNCHANGED conn,
           Incoming(conn[c])' = Incoming(conn[c]),
           Queue(c) # <<>>, at[c] = "recvFile",
           NEW d \in BlocksAt(Queue(c), job[c].left), CliReads(c, Len(d)), RecvFile(c, "ok", d)
    PROVE  DialogueInv(c)'
<1>1. /\ at \in [Clients -> ClientPlaces] /\ job \in [Clients -> Job]
      /\ local \in [Clients -> [Names -> Entry]] /\ job[c].file \in Names
  BY DEF TransferInv, ClientInv, Job
<1>2. PICK n, q, have, want, u, rest :
         /\ n = job[c].file /\ q = Queue(c) /\ have = Kept(c, n) /\ want = asked[conn[c]]
         /\ u = Len(d) /\ rest = SubSeq(q, u + 1, Len(q))
  OBVIOUS
<1>3. GetsInv(c)
  BY DEF DialogueInv
<1>4. /\ have \in Seq(Blocks) /\ want \in Seq(Blocks) /\ d \in Seq(Blocks)
      /\ u \in 1..Len(q) /\ u <= job[c].left
      /\ Len(have) \in Nat /\ Len(want) \in Nat /\ job[c].left \in Nat
      /\ Len(have) + job[c].left = Len(want)
      /\ Begins(have \o d, want) /\ have \o d \in Seq(Blocks)
      /\ Len(have \o d) = Len(have) + u
  BY <1>2, <1>3, GetsNext
<1>5. q \in Seq(Unit) /\ Len(q) \in Nat
  BY <1>2, LinkedTalk, LenProperties
<1>6. u \in Nat /\ u \in 0..Len(q)
  BY <1>4, <1>5
<1>7. Queue(c)' = rest
  BY <1>2, <1>6, ReceiveQueue
<1>8. /\ rest \in Seq(Unit) /\ Len(rest) = Len(q) - u /\ Len(rest) \in Nat
      /\ \A i \in 1..Len(rest) : rest[i] = q[i + u]
  BY <1>2, <1>5, <1>6, RestLemma, LenProperties
<1>9. CASE MoreToReceive(c, d)
  <2>1. /\ at'[c] = "recvFile" /\ job'[c].left = job[c].left - u /\ job'[c].file = n
        /\ local' = [local EXCEPT ![c][job[c].file] = File(@.data \o d)]
    BY <1>1, <1>2, <1>9 DEF RecvFile, Job
  <2>2. Kept(c, n)' = have \o d
    BY <1>1, <1>2, <2>1 DEF Kept, File
  <2>3. Gets(c, 0, job[c].left)
    BY <1>3 DEF GetsInv
  <2>4. \A m \in 1..Len(q) : 0 + m <= Len(q) => q[0 + m].block = want[Len(have) + m]
    BY <1>2, <2>3 DEF Gets
  <2>5. PICK long, h, left : long = Len(rest) /\ h = Len(have) /\ left = job[c].left
    OBVIOUS
  <2>6. \A m \in 1..long : 0 + m <= long => rest[0 + m].block = want[(h + u) + m]
    <3> SUFFICES ASSUME NEW m \in 1..long PROVE rest[0 + m].block = want[(h + u) + m]
      OBVIOUS
    <3>1. /\ m + u \in 1..Len(q) /\ 0 + (m + u) <= Len(q) /\ 0 + (m + u) = m + u
          /\ 0 + m = m /\ h + (m + u) = (h + u) + m
      BY <1>4, <1>5, <1>6, <1>8, <2>5
    <3>2. rest[m] = q[m + u]
      BY <1>8, <2>5
    <3>3. q[m + u].block = want[h + (m + u)]
      BY <2>4, <2>5, <3>1
    <3> QED
      BY <3>1, <3>2, <3>3
  <2>7. (h + u) + (left - u) = Len(want)
    <3>1. h \in Nat /\ left \in Nat /\ h + left = Len(want)
      BY <1>4, <2>5
    <3> QED
      BY <1>6, <3>1
  <2>8. Gets(c, 0, job[c].left)'
    <3>1. PICK more : more = have \o d
      OBVIOUS
    <3>2. /\ Kept(c, job[c].file)' = more /\ asked[conn[c]]' = want /\ Queue(c)' = rest
          /\ (job[c].left)' = left - u
      BY <1>2, <1>7, <2>1, <2>2, <2>5, <3>1 DEF Kept
    <3>3. Begins(more, want) /\ Len(more) = h + u
      BY <1>4, <2>5, <3>1
    <3>4. Begins(more, want)
          /\ Len(more) + (left - u) = Len(want)
          /\ \A m \in 1..Len(rest) : 0 + m <= Len(rest) => rest[0 + m].block = want[Len(more) + m]
      BY <2>5, <2>6, <2>7, <3>3
    <3> QED
      BY <3>2, <3>4 DEF Gets
  <2>9. HasReply(c) /\ job'[c].file = job[c].file
    BY <1>2, <2>1 DEF HasReply
  <2> QED
    BY <2>1, <2>8, <2>9, ReceivesDialogue
<1>10. CASE ~MoreToReceive(c, d)
  <2>1. at'[c] = "prompt"
    BY <1>1, <1>10 DEF RecvFile, Return, Goto
  <2> QED
    BY <2>1, NextNoDialogue DEF Dialogue
<1> QED
  BY <1>9, <1>10

LEMMA ReceiveDialogue ==
    ASSUME TransferInv, InStepInv, UNCHANGED serverVars, UNCHANGED asked,
           NEW c \in Clients, TcpReceive(c), DialogueInv(c)
    PROVE  DialogueInv(c)'
<1>1. PICK r : r = CliRecv(c)
  OBVIOUS
<1>2. /\ Linked(c) /\ c \in DOMAIN at /\ UNCHANGED conn
      /\ Incoming(conn[c])' = Incoming(conn[c])
  BY ReceivesAlone DEF Linked, TransferInv, ClientInv
<1>3. CASE r # "ok"
  <2>1. at'[c] = "prompt"
    BY <1>1, <1>2, <1>3 DEF TcpReceive, RecvGreeting, RecvStamp, RecvResponse, RecvFile,
       RecvAnswer, FailDownload, Return, Goto
  <2> QED
    BY <2>1, NextNoDialogue DEF Dialogue
<1>4. CASE r = "ok"
  <2>1. Queue(c) # <<>>
    BY <1>1, <1>2, <1>4, ReceivingLemma DEF TcpReceive
  <2>2. PICK v : v = Head(Queue(c))
    OBVIOUS
  <2>3. \/ /\ CliReads(c, 1)
           /\ \/ \E op \in OpsIn(v) : RecvGreeting(c, "ok", op)
              \/ \E name \in {u.name : u \in DataIn(v)} : RecvStamp(c, "ok", name)
        \/ /\ at[c] = "recvResponse" /\ CliReads(c, 1)
           /\ \E u \in ResponsesIn(v) : RecvResponse(c, "ok", u.ready, u.total)
        \/ /\ at[c] = "recvFile"
           /\ \E d \in BlocksAt(Queue(c), job[c].left) :
                 RecvFile(c, "ok", d) /\ CliReads(c, Len(d))
        \/ RecvAnswer(c, "ok")
    BY <1>1, <1>4, <2>2 DEF TcpReceive
  <2>4. CASE /\ CliReads(c, 1)
             /\ \/ \E op \in OpsIn(v) : RecvGreeting(c, "ok", op)
                \/ \E name \in {u.name : u \in DataIn(v)} : RecvStamp(c, "ok", name)
    BY <1>2, <2>1, <2>2, <2>4, GreetingDialogue
  <2>5. CASE /\ at[c] = "recvResponse" /\ CliReads(c, 1)
             /\ \E u \in ResponsesIn(v) : RecvResponse(c, "ok", u.ready, u.total)
    BY <1>2, <2>1, <2>2, <2>5, ResponseDialogue
  <2>6. CASE /\ at[c] = "recvFile"
             /\ \E d \in BlocksAt(Queue(c), job[c].left) :
                   RecvFile(c, "ok", d) /\ CliReads(c, Len(d))
    BY <1>2, <2>1, <2>6, FileDialogue
  <2>7. CASE RecvAnswer(c, "ok")
    <3>1. at'[c] = "prompt"
      BY <1>2, <2>7 DEF RecvAnswer, Return, Goto
    <3> QED
      BY <3>1, NextNoDialogue DEF Dialogue
  <2> QED
    BY <2>3, <2>4, <2>5, <2>6, <2>7
<1> QED
  BY <1>3, <1>4

(* What a command says when it begins, and when it ends.                   *)
Says(c) ==
    /\ UNCHANGED said \/ \E s : said' = [said EXCEPT ![c] = s]
    /\ \/ ~Downloading(c)'
       \/ said' = [said EXCEPT ![c] = "nothing"]
       \/ Downloading(c) /\ UNCHANGED said
LEMMA SaidStep ==
    ASSUME SaidInv, NEW c \in Clients, Others(c), Says(c)
    PROVE  SaidInv'
<1>1. DOMAIN said' = Clients /\ \A d \in Clients \ {c} : said'[d] = said[d]
  BY DEF SaidInv, Says
<1>2. \A d \in Clients \ {c} : Downloading(d)' <=> Downloading(d)
  BY DEF Others, Downloading
<1>3. Downloading(c)' => said'[c] # "saved"
  BY DEF SaidInv, Says
<1> QED
  BY <1>1, <1>2, <1>3 DEF SaidInv

LEMMA ReturnSays ==
    ASSUME NEW c \in Clients, c \in DOMAIN at, NEW s, Return(c, s)
    PROVE  Says(c)
<1>1. at'[c] = "prompt" /\ said' = [said EXCEPT ![c] = s]
  BY DEF Return, Goto
<1> QED
  BY <1>1 DEF Says, Downloading

LEMMA CommandSays ==
    ASSUME NEW c \in Clients, c \in DOMAIN at, Commands(c)
    PROVE  Says(c)
<1>1. ASSUME NEW name, NEW start, NEW canSave, StartDownload(c, name, start, canSave)
      PROVE  Says(c)
  <2>1. CASE canSave
    BY <1>1, <2>1 DEF StartDownload, Says
  <2>2. CASE ~canSave
    BY <1>1, <2>2, ReturnSays DEF StartDownload
  <2> QED
    BY <2>1, <2>2
<1>2. ASSUME NEW yes, NEW canSave, Answer(c, yes, canSave) PROVE Says(c)
  BY <1>1, <1>2, ReturnSays DEF Answer
<1>3. ASSUME NEW name, NEW canSave, DownloadCmd(c, name, canSave) PROVE Says(c)
  BY <1>1, <1>3 DEF DownloadCmd
<1>4. ASSUME NEW name, NEW op, UploadCmd(c, name) \/ AskCmd(c, op) \/ CloseCmd(c) PROVE Says(c)
  BY <1>4 DEF UploadCmd, AskCmd, CloseCmd, Says
<1>5. ASSUME StartClient(c) PROVE Says(c)
  BY <1>5 DEF StartClient, Goto, Says, Downloading
<1> QED
  BY <1>2, <1>3, <1>4, <1>5 DEF Commands

LEMMA ReceiveSays ==
    ASSUME NEW c \in Clients, c \in DOMAIN at, TcpReceive(c)
    PROVE  Says(c)
<1>1. ASSUME NEW r, NEW op, RecvGreeting(c, r, op) PROVE Says(c)
  BY <1>1, ReturnSays DEF RecvGreeting, Goto, Says, Downloading
<1>2. ASSUME NEW r, NEW name, RecvStamp(c, r, name) PROVE Says(c)
  BY <1>2, ReturnSays DEF RecvStamp, Goto, Says, Downloading
<1>3. ASSUME NEW r, NEW ready, NEW total, RecvResponse(c, r, ready, total) PROVE Says(c)
  BY <1>3, ReturnSays DEF RecvResponse, FailDownload, Says, Downloading
<1>4. ASSUME NEW r, NEW d, RecvFile(c, r, d) PROVE Says(c)
  BY <1>4, ReturnSays DEF RecvFile, FailDownload, Says, Downloading
<1>5. ASSUME NEW r, RecvAnswer(c, r) PROVE Says(c)
  BY <1>5, ReturnSays DEF RecvAnswer
<1> QED
  BY <1>1, <1>2, <1>3, <1>4, <1>5 DEF TcpReceive

LEMMA SendSays ==
    ASSUME NEW c \in Clients, c \in DOMAIN at, TcpSend(c)
    PROVE  Says(c)
<1>1. ASSUME NEW r, SendMac(c, r) PROVE Says(c)
  BY <1>1, ReturnSays DEF SendMac, Goto, Says, Downloading
<1>2. ASSUME NEW r, SendDownload(c, r) PROVE Says(c)
  BY <1>2, ReturnSays DEF SendDownload, FailDownload, Says, Downloading
<1>3. ASSUME NEW r, SendUpload(c, r) PROVE Says(c)
  BY <1>3, ReturnSays DEF SendUpload, Goto, Says, Downloading
<1>4. ASSUME NEW r, SendFile(c, r) PROVE Says(c)
  <2>1. at[c] = "sendFile"
    BY <1>4 DEF SendFile
  <2>2. (\E s : Return(c, s)) \/ UNCHANGED <<at, said>>
    BY <1>4 DEF SendFile
  <2> QED
    BY <2>1, <2>2, ReturnSays DEF Says, Downloading
<1>5. ASSUME NEW r, SendAsk(c, r) PROVE Says(c)
  BY <1>5, ReturnSays DEF SendAsk, Goto, Says, Downloading
<1>6. ASSUME NEW r, SendClose(c, r) PROVE Says(c)
  BY <1>6, ReturnSays DEF SendClose
<1> QED
  BY <1>1, <1>2, <1>3, <1>4, <1>5, <1>6 DEF TcpSend

LEMMA ClientSaid ==
    ASSUME TransferInv, InStepInv, QueueInv, SaidInv, UNCHANGED serverVars,
           NEW c \in Clients, Moves(c)
    PROVE  SaidInv'
<1>1. c \in DOMAIN at
  BY DEF TransferInv, ClientInv
<1>3. ASSUME TcpConnect(c) \/ Leaves(c) PROVE Says(c)
  <2>1. CASE TcpConnect(c)
    BY <2>1 DEF TcpConnect, Connect, Says
  <2>2. CASE ClientDies(c)
    BY <2>2 DEF ClientDies, Says
  <2>3. CASE ConnectFails(c)
    BY <1>1, <2>3, ReturnSays DEF ConnectFails
  <2> QED
    BY <1>3, <2>1, <2>2, <2>3 DEF Leaves
<1>4. Says(c)
  BY <1>1, <1>3, CommandSays, ReceiveSays, SendSays DEF Moves
<1>5. Others(c)
  BY MovesAlone
<1> QED
  BY <1>4, <1>5, SaidStep

-----------------------------------------------------------------------------
(* Every step of a client.                                                 *)
LEMMA ClientDialogue ==
    ASSUME TransferInv, InStepInv, InStepInv', WantedFlat, QueueInv, UNCHANGED serverVars,
           UNCHANGED asked, NEW c \in Clients, Moves(c), NEW d \in Clients, DialogueInv(d)
    PROVE  DialogueInv(d)'
<1>1. CASE d # c
  BY <1>1, OtherDialogue
<1>2. CASE d = c
  <2>1. CASE TcpReceive(c)
    BY <1>2, <2>1, ReceiveDialogue
  <2>2. CASE TcpSend(c)
    BY <1>2, <2>2, SendDialogue
  <2>3. CASE TcpConnect(c)
    BY <1>2, <2>3, ConnectsAlone, NextNoDialogue DEF Dialogue
  <2>4. CASE Leaves(c)
    BY <1>2, <2>4, LeavesAlone, NextNoDialogue
  <2>5. CASE Commands(c)
    BY <1>2, <2>5, CommandDialogue
  <2> QED
    BY <2>1, <2>2, <2>3, <2>4, <2>5 DEF Moves
<1> QED
  BY <1>1, <1>2

LEMMA ClientDownloads ==
    ASSUME TransferInv, TransferInv', InStepInv, InStepInv', Distinct, WantedFlat, DownloadsInv,
           NEW c \in Clients, ClientStep(c) \/ UserStep(c) \/ KillClient(c)
    PROVE  DownloadsInv'
<1>1. Moves(c) /\ UNCHANGED serverVars /\ UNCHANGED asked
  BY ClientMoves
<1>2. /\ QueueInv /\ NotesInv /\ AwayInv /\ SaidInv
      /\ \A k \in Conns : NamesInv(k) /\ EagerInv(k)
      /\ \A d \in Clients : DialogueInv(d)
  BY DEF DownloadsInv
<1>3. QueueInv' /\ NotesInv' /\ AwayInv' /\ SaidInv'
  BY <1>1, <1>2, ClientQueue, ClientNotes, ClientAway, ClientSaid
<1>4. \A k \in Conns : NamesInv(k)' /\ EagerInv(k)'
  BY <1>1, <1>2, ClientNames, ClientEager
<1>5. \A d \in Clients : DialogueInv(d)'
  BY <1>1, <1>2, ClientDialogue
<1> QED
  BY <1>3, <1>4, <1>5 DEF DownloadsInv

-----------------------------------------------------------------------------
(* The steps of the server.                                                *)

(* It serves connection k, reads u units there, and leaves the others.     *)
Attends(k, u) ==
    /\ Serving(pc) /\ pc \notin {"Listen", "Dead"} /\ k = S
    /\ UNCHANGED clientVars /\ UNCHANGED <<backlog, cur>>
    /\ \A l : Serves(l)' => l = k
    /\ \A l \in Conns : l # k => net'[l] = net[l] /\ asked'[l] = asked[l]
    /\ u \in 0..Len(Incoming(k))
    /\ u = 0 => Incoming(k) = <<>> \/ pc = "Upload"
    /\ Serves(k)' => /\ Incoming(k)' = SubSeq(Incoming(k), u + 1, Len(Incoming(k)))
                     /\ pc = "RecvMac" \/ Me' = Me

LEMMA StaysServed ==
    ASSUME TransferInv, Serving(pc), pc \notin {"Listen", "Dead"}, NEW k, k = S, UNCHANGED cur,
           UNCHANGED clients \/ \E st : clients' = AfterCheckFail(clients, st)
    PROVE  /\ \A l : Serves(l)' => l = k
           /\ Serves(k)' => Len(clients') = Len(clients) /\ Me' = Me
<1>1. /\ cur = Len(clients) /\ Len(clients) \in Nat
      /\ clients \in Seq(Handle) /\ cur \in 1..Len(clients)
  BY ServerServes DEF Serving, TransferInv, IInv, TypeOK
<1>2. clients' = clients \/ Len(clients') = Len(clients) - 1
  BY <1>1, SwapRemoveLemma DEF AfterCheckFail
<1>3. ASSUME NEW l, Serves(l)' PROVE clients' = clients
  <2>1. cur \in 1..Len(clients')
    BY <1>3 DEF Serves
  <2> QED
    BY <1>1, <1>2, <2>1
<1>4. clients' = clients => Me' = Me
  BY DEF Me
<1>5. \A l : Serves(l)' => l = k
  BY <1>3, <1>4 DEF Serves, S
<1> QED
  BY <1>3, <1>4, <1>5

(* The connection served, while it is.                                     *)
LEMMA ServedUpdate ==
    ASSUME TransferInv, Serving(pc), pc \notin {"Listen", "Dead"}, NEW k, k = S,
           NEW n \in Link, SrvUpdate(n), Serves(k)' => Len(clients') = Len(clients)
    PROVE  /\ \A l \in Conns : l # k => net'[l] = net[l]
           /\ Serves(k)' => net'[k] = n
           /\ net'[k].queue["cli"] = n.queue["cli"]
<1>1. k \in Conns /\ net \in [Conns -> Link] /\ Len(clients) \in Nat
  BY ServerServes DEF TransferInv, NetInv
<1>2. net' = [net EXCEPT ![k] = IF Len(clients') < Len(clients) THEN Close(n, "srv") ELSE n]
  BY DEF SrvUpdate
<1>3. Close(n, "srv").queue["cli"] = n.queue["cli"]
  BY DEF Close, Link, Ends
<1>4. Len(clients') = Len(clients) => ~(Len(clients') < Len(clients))
  BY <1>1
<1> QED
  BY <1>1, <1>2, <1>3, <1>4

LEMMA WholeQueue ==
    ASSUME NEW q \in Seq(Unit) PROVE SubSeq(q, 0 + 1, Len(q)) = q
  OBVIOUS

LEMMA AttendsReads ==
    ASSUME TransferInv, InStepInv, Serving(pc), pc \notin {"Listen", "Dead"}, NEW k, k = S,
           UNCHANGED clientVars, UNCHANGED cur,
           NEW u \in Nat, SrvReads(u), SrvQueue # <<>> => u \in 1..Len(SrvQueue),
           \A l : Serves(l)' => l = k,
           Serves(k)' => Len(clients') = Len(clients) /\ (pc = "RecvMac" \/ Me' = Me),
           \A l \in Conns : l # k => asked'[l] = asked[l]
    PROVE  /\ \E v : Attends(k, v) /\ (SrvQueue # <<>> => v = u)
           /\ net'[k].queue["cli"] = net[k].queue["cli"]
<1>1. /\ k \in Conns /\ net[k] \in Link /\ SrvQueue = Incoming(k) /\ Incoming(k) \in Seq(Unit)
      /\ UNCHANGED backlog
  BY ServerServes, ServerTalk DEF SrvQueue, Incoming, SrvReads
<1>2. PICK n : n = AfterRecv(net[k], "srv", u) /\ SrvUpdate(n)
  BY DEF SrvReads
<1>3. n \in Link
  BY <1>1, <1>2, AfterRecvLemma DEF Ends
<1>4. /\ \A l \in Conns : l # k => net'[l] = net[l]
      /\ Serves(k)' => net'[k] = n
      /\ net'[k].queue["cli"] = n.queue["cli"]
  BY <1>2, <1>3, ServedUpdate
<1>5. n.queue["cli"] = net[k].queue["cli"]
  BY <1>1, <1>2 DEF AfterRecv, Link, Ends
<1>6. CASE SrvQueue # <<>>
  <2>1. n.queue["srv"] = SubSeq(Incoming(k), u + 1, Len(Incoming(k)))
    BY <1>1, <1>2, <1>6 DEF AfterRecv, Link, Ends, Incoming
  <2>2. Serves(k)' => Incoming(k)' = SubSeq(Incoming(k), u + 1, Len(Incoming(k)))
    BY <1>4, <2>1 DEF Incoming
  <2>3. u \in 0..Len(Incoming(k)) /\ u # 0
    BY <1>1, <1>6, LenProperties
  <2>4. Attends(k, u)
    BY <1>1, <1>4, <2>2, <2>3 DEF Attends
  <2> QED
    BY <1>4, <1>5, <2>4
<1>7. CASE SrvQueue = <<>>
  <2>1. n.queue = net[k].queue
    BY <1>1, <1>2, <1>7 DEF AfterRecv, Link, Incoming
  <2>2. Serves(k)' => Incoming(k)' = SubSeq(Incoming(k), 0 + 1, Len(Incoming(k)))
    BY <1>1, <1>4, <2>1, WholeQueue DEF Incoming
  <2>3. 0 \in 0..Len(Incoming(k))
    BY <1>1, LenProperties
  <2>4. Attends(k, 0)
    BY <1>1, <1>4, <1>7, <2>2, <2>3 DEF Attends
  <2> QED
    BY <1>4, <1>5, <1>7, <2>4
<1> QED
  BY <1>6, <1>7

LEMMA AttendsWrites ==
    ASSUME TransferInv, InStepInv, Serving(pc), pc \notin {"Listen", "Dead"}, NEW k, k = S,
           UNCHANGED clientVars, UNCHANGED cur, Doing.t \in {"reply", "stream"},
           NEW units \in Seq(Unit), SrvWrites(units),
           \A l : Serves(l)' => l = k,
           Serves(k)' => Len(clients') = Len(clients) /\ Me' = Me,
           \A l \in Conns : l # k => asked'[l] = asked[l]
    PROVE  /\ Attends(k, 0) /\ Incoming(k) = <<>>
           /\ net[k].end["srv"] = "open" =>
                 net'[k].queue["cli"] = net[k].queue["cli"] \o units
<1>1. /\ k \in Conns /\ net[k] \in Link /\ Incoming(k) \in Seq(Unit) /\ UNCHANGED backlog
  BY ServerServes, ServerTalk DEF Incoming, SrvWrites
<1>2. Incoming(k) = <<>>
  BY <1>1, ServerTalk, RepliesWait DEF Incoming
<1>3. PICK n \in AfterSend(net[k], "srv", units) : SrvUpdate(n)
  BY DEF SrvWrites
<1>4. n \in Link
  BY <1>1, <1>3, AfterSendLemma DEF Ends
<1>5. /\ \A l \in Conns : l # k => net'[l] = net[l]
      /\ Serves(k)' => net'[k] = n
      /\ net'[k].queue["cli"] = n.queue["cli"]
  BY <1>3, <1>4, ServedUpdate
<1>6. /\ n.queue["srv"] = net[k].queue["srv"]
      /\ net[k].end["srv"] = "open" => n.queue["cli"] = net[k].queue["cli"] \o units
  <2>1. PICK m : m = net[k].queue["cli"] \o units
    OBVIOUS
  <2>2. /\ \/ n = [net[k] EXCEPT !.queue["cli"] = net[k].queue["cli"] \o units]
           \/ n = net[k] \/ n = [net[k] EXCEPT !.end["srv"] = "broken"]
        /\ net[k].end["srv"] = "open" =>
              n = [net[k] EXCEPT !.queue["cli"] = net[k].queue["cli"] \o units]
    BY <1>3 DEF AfterSend, Other
  <2>3. /\ \/ n = [net[k] EXCEPT !.queue["cli"] = m]
           \/ n = net[k] \/ n = [net[k] EXCEPT !.end["srv"] = "broken"]
        /\ net[k].end["srv"] = "open" => n = [net[k] EXCEPT !.queue["cli"] = m]
    BY <2>1, <2>2
  <2>4. n.queue["srv"] = net[k].queue["srv"] /\ (net[k].end["srv"] = "open" => n.queue["cli"] = m)
    BY <1>1, <2>3 DEF Link, Ends
  <2> QED
    BY <2>1, <2>4
<1>8. Serves(k)' => Incoming(k)' = SubSeq(Incoming(k), 0 + 1, Len(Incoming(k)))
  BY <1>1, <1>5, <1>6, WholeQueue DEF Incoming
<1>9. 0 \in 0..Len(Incoming(k))
  BY <1>1, LenProperties
<1> QED
  BY <1>1, <1>2, <1>5, <1>6, <1>8, <1>9 DEF Attends

(* With a client there, no call fails and the handle stays.                *)
LEMMA LinkedServed ==
    ASSUME TransferInv, InStepInv, Serving(pc), pc \notin {"Listen", "Dead"}, NEW k, k = S,
           NamesInv(k), NEW c \in Clients, conn[c] = k
    PROVE  /\ status = "Success" /\ net[k].end["srv"] = "open"
           /\ SrvRecv \in Received => SrvRecv = "ok" /\ SrvQueue # <<>>
           /\ \A u : SrvSend(u) \in Sent => SrvSend(u) = "ok"
           /\ Latch("ok") = "Success" /\ ~CheckFail("Success")
           /\ \A cs : AfterCheckFail(cs, "Success") = cs
<1>1. k \in Conns /\ Serves(k) /\ net[k] \in Link
  BY ServerServes
<1>2. status = "Success"
  BY <1>1 DEF NamesInv
<1>3. net[k].end["srv"] = "open"
  BY ServerAlone
<1>4. SrvRecv \in Received => SrvRecv = "ok" /\ SrvQueue # <<>>
  BY <1>3, ErrorKinds DEF SrvRecv, RecvResult, SrvQueue
<1>5. \A u : SrvSend(u) \in Sent => SrvSend(u) = "ok"
  BY <1>3, ErrorKinds DEF SrvSend, SendResult
<1>6. "Success" \notin Removable /\ "ok" \notin Errors
  BY ProtocolAssumption DEF Removable
<1>7. Latch("ok") = "Success"
  BY <1>2, <1>6 DEF Latch
<1>8. ~CheckFail("Success") /\ \A cs : AfterCheckFail(cs, "Success") = cs
  BY <1>6 DEF CheckFail, AfterCheckFail
<1> QED
  BY <1>2, <1>3, <1>4, <1>5, <1>7, <1>8

LEMMA AttendsFacts ==
    ASSUME TransferInv, InStepInv, NEW k, NEW u, Attends(k, u)
    PROVE  /\ k \in Conns /\ k \notin backlog /\ \A l : Serves(l) <=> l = k
           /\ Incoming(k) \in Seq(Unit) /\ Len(Incoming(k)) \in Nat
           /\ u \in Nat /\ u \in 0..Len(Incoming(k))
           /\ UNCHANGED <<at, conn, job, local, said, backlog>>
           /\ Serves(k)' => /\ Incoming(k)' \in Seq(Unit) /\ Len(Incoming(k)') \in Nat
                            /\ Len(Incoming(k)') = Len(Incoming(k)) - u
                            /\ \A i \in 1..Len(Incoming(k)') :
                                  /\ i + u \in 1..Len(Incoming(k))
                                  /\ Incoming(k)'[i] = Incoming(k)[i + u]
<1>1. Serving(pc) /\ pc \notin {"Listen", "Dead"} /\ k = S
  BY DEF Attends
<1>2. k \in Conns /\ \A l : Serves(l) <=> l = k
  BY <1>1, ServerServes
<1>3. k \notin backlog
  BY <1>2 DEF InStepInv, ServiceInv
<1>4. PICK q, rest : q = Incoming(k) /\ rest = SubSeq(q, u + 1, Len(q))
  OBVIOUS
<1>5. q \in Seq(Unit) /\ Len(q) \in Nat /\ u \in 0..Len(q) /\ u \in Nat
  BY <1>1, <1>4, ServerTalk, LenProperties DEF Incoming, Attends
<1>6. /\ rest \in Seq(Unit) /\ Len(rest) = Len(q) - u /\ Len(rest) \in Nat
      /\ \A i \in 1..Len(rest) : rest[i] = q[i + u]
  BY <1>4, <1>5, RestLemma, LenProperties
<1>7. \A i \in 1..Len(rest) : i + u \in 1..Len(q)
  BY <1>5, <1>6
<1>8. Serves(k)' => Incoming(k)' = rest
  BY <1>4 DEF Attends
<1>9. UNCHANGED <<at, conn, job, local, said, backlog>>
  BY DEF Attends, clientVars
<1> QED
  BY <1>2, <1>3, <1>4, <1>5, <1>6, <1>7, <1>8, <1>9

(* A request that waits after the step waited before.                      *)
AsksNext(k, u) ==
    Serves(k)' /\ pc' = "RecvData" /\ packet'.op = "Download" =>
        u = 1 /\ Incoming(k)[1].t = "header" /\ Incoming(k)[1].op = "Download"

LEMMA AttendsRequests ==
    ASSUME TransferInv, InStepInv, NEW k, NEW u, Attends(k, u), AsksNext(k, u), Serves(k)',
           NEW more, more = Incoming(k)', NEW i \in 1..Len(more), Requested(k, i)'
    PROVE  /\ i + u \in 1..Len(Incoming(k)) /\ Requested(k, i + u)
           /\ more[i] = Incoming(k)[i + u] /\ more[i].arg \in Nat
           /\ i = 1 => pc' = "RecvData"
<1>1. PICK q : q = Incoming(k)
  OBVIOUS
<1>2. /\ q \in Seq(Unit) /\ Len(q) \in Nat /\ u \in Nat
      /\ more \in Seq(Unit) /\ Len(more) \in Nat
      /\ \A m \in 1..Len(more) : m + u \in 1..Len(q) /\ more[m] = q[m + u]
  BY <1>1, AttendsFacts
<1>3. /\ more[i].t = "data"
      /\ IF i = 1 THEN pc' = "RecvData" /\ packet'.op = "Download"
         ELSE more[i - 1].t = "header" /\ more[i - 1].op = "Download"
  BY DEF Requested
<1>4. q[i + u].t = "data" /\ q[i + u] \in Unit
  BY <1>2, <1>3, ElementOfSeq
<1>5. more[i].arg \in Nat
  BY <1>2, <1>4 DEF Unit
<1>6. CASE i = 1
  <2>1. u = 1 /\ q[1].t = "header" /\ q[1].op = "Download"
    BY <1>1, <1>3, <1>6 DEF AsksNext
  <2>2. i + u = 2 /\ i + u # 1 /\ (i + u) - 1 = 1
    BY <1>6, <2>1
  <2>3. Requested(k, i + u)
    BY <1>1, <1>4, <2>1, <2>2 DEF Requested
  <2> QED
    BY <1>1, <1>2, <1>3, <1>5, <1>6, <2>3
<1>7. CASE i # 1
  <2>1. i - 1 \in 1..Len(more) /\ (i - 1) + u = (i + u) - 1 /\ i + u # 1
    BY <1>2, <1>7
  <2>2. more[i - 1] = q[(i + u) - 1]
    BY <1>2, <2>1
  <2>3. Requested(k, i + u)
    BY <1>1, <1>3, <1>4, <1>7, <2>1, <2>2 DEF Requested
  <2> QED
    BY <1>1, <1>2, <1>5, <1>7, <2>3
<1> QED
  BY <1>6, <1>7

(* None of them but the first that waited is to resume a download.         *)
LEMMA AttendsNoneEager ==
    ASSUME TransferInv, InStepInv, NEW k, NEW u, Attends(k, u), AsksNext(k, u), Serves(k)',
           EagerInv(k), NEW more, more = Incoming(k)', NEW i \in 2..Len(more), Requested(k, i)'
    PROVE  more[i].arg = 0
<1>1. PICK q : q = Incoming(k)
  OBVIOUS
<1>2. /\ Serves(k) /\ Len(q) \in Nat /\ Len(more) \in Nat /\ u \in Nat
      /\ q = <<>> => Len(q) = 0
  BY <1>1, AttendsFacts
<1>3. i \in 1..Len(more)
  BY <1>2
<1>4. i + u \in 1..Len(q) /\ Requested(k, i + u) /\ more[i] = q[i + u] /\ more[i].arg \in Nat
  BY <1>1, <1>3, AttendsRequests
<1>5. i + u \in 2..Len(q)
  BY <1>2, <1>4
<1>6. q[i + u].arg > 0 => pc = "RecvHeader" /\ i + u = 2
  BY <1>1, <1>2, <1>4, <1>5 DEF EagerInv
<1>7. ASSUME pc = "RecvHeader", i + u = 2 PROVE FALSE
  <2>1. u = 0
    BY <1>2, <1>7
  <2>2. q = <<>>
    BY <1>1, <1>7, <2>1 DEF Attends
  <2> QED
    BY <1>2, <1>4, <2>2
<1>8. ~(more[i].arg > 0)
  BY <1>4, <1>6, <1>7
<1>9. PICK a : a = more[i].arg
  OBVIOUS
<1>10. a \in Nat /\ ~(a > 0)
  BY <1>4, <1>8, <1>9
<1> QED
  BY <1>9, <1>10

LEMMA AttendsEager ==
    ASSUME TransferInv, InStepInv, NEW k, NEW u, Attends(k, u), AsksNext(k, u),
           EagerInv(k), NEW l \in Conns
    PROVE  EagerInv(l)'
<1>1. CASE ~Serves(l)'
  BY <1>1 DEF EagerInv
<1>2. CASE Serves(l)'
  <2>1. l = k
    BY <1>2 DEF Attends
  <2>2. PICK more : more = Incoming(k)'
    OBVIOUS
  <2>3. \A i \in 2..Len(more) : Requested(k, i)' => more[i].arg = 0
    BY <1>2, <2>1, <2>2, AttendsNoneEager
  <2>4. \A i \in 2..Len(more) : Requested(k, i)' => ~(more[i].arg > 0)
    BY <2>3
  <2> QED
    BY <2>1, <2>2, <2>4 DEF EagerInv
<1> QED
  BY <1>1, <1>2

LEMMA AttendsNames ==
    ASSUME TransferInv, InStepInv, NEW k, NEW u, Attends(k, u), \A l \in Conns : NamesInv(l),
           Serves(k)' => /\ pc' # "RecvMac"
                         /\ pc = "RecvMac" => Named(k, Me'.mac)
                         /\ (\E c \in Clients : conn[c] = k) => status' = "Success",
           NEW l \in Conns
    PROVE  NamesInv(l)'
<1>1. /\ k \in Conns /\ k \notin backlog /\ \A x : Serves(x) <=> x = k
      /\ UNCHANGED <<at, conn, job, local, said, backlog>>
  BY AttendsFacts
<1>2. \A x, m : Named(x, m) => Named(x, m)'
  BY <1>1 DEF Named, Elsewhere, Linked
<1>3. CASE l # k
  <2>1. ~Serves(l)' /\ Incoming(l)' = Incoming(l)
    BY <1>3 DEF Attends, Incoming
  <2>2. Awaited(l)' => Awaited(l)
    BY <1>1, <2>1 DEF Awaited
  <2> QED
    BY <1>2, <2>1, <2>2 DEF NamesInv
<1>4. CASE l = k /\ ~Serves(k)'
  <2>1. ~Awaited(k)'
    BY <1>1, <1>4 DEF Awaited
  <2> QED
    BY <1>4, <2>1 DEF NamesInv
<1>5. CASE l = k /\ Serves(k)'
  <2>1. PICK q, more : q = Incoming(k) /\ more = Incoming(k)'
    OBVIOUS
  <2>2. \A i \in 1..Len(more) : i + u \in 1..Len(q) /\ more[i] = q[i + u]
    BY <1>5, <2>1, AttendsFacts
  <2>3. \A i \in 1..Len(q) : q[i].t = "mac" => Named(k, q[i].mac)
    BY <1>1, <2>1 DEF NamesInv, Awaited
  <2>4. \A i \in 1..Len(more) : more[i].t = "mac" => Named(k, more[i].mac)'
    <3> TAKE i \in 1..Len(more)
    <3>1. PICK x : x = q[i + u] /\ x = more[i]
      BY <2>2
    <3>2. x.t = "mac" => Named(k, x.mac)
      BY <2>2, <2>3, <3>1
    <3>3. Named(k, x.mac) => Named(k, more[i].mac)'
      BY <1>1, <3>1 DEF Named, Elsewhere, Linked
    <3> QED
      BY <3>1, <3>2, <3>3
  <2>5. Named(k, Me.mac)'
    <3>1. Named(k, Me'.mac)
      <4>1. CASE pc = "RecvMac"
        BY <1>5, <4>1
      <4>2. CASE pc # "RecvMac"
        BY <1>1, <1>5, <4>2 DEF NamesInv, Attends
      <4> QED
        BY <4>1, <4>2
    <3> QED
      BY <1>1, <3>1 DEF Named, Elsewhere, Linked
  <2>6. (\E c \in Clients : conn'[c] = k) => status' = "Success"
    BY <1>1, <1>5
  <2> QED
    BY <1>5, <2>1, <2>4, <2>5, <2>6 DEF NamesInv
<1> QED
  BY <1>3, <1>4, <1>5

(* What is noted after the step was noted before, up to some position.     *)
NotesOn(k, n, p) ==
    \/ pc' = "Download" /\ n = packet'.name /\ p = packet'.arg
    \/ pc' = "SendChunk" /\ n = dl'.file /\ p = StampPosition'
Keeps(k) ==
    /\ \A s \in stamps' : Noted(s.mac, s.file, s.position)
    /\ Serves(k)' =>
          /\ pc = "RecvMac" => Incoming(k)' = <<>> /\ pc' \notin {"Download", "SendChunk"}
          /\ \A n \in Names, p \in Nat :
                NotesOn(k, n, p) => \E p1 \in Nat : p1 <= p /\ Noted(Me.mac, n, p1)
    /\ \/ UNCHANGED disk
       \/ stamps' = {} /\ pc' \notin {"Download", "SendChunk", "RecvData"}

LEMMA CopyFurther ==
    ASSUME TransferInv, NEW c \in Clients, NEW n \in Names, NEW p \in Nat, NEW p1 \in Nat,
           p1 <= p, Copy(c, n, p1), UNCHANGED local, UNCHANGED disk \/ p1 = 0
    PROVE  Copy(c, n, p)'
<1>1. PICK have, old, new : have = Kept(c, n) /\ old = Hosted(n) /\ new = Hosted(n)'
  OBVIOUS
<1>2. have \in Seq(Blocks) /\ Len(have) \in Nat /\ Kept(c, n)' = have
  BY <1>1, KeptLemma DEF Kept
<1>3. Begins(have, old) /\ Len(have) <= p1
  BY <1>1 DEF Copy
<1>4. Len(have) <= p
  BY <1>2, <1>3
<1>5. Len(old) \in Nat
  BY <1>1, KeptLemma
<1>6. Begins(have, new)
  <2>1. CASE UNCHANGED disk
    BY <1>1, <1>3, <2>1 DEF Hosted
  <2>2. CASE p1 = 0
    <3>1. Len(have) = 0
      BY <1>2, <1>3, <2>2
    <3>2. have = <<>>
      BY <1>2, <3>1, EmptySeq
    <3> QED
      BY <3>1, <3>2 DEF Begins
  <2> QED
    BY <2>1, <2>2
<1> QED
  BY <1>1, <1>2, <1>4, <1>6 DEF Copy

LEMMA AttendsNoted ==
    ASSUME TransferInv, InStepInv, NEW k, NEW u, Attends(k, u), AsksNext(k, u), Keeps(k),
           EagerInv(k), NEW m \in Macs, NEW n \in Names, NEW p \in Nat, Noted(m, n, p)'
    PROVE  \E p1 \in Nat : p1 <= p /\ Noted(m, n, p1) /\ (UNCHANGED disk \/ p1 = 0)
<1>1. k \in Conns /\ Serves(k) /\ p <= p
  BY AttendsFacts
<1>2. CASE [mac |-> m, file |-> n, position |-> p] \in stamps'
  <2>1. PICK s \in stamps' : s = [mac |-> m, file |-> n, position |-> p]
    BY <1>2
  <2>2. Noted(s.mac, s.file, s.position)
    BY DEF Keeps
  <2>3. UNCHANGED disk
    BY <1>2 DEF Keeps
  <2>4. Noted(m, n, p)
    BY <2>1, <2>2
  <2> QED
    BY <1>1, <2>3, <2>4
<1>3. CASE [mac |-> m, file |-> n, position |-> p] \notin stamps'
  <2>1. PICK l \in Conns :
           /\ Serves(l)' /\ m = Me'.mac
           /\ \/ NotesOn(k, n, p)
              \/ \E i \in 1..Len(Incoming(l)') :
                    Requested(l, i)' /\ n = Incoming(l)'[i].name /\ p = Incoming(l)'[i].arg
    BY <1>3 DEF Noted, NotesOn
  <2>2. l = k
    BY <2>1 DEF Attends
  <2>3. PICK more, q : more = Incoming(k)' /\ q = Incoming(k)
    OBVIOUS
  <2>4. CASE NotesOn(k, n, p)
    <3>1. pc' \in {"Download", "SendChunk"}
      BY <2>4 DEF NotesOn
    <3>2. pc # "RecvMac" /\ UNCHANGED disk
      BY <2>1, <2>2, <3>1 DEF Keeps
    <3>3. Me' = Me
      BY <2>1, <2>2, <3>2 DEF Attends
    <3>4. \E p1 \in Nat : p1 <= p /\ Noted(Me.mac, n, p1)
      BY <2>1, <2>2, <2>4 DEF Keeps
    <3> QED
      BY <2>1, <3>2, <3>3, <3>4
  <2>5. ASSUME NEW i \in 1..Len(more), Requested(k, i)', n = more[i].name, p = more[i].arg
        PROVE  \E p1 \in Nat : p1 <= p /\ Noted(m, n, p1) /\ (UNCHANGED disk \/ p1 = 0)
    <3>1. /\ i + u \in 1..Len(q) /\ Requested(k, i + u) /\ more[i] = q[i + u]
          /\ i = 1 => pc' = "RecvData"
      BY <2>1, <2>2, <2>3, <2>5, AttendsRequests
    <3>2. pc # "RecvMac"
      <4>1. ASSUME more = <<>> PROVE FALSE
        <5>1. Len(more) = 0
          BY <4>1
        <5> QED
          BY <2>5, <5>1
      <4> QED
        BY <2>1, <2>2, <2>3, <4>1 DEF Keeps
    <3>3. m = Me.mac
      BY <2>1, <2>2, <3>2 DEF Attends
    <3>4. Noted(m, n, p)
      BY <1>1, <2>3, <2>5, <3>1, <3>3 DEF Noted
    <3>5. CASE UNCHANGED disk
      BY <1>1, <3>4, <3>5
    <3>6. CASE ~UNCHANGED disk
      <4>1. i # 1
        BY <3>1, <3>6 DEF Keeps
      <4>2. Len(more) \in Nat
        BY <2>1, <2>2, <2>3, AttendsFacts
      <4>3. i \in 2..Len(more)
        BY <4>1, <4>2
      <4>4. more[i].arg = 0
        BY <2>1, <2>2, <2>3, <2>5, <4>3, AttendsNoneEager
      <4> QED
        BY <1>1, <2>5, <3>4, <4>4
    <3> QED
      BY <3>5, <3>6
  <2> QED
    BY <2>1, <2>2, <2>3, <2>4, <2>5
<1> QED
  BY <1>2, <1>3

LEMMA AttendsNotes ==
    ASSUME TransferInv, InStepInv, NEW k, NEW u, Attends(k, u), AsksNext(k, u), Keeps(k),
           EagerInv(k), NotesInv
    PROVE  NotesInv'
<1>1. UNCHANGED local
  BY AttendsFacts
<1>2. ASSUME NEW m \in Macs, NEW n \in Names, NEW p \in Nat, Noted(m, n, p)'
      PROVE  Flat(n) /\ \A c \in Clients : MacOf[c] = m => Copy(c, n, p)'
  <2>1. PICK p1 \in Nat : p1 <= p /\ Noted(m, n, p1) /\ (UNCHANGED disk \/ p1 = 0)
    BY <1>2, AttendsNoted
  <2>2. Flat(n) /\ \A c \in Clients : MacOf[c] = m => Copy(c, n, p1)
    BY <2>1 DEF NotesInv
  <2>3. \A c \in Clients : Copy(c, n, p1) => Copy(c, n, p)'
    BY <1>1, <2>1, CopyFurther
  <2> QED
    BY <2>2, <2>3
<1> QED
  BY <1>2 DEF NotesInv

-----------------------------------------------------------------------------
(* The steps of the server: the dialogue.                                  *)

(* With a client whose connection it does not attend to afterwards.        *)
LEMMA UnservedDialogue ==
    ASSUME UNCHANGED <<at, conn, job, local>>, NEW d, NEW l, l = conn[d], ~Serves(l)',
           l \in Conns => net'[l].queue["cli"] = net[l].queue["cli"] /\ asked'[l] = asked[l],
           DialogueInv(d)
    PROVE  DialogueInv(d)'
<1>1. CASE Linked(d)
  <2>1. StartInv(d) /\ GetsInv(d) /\ l \in Conns
    BY <1>1 DEF DialogueInv, Linked
  <2>2. StartInv(d)'
    BY <2>1 DEF StartInv, Kept
  <2>3. Queue(d)' = Queue(d) /\ Kept(d, job[d].file)' = Kept(d, job[d].file)
    BY <2>1 DEF Queue, Kept
  <2>4. \A i, rest : Gets(d, i, rest) => Gets(d, i, rest)'
    BY <2>1, <2>3 DEF Gets
  <2>5. GetsInv(d)'
    BY <2>1, <2>3, <2>4 DEF GetsInv
  <2> QED
    BY <2>2, <2>5 DEF DialogueInv
<1>2. CASE ~Linked(d)
  BY <1>2 DEF DialogueInv, Linked
<1> QED
  BY <1>1, <1>2

LEMMA AttendsElsewhere ==
    ASSUME TransferInv, InStepInv, NEW k, NEW u, Attends(k, u),
           NEW d \in Clients, conn[d] # k, DialogueInv(d)
    PROVE  DialogueInv(d)'
<1>1. UNCHANGED <<at, conn, job, local>>
  BY AttendsFacts
<1>2. PICK l : l = conn[d]
  OBVIOUS
<1>3. ~Serves(l)'
  BY <1>2 DEF Attends
<1>4. l \in Conns => net'[l].queue["cli"] = net[l].queue["cli"] /\ asked'[l] = asked[l]
  BY <1>2 DEF Attends
<1> QED
  BY <1>1, <1>2, <1>3, <1>4, UnservedDialogue

(* With the client whose connection it reads, or has read.                 *)
LEMMA ReadsDialogue ==
    ASSUME TransferInv, InStepInv, NEW k, NEW u, Attends(k, u), AsksNext(k, u),
           NEW c \in Clients, conn[c] = k, DialogueInv(c), Serves(k)',
           net'[k].queue["cli"] = net[k].queue["cli"],
           Incoming(k) # <<>> \/ pc = "Upload",
           pc' = "Download" => /\ Requested(k, 1) /\ Incoming(k) # <<>>
                               /\ packet'.name = Incoming(k)[1].name
                               /\ packet'.arg = Incoming(k)[1].arg,
           at[c] = "downloadData" /\ pc = "RecvHeader" /\ Len(Incoming(k)) = 1 =>
              pc' = "RecvData" /\ u = 1 /\ UNCHANGED disk
    PROVE  DialogueInv(c)'
<1>1. /\ k \in Conns /\ Serves(k) /\ UNCHANGED <<at, conn, job, local>> /\ u \in Nat
  BY AttendsFacts
<1>2. PICK q, more : q = Incoming(k) /\ more = Incoming(k)'
  OBVIOUS
<1>3. /\ q \in Seq(Unit) /\ Len(q) \in Nat /\ more \in Seq(Unit) /\ Len(more) \in Nat
      /\ Len(more) = Len(q) - u
  BY <1>2, AttendsFacts
<1>4. /\ Linked(c) /\ StartInv(c) /\ GetsInv(c)
      /\ PromptInv(c) /\ AskingInv(c) /\ MatchInv(c) /\ QuietInv(c)
  BY <1>1 DEF DialogueInv, ServedInv, Linked
<1>5. Queue(c)' = Queue(c) /\ conn'[c] = k
  BY <1>1 DEF Queue
<1>6. ~HasReply(c)
  BY <1>2, <1>4 DEF QuietInv
<1>7. Offers(c) = {}
  BY <1>4 DEF PromptInv
<1>8. StartInv(c)'
  BY <1>1, <1>4 DEF StartInv, Kept
<1>9. GetsInv(c)' /\ QuietInv(c)'
  BY <1>1, <1>5, <1>6 DEF GetsInv, QuietInv, HasReply
<1>10. PromptInv(c)'
  <2>1. Offers(c)' = Offers(c)
    BY <1>1, <1>5 DEF Offers
  <2> QED
    BY <1>7, <2>1 DEF PromptInv
<1>11. AskingInv(c)'
  <2>1. CASE at[c] \in {"downloadHeader", "downloadData"} /\ job[c].start > 0
    <3>1. Flat(job[c].file) /\ Resumes(c) /\ Begins(Kept(c, job[c].file), Hosted(job[c].file))
      BY <1>4, <2>1 DEF AskingInv
    <3>2. at[c] = "downloadData" /\ pc = "RecvHeader" /\ Len(q) = 1
      BY <1>2, <3>1 DEF Resumes
    <3>3. pc' = "RecvData" /\ u = 1 /\ UNCHANGED disk
      BY <1>2, <3>2
    <3>4. Len(more) = 0
      BY <1>3, <3>2, <3>3
    <3>5. more = <<>>
      BY <1>3, <3>4, EmptySeq
    <3>6. Resumes(c)'
      BY <1>1, <1>2, <1>5, <3>2, <3>3, <3>5 DEF Resumes
    <3>7. Kept(c, job[c].file)' = Kept(c, job[c].file) /\ Hosted(job[c].file)' = Hosted(job[c].file)
      BY <1>1, <3>3 DEF Kept, Hosted
    <3>8. Begins(Kept(c, job[c].file), Hosted(job[c].file))'
      BY <3>1, <3>7 DEF Begins
    <3> QED
      BY <1>1, <3>1, <3>6, <3>8 DEF AskingInv
  <2>2. CASE ~(at[c] \in {"downloadHeader", "downloadData"} /\ job[c].start > 0)
    BY <1>1, <1>4, <2>2 DEF AskingInv
  <2> QED
    BY <2>1, <2>2
<1>12. MatchInv(c)'
  <2>1. CASE at[c] = "recvResponse" /\ Queue(c) = <<>>
    <3>1. \A i \in 1..Len(q) : Requested(k, i) => q[i].name = job[c].file /\ q[i].arg = job[c].start
      BY <1>2, <1>4, <2>1 DEF MatchInv
    <3>2. pc' = "Download" => packet'.name = job[c].file /\ packet'.arg = job[c].start
      <4>1. ASSUME pc' = "Download" PROVE 1 \in 1..Len(q)
        <5>1. q # <<>>
          BY <1>2, <4>1
        <5>2. Len(q) # 0
          BY <1>3, <5>1, EmptySeq
        <5> QED
          BY <1>3, <5>2
      <4> QED
        BY <1>2, <3>1, <4>1
    <3>3. ASSUME NEW i \in 1..Len(more), Requested(k, i)'
          PROVE  more[i].name = job[c].file /\ more[i].arg = job[c].start
      <4>1. i + u \in 1..Len(q) /\ Requested(k, i + u) /\ more[i] = q[i + u]
        BY <1>2, <3>3, AttendsRequests
      <4> QED
        BY <3>1, <4>1
    <3> QED
      BY <1>1, <1>2, <3>2, <3>3 DEF MatchInv
  <2>2. CASE ~(at[c] = "recvResponse" /\ Queue(c) = <<>>)
    BY <1>1, <1>5, <2>2 DEF MatchInv
  <2> QED
    BY <2>1, <2>2
<1> QED
  BY <1>8, <1>9, <1>10, <1>11, <1>12 DEF DialogueInv, ServedInv

(* Whoever a stamp is for is not being sent a file.                        *)
Remembers(k) ==
    \A s \in stamps', c \in Clients : MacOf[c] = s.mac =>
        \/ conn[c] # k /\ (s \in stamps \/ Elsewhere(c, k))
        \/ conn[c] = k /\ Serves(k)' /\ pc' \in {"Greet", "SendStamp"}

LEMMA AttendsAway ==
    ASSUME TransferInv, InStepInv, NEW k, NEW u, Attends(k, u), AwayInv, Remembers(k)
    PROVE  AwayInv'
<1>1. /\ \A l : Serves(l) <=> l = k
      /\ UNCHANGED <<at, conn, job, local, said, backlog>>
  BY AttendsFacts
<1>2. ASSUME NEW s \in stamps', NEW c \in Clients, MacOf[c] = s.mac PROVE Away(c)'
  <2>1. CASE conn[c] # k /\ (s \in stamps \/ Elsewhere(c, k))
    <3>1. ~Linked(c) \/ conn[c] \in backlog
      BY <1>1, <1>2, <2>1 DEF AwayInv, Away, Elsewhere
    <3> QED
      BY <1>1, <3>1 DEF Away, Linked
  <2>2. CASE conn[c] = k /\ Serves(k)' /\ pc' \in {"Greet", "SendStamp"}
    BY <1>1, <2>2 DEF Away
  <2> QED
    BY <1>2, <2>1, <2>2 DEF Remembers
<1> QED
  BY <1>2 DEF AwayInv

(* Everything that a step with a connection has to show.                   *)
Recognizes(k) ==
    Serves(k)' => /\ pc' # "RecvMac"
                  /\ pc = "RecvMac" => Named(k, Me'.mac)
                  /\ (\E c \in Clients : conn[c] = k) => status' = "Success"
Goes(k, u) ==
    Attends(k, u) /\ AsksNext(k, u) /\ Keeps(k) /\ Recognizes(k) /\ Remembers(k)

LEMMA AttendsDownloads ==
    ASSUME TransferInv, InStepInv, DownloadsInv, NEW k, NEW u, Goes(k, u),
           \A c \in Clients : conn[c] = k => DialogueInv(c)'
    PROVE  DownloadsInv'
<1>1. Attends(k, u) /\ AsksNext(k, u) /\ Keeps(k) /\ Recognizes(k) /\ Remembers(k)
  BY DEF Goes
<1>2. k \in Conns /\ UNCHANGED <<at, conn, job, local, said, backlog>>
  BY <1>1, AttendsFacts
<1>3. QueueInv' /\ SaidInv'
  BY <1>2 DEF DownloadsInv, QueueInv, SaidInv, Downloading
<1>4. NotesInv'
  BY <1>1, <1>2, AttendsNotes DEF DownloadsInv
<1>5. AwayInv'
  BY <1>1, AttendsAway DEF DownloadsInv
<1>6. \A l \in Conns : NamesInv(l)
  BY DEF DownloadsInv
<1>7. \A l \in Conns : NamesInv(l)'
  BY <1>1, <1>6, AttendsNames DEF Recognizes
<1>8. \A l \in Conns : EagerInv(l)'
  BY <1>1, <1>2, AttendsEager DEF DownloadsInv
<1>9. ASSUME NEW c \in Clients, conn[c] # k PROVE DialogueInv(c)'
  BY <1>1, <1>9, AttendsElsewhere DEF DownloadsInv
<1> QED
  BY <1>3, <1>4, <1>5, <1>7, <1>8, <1>9 DEF DownloadsInv

(* A client that waits to be greeted, or for the answer to an Echo.        *)
LEMMA GreetedDialogue ==
    ASSUME NEW c, at'[c] = "recvGreeting", Len(Queue(c)') # 2 PROVE DialogueInv(c)'
<1>1. Offers(c)' = {}
  BY DEF Offers
<1>2. StartInv(c)' /\ GetsInv(c)'
  BY DEF StartInv, GetsInv
<1>3. PromptInv(c)' /\ AskingInv(c)' /\ MatchInv(c)' /\ QuietInv(c)'
  BY <1>1 DEF PromptInv, AskingInv, MatchInv, QuietInv, HasReply
<1> QED
  BY <1>2, <1>3 DEF DialogueInv, ServedInv

LEMMA NoStamps ==
    ASSUME TransferInv, pc \in HandlePlaces PROVE stamps = {}
  BY DEF TransferInv, IInv, StampInv

LEMMA RecvMacDownloads ==
    ASSUME TransferInv, InStepInv, DownloadsInv, UNCHANGED clientVars, TcpRecvMac
    PROVE  DownloadsInv'
<1>1. /\ Serving("RecvMac") /\ Serving(pc) /\ pc = "RecvMac" /\ SrvReads(1)
      /\ SrvRecv \in Received /\ UNCHANGED asked
  BY DEF TcpRecvMac, Serving
<1>2. PICK m \in IF SrvRecv = "ok" THEN MacsIn(Head(SrvQueue)) ELSE {ZeroMac} :
         RecvMac(SrvRecv, m)
  BY DEF TcpRecvMac
<1>3. PICK cs, st : /\ cs = IF SrvRecv = "ok"
                            THEN [clients EXCEPT ![cur] = [conn |-> Me.conn, mac |-> m]]
                            ELSE clients
                    /\ st = Latch(SrvRecv)
                    /\ clients' = AfterCheckFail(cs, st)
                    /\ pc' = IF CheckFail(st) THEN "Listen" ELSE "Greet"
                    /\ status' = "Success"
                    /\ UNCHANGED <<cur, packet, stamps, disk, dl, ul>>
  BY <1>2 DEF RecvMac
<1>4. PICK k : k = S
  OBVIOUS
<1>5. /\ clients \in Seq(Handle) /\ clients[cur].conn = k /\ k \in Conns
      /\ cur \in 1..Len(clients) /\ Len(clients) \in Nat /\ cur = Len(clients)
      /\ Serves(k) /\ NamesInv(k)
  BY <1>1, <1>4, ServedKept, ServerServes DEF Serving, DownloadsInv
<1>6. m \in Macs
  <2>1. SrvRecv = "ok" => Head(SrvQueue) \in Unit
    BY <1>1, ServedLemma DEF TransferInv
  <2> QED
    BY <1>2, <2>1, ServerAssumption DEF MacsIn, Unit
<1>7. /\ cs \in Seq(Handle) /\ Len(cs) = Len(clients) /\ cs[cur].conn = k
      /\ cs[cur].mac = IF SrvRecv = "ok" THEN m ELSE Me.mac
  <2>1. [conn |-> Me.conn, mac |-> m] \in Handle
    BY <1>4, <1>5, <1>6 DEF Handle, S
  <2>2. CASE SrvRecv = "ok"
    BY <1>3, <1>4, <1>5, <2>1, <2>2, ExceptSeq DEF S
  <2>3. CASE SrvRecv # "ok"
    BY <1>3, <1>5, <2>3 DEF Me
  <2> QED
    BY <2>2, <2>3
<1>8. ASSUME NEW l, Serves(l)' PROVE clients' = cs /\ Me' = cs[cur] /\ l = k
  <2>1. cur \in 1..Len(clients') /\ Me'.conn = l
    BY <1>3, <1>8 DEF Serves
  <2>2. clients' = cs \/ Len(clients') = Len(cs) - 1
    BY <1>3, <1>5, <1>7, SwapRemoveLemma DEF AfterCheckFail
  <2>3. clients' = cs
    BY <1>5, <1>7, <2>1, <2>2
  <2>4. Me' = cs[cur]
    BY <1>3, <2>3 DEF Me
  <2> QED
    BY <1>7, <2>1, <2>3, <2>4
<1>9. SrvQueue = Incoming(k) /\ Incoming(k) \in Seq(Unit)
  BY <1>1, <1>4, ServedLemma DEF SrvQueue, Incoming, TransferInv
<1>10. SrvQueue # <<>> => 1 \in 1..Len(SrvQueue)
  BY <1>9, LenProperties, EmptySeq
<1>11. /\ \E v : Attends(k, v) /\ (SrvQueue # <<>> => v = 1)
       /\ net'[k].queue["cli"] = net[k].queue["cli"]
  BY <1>1, <1>3, <1>4, <1>7, <1>8, <1>10, AttendsReads
<1>12. PICK v : Attends(k, v) /\ (SrvQueue # <<>> => v = 1)
  BY <1>11
<1>13. ASSUME NEW c \in Clients, conn[c] = k
       PROVE  SrvRecv = "ok" /\ Serves(k)' /\ pc' = "Greet"
  <2>1. /\ SrvRecv = "ok" /\ Latch("ok") = "Success" /\ ~CheckFail("Success")
        /\ \A x : AfterCheckFail(x, "Success") = x
    BY <1>1, <1>4, <1>5, <1>13, LinkedServed
  <2>2. clients' = cs /\ pc' = "Greet"
    BY <1>3, <2>1
  <2> QED
    BY <1>3, <1>5, <1>7, <2>1, <2>2 DEF Serves, Me
<1>14. Serves(k)' => Incoming(k)' = <<>>
  <2>1. PICK q, more : q = Incoming(k) /\ more = Incoming(k)'
    OBVIOUS
  <2>2. Doing = WantMac
    BY <1>1 DEF Doing
  <2>3. PICK y : Leads(q, WantMac, y)
    BY <1>1, <1>4, <2>1, <2>2, ServerTalk DEF Incoming
  <2>4. q = <<>> \/ Len(q) = 1
    BY <1>9, <2>1, <2>3, MacFirst
  <2>5. q = <<>> => Len(q) = 0
    OBVIOUS
  <2>6. v \in 0..Len(q) /\ (q # <<>> => v = 1)
    BY <1>9, <1>12, <2>1, AttendsFacts
  <2>7. v = Len(q)
    <3>1. CASE q = <<>>
      <4>1. v \in 0..0
        BY <2>5, <2>6, <3>1
      <4> QED
        BY <2>5, <3>1, <4>1
    <3>2. CASE q # <<>>
      BY <2>4, <2>6, <3>2
    <3> QED
      BY <3>1, <3>2
  <2>8. Serves(k)' => more \in Seq(Unit) /\ Len(more) = Len(q) - v /\ Len(q) \in Nat
    BY <1>12, <2>1, AttendsFacts
  <2>9. Serves(k)' => Len(more) = 0
    BY <2>7, <2>8
  <2> QED
    BY <2>1, <2>8, <2>9, EmptySeq
<1>15. ASSUME Serves(k)' PROVE Named(k, Me'.mac)
  <2>1. Me'.mac = IF SrvRecv = "ok" THEN m ELSE Me.mac
    BY <1>7, <1>8, <1>15
  <2>2. CASE SrvRecv = "ok"
    <3>1. SrvQueue # <<>>
      BY <2>2 DEF SrvRecv, SrvQueue, RecvResult
    <3>2. Head(SrvQueue).t = "mac"
      BY <1>1, <3>1, ReadsRight DEF Doing, WantMac, Want
    <3>3. m = Head(SrvQueue).mac
      BY <1>2, <2>2, <3>2 DEF MacsIn
    <3>4. 1 \in 1..Len(Incoming(k)) /\ Head(SrvQueue) = Incoming(k)[1]
      BY <1>9, <1>10, <3>1
    <3>5. Named(k, Incoming(k)[1].mac)
      BY <1>5, <3>2, <3>4 DEF NamesInv, Awaited
    <3> QED
      BY <2>1, <2>2, <3>3, <3>4, <3>5
  <2>3. CASE SrvRecv # "ok"
    <3>1. \A c \in Clients : conn[c] # k
      BY <1>13, <2>3
    <3>2. Me'.mac = ZeroMac
      BY <1>1, <1>5, <2>1, <2>3 DEF NamesInv
    <3>3. \A c \in Clients : MacOf[c] # ZeroMac
      BY TransferAssumption
    <3> QED
      BY <3>1, <3>2, <3>3 DEF Named
  <2> QED
    BY <2>2, <2>3
<1>16. Goes(k, v)
  <2>1. AsksNext(k, v) /\ pc' \notin {"Download", "SendChunk", "RecvMac"}
    BY <1>3 DEF AsksNext
  <2>2. \A s \in stamps' : s \in stamps /\ Noted(s.mac, s.file, s.position)
    <3> TAKE s \in stamps'
    <3>1. s \in stamps /\ s \in Stamp
      BY <1>3 DEF TransferInv, IInv, TypeOK
    <3>2. s = [mac |-> s.mac, file |-> s.file, position |-> s.position]
      BY <3>1 DEF Stamp
    <3> QED
      BY <3>1, <3>2 DEF Noted
  <2>3. Keeps(k)
    BY <1>3, <1>14, <2>1, <2>2 DEF Keeps, NotesOn
  <2>4. Recognizes(k)
    BY <1>3, <1>15, <2>1 DEF Recognizes
  <2>5. Remembers(k)
    BY <1>13, <2>2 DEF Remembers
  <2> QED
    BY <1>12, <2>1, <2>3, <2>4, <2>5 DEF Goes
<1>17. ASSUME NEW c \in Clients, conn[c] = k PROVE DialogueInv(c)'
  <2>1. at[c] = "sendMac" \/ (at[c] = "recvGreeting" /\ Queue(c) = <<>>)
    BY <1>1, <1>5, <1>17, NewClient
  <2>2. UNCHANGED <<at, conn>>
    BY DEF clientVars
  <2>3. Queue(c)' = Queue(c)
    BY <1>11, <1>17, <2>2 DEF Queue
  <2>4. CASE at[c] = "sendMac"
    BY <2>2, <2>4, NextNoDialogue DEF Dialogue
  <2>5. CASE at[c] = "recvGreeting" /\ Queue(c) = <<>>
    <3>1. Len(Queue(c)') # 2
      BY <2>3, <2>5
    <3> QED
      BY <2>2, <2>5, <3>1, GreetedDialogue
  <2> QED
    BY <2>1, <2>4, <2>5
<1> QED
  BY <1>16, <1>17, AttendsDownloads

(* With a client whose connection the server gives up.                     *)
LEMMA LeftDialogue ==
    ASSUME TransferInv, InStepInv, NEW k, NEW u, Attends(k, u),
           NEW c \in Clients, conn[c] = k, DialogueInv(c), ~Serves(k)',
           net'[k].queue["cli"] = net[k].queue["cli"], asked'[k] = asked[k]
    PROVE  DialogueInv(c)'
<1>1. /\ k \in Conns /\ Serves(k) /\ UNCHANGED <<at, conn, job, local>>
  BY AttendsFacts
<1>2. Linked(c) /\ StartInv(c) /\ GetsInv(c)
  BY <1>1 DEF DialogueInv, Linked
<1>3. Queue(c)' = Queue(c) /\ conn'[c] = k
  BY <1>1 DEF Queue
<1>4. StartInv(c)'
  BY <1>1, <1>2 DEF StartInv, Kept
<1>5. Kept(c, job[c].file)' = Kept(c, job[c].file)
  BY <1>1 DEF Kept
<1>6. \A i, rest : Gets(c, i, rest) => Gets(c, i, rest)'
  BY <1>1, <1>3, <1>5 DEF Gets
<1>7. GetsInv(c)'
  BY <1>1, <1>2, <1>3, <1>6 DEF GetsInv
<1> QED
  BY <1>3, <1>4, <1>7 DEF DialogueInv

(* The server reads the first part of a request that resumes a download.   *)
LEMMA RequestHeader ==
    ASSUME TransferInv, InStepInv, NEW c \in Clients, NEW k, k = conn[c], Serves(k),
           pc = "RecvHeader", at[c] = "downloadData", Len(Incoming(k)) = 1
    PROVE  HasData(Head(Incoming(k)).op)
<1>1. PICK q, y : q = Incoming(k) /\ y = Gives(at[c], job[c].left, Queue(c))
  OBVIOUS
<1>2. q \in Seq(Unit) /\ Leads(q, WantHeader, y)
  BY <1>1, ServedClient DEF Doing
<1>3. y = WantData("Download")
  BY <1>1 DEF Gives
<1>4. q # <<>>
  <2>1. q = <<>> => Len(q) = 0
    OBVIOUS
  <2> QED
    BY <1>1, <2>1
<1>5. PICK rest, u, x : rest = SubSeq(q, 2, Len(q)) /\ u = Head(q) /\ x = AfterUnit(WantHeader, u)
  OBVIOUS
<1>6. Leads(rest, x, y) /\ rest = <<>>
  <2>1. SubSeq(q, 1 + 1, Len(q)) = <<>>
    BY <1>1, <1>2, <1>4, TailLemma
  <2> QED
    BY <1>2, <1>4, <1>5, <2>1, FirstLeads
<1>7. x = WantData("Download")
  BY <1>3, <1>6, LeadsNowhere
<1>8. x = AfterOp(u.op)
  <2>1. WantHeader.t = "header"
    BY DEF WantHeader, Want
  <2> QED
    BY <1>5, <2>1, AfterRequest
<1>9. \A op : AfterOp(op) = WantData("Download") => HasData(op)
  BY DEF AfterOp, WantData, Owes, WantHeader, Want
<1> QED
  BY <1>1, <1>5, <1>7, <1>8, <1>9

LEMMA RecvHeaderDownloads ==
    ASSUME TransferInv, InStepInv, DownloadsInv, UNCHANGED clientVars, TcpRecvHeader
    PROVE  DownloadsInv'
<1>1. /\ Serving("RecvHeader") /\ Serving(pc) /\ pc = "RecvHeader" /\ SrvReads(1)
      /\ SrvRecv \in Received /\ UNCHANGED asked
  BY DEF TcpRecvHeader, Serving
<1>2. PICK op \in IF SrvRecv = "ok" THEN OpsIn(Head(SrvQueue)) ELSE {"None"} :
         RecvHeader(SrvRecv, op, HasData(op), 0, SomeName)
  BY DEF TcpRecvHeader
<1>3. /\ UNCHANGED <<cur, stamps, disk, dl, ul>> /\ pc' \in {"Listen", "RecvData", "Reply"}
      /\ pc' = "RecvData" => SrvRecv = "ok" /\ packet'.op = op
      /\ SrvRecv = "ok" => UNCHANGED status /\ (HasData(op) => pc' = "RecvData")
  BY <1>2, ErrorKinds DEF RecvHeader, AfterHeader, Handler, HasData, NoPacket
<1>4. UNCHANGED clients \/ \E st : clients' = AfterCheckFail(clients, st)
  BY <1>2 DEF RecvHeader
<1>5. PICK k : k = S
  OBVIOUS
<1>6. k \in Conns /\ Serves(k) /\ NamesInv(k)
  BY <1>1, <1>5, ServerServes DEF DownloadsInv
<1>7. SrvQueue = Incoming(k) /\ Incoming(k) \in Seq(Unit)
  BY <1>1, <1>5, ServedLemma DEF SrvQueue, Incoming, TransferInv
<1>8. SrvQueue # <<>> => 1 \in 1..Len(SrvQueue) /\ Head(SrvQueue) = SrvQueue[1]
  BY <1>7, LenProperties, EmptySeq
<1>9. /\ \A l : Serves(l)' => l = k
      /\ Serves(k)' => Len(clients') = Len(clients) /\ Me' = Me
  BY <1>1, <1>3, <1>4, <1>5, StaysServed
<1>10. /\ \E v : Attends(k, v) /\ (SrvQueue # <<>> => v = 1)
       /\ net'[k].queue["cli"] = net[k].queue["cli"]
  BY <1>1, <1>3, <1>5, <1>8, <1>9, AttendsReads
<1>11. PICK v : Attends(k, v) /\ (SrvQueue # <<>> => v = 1)
  BY <1>10
<1>12. SrvRecv = "ok" => /\ SrvQueue # <<>> /\ Head(SrvQueue).t = "header"
                         /\ op = Head(SrvQueue).op /\ Head(SrvQueue) = Incoming(k)[1]
  <2>1. ASSUME SrvRecv = "ok" PROVE SrvQueue # <<>>
    BY <2>1 DEF SrvRecv, SrvQueue, RecvResult
  <2>2. ASSUME SrvRecv = "ok" PROVE Head(SrvQueue).t = "header"
    BY <1>1, <2>1, <2>2, ReadsRight DEF Doing, WantHeader, Want
  <2> QED
    BY <1>2, <1>7, <1>8, <2>1, <2>2 DEF OpsIn
<1>13. stamps' = {}
  BY <1>1, <1>3, NoStamps DEF HandlePlaces
<1>14. ASSUME NEW c \in Clients, conn[c] = k
       PROVE  SrvRecv = "ok" /\ SrvQueue # <<>> /\ status' = "Success"
  BY <1>1, <1>3, <1>5, <1>6, <1>14, LinkedServed
<1>15. Goes(k, v)
  <2>1. AsksNext(k, v)
    BY <1>3, <1>11, <1>12 DEF AsksNext
  <2>2. Keeps(k)
    BY <1>1, <1>3, <1>13 DEF Keeps, NotesOn
  <2>3. Recognizes(k) /\ Remembers(k)
    BY <1>1, <1>3, <1>13, <1>14 DEF Recognizes, Remembers
  <2> QED
    BY <1>11, <2>1, <2>2, <2>3 DEF Goes
<1>16. ASSUME NEW c \in Clients, conn[c] = k PROVE DialogueInv(c)'
  <2>1. DialogueInv(c)
    BY DEF DownloadsInv
  <2>2. CASE ~Serves(k)'
    BY <1>1, <1>10, <1>11, <1>16, <2>1, <2>2, LeftDialogue
  <2>3. CASE Serves(k)'
    <3>1. SrvRecv = "ok" /\ SrvQueue # <<>> /\ v = 1
      BY <1>11, <1>14, <1>16
    <3>2. at[c] = "downloadData" /\ Len(Incoming(k)) = 1 => pc' = "RecvData"
      BY <1>1, <1>3, <1>6, <1>7, <1>12, <1>16, <3>1, RequestHeader
    <3>3. pc' # "Download" /\ UNCHANGED disk /\ AsksNext(k, v) /\ Incoming(k) # <<>>
      BY <1>3, <1>7, <1>15, <3>1 DEF Goes
    <3> QED
      BY <1>10, <1>11, <1>16, <2>1, <2>3, <3>1, <3>2, <3>3, ReadsDialogue
  <2> QED
    BY <2>2, <2>3
<1> QED
  BY <1>15, <1>16, AttendsDownloads

LEMMA RecvDataDownloads ==
    ASSUME TransferInv, InStepInv, DownloadsInv, UNCHANGED clientVars, TcpRecvData
    PROVE  DownloadsInv'
<1>1. /\ Serving("RecvData") /\ Serving(pc) /\ pc = "RecvData" /\ SrvReads(1)
      /\ SrvRecv \in Received
  BY DEF TcpRecvData, Serving
<1>2. \/ /\ SrvRecv = "ok"
         /\ \E d \in DataIn(Head(SrvQueue)) :
               /\ RecvData("ok", d.arg, d.name)
               /\ asked' = IF packet.op = "Upload" THEN [asked EXCEPT ![S] = d.file] ELSE asked
      \/ SrvRecv # "ok" /\ RecvData(SrvRecv, 0, SomeName) /\ UNCHANGED asked
  BY DEF TcpRecvData
<1>3. packet \in Packet /\ packet.op \in {"Echo", "Download", "Upload"}
  BY <1>1 DEF InStepInv, ServiceInv, TransferInv, IInv, TypeOK
<1>4. /\ UNCHANGED <<clients, cur, stamps, disk, dl, ul>>
      /\ pc' \in {"Listen", "Reply", "Download", "Upload"}
      /\ SrvRecv = "ok" => UNCHANGED status /\ pc' # "Listen"
      /\ pc' = "Download" => SrvRecv = "ok" /\ packet.op = "Download"
  BY <1>2, <1>3, ErrorKinds DEF RecvData, Handler
<1>5. PICK k : k = S
  OBVIOUS
<1>6. k \in Conns /\ Serves(k) /\ NamesInv(k)
  BY <1>1, <1>5, ServerServes DEF DownloadsInv
<1>7. SrvQueue = Incoming(k) /\ Incoming(k) \in Seq(Unit)
  BY <1>1, <1>5, ServedLemma DEF SrvQueue, Incoming, TransferInv
<1>8. SrvQueue # <<>> => 1 \in 1..Len(SrvQueue) /\ Head(SrvQueue) = SrvQueue[1]
  BY <1>7, LenProperties, EmptySeq
<1>9. /\ \A l : Serves(l)' => l = k
      /\ Serves(k)' => Len(clients') = Len(clients) /\ Me' = Me
  BY <1>1, <1>4, <1>5, StaysServed
<1>10. \A l \in Conns : l # k => asked'[l] = asked[l]
  BY <1>2, <1>5, <1>6 DEF TransferInv, NetInv
<1>11. /\ \E v : Attends(k, v) /\ (SrvQueue # <<>> => v = 1)
       /\ net'[k].queue["cli"] = net[k].queue["cli"]
  BY <1>1, <1>4, <1>5, <1>8, <1>9, <1>10, AttendsReads
<1>12. PICK v : Attends(k, v) /\ (SrvQueue # <<>> => v = 1)
  BY <1>11
<1>13. stamps' = {}
  BY <1>1, <1>4, NoStamps DEF HandlePlaces
<1>14. ASSUME NEW c \in Clients, conn[c] = k
       PROVE  SrvRecv = "ok" /\ SrvQueue # <<>> /\ status' = "Success"
  BY <1>1, <1>4, <1>5, <1>6, <1>14, LinkedServed
<1>15. ASSUME pc' = "Download"
       PROVE  /\ Requested(k, 1) /\ Incoming(k) # <<>> /\ 1 \in 1..Len(Incoming(k))
              /\ packet'.name = Incoming(k)[1].name /\ packet'.arg = Incoming(k)[1].arg
  <2>1. SrvRecv = "ok" /\ packet.op = "Download"
    BY <1>4, <1>15
  <2>2. SrvQueue # <<>>
    BY <2>1 DEF SrvRecv, SrvQueue, RecvResult
  <2>3. PICK u : u = Head(SrvQueue) /\ u = Incoming(k)[1]
    BY <1>7, <1>8, <2>2
  <2>4. u.t = "data"
    BY <1>1, <2>2, <2>3, ReadsRight DEF Doing, WantData, Want
  <2>5. RecvData("ok", u.arg, u.name)
    BY <1>2, <2>1, <2>3, <2>4 DEF DataIn
  <2>6. packet'.name = u.name /\ packet'.arg = u.arg
    BY <1>3, <1>15, <2>5, ErrorKinds DEF RecvData, Packet
  <2> QED
    BY <1>1, <1>7, <1>8, <2>1, <2>2, <2>3, <2>4, <2>6 DEF Requested
<1>16. Goes(k, v)
  <2>1. AsksNext(k, v)
    BY <1>4 DEF AsksNext
  <2>2. ASSUME NEW n \in Names, NEW p \in Nat, NotesOn(k, n, p)
        PROVE  \E p1 \in Nat : p1 <= p /\ Noted(Me.mac, n, p1)
    <3>1. pc' = "Download" /\ n = packet'.name /\ p = packet'.arg
      BY <1>4, <2>2 DEF NotesOn
    <3>2. Noted(Me.mac, n, p)
      BY <1>6, <1>15, <3>1 DEF Noted
    <3>3. p <= p
      OBVIOUS
    <3> QED
      BY <3>2, <3>3
  <2>3. Keeps(k)
    BY <1>1, <1>4, <1>13, <2>2 DEF Keeps
  <2>4. Recognizes(k) /\ Remembers(k)
    BY <1>1, <1>4, <1>13, <1>14 DEF Recognizes, Remembers
  <2> QED
    BY <1>12, <2>1, <2>3, <2>4 DEF Goes
<1>17. ASSUME NEW c \in Clients, conn[c] = k PROVE DialogueInv(c)'
  <2>1. DialogueInv(c)
    BY DEF DownloadsInv
  <2>2. SrvRecv = "ok" /\ SrvQueue # <<>> /\ pc' # "Listen" /\ pc' # "Dead"
    BY <1>4, <1>14, <1>17
  <2>3. Serves(k)'
    BY <1>4, <1>6, <2>2 DEF Serves, Me
  <2>4. AsksNext(k, v)
    BY <1>16 DEF Goes
  <2> QED
    BY <1>1, <1>7, <1>11, <1>12, <1>15, <1>17, <2>1, <2>2, <2>3, <2>4, ReadsDialogue
<1> QED
  BY <1>16, <1>17, AttendsDownloads

(* The server reads, or throws away, some of the blocks of an upload.      *)
LEMMA BlocksDownloads ==
    ASSUME TransferInv, InStepInv, DownloadsInv, UNCHANGED clientVars, Serving(pc),
           pc \in {"RecvChunk", "Discard"}, UNCHANGED <<cur, stamps, asked>>,
           pc' \in {"Listen", "RecvChunk", "RecvHeader", "Discard"},
           UNCHANGED clients \/ \E st : clients' = AfterCheckFail(clients, st),
           SrvRecv \in Received, NEW u \in Nat, SrvReads(u),
           SrvQueue # <<>> => u \in 1..Len(SrvQueue) /\ UNCHANGED status
    PROVE  DownloadsInv'
<1>1. PICK k : k = S
  OBVIOUS
<1>2. k \in Conns /\ Serves(k) /\ NamesInv(k)
  BY <1>1, ServerServes DEF DownloadsInv
<1>3. SrvQueue = Incoming(k) /\ Incoming(k) \in Seq(Unit)
  BY <1>1, ServedLemma DEF SrvQueue, Incoming, TransferInv
<1>4. /\ \A l : Serves(l)' => l = k
      /\ Serves(k)' => Len(clients') = Len(clients) /\ Me' = Me
  BY <1>1, StaysServed
<1>5. /\ \E v : Attends(k, v) /\ (SrvQueue # <<>> => v = u)
      /\ net'[k].queue["cli"] = net[k].queue["cli"]
  BY <1>1, <1>4, AttendsReads
<1>6. PICK v : Attends(k, v)
  BY <1>5
<1>7. stamps' = {}
  BY NoStamps DEF HandlePlaces
<1>8. ASSUME NEW c \in Clients, conn[c] = k
      PROVE  SrvQueue # <<>> /\ status' = "Success"
  BY <1>1, <1>2, <1>8, LinkedServed
<1>9. AsksNext(k, v) /\ Keeps(k)
  BY <1>7 DEF AsksNext, Keeps, NotesOn
<1>10. Recognizes(k) /\ Remembers(k)
  BY <1>7, <1>8 DEF Recognizes, Remembers
<1>11. Goes(k, v)
  BY <1>6, <1>9, <1>10 DEF Goes
<1>12. ASSUME NEW c \in Clients, conn[c] = k PROVE DialogueInv(c)'
  <2>1. DialogueInv(c)
    BY DEF DownloadsInv
  <2>2. CASE ~Serves(k)'
    BY <1>5, <1>6, <1>12, <2>1, <2>2, LeftDialogue
  <2>3. CASE Serves(k)'
    <3>1. Incoming(k) # <<>>
      BY <1>3, <1>8, <1>12
    <3> QED
      BY <1>5, <1>6, <1>9, <1>12, <2>1, <2>3, <3>1, ReadsDialogue
  <2> QED
    BY <2>2, <2>3
<1> QED
  BY <1>11, <1>12, AttendsDownloads

LEMMA RecvChunkDownloads ==
    ASSUME TransferInv, InStepInv, DownloadsInv, UNCHANGED clientVars,
           TcpRecvChunk \/ TcpDiscard
    PROVE  DownloadsInv'
<1>1. /\ Serving(pc) /\ pc \in {"RecvChunk", "Discard"} /\ SrvRecv \in Received
      /\ UNCHANGED asked /\ ul.left \in Nat
  BY DEF TcpRecvChunk, TcpDiscard, Serving, TransferInv, IInv, TypeOK
<1>2. SrvQueue \in Seq(Unit)
  BY <1>1, ServedLemma DEF TransferInv
<1>3. CASE SrvQueue # <<>>
  <2>1. SrvRecv = "ok"
    BY <1>1, <1>3, ReadsRight
  <2>2. PICK d \in BlocksAt(SrvQueue, ul.left) :
           SrvReads(Len(d)) /\ (RecvChunk("ok", d) \/ Discard("ok", Len(d)))
    BY <2>1 DEF TcpRecvChunk, TcpDiscard
  <2>3. /\ UNCHANGED <<clients, cur, stamps, status>>
        /\ pc' \in {"Listen", "RecvChunk", "RecvHeader", "Discard"}
    BY <2>2, ErrorKinds DEF RecvChunk, Discard, UploadDone
  <2>4. Len(d) \in 1..Len(SrvQueue) /\ Len(d) \in Nat
    BY <1>1, <1>2, <2>2, ChunkFits
  <2> QED
    BY <1>1, <2>2, <2>3, <2>4, BlocksDownloads
<1>4. CASE SrvQueue = <<>>
  <2>1. SrvRecv # "ok"
    BY <1>4 DEF SrvRecv, SrvQueue, RecvResult
  <2>2. SrvReads(0) /\ (RecvChunk(SrvRecv, <<>>) \/ Discard(SrvRecv, 0))
    BY <2>1 DEF TcpRecvChunk, TcpDiscard
  <2>3. /\ UNCHANGED <<cur, stamps>>
        /\ pc' \in {"Listen", "RecvChunk", "RecvHeader", "Discard"}
        /\ \E st : clients' = AfterCheckFail(clients, st)
    BY <2>1, <2>2 DEF RecvChunk, Discard
  <2>4. 0 \in Nat
    OBVIOUS
  <2> QED
    BY <1>1, <1>4, <2>2, <2>3, <2>4, BlocksDownloads
<1> QED
  BY <1>3, <1>4

(* It opens the file of an upload, which may change it.                    *)
LEMMA UploadDownloads ==
    ASSUME TransferInv, InStepInv, DownloadsInv, UNCHANGED clientVars, TcpUpload
    PROVE  DownloadsInv'
<1>1. PICK canOpen \in OpenResults : Upload(canOpen)
  BY DEF TcpUpload
<1>2. /\ Serving(pc) /\ pc = "Upload"
      /\ UNCHANGED <<net, backlog, asked, clients, cur, status, stamps>>
      /\ pc' \in {"Listen", "RecvChunk", "Discard"}
  BY <1>1 DEF TcpUpload, SrvLocal, Upload, Serving
<1>3. PICK k : k = S
  OBVIOUS
<1>4. k \in Conns /\ Serves(k) /\ NamesInv(k)
  BY <1>2, <1>3, ServerServes DEF DownloadsInv
<1>5. Incoming(k) \in Seq(Unit) /\ Incoming(k)' = Incoming(k)
  BY <1>2, <1>3, ServedLemma DEF SrvQueue, Incoming, TransferInv
<1>6. /\ \A l : Serves(l)' => l = k
      /\ Serves(k)' => Me' = Me
  BY <1>2, <1>3, StaysServed
<1>7. Attends(k, 0)
  <2>1. 0 \in 0..Len(Incoming(k))
    BY <1>5, LenProperties
  <2>2. Incoming(k)' = SubSeq(Incoming(k), 0 + 1, Len(Incoming(k)))
    BY <1>5, WholeQueue
  <2> QED
    BY <1>2, <1>3, <1>6, <2>1, <2>2 DEF Attends
<1>8. stamps' = {}
  BY <1>2, NoStamps DEF HandlePlaces
<1>9. AsksNext(k, 0) /\ Keeps(k)
  BY <1>2, <1>8 DEF AsksNext, Keeps, NotesOn
<1>10. Recognizes(k) /\ Remembers(k)
  BY <1>2, <1>4, <1>8 DEF Recognizes, Remembers, NamesInv
<1>11. Goes(k, 0)
  BY <1>7, <1>9, <1>10 DEF Goes
<1>12. ASSUME NEW c \in Clients, conn[c] = k PROVE DialogueInv(c)'
  <2>1. DialogueInv(c)
    BY DEF DownloadsInv
  <2>2. CASE ~Serves(k)'
    BY <1>2, <1>7, <1>12, <2>1, <2>2, LeftDialogue
  <2>3. CASE Serves(k)'
    BY <1>2, <1>7, <1>9, <1>12, <2>1, <2>3, ReadsDialogue
  <2> QED
    BY <2>2, <2>3
<1> QED
  BY <1>11, <1>12, AttendsDownloads

-----------------------------------------------------------------------------
(* The server sends: its client, if one is there, waits for that.          *)
LEMMA Writes ==
    ASSUME TransferInv, InStepInv, DownloadsInv, UNCHANGED clientVars, Serving(pc),
           pc \in {"Greet", "SendStamp", "Reply", "Download", "SendChunk"}, UNCHANGED cur,
           UNCHANGED clients \/ \E st : clients' = AfterCheckFail(clients, st),
           NEW units \in Seq(Unit), SrvWrites(units), NEW k, k = S,
           \A l \in Conns : l # k => asked'[l] = asked[l]
    PROVE  /\ Attends(k, 0) /\ k \in Conns /\ Serves(k) /\ NamesInv(k) /\ Named(k, Me.mac)
           /\ Incoming(k) = <<>> /\ (Serves(k)' => Incoming(k)' = <<>> /\ Me' = Me)
           /\ \A c \in Clients : conn[c] = k =>
                 /\ at[c] \in ClientPlaces /\ job[c].left \in Nat /\ Queue(c) \in Seq(Unit)
                 /\ Shape(at[c], job[c].left, Queue(c))
                 /\ Gives(at[c], job[c].left, Queue(c)) = Doing
                 /\ Queue(c)' = Queue(c) \o units /\ MacOf[c] = Me.mac
<1>1. k \in Conns /\ Serves(k) /\ NamesInv(k)
  BY ServerServes DEF DownloadsInv
<1>2. Doing.t \in {"reply", "stream"}
  <2>1. pc = "SendChunk" => dl.left # 0
    BY DEF TransferInv, IInv, DownloadInv
  <2>2. (Doing = Streams(dl.left) /\ dl.left # 0) \/ \E r : Doing = Owes(r)
    BY <2>1 DEF Doing
  <2> QED
    BY <2>2 DEF Streams, Owes, Want
<1>3. /\ \A l : Serves(l)' => l = k
      /\ Serves(k)' => Len(clients') = Len(clients) /\ Me' = Me
  BY StaysServed
<1>4. /\ Attends(k, 0) /\ Incoming(k) = <<>>
      /\ net[k].end["srv"] = "open" =>
            net'[k].queue["cli"] = net[k].queue["cli"] \o units
  BY <1>2, <1>3, AttendsWrites
<1>5. Serves(k)' => Incoming(k)' = <<>>
  <2>1. Serves(k)' => Incoming(k)' = SubSeq(Incoming(k), 0 + 1, Len(Incoming(k)))
    BY <1>4 DEF Attends
  <2>2. Incoming(k) \in Seq(Unit)
    BY <1>4, AttendsFacts
  <2> QED
    BY <1>4, <2>1, <2>2, WholeQueue
<1>6. Named(k, Me.mac)
  BY <1>1 DEF NamesInv
<1>7. ASSUME NEW c \in Clients, conn[c] = k
      PROVE  /\ at[c] \in ClientPlaces /\ job[c].left \in Nat /\ Queue(c) \in Seq(Unit)
             /\ Shape(at[c], job[c].left, Queue(c))
             /\ Gives(at[c], job[c].left, Queue(c)) = Doing
             /\ Queue(c)' = Queue(c) \o units /\ MacOf[c] = Me.mac
  <2>1. /\ at[c] \in ClientPlaces /\ job[c].left \in Nat /\ Queue(c) \in Seq(Unit)
        /\ Shape(at[c], job[c].left, Queue(c))
        /\ Leads(Incoming(k), Doing, Gives(at[c], job[c].left, Queue(c)))
    BY <1>1, <1>7, ServedClient
  <2>2. PICK y, q : /\ y = Gives(at[c], job[c].left, Queue(c)) /\ Leads(q, Doing, y)
                    /\ q = <<>>
    BY <1>4, <2>1
  <2>3. y = Doing
    BY <2>2, LeadsNowhere
  <2>4. net[k].end["srv"] = "open"
    BY <1>1, <1>7, ServedClient
  <2>5. conn' = conn
    BY DEF clientVars
  <2>6. PICK more : more = net[k].queue["cli"] \o units
    OBVIOUS
  <2>7. net'[k].queue["cli"] = more
    BY <1>4, <2>4, <2>6
  <2>8. Queue(c)' = more /\ Queue(c) = net[k].queue["cli"]
    BY <1>7, <2>5, <2>7 DEF Queue
  <2>9. MacOf[c] = Me.mac
    BY <1>6, <1>7 DEF Named
  <2> QED
    BY <2>1, <2>2, <2>3, <2>6, <2>8, <2>9
<1> QED
  BY <1>1, <1>3, <1>4, <1>5, <1>6, <1>7

LEMMA GreetDownloads ==
    ASSUME TransferInv, InStepInv, DownloadsInv, UNCHANGED clientVars, TcpGreet
    PROVE  DownloadsInv'
<1>1. Serving(pc) /\ pc = "Greet" /\ SrvSend(1) \in Sent /\ UNCHANGED asked
  BY DEF TcpGreet, Serving
<1>2. PICK op \in {"None", "DownloadRecovery"} : SrvWrites(<<Header(op)>>)
  BY DEF TcpGreet
<1>3. /\ UNCHANGED <<cur, packet, disk, dl, ul>>
      /\ UNCHANGED clients \/ \E st : clients' = AfterCheckFail(clients, st)
      /\ pc' \in {"Listen", "SendStamp", "RecvHeader"}
      /\ stamps' = {} \/ (stamps' = stamps /\ UNCHANGED clients /\ pc' = "SendStamp")
      /\ status' = "Success" \/ status' = Latch(SrvSend(1))
  BY DEF TcpGreet, GreetRecovery, GreetNone, ClearStamps
<1>4. PICK k, units : k = S /\ units = <<Header(op)>>
  OBVIOUS
<1>5. units \in Seq(Unit)
  BY <1>4, UnitLemma DEF Opcodes
<1>6. /\ Attends(k, 0) /\ k \in Conns /\ Serves(k) /\ NamesInv(k)
      /\ \A c \in Clients : conn[c] = k =>
            /\ at[c] \in ClientPlaces /\ job[c].left \in Nat /\ Queue(c) \in Seq(Unit)
            /\ Shape(at[c], job[c].left, Queue(c))
            /\ Gives(at[c], job[c].left, Queue(c)) = Doing
            /\ Queue(c)' = Queue(c) \o units
  BY <1>1, <1>2, <1>3, <1>4, <1>5, Writes
<1>7. ASSUME NEW c \in Clients, conn[c] = k PROVE status' = "Success"
  <2>1. SrvSend(1) = "ok" /\ Latch("ok") = "Success"
    BY <1>1, <1>4, <1>6, <1>7, LinkedServed
  <2> QED
    BY <1>3, <2>1
<1>8. \A s \in stamps' : s \in stamps /\ Noted(s.mac, s.file, s.position)
  <2> TAKE s \in stamps'
  <2>1. s \in stamps /\ s \in Stamp
    BY <1>3 DEF TransferInv, IInv, TypeOK
  <2>2. s = [mac |-> s.mac, file |-> s.file, position |-> s.position]
    BY <2>1 DEF Stamp
  <2> QED
    BY <2>1, <2>2 DEF Noted
<1>9. AsksNext(k, 0) /\ Keeps(k)
  BY <1>1, <1>3, <1>8 DEF AsksNext, Keeps, NotesOn
<1>10. Recognizes(k)
  BY <1>1, <1>3, <1>7 DEF Recognizes
<1>11. stamps' # {} => Serves(k)'
  BY <1>3, <1>6 DEF Serves, Me
<1>12. Remembers(k)
  BY <1>3, <1>8, <1>11 DEF Remembers
<1>13. Goes(k, 0)
  BY <1>6, <1>9, <1>10, <1>12 DEF Goes
<1>14. ASSUME NEW c \in Clients, conn[c] = k PROVE DialogueInv(c)'
  <2>1. Gives(at[c], job[c].left, Queue(c)) = Owes("greeting")
    BY <1>1, <1>6, <1>14 DEF Doing
  <2>2. at[c] = "recvGreeting" /\ Queue(c) = <<>>
    BY <1>6, <1>14, <2>1, ReaderPlaces
  <2>3. at'[c] = at[c]
    BY DEF clientVars
  <2>4. PICK q : q = Queue(c)'
    OBVIOUS
  <2>5. q = <<>> \o units
    BY <1>6, <1>14, <2>2, <2>4
  <2>6. Len(q) = 1
    BY <1>4, <1>5, <2>5
  <2> QED
    BY <2>2, <2>3, <2>4, <2>6, GreetedDialogue
<1> QED
  BY <1>13, <1>14, AttendsDownloads

LEMMA ReplyDownloads ==
    ASSUME TransferInv, InStepInv, DownloadsInv, UNCHANGED clientVars, TcpReply
    PROVE  DownloadsInv'
<1>1. /\ Serving(pc) /\ pc = "Reply" /\ UNCHANGED asked
      /\ UNCHANGED <<cur, stamps, disk, dl, ul>> /\ SrvWrites(<<Answered>>)
      /\ \E st : clients' = AfterCheckFail(clients, st)
      /\ pc' \in {"Listen", "RecvHeader"} /\ status' = "Success"
  BY DEF TcpReply, Reply, Serving
<1>2. PICK k, units : k = S /\ units = <<Answered>>
  OBVIOUS
<1>3. /\ Attends(k, 0) /\ k \in Conns /\ Serves(k) /\ NamesInv(k)
      /\ \A c \in Clients : conn[c] = k =>
            /\ at[c] \in ClientPlaces /\ job[c].left \in Nat /\ Queue(c) \in Seq(Unit)
            /\ Shape(at[c], job[c].left, Queue(c))
            /\ Gives(at[c], job[c].left, Queue(c)) = Doing
            /\ Queue(c)' = Queue(c) \o units
  BY <1>1, <1>2, UnitLemma, Writes
<1>4. stamps' = {}
  BY <1>1, NoStamps DEF HandlePlaces
<1>5. Goes(k, 0)
  BY <1>1, <1>3, <1>4
  DEF Goes, AsksNext, Keeps, NotesOn, Recognizes, Remembers
<1>6. ASSUME NEW c \in Clients, conn[c] = k PROVE DialogueInv(c)'
  <2>1. Gives(at[c], job[c].left, Queue(c)) = Owes("answer")
    BY <1>1, <1>3, <1>6 DEF Doing
  <2>2. at[c] = "recvAnswer"
    BY <1>3, <1>6, <2>1, ReaderPlaces
  <2>3. at'[c] = at[c]
    BY DEF clientVars
  <2> QED
    BY <2>2, <2>3, NextNoDialogue DEF Dialogue
<1> QED
  BY <1>5, <1>6, AttendsDownloads

(* The offer to go on: its client has a part of the file it names.         *)
LEMMA OfferDialogue ==
    ASSUME NEW c, at'[c] \in {"recvGreeting", "recvStamp"}, NEW n, Offers(c)' \subseteq {n},
           NEW have, have = Kept(c, n)', NEW file, file = Hosted(n)',
           Serves(conn[c])' => /\ Flat(n) /\ pc' = "RecvHeader" /\ Incoming(conn[c])' = <<>>
                               /\ Begins(have, file) /\ Len(have) < Len(file)
    PROVE  DialogueInv(c)'
<1>1. StartInv(c)' /\ GetsInv(c)'
  BY DEF StartInv, GetsInv
<1>2. AskingInv(c)' /\ MatchInv(c)' /\ QuietInv(c)'
  BY DEF AskingInv, MatchInv, QuietInv, HasReply
<1>3. ASSUME Serves(conn[c])' PROVE PromptInv(c)'
  <2>1. Begins(Kept(c, n), Hosted(n))' /\ Len(Kept(c, n)') < Len(Hosted(n)')
    BY <1>3 DEF Begins
  <2> QED
    BY <1>3, <2>1 DEF PromptInv
<1> QED
  BY <1>1, <1>2, <1>3 DEF DialogueInv, ServedInv

LEMMA SendStampDownloads ==
    ASSUME TransferInv, InStepInv, DownloadsInv, UNCHANGED clientVars, TcpSendStamp
    PROVE  DownloadsInv'
<1>1. /\ Serving(pc) /\ pc = "SendStamp" /\ UNCHANGED asked
      /\ stamps' = stamps \ MyStamps
      /\ \E st : clients' = AfterCheckFail(clients, st)
      /\ pc' \in {"Listen", "RecvHeader"} /\ status' = "Success"
      /\ UNCHANGED <<cur, packet, disk, dl, ul>>
  BY DEF TcpSendStamp, SendStamp, Serving, EraseStamp
<1>2. PICK s \in MyStamps : SrvWrites(<<Data(s.position, FileName[s.file], <<>>)>>)
  BY DEF TcpSendStamp
<1>3. s \in stamps /\ s.mac = Me.mac /\ s.mac \in Macs /\ s.file \in Names /\ s.position \in Nat
  BY <1>2 DEF MyStamps, TransferInv, IInv, TypeOK, Stamp
<1>4. PICK k, n, p, d, units :
         /\ k = S /\ n = s.file /\ p = s.position
         /\ d = Data(p, FileName[n], <<>>) /\ units = <<d>>
  OBVIOUS
<1>5. \A t \in stamps : Noted(t.mac, t.file, t.position)
  <2> TAKE t \in stamps
  <2>1. t \in Stamp
    BY DEF TransferInv, IInv, TypeOK
  <2>2. t = [mac |-> t.mac, file |-> t.file, position |-> t.position]
    BY <2>1 DEF Stamp
  <2> QED
    BY <2>1, <2>2 DEF Noted
<1>6. /\ Flat(n) /\ \A c \in Clients : MacOf[c] = Me.mac => Copy(c, n, p)
      /\ p < Len(Hosted(n)) /\ d.name = n /\ units \in Seq(Unit)
  <2>1. Flat(n) /\ \A c \in Clients : MacOf[c] = Me.mac => Copy(c, n, p)
    BY <1>3, <1>4, <1>5 DEF DownloadsInv, NotesInv
  <2>2. p < Len(Hosted(n))
    BY <1>3, <1>4 DEF TransferInv, IInv, StampInv, StampWithinFile, Hosted
  <2>3. d.name = n
    BY <1>4, <2>1 DEF Data, Flat
  <2>4. FileName[n] \in Names /\ <<>> \in Seq(Blocks)
    BY <1>3, <1>4, TransferAssumption, EmptySeq
  <2>5. units \in Seq(Unit)
    BY <1>3, <1>4, <2>4, UnitLemma
  <2> QED
    BY <2>1, <2>2, <2>3, <2>5
<1>7. /\ Attends(k, 0) /\ k \in Conns /\ Serves(k) /\ NamesInv(k)
      /\ (Serves(k)' => Incoming(k)' = <<>>)
      /\ \A c \in Clients : conn[c] = k =>
            /\ at[c] \in ClientPlaces /\ job[c].left \in Nat /\ Queue(c) \in Seq(Unit)
            /\ Shape(at[c], job[c].left, Queue(c))
            /\ Gives(at[c], job[c].left, Queue(c)) = Doing
            /\ Queue(c)' = Queue(c) \o units /\ MacOf[c] = Me.mac
  BY <1>1, <1>2, <1>4, <1>6, Writes
<1>8. AsksNext(k, 0) /\ Keeps(k)
  BY <1>1, <1>5 DEF AsksNext, Keeps, NotesOn
<1>9. Recognizes(k)
  BY <1>1 DEF Recognizes
<1>10. Remembers(k)
  BY <1>1, <1>7 DEF Remembers, MyStamps
<1>11. Goes(k, 0)
  BY <1>7, <1>8, <1>9, <1>10 DEF Goes
<1>12. ASSUME NEW c \in Clients, conn[c] = k PROVE DialogueInv(c)'
  <2>1. Gives(at[c], job[c].left, Queue(c)) = Owes("stamp")
    BY <1>1, <1>7, <1>12 DEF Doing
  <2>2. PICK q, more : q = Queue(c) /\ more = Queue(c)'
    OBVIOUS
  <2>3. \/ at[c] = "recvGreeting" /\ Len(q) = 1
        \/ at[c] = "recvStamp" /\ q = <<>>
    BY <1>7, <1>12, <2>1, <2>2, ReaderPlaces
  <2>4. more = q \o units /\ q \in Seq(Unit)
    BY <1>7, <1>12, <2>2
  <2>5. Len(q) = 1 => more[2] = d
    <3>1. \A i \in (Len(q) + 1)..(Len(q) + Len(units)) : more[i] = units[i - Len(q)]
      BY <1>6, <2>4, ConcatProperties
    <3>2. Len(units) = 1 /\ units[1] = d
      BY <1>4
    <3> QED
      BY <3>1, <3>2
  <2>6. q = <<>> => more[1] = d
    BY <1>4, <1>6, <2>4
  <2>7. at' = at /\ conn' = conn /\ local' = local
    BY DEF clientVars
  <2>8. Offers(c)' \subseteq {n}
    <3>1. CASE at[c] = "recvGreeting" /\ Len(q) = 1
      <4>1. Offers(c)' \subseteq {more[2].name}
        BY <2>2, <2>7, <3>1 DEF Offers
      <4> QED
        BY <1>6, <2>5, <3>1, <4>1
    <3>2. CASE at[c] = "recvStamp" /\ q = <<>>
      <4>1. Offers(c)' \subseteq {more[1].name}
        BY <2>2, <2>7, <3>2 DEF Offers
      <4> QED
        BY <1>6, <2>6, <3>2, <4>1
    <3> QED
      BY <2>3, <3>1, <3>2
  <2>9. PICK have, file : /\ have = Kept(c, n) /\ have = Kept(c, n)'
                          /\ file = Hosted(n) /\ file = Hosted(n)'
    BY <1>1, <2>7 DEF Kept, Hosted
  <2>10. Begins(have, file) /\ Len(have) <= p
    BY <1>6, <1>7, <1>12, <2>9 DEF Copy
  <2>11. Len(have) < Len(file)
    <3>1. Len(have) \in Nat /\ Len(file) \in Nat
      BY <1>3, <1>4, <2>9, KeptLemma
    <3>2. p < Len(file) /\ p \in Nat
      BY <1>3, <1>4, <1>6, <2>9
    <3> QED
      BY <2>10, <3>1, <3>2
  <2>12. Serves(k)' => pc' = "RecvHeader" /\ Incoming(k)' = <<>>
    BY <1>1, <1>7 DEF Serves
  <2> QED
    BY <1>6, <1>12, <2>3, <2>7, <2>8, <2>9, <2>10, <2>11, <2>12, OfferDialogue
<1> QED
  BY <1>11, <1>12, AttendsDownloads

(* A client that has been answered: what it gets goes on where its copy    *)
(* ends, and the server sends the rest of the file, or is done.            *)
LEMMA AnsweredDialogue ==
    ASSUME NEW c, NEW k, k = conn'[c], StartInv(c)', GetsInv(c)', HasReply(c)',
           Serves(k)' => /\ Incoming(k)' = <<>>
                         /\ \/ pc' = "RecvHeader"
                            \/ /\ pc' = "SendChunk" /\ dl'.file = job'[c].file
                               /\ asked'[k] = Hosted(job[c].file)'
    PROVE  DialogueInv(c)'
<1>1. Offers(c)' = {}
  <2>1. at'[c] \in {"recvResponse", "recvFile"}
    BY DEF HasReply
  <2> QED
    BY <2>1 DEF Offers
<1>2. AskingInv(c)' /\ MatchInv(c)'
  BY DEF AskingInv, MatchInv, HasReply
<1>3. Serves(k)' => QuietInv(c)'
  BY DEF QuietInv, Hosted
<1> QED
  BY <1>1, <1>2, <1>3 DEF DialogueInv, ServedInv, PromptInv

LEMMA DownloadDownloads ==
    ASSUME TransferInv, InStepInv, DownloadsInv, UNCHANGED clientVars, TcpDownload
    PROVE  DownloadsInv'
<1>1. Serving(pc) /\ pc = "Download" /\ SrvSend(1) \in Sent
      /\ asked' = [asked EXCEPT ![S] = disk[packet.name].data]
  BY DEF TcpDownload, Serving
<1>2. PICK canOpen \in OpenResults :
         /\ Download(SrvSend(1), canOpen)
         /\ SrvWrites(<<Response(DownloadStatus(canOpen) = "Ready", TotalSize)>>)
  BY DEF TcpDownload
<1>3. packet.name \in Names /\ packet.arg \in Nat /\ asked \in [Conns -> Seq(Blocks)]
  BY DEF TransferInv, IInv, TypeOK, Packet, NetInv
<1>4. PICK k, n, arg, file, total, ready, units :
         /\ k = S /\ n = packet.name /\ arg = packet.arg /\ file = Hosted(n)
         /\ total = TotalSize /\ ready = (DownloadStatus(canOpen) = "Ready")
         /\ units = <<Response(ready, total)>>
  OBVIOUS
<1>5. /\ file \in Seq(Blocks) /\ Len(file) \in Nat
      /\ total = IF Len(file) <= arg THEN 0 ELSE Len(file) - arg
      /\ total \in Nat /\ ready \in BOOLEAN
  <2>1. file \in Seq(Blocks) /\ Len(file) \in Nat
    BY <1>3, <1>4, KeptLemma
  <2>2. total = IF Len(file) <= arg THEN 0 ELSE Len(file) - arg
    BY <1>4 DEF TotalSize, Hosted
  <2>3. total \in Nat
    BY <1>3, <1>4, <2>1, <2>2
  <2> QED
    BY <1>4, <2>1, <2>2, <2>3
<1>6. units \in Seq(Unit) /\ Len(units) = 1 /\ units # <<>>
  BY <1>4, <1>5, UnitLemma
<1>7. /\ UNCHANGED <<cur, stamps, disk, ul>> /\ status' = "Success"
      /\ \E st : clients' = AfterCheckFail(clients, st)
      /\ pc' \in {"Listen", "SendChunk", "RecvHeader"}
      /\ pc' = "SendChunk" => dl' = [file |-> n, start |-> arg, total |-> total, left |-> total]
  BY <1>2, <1>4 DEF Download
<1>8. /\ Attends(k, 0) /\ k \in Conns /\ Serves(k) /\ NamesInv(k)
      /\ (Serves(k)' => Incoming(k)' = <<>>)
      /\ \A c \in Clients : conn[c] = k =>
            /\ at[c] \in ClientPlaces /\ job[c].left \in Nat /\ Queue(c) \in Seq(Unit)
            /\ Shape(at[c], job[c].left, Queue(c))
            /\ Gives(at[c], job[c].left, Queue(c)) = Doing
            /\ Queue(c)' = Queue(c) \o units /\ MacOf[c] = Me.mac
  BY <1>1, <1>2, <1>3, <1>4, <1>6, <1>7, Writes
<1>9. stamps' = {}
  BY <1>1, <1>7, NoStamps DEF HandlePlaces
<1>10. Noted(Me.mac, n, arg) /\ arg <= arg /\ Me.mac \in Macs
  <2>1. Me \in Handle
    BY <1>1, ServingLemma DEF TransferInv, IInv, HandleInv
  <2> QED
    BY <1>1, <1>3, <1>4, <1>8, <2>1 DEF Noted, Handle
<1>11. ASSUME NEW m \in Names, NEW p \in Nat, NotesOn(k, m, p)
       PROVE  \E p1 \in Nat : p1 <= p /\ Noted(Me.mac, m, p1)
  <2>1. pc' = "SendChunk" /\ m = dl'.file /\ p = dl'.start + dl'.total - dl'.left
    BY <1>7, <1>11 DEF NotesOn, StampPosition
  <2>2. m = n /\ p = arg + total - total
    BY <1>7, <2>1
  <2>3. p = arg
    BY <1>3, <1>4, <1>5, <2>2
  <2> QED
    BY <1>3, <1>4, <1>10, <2>2, <2>3
<1>12. Goes(k, 0)
  <2>1. Keeps(k)
    BY <1>1, <1>7, <1>9, <1>11 DEF Keeps
  <2> QED
    BY <1>1, <1>7, <1>8, <1>9, <2>1 DEF Goes, AsksNext, Recognizes, Remembers
<1>13. ASSUME NEW c \in Clients, conn[c] = k PROVE DialogueInv(c)'
  <2>1. at[c] = "recvResponse" /\ Queue(c) = <<>>
    <3>1. Gives(at[c], job[c].left, Queue(c)) = Owes("response")
      BY <1>1, <1>8, <1>13 DEF Doing
    <3> QED
      BY <1>8, <1>13, <3>1, ReaderPlaces
  <2>2. UNCHANGED <<at, conn, job, local>>
    BY DEF clientVars
  <2>3. StartInv(c) /\ MatchInv(c)
    BY <1>8, <1>13 DEF DownloadsInv, DialogueInv, ServedInv, Linked
  <2>4. PICK have : have = Kept(c, n) /\ have = Kept(c, n)'
    BY <2>2 DEF Kept
  <2>5. n = job[c].file /\ arg = job[c].start /\ Len(have) = arg
    BY <1>1, <1>4, <2>1, <2>3, <2>4 DEF MatchInv, StartInv
  <2>6. Begins(have, file)
    BY <1>3, <1>4, <1>8, <1>10, <1>13, <2>4 DEF DownloadsInv, NotesInv, Copy
  <2>7. Len(have) <= Len(file)
    BY <2>6 DEF Begins
  <2>8. Len(have) + total = Len(file)
    BY <1>3, <1>4, <1>5, <2>5, <2>7
  <2>9. PICK more : more = Queue(c)'
    OBVIOUS
  <2>10. more = units
    <3>1. more = <<>> \o units
      BY <1>8, <1>13, <2>1, <2>9
    <3>2. units \in Seq(Unit)
      BY <1>6
    <3>3. <<>> \o units = units
      BY <3>2, ConcatEmptySeq
    <3> QED
      BY <3>1, <3>3
  <2>11. asked'[k] = file
    BY <1>1, <1>3, <1>4, <1>8 DEF Hosted
  <2>12. Gets(c, 1, total)'
    <3>1. Len(more) = 1
      BY <1>6, <2>10
    <3>2. Kept(c, job[c].file)' = have /\ asked'[conn'[c]] = file
      BY <1>13, <2>2, <2>4, <2>5, <2>11 DEF Kept
    <3> QED
      BY <2>6, <2>8, <2>9, <3>1, <3>2 DEF Gets
  <2>13. GetsInv(c)'
    <3>1. more[1].total = total
      BY <1>4, <2>10 DEF Response
    <3> QED
      BY <2>1, <2>2, <2>9, <2>12, <3>1 DEF GetsInv
  <2>14. StartInv(c)'
    BY <2>2, <2>3 DEF StartInv, Kept
  <2>15. HasReply(c)'
    BY <1>6, <2>1, <2>2, <2>9, <2>10 DEF HasReply
  <2>16. Serves(k)' => /\ Incoming(k)' = <<>>
                       /\ \/ pc' = "RecvHeader"
                          \/ /\ pc' = "SendChunk" /\ dl'.file = job'[c].file
                             /\ asked'[k] = Hosted(job[c].file)'
    <3>1. Hosted(job[c].file)' = file
      BY <1>4, <1>7, <2>2, <2>5 DEF Hosted
    <3>2. Serves(k)' => pc' # "Listen"
      BY DEF Serves
    <3> QED
      BY <1>7, <1>8, <2>2, <2>5, <2>11, <3>1, <3>2
  <2> QED
    BY <1>13, <2>2, <2>13, <2>14, <2>15, <2>16, AnsweredDialogue
<1> QED
  BY <1>12, <1>13, AttendsDownloads

(* What waits for a client goes on with what is sent now.                  *)
LEMMA FurtherOn ==
    \A a \in Nat, b \in Nat, h \in Nat, i \in Nat, m \in Nat :
        /\ i + m <= a + b /\ ~(i + m <= a)
        => (i + m - a) \in 1..b /\ h + a - i + (i + m - a) = h + m
  OBVIOUS

GoesOn(q, i, have, want) ==
    \A m \in 1..Len(q) : i + m <= Len(q) => q[i + m].block = want[Len(have) + m]
BlocksFrom(units, want, from) == \A j \in 1..Len(units) : units[j].block = want[from + j]

LEMMA BlocksMore ==
    ASSUME NEW have \in Seq(Blocks), NEW want \in Seq(Blocks), NEW q \in Seq(Unit),
           NEW units \in Seq(Unit), NEW more, more = q \o units,
           NEW i \in Nat, NEW from \in Nat, from = Len(have) + Len(q) - i,
           GoesOn(q, i, have, want), BlocksFrom(units, want, from)
    PROVE  GoesOn(more, i, have, want)
<1>1. /\ Len(q) \in Nat /\ Len(units) \in Nat /\ Len(have) \in Nat /\ Len(want) \in Nat
  BY LenProperties
<1>2. /\ Len(more) = Len(q) + Len(units)
      /\ \A j \in 1..Len(q) + Len(units) : more[j] = IF j <= Len(q) THEN q[j] ELSE units[j - Len(q)]
  BY ConcatProperties
<1> SUFFICES ASSUME NEW m \in 1..Len(more), i + m <= Len(more)
             PROVE  more[i + m].block = want[Len(have) + m]
  BY DEF GoesOn
<1>4. i + m \in 1..Len(q) + Len(units) /\ m \in Nat /\ m >= 1
  BY <1>1, <1>2
<1>5. CASE i + m <= Len(q)
  <2>1. more[i + m] = q[i + m] /\ m \in 1..Len(q)
    BY <1>1, <1>2, <1>4, <1>5
  <2> QED
    BY <1>5, <2>1 DEF GoesOn
<1>6. CASE ~(i + m <= Len(q))
  <2>1. PICK j : j = i + m - Len(q)
    OBVIOUS
  <2>2. PICK a, b, h : a = Len(q) /\ b = Len(units) /\ h = Len(have)
    OBVIOUS
  <2>3. a \in Nat /\ b \in Nat /\ h \in Nat /\ i \in Nat
    BY <1>1, <2>2
  <2>4. i + m \in 1..(a + b) /\ m \in Nat /\ ~(i + m <= a) /\ j = i + m - a
        /\ from = h + a - i
    BY <1>4, <1>6, <2>1, <2>2
  <2>5. j \in 1..b /\ from + j = h + m
    <3>1. i + m <= a + b /\ m \in Nat /\ ~(i + m <= a)
      BY <2>3, <2>4
    <3>2. (i + m - a) \in 1..b /\ h + a - i + (i + m - a) = h + m
      BY <2>3, <3>1, FurtherOn
    <3> QED
      BY <2>4, <3>2
  <2>6. j \in 1..Len(units) /\ from + j = Len(have) + m
    BY <2>2, <2>5
  <2>7. more[i + m] = units[j]
    BY <1>2, <1>4, <1>6, <2>1
  <2> QED
    BY <2>6, <2>7 DEF BlocksFrom
<1> QED
  BY <1>5, <1>6

LEMMA ChunkSent ==
    ASSUME TransferInv, pc = "SendChunk",
           NEW file, file = Hosted(dl.file), NEW from, from = StampPosition,
           NEW n, n = ChunkSize(dl.left),
           NEW units, units = Contents(SubSeq(file, from + 1, from + n))
    PROVE  /\ file \in Seq(Blocks) /\ from \in Nat /\ n \in Nat /\ dl.left \in Nat \ {0}
           /\ n \in 1..dl.left /\ from = Len(file) - dl.left /\ Len(file) \in Nat
           /\ units \in Seq(Unit) /\ Len(units) = n
           /\ \A i \in 1..Len(units) : units[i].block = file[from + i]
           /\ dl \in [file : Names, start : Nat, total : Nat, left : Nat]
           /\ dl.start + dl.total = Len(file)
<1>1. /\ dl \in [file : Names, start : Nat, total : Nat, left : Nat]
      /\ dl.left \in 1..dl.total /\ dl.start + dl.total = Len(file)
  BY DEF TransferInv, IInv, TypeOK, DownloadInv, Hosted
<1>2. file \in Seq(Blocks) /\ Len(file) \in Nat
  BY <1>1, KeptLemma
<1>3. dl.start \in Nat /\ dl.total \in Nat /\ dl.left \in Nat \ {0}
  BY <1>1
<1>4. n \in 1..dl.left
  BY <1>3, ChunkSizeLemma
<1>5. /\ from \in Nat /\ from = Len(file) - dl.left /\ n \in Nat /\ from + n <= Len(file)
  BY <1>1, <1>2, <1>3, <1>4 DEF StampPosition
<1>6. units \in Seq(Unit) /\ Len(units) = n
  BY <1>2, <1>5, ContentsShape
<1>7. ASSUME NEW i \in 1..n PROVE units[i].block = file[from + i]
  <2>1. Contents(SubSeq(file, from + 1, from + n))[i].block = file[from + i]
    BY <1>2, <1>5, ContentsBlocks
  <2> QED
    BY <2>1
<1> QED
  BY <1>1, <1>2, <1>3, <1>4, <1>5, <1>6, <1>7

LEMMA SendChunkDownloads ==
    ASSUME TransferInv, InStepInv, DownloadsInv, UNCHANGED clientVars, TcpSendChunk
    PROVE  DownloadsInv'
<1>1. Serving(pc) /\ pc = "SendChunk" /\ UNCHANGED asked
  BY DEF TcpSendChunk, Serving
<1>2. PICK k, file, from, n, units, r :
         /\ k = S /\ file = Hosted(dl.file) /\ from = StampPosition /\ n = ChunkSize(dl.left)
         /\ units = Contents(SubSeq(file, from + 1, from + n)) /\ r = SrvSend(n)
  OBVIOUS
<1>3. r \in Sent /\ SendChunk(r) /\ SrvWrites(units)
  BY <1>2 DEF TcpSendChunk, StampPosition, Hosted
<1>4. /\ file \in Seq(Blocks) /\ from \in Nat /\ n \in Nat /\ dl.left \in Nat \ {0}
      /\ n \in 1..dl.left /\ from = Len(file) - dl.left /\ Len(file) \in Nat
      /\ units \in Seq(Unit) /\ Len(units) = n
      /\ \A i \in 1..Len(units) : units[i].block = file[from + i]
      /\ dl \in [file : Names, start : Nat, total : Nat, left : Nat]
      /\ dl.start + dl.total = Len(file)
  BY <1>1, <1>2, ChunkSent
<1>5. stamps = {}
  BY <1>1, NoStamps DEF HandlePlaces
<1>6. /\ UNCHANGED <<clients, cur, packet, disk, ul>>
      /\ \/ r = "ok" /\ UNCHANGED status /\ stamps' = {} /\ pc' \in {"SendChunk", "RecvHeader"}
         \/ /\ r # "ok" /\ pc' = "Listen"
            /\ stamps' = {[mac |-> Me.mac, file |-> dl.file, position |-> from]}
      /\ pc' = "SendChunk" => dl' = [dl EXCEPT !.left = dl.left - n]
  BY <1>2, <1>3, <1>5 DEF SendChunk
<1>7. /\ Attends(k, 0) /\ k \in Conns /\ Serves(k) /\ NamesInv(k) /\ Named(k, Me.mac)
      /\ (Serves(k)' => Incoming(k)' = <<>>)
      /\ \A c \in Clients : conn[c] = k =>
            /\ at[c] \in ClientPlaces /\ job[c].left \in Nat /\ Queue(c) \in Seq(Unit)
            /\ Shape(at[c], job[c].left, Queue(c))
            /\ Gives(at[c], job[c].left, Queue(c)) = Doing
            /\ Queue(c)' = Queue(c) \o units /\ MacOf[c] = Me.mac
  BY <1>1, <1>2, <1>3, <1>4, <1>6, Writes
<1>8. Noted(Me.mac, dl.file, from)
  BY <1>1, <1>2, <1>7 DEF Noted
<1>9. ASSUME NEW m \in Names, NEW p \in Nat, NotesOn(k, m, p)
      PROVE  \E p1 \in Nat : p1 <= p /\ Noted(Me.mac, m, p1)
  <2>1. pc' = "SendChunk" /\ m = dl'.file /\ p = dl'.start + dl'.total - dl'.left
    BY <1>6, <1>9 DEF NotesOn, StampPosition
  <2>2. m = dl.file /\ p = dl.start + dl.total - (dl.left - n)
    BY <1>4, <1>6, <2>1
  <2>3. from <= p
    BY <1>4, <2>2
  <2> QED
    BY <1>4, <1>8, <2>2, <2>3
<1>10. Keeps(k)
  BY <1>1, <1>6, <1>8, <1>9 DEF Keeps
<1>11. (\E c \in Clients : conn[c] = k) => r = "ok" /\ status = "Success"
  BY <1>1, <1>2, <1>3, <1>7, LinkedServed
<1>12. Recognizes(k)
  BY <1>1, <1>6, <1>11 DEF Recognizes
<1>13. Remembers(k)
  <2>1. ASSUME NEW s \in stamps', NEW c \in Clients, MacOf[c] = s.mac
        PROVE  conn[c] # k /\ Elsewhere(c, k)
    BY <1>6, <1>7, <1>11, <2>1 DEF Named
  <2> QED
    BY <2>1 DEF Remembers
<1>14. Goes(k, 0)
  BY <1>6, <1>7, <1>10, <1>12, <1>13 DEF Goes, AsksNext
<1>15. ASSUME NEW c \in Clients, conn[c] = k PROVE DialogueInv(c)'
  <2>1. UNCHANGED <<at, conn, job, local>>
    BY DEF clientVars
  <2>2. StartInv(c) /\ GetsInv(c) /\ QuietInv(c)
    BY <1>7, <1>15 DEF DownloadsInv, DialogueInv, ServedInv, Linked
  <2>3. PICK q, more, have, total, left :
           /\ q = Queue(c) /\ more = Queue(c)' /\ have = Kept(c, job[c].file)
           /\ total = q[1].total /\ left = job[c].left
    OBVIOUS
  <2>4. /\ q \in Seq(Unit) /\ more = q \o units /\ left \in Nat /\ at[c] \in ClientPlaces
        /\ Shape(at[c], left, q) /\ Len(q) \in Nat
    BY <1>7, <1>15, <2>3, LenProperties
  <2>5. \/ at[c] = "recvResponse" /\ Len(q) >= 1 /\ q[1].ready /\ total - (Len(q) - 1) = dl.left
        \/ at[c] = "recvFile" /\ left - Len(q) = dl.left
    <3>1. Gives(at[c], left, q) = Streams(dl.left)
      BY <1>1, <1>7, <1>15, <2>3 DEF Doing
    <3> QED
      BY SMTT(30), <1>4, <2>3, <2>4, <3>1, ReaderPlaces
  <2>6. at[c] = "recvResponse" => q # <<>> /\ total \in Nat
    <3>1. Len(q) >= 1 => q # <<>> /\ q[1] \in Unit
      BY <2>4, ElementOfSeq, EmptySeq
    <3>2. at[c] = "recvResponse" => Len(q) >= 1
      BY <2>5
    <3>3. at[c] = "recvResponse" => q[1].t = "response"
      BY <2>4, <3>2 DEF Shape
    <3>4. \A u \in Unit : u.t = "response" => u.total \in Nat
      BY DEF Unit
    <3> QED
      BY <2>3, <3>1, <3>2, <3>3, <3>4
  <2>7. HasReply(c)
    BY <2>3, <2>5, <2>6 DEF HasReply
  <2>8. dl.file = job[c].file /\ asked[k] = file
    BY <1>1, <1>2, <1>15, <2>2, <2>7 DEF QuietInv, Hosted
  <2>9. Kept(c, job[c].file)' = have /\ asked'[conn'[c]] = file /\ have \in Seq(Blocks)
    <3>1. have \in Seq(Blocks)
      BY <1>4, <2>3, <2>8, KeptLemma
    <3> QED
      BY <1>1, <1>15, <2>1, <2>3, <2>8, <3>1 DEF Kept
  <2>10. ASSUME NEW i \in {0, 1}, NEW rest \in Nat, Gets(c, i, rest), i <= Len(q),
                rest - (Len(q) - i) = dl.left
         PROVE  Gets(c, i, rest)'
    <3>1. /\ Begins(have, file) /\ Len(have) + rest = Len(file)
          /\ GoesOn(q, i, have, file)
      BY <1>15, <2>3, <2>8, <2>10 DEF Gets, GoesOn
    <3>2. GoesOn(more, i, have, file)
      <4>1. /\ have \in Seq(Blocks) /\ file \in Seq(Blocks) /\ q \in Seq(Unit)
            /\ units \in Seq(Unit) /\ more = q \o units /\ i \in Nat
            /\ from \in Nat /\ BlocksFrom(units, file, from)
        <5>1. BlocksFrom(units, file, from)
          BY <1>4 DEF BlocksFrom
        <5>2. i \in Nat
          OBVIOUS
        <5> QED
          BY <1>4, <2>4, <2>9, <5>1, <5>2
      <4>2. PICK a, b, h : a = Len(q) /\ b = Len(file) /\ h = Len(have)
        OBVIOUS
      <4>3. a \in Nat /\ b \in Nat /\ h \in Nat
        BY <4>1, <4>2, LenProperties
      <4>4. /\ from = b - dl.left /\ h + rest = b /\ rest - (a - i) = dl.left
            /\ dl.left \in Nat /\ rest \in Nat
        BY <1>4, <2>10, <3>1, <4>2
      <4>5. from = h + a - i
        BY SMTT(30), <4>1, <4>3, <4>4
      <4> QED
        BY <3>1, <4>1, <4>2, <4>5, BlocksMore
    <3> QED
      BY <2>3, <2>9, <3>1, <3>2 DEF Gets, GoesOn
  <2>11. GetsInv(c)'
    <3>1. CASE at[c] = "recvFile"
      <4>1. Gets(c, 0, left)
        BY <2>2, <2>3, <3>1 DEF GetsInv
      <4>2. 0 <= Len(q) /\ left - (Len(q) - 0) = dl.left
        BY <1>4, <2>4, <2>5, <3>1
      <4>3. Gets(c, 0, left)'
        BY <2>4, <2>10, <4>1, <4>2
      <4> QED
        BY <2>1, <2>3, <3>1, <4>3 DEF GetsInv
    <3>2. CASE at[c] = "recvResponse"
      <4>1. Gets(c, 1, total)
        BY <2>2, <2>3, <2>5, <2>6, <3>2 DEF GetsInv
      <4>2. 1 <= Len(q) /\ total - (Len(q) - 1) = dl.left
        BY <2>4, <2>5, <3>2
      <4>3. Gets(c, 1, total)'
        BY <2>6, <2>10, <3>2, <4>1, <4>2
      <4>4. more[1] = q[1]
        BY <1>4, <2>4, <4>2, ConcatProperties
      <4> QED
        BY <2>1, <2>3, <3>2, <4>3, <4>4 DEF GetsInv
    <3> QED
      BY <2>5, <3>1, <3>2
  <2>12. StartInv(c)'
    BY <2>1, <2>2 DEF StartInv, Kept
  <2>13. HasReply(c)'
    <3>1. at[c] = "recvResponse" => more # <<>>
      <4>1. Len(q) >= 1 => Len(more) >= 1
        BY <1>4, <2>4, ConcatProperties, LenProperties
      <4>2. more = <<>> => Len(more) = 0
        OBVIOUS
      <4> QED
        BY <2>4, <2>5, <4>1, <4>2
    <3> QED
      BY <2>1, <2>3, <2>5, <3>1 DEF HasReply
  <2>14. Serves(k)' => /\ Incoming(k)' = <<>>
                       /\ \/ pc' = "RecvHeader"
                          \/ /\ pc' = "SendChunk" /\ dl'.file = job'[c].file
                             /\ asked'[k] = Hosted(job[c].file)'
    <3>1. Hosted(job[c].file)' = file
      BY <1>2, <1>6, <2>1, <2>8 DEF Hosted
    <3>2. Serves(k)' => pc' # "Listen"
      BY DEF Serves
    <3>3. pc' = "SendChunk" => dl'.file = dl.file
      BY <1>4, <1>6
    <3> QED
      BY <1>1, <1>6, <1>7, <2>1, <2>8, <3>1, <3>2, <3>3
  <2> QED
    BY <1>15, <2>1, <2>11, <2>12, <2>13, <2>14, AnsweredDialogue
<1> QED
  BY <1>14, <1>15, AttendsDownloads

-----------------------------------------------------------------------------
(* The server accepts a connection.                                        *)

(* Nothing but the address has come over a connection not accepted yet.    *)
LEMMA OnlyMac ==
    ASSUME TransferInv, InStepInv, NEW k \in backlog
    PROVE  /\ k \in Conns /\ Incoming(k) \in Seq(Unit) /\ Awaited(k)
           /\ \A i \in 1..Len(Incoming(k)) : Incoming(k)[i].t = "mac"
<1>1. k \in Conns /\ Awaited(k) /\ Expects(k) = WantMac
  BY DEF TransferInv, NetInv, Awaited, Expects
<1>2. PICK q, y : q = Incoming(k) /\ q \in Seq(Unit) /\ Leads(q, WantMac, y)
  <2>1. net[k].queue["srv"] \in Seq(Unit)
    BY <1>1 DEF TransferInv, NetInv, Link, Ends
  <2>2. \E y : Leads(net[k].queue["srv"], WantMac, y)
    BY <1>1 DEF InStepInv, Talk
  <2> QED
    BY <2>1, <2>2 DEF Incoming
<1>3. q = <<>> \/ (Len(q) = 1 /\ q[1].t = "mac")
  BY <1>2, MacFirst
<1>4. q = <<>> => Len(q) = 0
  OBVIOUS
<1>5. \A i \in 1..Len(q) : q[i].t = "mac"
  BY <1>3, <1>4
<1> QED
  BY <1>1, <1>2, <1>5

LEMMA AcceptDownloads ==
    ASSUME TransferInv, InStepInv, DownloadsInv, UNCHANGED clientVars, TcpAccept
    PROVE  DownloadsInv'
<1>1. PICK k \in backlog :
         /\ Accept(k) /\ backlog' = backlog \ {k} /\ UNCHANGED net
         /\ asked' = [asked EXCEPT ![k] = <<>>]
  BY DEF TcpAccept
<1>2. PICK q : q = Incoming(k)
  OBVIOUS
<1>3. /\ k \in Conns /\ q \in Seq(Unit) /\ Awaited(k)
      /\ \A i \in 1..Len(q) : q[i].t = "mac"
  BY <1>2, OnlyMac
<1>4. /\ pc = "Listen" /\ pc' = "RecvMac" /\ cur' = Len(clients) + 1 /\ status' = "Success"
      /\ clients' = Append(clients, [conn |-> k, mac |-> ZeroMac])
      /\ UNCHANGED <<packet, stamps, disk, dl, ul>>
  BY <1>1 DEF Accept, NewIndex
<1>5. /\ clients'[cur'] = [conn |-> k, mac |-> ZeroMac]
      /\ Len(clients') = Len(clients) + 1 /\ Len(clients) \in Nat
  BY <1>4, LenProperties DEF TransferInv, IInv, TypeOK
<1>6. /\ Me' = [conn |-> k, mac |-> ZeroMac]
      /\ \A l : (Serves(l)' <=> l = k) /\ ~Serves(l)
  <2>1. Me' = [conn |-> k, mac |-> ZeroMac]
    BY <1>5 DEF Me
  <2>2. cur' \in 1..Len(clients')
    BY <1>4, <1>5
  <2> QED
    BY <1>4, <2>1, <2>2 DEF Serves
<1>7. backlog = {k} /\ backlog' = {}
  <2>1. \A l \in backlog : l = k
    BY DEF DownloadsInv, QueueInv
  <2> QED
    BY <1>1, <2>1
<1>8. UNCHANGED <<at, conn, job, local, said>> /\ \A l : Incoming(l)' = Incoming(l)
  BY <1>1 DEF clientVars, Incoming
<1>9. QueueInv' /\ SaidInv'
  BY <1>7, <1>8 DEF DownloadsInv, QueueInv, SaidInv, Downloading
<1>10. \A l \in Conns : NamesInv(l)'
  <2> TAKE l \in Conns
  <2>1. CASE l # k
    BY <1>6, <1>7, <2>1 DEF NamesInv, Awaited
  <2>2. CASE l = k
    <3>1. NamesInv(k)
      BY <1>3 DEF DownloadsInv
    <3>2. \A m : Named(k, m) => Named(k, m)'
      BY <1>7, <1>8 DEF Named, Elsewhere, Linked
    <3>3. \A i \in 1..Len(q) : q[i].t = "mac" => Named(k, q[i].mac)'
      BY <1>2, <1>3, <3>1, <3>2 DEF NamesInv
    <3> QED
      BY <1>2, <1>4, <1>6, <1>8, <2>2, <3>3 DEF NamesInv
  <2> QED
    BY <2>1, <2>2
<1>11. \A l, i : Serves(l)' /\ i \in 1..Len(Incoming(l)') => ~Requested(l, i)'
  <2> TAKE l, i
  <2>1. Serves(l)' => l = k
    BY <1>6
  <2>2. i \in 1..Len(q) => ~Requested(k, i)'
    BY <1>2, <1>3, <1>8 DEF Requested
  <2> QED
    BY <1>2, <1>8, <2>1, <2>2
<1>12. \A l \in Conns : EagerInv(l)'
  <2> TAKE l \in Conns
  <2>1. PICK more : more = Incoming(l)'
    OBVIOUS
  <2>2. \A i \in 2..Len(more) : Serves(l)' => ~Requested(l, i)'
    BY <1>11, <2>1
  <2> QED
    BY <2>1, <2>2 DEF EagerInv
<1>13. NotesInv'
  <2>1. \A m, n, p : Noted(m, n, p)' => Noted(m, n, p)
    BY <1>4, <1>11 DEF Noted
  <2>2. \A c, n, p : Copy(c, n, p) => Copy(c, n, p)'
    BY <1>4, <1>8 DEF Copy, Kept, Hosted
  <2> QED
    BY <2>1, <2>2 DEF DownloadsInv, NotesInv
<1>14. AwayInv'
  <2>1. \A c \in Clients : Away(c) => Away(c)'
    BY <1>4, <1>6, <1>7, <1>8 DEF Away, Linked
  <2> QED
    BY <1>4, <2>1 DEF DownloadsInv, AwayInv
<1>15. ASSUME NEW c \in Clients PROVE DialogueInv(c)'
  <2>1. CASE conn[c] = k
    <3>1. at[c] = "sendMac" \/ (at[c] = "recvGreeting" /\ Queue(c) = <<>>)
      BY <2>1, NewClient
    <3>2. PICK r : r = Queue(c) /\ Queue(c)' = r /\ at'[c] = at[c]
      BY <1>1, <1>8 DEF Queue
    <3>3. r = <<>> => Len(r) # 2
      OBVIOUS
    <3> QED
      BY <3>1, <3>2, <3>3, GreetedDialogue, NextNoDialogue DEF Dialogue
  <2>2. CASE conn[c] # k
    <3>1. PICK l : l = conn[c]
      OBVIOUS
    <3>2. ~Serves(l)' /\ (l \in Conns => asked'[l] = asked[l])
      BY <1>1, <1>6, <2>2, <3>1 DEF TransferInv, NetInv
    <3> QED
      BY <1>1, <1>8, <3>1, <3>2, UnservedDialogue DEF DownloadsInv
  <2> QED
    BY <2>1, <2>2
<1> QED
  BY <1>9, <1>10, <1>12, <1>13, <1>14, <1>15 DEF DownloadsInv

-----------------------------------------------------------------------------
(* The server ends, and starts again.                                      *)

LEMMA EndDownloads ==
    ASSUME TransferInv, InStepInv, DownloadsInv, UNCHANGED clientVars, SrvCloses,
           pc' = "Dead", stamps' = {}
    PROVE  DownloadsInv'
<1>1. UNCHANGED <<at, conn, job, local, said>> /\ backlog' = {} /\ UNCHANGED asked
  BY DEF clientVars, SrvCloses
<1>2. \A l : ~Serves(l)' /\ ~Awaited(l)'
  BY <1>1 DEF Serves, Awaited
<1>3. ASSUME NEW l \in Conns PROVE net'[l].queue["cli"] = net[l].queue["cli"]
  <2>1. net[l] \in Link /\ Whole(net[l])
    BY DEF TransferInv, NetInv, InStepInv, LinksInv
  <2>2. net'[l] \in {Close(net[l], "srv"), Abort(net[l]), net[l]}
    BY DEF SrvCloses
  <2> QED
    BY <2>1, <2>2, ClosedLemma
<1>4. QueueInv' /\ SaidInv'
  BY <1>1 DEF DownloadsInv, QueueInv, SaidInv, Downloading
<1>5. \A l \in Conns : NamesInv(l)' /\ EagerInv(l)'
  BY <1>2 DEF NamesInv, EagerInv
<1>6. NotesInv' /\ AwayInv'
  BY <1>2 DEF NotesInv, Noted, AwayInv
<1>7. ASSUME NEW c \in Clients PROVE DialogueInv(c)'
  <2>1. PICK l : l = conn[c]
    OBVIOUS
  <2> QED
    BY <1>1, <1>2, <1>3, <2>1, UnservedDialogue DEF DownloadsInv
<1> QED
  BY <1>4, <1>5, <1>6, <1>7 DEF DownloadsInv

LEMMA RestartDownloads ==
    ASSUME TransferInv, InStepInv, DownloadsInv, UNCHANGED clientVars, RestartServer
    PROVE  DownloadsInv'
<1>1. /\ UNCHANGED <<at, conn, job, local, said>> /\ UNCHANGED <<net, backlog, asked>>
      /\ UNCHANGED <<stamps, disk, status>> /\ pc' = "Listen" /\ pc = "Dead"
  BY DEF clientVars, RestartServer, Restart
<1>2. \A l : ~Serves(l)' /\ ~Serves(l) /\ (Awaited(l)' <=> Awaited(l)) /\ Incoming(l)' = Incoming(l)
  BY <1>1 DEF Serves, Awaited, Incoming
<1>3. QueueInv' /\ SaidInv'
  BY <1>1 DEF DownloadsInv, QueueInv, SaidInv, Downloading
<1>4. ASSUME NEW l \in Conns PROVE NamesInv(l)' /\ EagerInv(l)'
  <2>1. \A m : Named(l, m) => Named(l, m)'
    BY <1>1 DEF Named, Elsewhere, Linked
  <2>2. PICK q : q = Incoming(l) /\ q = Incoming(l)'
    BY <1>2
  <2>3. Awaited(l) => \A i \in 1..Len(q) : q[i].t = "mac" => Named(l, q[i].mac)'
    BY <2>1, <2>2 DEF DownloadsInv, NamesInv
  <2> QED
    BY <1>2, <2>2, <2>3 DEF NamesInv, EagerInv
<1>5. NotesInv'
  <2>1. \A m, n, p : Noted(m, n, p)' => Noted(m, n, p)
    BY <1>1, <1>2 DEF Noted
  <2>2. \A c, n, p : Copy(c, n, p) => Copy(c, n, p)'
    BY <1>1 DEF Copy, Kept, Hosted
  <2> QED
    BY <2>1, <2>2 DEF DownloadsInv, NotesInv
<1>6. AwayInv'
  <2>1. \A c \in Clients : Away(c) => Away(c)'
    BY <1>1, <1>2 DEF Away, Linked
  <2> QED
    BY <1>1, <2>1 DEF DownloadsInv, AwayInv
<1>7. ASSUME NEW c \in Clients PROVE DialogueInv(c)'
  <2>1. PICK l : l = conn[c]
    OBVIOUS
  <2> QED
    BY <1>1, <1>2, <2>1, UnservedDialogue DEF DownloadsInv
<1> QED
  BY <1>3, <1>4, <1>5, <1>6, <1>7 DEF DownloadsInv

(* Or nothing happens.                                                     *)
LEMMA StillDownloads ==
    ASSUME DownloadsInv, UNCHANGED vars PROVE DownloadsInv'
<1>1. /\ UNCHANGED <<at, conn, job, local, said>> /\ UNCHANGED <<net, backlog, asked>>
      /\ UNCHANGED <<pc, clients, cur, status, packet, stamps, disk, dl, ul>>
  BY DEF vars, serverVars, clientVars
<1>2. /\ Me' = Me /\ StampPosition' = StampPosition
      /\ \A l : /\ (Serves(l)' <=> Serves(l)) /\ (Awaited(l)' <=> Awaited(l))
                /\ Incoming(l)' = Incoming(l)
  BY <1>1 DEF Serves, Awaited, Incoming, Me, StampPosition
<1>3. QueueInv' /\ SaidInv'
  BY <1>1 DEF DownloadsInv, QueueInv, SaidInv, Downloading
<1>4. \A l, i : Requested(l, i)' <=> Requested(l, i)
  BY <1>1, <1>2 DEF Requested
<1>5. ASSUME NEW l \in Conns PROVE NamesInv(l)' /\ EagerInv(l)'
  <2>1. \A m : Named(l, m) => Named(l, m)'
    BY <1>1 DEF Named, Elsewhere, Linked
  <2>2. NamesInv(l)'
    BY <1>1, <1>2, <2>1 DEF DownloadsInv, NamesInv
  <2>3. EagerInv(l)'
    BY <1>1, <1>2, <1>4 DEF DownloadsInv, EagerInv
  <2> QED
    BY <2>2, <2>3
<1>6. NotesInv'
  <2>1. \A m, n, p : Noted(m, n, p)' => Noted(m, n, p)
    BY <1>1, <1>2, <1>4 DEF Noted
  <2>2. \A c, n, p : Copy(c, n, p) => Copy(c, n, p)'
    BY <1>1 DEF Copy, Kept, Hosted
  <2> QED
    BY <2>1, <2>2 DEF DownloadsInv, NotesInv
<1>7. AwayInv'
  <2>1. \A c \in Clients : Away(c) => Away(c)'
    BY <1>1, <1>2 DEF Away, Linked
  <2> QED
    BY <1>1, <2>1 DEF DownloadsInv, AwayInv
<1>8. ASSUME NEW c \in Clients PROVE DialogueInv(c)'
  <2>1. PICK l : l = conn[c]
    OBVIOUS
  <2> QED
    BY <1>1, <1>2, <2>1, SteadyDialogue DEF DownloadsInv
<1> QED
  BY <1>3, <1>5, <1>6, <1>7, <1>8 DEF DownloadsInv

-----------------------------------------------------------------------------
LEMMA ServerDownloads ==
    ASSUME TransferInv, InStepInv, DownloadsInv, UNCHANGED clientVars,
           ServerStep \/ KillServer \/ RestartServer
    PROVE  DownloadsInv'
<1>1. CASE TcpSigpipe \/ TcpUseAfterRemove \/ KillServer
  BY <1>1, EndDownloads DEF TcpSigpipe, TcpUseAfterRemove, KillServer, Sigpipe, UseAfterRemove,
     Kill, Die
<1>2. CASE TcpAccept \/ RestartServer
  BY <1>2, AcceptDownloads, RestartDownloads
<1>3. CASE \/ TcpRecvMac \/ TcpRecvHeader \/ TcpRecvData
           \/ TcpUpload \/ TcpRecvChunk \/ TcpDiscard
  BY <1>3, RecvMacDownloads, RecvHeaderDownloads, RecvDataDownloads, UploadDownloads,
     RecvChunkDownloads
<1>4. CASE TcpGreet \/ TcpSendStamp \/ TcpReply \/ TcpDownload \/ TcpSendChunk
  BY <1>4, GreetDownloads, SendStampDownloads, ReplyDownloads, DownloadDownloads,
     SendChunkDownloads
<1> QED
  BY <1>1, <1>2, <1>3, <1>4 DEF ServerStep

LEMMA NextDownloadsInv ==
    ASSUME Distinct, WantedFlat, TransferInv, TransferInv', InStepInv, InStepInv', DownloadsInv,
           [TransferNext]_vars
    PROVE  DownloadsInv'
<1>1. CASE (ServerStep \/ KillServer \/ RestartServer) /\ UNCHANGED clientVars
  BY <1>1, ServerDownloads
<1>2. CASE \E c \in Clients : ClientStep(c) \/ UserStep(c) \/ KillClient(c)
  BY <1>2, ClientDownloads
<1>3. CASE UNCHANGED vars
  BY <1>3, StillDownloads
<1> QED
  BY <1>1, <1>2, <1>3 DEF TransferNext

LEMMA InitDownloadsInv == TransferInit => DownloadsInv
<1> SUFFICES ASSUME TransferInit PROVE DownloadsInv
  OBVIOUS
<1>1. /\ pc = "Listen" /\ stamps = {} /\ backlog = {} /\ \A c \in Clients : conn[c] \notin Conns
      /\ said = [c \in Clients |-> "nothing"]
  BY ClientAssumption DEF TransferInit, ServerInit, ClientInit, NoSocket
<1>2. \A k : ~Serves(k) /\ ~Awaited(k)
  BY <1>1 DEF Serves, Awaited
<1>3. QueueInv /\ SaidInv /\ NotesInv /\ AwayInv
  BY <1>1, <1>2 DEF QueueInv, SaidInv, NotesInv, Noted, AwayInv
<1>4. \A k \in Conns : NamesInv(k) /\ EagerInv(k)
  BY <1>2 DEF NamesInv, EagerInv
<1>5. \A c \in Clients : DialogueInv(c)
  BY <1>1 DEF DialogueInv, Linked
<1> QED
  BY <1>3, <1>4, <1>5 DEF DownloadsInv

-----------------------------------------------------------------------------
(* The end of a download: nothing was missing, or nothing but what came.   *)
LEMMA EndsWhole ==
    ASSUME TransferInv, InStepInv, DownloadsInv, NEW c \in Clients, Linked(c),
           Queue(c) # <<>>, said'[c] = "saved", said[c] # "saved",
           NEW n, n = job[c].file,
           \/ /\ at[c] = "recvResponse"
              /\ \E u \in ResponsesIn(Head(Queue(c))) : RecvResponse(c, "ok", u.ready, u.total)
           \/ /\ at[c] = "recvFile"
              /\ \E d \in BlocksAt(Queue(c), job[c].left) : RecvFile(c, "ok", d)
    PROVE  local'[c][n].data = asked[conn[c]]
<1>1. /\ at \in [Clients -> ClientPlaces] /\ job \in [Clients -> Job]
      /\ local \in [Clients -> [Names -> Entry]] /\ n \in Names
  BY DEF TransferInv, ClientInv, Job
<1>2. DOMAIN said = Clients
  BY DEF DownloadsInv, SaidInv
<1>3. GetsInv(c)
  BY DEF DownloadsInv, DialogueInv
<1>4. PICK q, have, want : q = Queue(c) /\ have = Kept(c, n) /\ want = asked[conn[c]]
  OBVIOUS
<1>5. have \in Seq(Blocks) /\ want \in Seq(Blocks) /\ Len(have) \in Nat /\ Len(want) \in Nat
  BY <1>1, <1>4, KeptLemma, LenProperties DEF TransferInv, NetInv, Linked
<1>6. CASE at[c] = "recvResponse"
  <2>1. PICK u \in ResponsesIn(Head(q)) : RecvResponse(c, "ok", u.ready, u.total)
    BY <1>4, <1>6
  <2>2. /\ q \in Seq(Unit) /\ Shape(at[c], job[c].left, q) /\ Head(q) = q[1]
    BY <1>4, LinkedTalk, HeadTailProperties
  <2>3. "recvResponse" \in DOMAIN ClientExpects \ {"recvAccept"}
        /\ ClientExpects["recvResponse"] = "response"
    BY DEF ClientExpects
  <2>4. q[1].t = "response"
    BY <1>4, <1>6, <2>2, <2>3, ShapeLemma
  <2>5. u = q[1]
    BY <2>1, <2>2, <2>4 DEF ResponsesIn
  <2>6. u.ready /\ u.total = 0 /\ UNCHANGED local
    BY <1>1, <1>6, <2>1 DEF RecvResponse, FailDownload, Return, DownloadsInv, SaidInv
  <2>7. Gets(c, 1, 0)
    BY <1>3, <1>4, <1>6, <2>5, <2>6 DEF GetsInv
  <2>8. Begins(have, want) /\ Len(have) + 0 = Len(want)
    BY <1>4, <2>7 DEF Gets
  <2>9. have = want
    BY <1>5, <2>8, WholeCopy
  <2> QED
    BY <1>4, <2>6, <2>9 DEF Kept
<1>7. CASE at[c] = "recvFile"
  <2>1. PICK d \in BlocksAt(q, job[c].left) : RecvFile(c, "ok", d)
    BY <1>4, <1>6, <1>7
  <2>2. /\ d \in Seq(Blocks) /\ Len(d) <= job[c].left /\ job[c].left \in Nat
        /\ Len(d) \in 1..Len(q)
        /\ Len(have) + job[c].left = Len(want)
        /\ Begins(have \o d, want) /\ have \o d \in Seq(Blocks)
        /\ Len(have \o d) = Len(have) + Len(d)
    BY <1>3, <1>4, <1>7, <2>1, GetsNext
  <2>3. PICK more : more = have \o d
    OBVIOUS
  <2>4. ~MoreToReceive(c, d) /\ local' = [local EXCEPT ![c][n] = File(@.data \o d)]
    BY <1>7, <2>1 DEF RecvFile
  <2>5. local'[c][n].data = more
    BY <1>1, <1>4, <2>3, <2>4 DEF Kept, File
  <2>6. Len(d) \in Nat
    BY <2>2, LenProperties
  <2>7. Len(d) = job[c].left
    BY <2>2, <2>4, <2>6 DEF MoreToReceive
  <2>8. Len(more) = Len(want)
    BY <2>2, <2>3, <2>7
  <2>9. more = want
    BY <1>5, <2>2, <2>3, <2>8, WholeCopy
  <2> QED
    BY <1>4, <2>5, <2>9
<1> QED
  BY <1>6, <1>7

LEMMA SavedWhole ==
    ASSUME TransferInv, InStepInv, DownloadsInv, [TransferNext]_vars, NEW c \in Clients,
           at[c] \in {"recvResponse", "recvFile"}, said'[c] = "saved", NEW n, n = job[c].file
    PROVE  local'[c][n].data = asked[conn[c]]
<1>1. said[c] # "saved"
  BY DEF DownloadsInv, SaidInv, Downloading
<1>2. PICK d \in Clients : ClientStep(d) \/ UserStep(d) \/ KillClient(d)
  <2>1. (UNCHANGED clientVars \/ UNCHANGED vars) => said' = said
    BY DEF clientVars, vars
  <2> QED
    BY <1>1, <2>1 DEF TransferNext
<1>3. Moves(d) /\ UNCHANGED serverVars
  BY <1>2, ClientMoves
<1>4. c \in DOMAIN at /\ c \in DOMAIN said
  BY DEF DownloadsInv, SaidInv, TransferInv, ClientInv
<1>5. d = c
  <2>1. Says(d)
    <3>1. d \in DOMAIN at /\ Others(d)
      BY <1>3, MovesAlone DEF DownloadsInv, TransferInv, ClientInv
    <3>2. CASE TcpConnect(d)
      BY <3>2 DEF TcpConnect, Connect, Says
    <3>3. CASE ClientDies(d)
      BY <3>3 DEF ClientDies, Says
    <3>4. CASE ConnectFails(d)
      BY <3>1, <3>4, ReturnSays DEF ConnectFails
    <3> QED
      BY <1>3, <3>1, <3>2, <3>3, <3>4, CommandSays, ReceiveSays, SendSays DEF Moves, Leaves
  <2> QED
    BY <1>1, <1>4, <2>1 DEF Says
<1>6. ~TcpConnect(c) /\ ~Commands(c)
  BY DEF TcpConnect, Connect, Commands, Answer, DownloadCmd, UploadCmd, AskCmd, CloseCmd,
     StartClient
<1>7. ~TcpSend(c)
  BY DEF TcpSend, SendMac, SendDownload, SendUpload, SendFile, SendAsk, SendClose
<1>8. ~Leaves(c)
  BY <1>4 DEF Leaves, ClientDies, ConnectFails
<1>9. TcpReceive(c)
  BY <1>3, <1>5, <1>6, <1>7, <1>8 DEF Moves
<1>10. PICK r : r = CliRecv(c)
  OBVIOUS
<1>11. Linked(c) /\ r = "ok"
  <2>1. CASE r # "ok"
    <3>1. said'[c] # "saved"
      BY <1>4, <1>9, <1>10, <2>1 DEF TcpReceive, RecvGreeting, RecvStamp, RecvResponse, RecvFile,
         RecvAnswer, FailDownload, Return
    <3> QED
      BY <3>1
  <2> QED
    BY <1>9, <2>1 DEF TcpReceive
<1>12. Queue(c) # <<>>
  BY <1>9, <1>10, <1>11, ReceivingLemma DEF TcpReceive
<1>13. \/ /\ at[c] = "recvResponse"
          /\ \E u \in ResponsesIn(Head(Queue(c))) : RecvResponse(c, "ok", u.ready, u.total)
       \/ /\ at[c] = "recvFile"
          /\ \E e \in BlocksAt(Queue(c), job[c].left) : RecvFile(c, "ok", e)
  BY <1>9, <1>10, <1>11 DEF TcpReceive, RecvGreeting, RecvStamp, RecvAnswer
<1> QED
  BY <1>1, <1>11, <1>12, <1>13, EndsWhole

-----------------------------------------------------------------------------
LEMMA DownloadsInvariant ==
    ASSUME Numbers = Nat, Distinct, WantedFlat
    PROVE  TransferSpec => [](TransferInv /\ InStepInv /\ DownloadsInv)
<1>1. TransferInit => TransferInv /\ InStepInv /\ DownloadsInv
  BY InitTransferInv, InitInStepInv, InitDownloadsInv
<1>2. TransferInv /\ InStepInv /\ DownloadsInv /\ [TransferNext]_vars
         => TransferInv' /\ InStepInv' /\ DownloadsInv'
  BY NextTransferInv, NextInStepInv, NextDownloadsInv
<1> QED
  BY <1>1, <1>2, PTL DEF TransferSpec

(* A download that reports success has saved what the server held when it  *)
(* was asked for it, all of it and nothing else: however it is cut into    *)
(* sends and reads, however many times it was broken off and taken up      *)
(* again, whatever others upload meanwhile, and whoever is killed when.    *)
THEOREM TransferDownloads ==
    ASSUME Numbers = Nat, Distinct, WantedFlat
    PROVE  TransferSpec => DownloadIntegrity
<1>1. TransferSpec => [](TransferInv /\ InStepInv /\ DownloadsInv)
  BY DownloadsInvariant
<1>2. TransferInv /\ InStepInv /\ DownloadsInv /\ [TransferNext]_vars
         => [\A c \in Clients :
               at[c] \in {"recvResponse", "recvFile"} /\ said'[c] = "saved"
                  => local'[c][job[c].file].data = asked[conn[c]]]_vars
  BY SavedWhole
<1> QED
  BY <1>1, <1>2, PTL DEF TransferSpec, DownloadIntegrity

(* A stamp, and the copy it belongs to: what the client kept of a download *)
(* that was broken off is the beginning of the file it will be offered.    *)
THEOREM TransferStamps ==
    ASSUME Numbers = Nat, Distinct, WantedFlat
    PROVE  TransferSpec => []StampFitsCopy
<1>1. TransferSpec => [](TransferInv /\ InStepInv /\ DownloadsInv)
  BY DownloadsInvariant
<1>2. TransferInv /\ InStepInv /\ DownloadsInv => StampFitsCopy
  <2> SUFFICES ASSUME TransferInv, InStepInv, DownloadsInv,
                      NEW s \in stamps, NEW c \in Clients, MacOf[c] = s.mac
               PROVE  /\ IsPrefix(local[c][s.file].data, disk[s.file].data)
                      /\ Len(local[c][s.file].data) <= s.position
    BY DEF StampFitsCopy
  <2>1. s \in Stamp
    BY DEF TransferInv, IInv, TypeOK
  <2>2. /\ s = [mac |-> s.mac, file |-> s.file, position |-> s.position]
        /\ s.mac \in Macs /\ s.file \in Names /\ s.position \in Nat
    BY <2>1 DEF Stamp
  <2>3. Noted(s.mac, s.file, s.position)
    BY <2>2 DEF Noted
  <2>4. Copy(c, s.file, s.position)
    BY <2>2, <2>3 DEF DownloadsInv, NotesInv
  <2>5. Kept(c, s.file) \in Seq(Blocks) /\ Hosted(s.file) \in Seq(Blocks)
    BY <2>2, KeptLemma
  <2>6. IsPrefix(Kept(c, s.file), Hosted(s.file)) /\ Len(Kept(c, s.file)) <= s.position
    BY <2>4, <2>5, PrefixLemma DEF Copy
  <2> QED
    BY <2>6 DEF Kept, Hosted
<1> QED
  BY <1>1, <1>2, PTL

-----------------------------------------------------------------------------
(* An offer is made on a connection, and the server waits there for what   *)
(* becomes of it; nothing but an end of the server can keep it from that.  *)
Waits(c) ==
    /\ at[c] = "ask" => Linked(c)
    /\ Linked(c) /\ Offers(c) # {} => Serves(conn[c])
AskedInv == \A c \in Clients : Waits(c)

(* While a user decides, the server takes no step.                         *)
LEMMA OfferBlocks ==
    ASSUME TransferInv, InStepInv, DownloadsInv, NEW c \in Clients, Linked(c), Waits(c),
           Offers(c) # {}
    PROVE  ~(ServerStep \/ RestartServer)
<1>1. PICK k : k = conn[c]
  OBVIOUS
<1>2. Serves(k) /\ k \in Conns /\ Serving(pc) /\ k = S
  BY <1>1 DEF Waits, Linked, Serves, Serving, S
<1>3. pc = "RecvHeader" /\ Incoming(k) = <<>> /\ NamesInv(k)
  BY <1>1, <1>2 DEF DownloadsInv, DialogueInv, ServedInv, PromptInv
<1>4. ~TcpRecvHeader
  <2>1. SrvRecv \in Received => SrvQueue # <<>>
    BY <1>1, <1>2, <1>3, LinkedServed
  <2> QED
    BY <1>2, <1>3, <2>1 DEF TcpRecvHeader, Incoming, SrvQueue
<1>5. ~TcpUseAfterRemove
  BY <1>2 DEF TcpUseAfterRemove, UseAfterRemove, Serves
<1>6. ~TcpSigpipe
  BY <1>3 DEF TcpSigpipe, Sigpipe, Serving
<1>7. ~TcpAccept /\ ~RestartServer
  BY <1>3 DEF TcpAccept, Accept, RestartServer, Restart
<1>8. /\ ~TcpRecvMac /\ ~TcpGreet /\ ~TcpSendStamp /\ ~TcpRecvData /\ ~TcpReply /\ ~TcpDownload
      /\ ~TcpSendChunk /\ ~TcpRecvChunk /\ ~TcpDiscard
  BY <1>3 DEF TcpRecvMac, TcpGreet, TcpSendStamp, TcpRecvData, TcpReply, TcpDownload,
     TcpSendChunk, TcpRecvChunk, TcpDiscard, Serving
<1>9. ~TcpUpload
  BY <1>3 DEF TcpUpload, Upload, Serving
<1> QED
  BY <1>4, <1>5, <1>6, <1>7, <1>8, <1>9 DEF ServerStep

(* What waits for a client stays, but for what the server sends.           *)
LEMMA QueueStays ==
    ASSUME TransferInv, InStepInv, NEW k \in Conns,
           \/ TcpAccept \/ TcpRecvMac \/ TcpRecvHeader \/ TcpRecvData \/ TcpUpload
           \/ TcpRecvChunk \/ TcpDiscard \/ TcpSigpipe \/ TcpUseAfterRemove \/ RestartServer
    PROVE  net'[k].queue["cli"] = net[k].queue["cli"]
<1>1. net \in [Conns -> Link] /\ net[k] \in Link /\ Whole(net[k])
  BY DEF TransferInv, NetInv, InStepInv, LinksInv
<1>2. CASE SrvCloses
  <2>1. net'[k] \in {Close(net[k], "srv"), Abort(net[k]), net[k]}
    BY <1>2 DEF SrvCloses
  <2> QED
    BY <1>1, <2>1, ClosedLemma
<1>3. ASSUME NEW u, SrvReads(u) PROVE net'[k].queue["cli"] = net[k].queue["cli"]
  <2>1. CASE k # S
    BY <1>1, <1>3, <2>1 DEF SrvReads, SrvUpdate
  <2>2. CASE k = S
    <3>1. PICK n : n = AfterRecv(net[k], "srv", u)
      OBVIOUS
    <3>2. n.queue["cli"] = net[k].queue["cli"]
      BY <1>1, <3>1 DEF AfterRecv, Link, Ends
    <3>3. net'[k] \in {n, Close(n, "srv")}
      BY <1>1, <1>3, <2>2, <3>1 DEF SrvReads, SrvUpdate
    <3>4. Close(n, "srv").queue["cli"] = n.queue["cli"]
      BY <1>1, <3>1 DEF AfterRecv, Close, Link, Ends, Other
    <3> QED
      BY <3>2, <3>3, <3>4
  <2> QED
    BY <2>1, <2>2
<1>4. CASE UNCHANGED net
  BY <1>4
<1>5. \/ SrvCloses \/ UNCHANGED net \/ \E u : SrvReads(u)
  BY DEF TcpAccept, TcpRecvMac, TcpRecvHeader, TcpRecvData, TcpUpload, SrvLocal, TcpRecvChunk,
     TcpDiscard, TcpSigpipe, TcpUseAfterRemove, RestartServer
<1> QED
  BY <1>2, <1>3, <1>4, <1>5

(* The steps of the server: it offers, and then it waits.                  *)
LEMMA ServerWaits ==
    ASSUME TransferInv, InStepInv, DownloadsInv, AskedInv, UNCHANGED clientVars,
           ServerStep \/ RestartServer
    PROVE  AskedInv'
<1>1. UNCHANGED <<at, conn, job>>
  BY DEF clientVars
<1> SUFFICES ASSUME NEW c \in Clients PROVE Waits(c)'
  BY DEF AskedInv
<1>2. Waits(c)
  BY DEF AskedInv
<1>3. (at[c] = "ask" => Linked(c))'
  BY <1>1, <1>2 DEF Waits, Linked
<1>4. ASSUME Linked(c), Offers(c)' # {} PROVE Serves(conn[c])'
  <2>1. Offers(c) = {}
    BY <1>2, <1>4, OfferBlocks
  <2>2. PICK k : k = conn[c] /\ k \in Conns
    BY <1>4 DEF Linked
  <2>3. ASSUME net'[k].queue["cli"] = net[k].queue["cli"] PROVE FALSE
    <3>1. Queue(c)' = Queue(c)
      BY <1>1, <2>2, <2>3 DEF Queue
    <3>2. Offers(c)' = Offers(c)
      BY <1>1, <3>1 DEF Offers
    <3> QED
      BY <1>4, <2>1, <3>2
  <2>4. TcpGreet \/ TcpSendStamp \/ TcpReply \/ TcpDownload \/ TcpSendChunk
    BY <2>2, <2>3, QueueStays DEF ServerStep
  <2>5. PICK units : SrvWrites(units)
    BY <2>4 DEF TcpGreet, TcpSendStamp, TcpReply, TcpDownload, TcpSendChunk
  <2>6. k = S
    <3>1. k # S => net'[k] = net[k]
      BY <2>2, <2>5 DEF SrvWrites, SrvUpdate, TransferInv, NetInv
    <3> QED
      BY <2>3, <3>1
  <2>7. Serving(pc) /\ pc \in {"Greet", "SendStamp", "Reply", "Download", "SendChunk"}
    BY <2>4 DEF TcpGreet, TcpSendStamp, TcpReply, TcpDownload, TcpSendChunk, Serving
  <2>8. Serves(k) /\ NamesInv(k)
    BY <2>2, <2>6, <2>7, ServerServes DEF DownloadsInv
  <2>9. at[c] \in ClientPlaces /\ job[c].left \in Nat /\ Queue(c) \in Seq(Unit)
        /\ Shape(at[c], job[c].left, Queue(c)) /\ Gives(at[c], job[c].left, Queue(c)) = Doing
    <3>1. /\ at[c] \in ClientPlaces /\ job[c].left \in Nat /\ Queue(c) \in Seq(Unit)
          /\ Shape(at[c], job[c].left, Queue(c))
          /\ Leads(Incoming(k), Doing, Gives(at[c], job[c].left, Queue(c)))
          /\ Incoming(k) \in Seq(Unit)
      BY <2>2, <2>8, ServedClient
    <3>2. Doing.t \in {"reply", "stream"}
      <4>1. pc = "SendChunk" => dl.left # 0
        BY DEF TransferInv, IInv, DownloadInv
      <4>2. (Doing = Streams(dl.left) /\ dl.left # 0) \/ \E r : Doing = Owes(r)
        BY <2>7, <4>1 DEF Doing
      <4> QED
        BY <4>2 DEF Streams, Owes, Want
    <3>3. Gives(at[c], job[c].left, Queue(c)) = Doing
      BY <3>1, <3>2, RepliesWait
    <3> QED
      BY <3>1, <3>3
  <2>10. at[c] \notin {"recvGreeting", "recvStamp", "ask"} => Offers(c)' = {}
    BY <1>1 DEF Offers
  <2>11. CASE pc = "SendStamp"
    <3>1. TcpSendStamp /\ SrvSend(1) \in Sent
      BY <2>4, <2>11 DEF TcpGreet, TcpSendStamp, TcpReply, TcpDownload, TcpSendChunk, Serving
    <3>2. SrvSend(1) = "ok" /\ Latch("ok") = "Success"
      BY <2>2, <2>6, <2>7, <2>8, <3>1, LinkedServed
    <3>3. ~CheckFail("Success") /\ \A cs : AfterCheckFail(cs, "Success") = cs
      BY <2>2, <2>6, <2>7, <2>8, <3>1, LinkedServed
    <3>4. pc' = "RecvHeader" /\ UNCHANGED <<clients, cur>>
      BY <3>1, <3>2, <3>3 DEF TcpSendStamp, SendStamp
    <3> QED
      BY <1>1, <2>2, <2>8, <3>4 DEF Serves, Me
  <2>12. CASE pc = "Greet"
    <3>1. Gives(at[c], job[c].left, Queue(c)) = Owes("greeting")
      BY <2>9, <2>12 DEF Doing
    <3>2. at[c] = "recvGreeting" /\ Queue(c) = <<>>
      BY <2>9, <3>1, ReaderPlaces
    <3>3. Len(Queue(c)') = 1
      <4>1. TcpGreet
        BY <2>4, <2>12 DEF TcpGreet, TcpSendStamp, TcpReply, TcpDownload, TcpSendChunk, Serving
      <4>2. PICK op \in {"None", "DownloadRecovery"} : SrvWrites(<<Header(op)>>)
        BY <4>1 DEF TcpGreet
      <4>3. <<Header(op)>> \in Seq(Unit)
        BY UnitLemma DEF Opcodes
      <4>4. UNCHANGED cur /\ (UNCHANGED clients \/ \E st : clients' = AfterCheckFail(clients, st))
            /\ UNCHANGED asked
        BY <4>1 DEF TcpGreet, GreetRecovery, GreetNone
      <4>5. PICK more : more = <<Header(op)>>
        OBVIOUS
      <4>6. Queue(c)' = Queue(c) \o more
        BY <2>2, <2>6, <2>7, <4>2, <4>3, <4>4, <4>5, Writes
      <4>7. PICK q : q = Queue(c)'
        OBVIOUS
      <4>8. q = <<>> \o more
        BY <3>2, <4>6, <4>7
      <4>9. Len(q) = 1
        BY <4>3, <4>5, <4>8
      <4> QED
        BY <4>7, <4>9
    <3>4. Offers(c)' = {}
      BY <1>1, <3>2, <3>3 DEF Offers
    <3> QED
      BY <1>4, <3>4
  <2>13. CASE pc = "Reply"
    <3>1. Gives(at[c], job[c].left, Queue(c)) = Owes("answer")
      BY <2>9, <2>13 DEF Doing
    <3>2. at[c] = "recvAnswer"
      BY <2>9, <3>1, ReaderPlaces
    <3> QED
      BY <1>4, <2>10, <3>2
  <2>14. CASE pc = "Download"
    <3>1. Gives(at[c], job[c].left, Queue(c)) = Owes("response")
      BY <2>9, <2>14 DEF Doing
    <3>2. at[c] = "recvResponse"
      BY <2>9, <3>1, ReaderPlaces
    <3> QED
      BY <1>4, <2>10, <3>2
  <2>15. CASE pc = "SendChunk"
    <3>1. Gives(at[c], job[c].left, Queue(c)) = Streams(dl.left)
      BY <2>9, <2>15 DEF Doing
    <3>2. dl.left \in Nat \ {0}
      BY <2>15, ChunkSent
    <3>3. at[c] \in {"recvResponse", "recvFile"}
      BY <2>9, <3>1, <3>2, ReaderPlaces
    <3> QED
      BY <1>4, <2>10, <3>3
  <2> QED
    BY <2>7, <2>11, <2>12, <2>13, <2>14, <2>15
<1>5. (Linked(c) /\ Offers(c) # {} => Serves(conn[c]))'
  BY <1>1, <1>4 DEF Linked
<1> QED
  BY <1>3, <1>5 DEF Waits

(* The steps of the clients: what was offered stays, or is answered.       *)
LEMMA OwnWaits ==
    ASSUME TransferInv, InStepInv, DownloadsInv, UNCHANGED serverVars,
           NEW c \in Clients, Moves(c), Waits(c)
    PROVE  Waits(c)'
<1>2. c \in DOMAIN at /\ \A k : Serves(k)' <=> Serves(k)
  BY ClientServes DEF TransferInv, ClientInv
<1>3. ASSUME at'[c] \notin {"recvGreeting", "recvStamp", "ask"} PROVE Waits(c)'
  <2>1. Offers(c)' = {}
    BY <1>3 DEF Offers
  <2> QED
    BY <1>3, <2>1 DEF Waits
<1>4. CASE TcpConnect(c)
  BY <1>2, <1>3, <1>4 DEF TcpConnect, Connect, Goto
<1>5. CASE Leaves(c)
  BY <1>3, <1>5, LeavesAlone
<1>6. CASE Commands(c)
  <2>1. at'[c] \notin {"recvGreeting", "recvStamp", "ask"}
    BY <1>2, <1>6 DEF Commands, Answer, DownloadCmd, StartDownload, UploadCmd, AskCmd, CloseCmd,
       StartClient, Goto, Return
  <2> QED
    BY <1>3, <2>1
<1>7. CASE TcpSend(c)
  <2>1. at'[c] # "ask" /\ at'[c] # "recvStamp"
    <3>1. at[c] # "ask" /\ at[c] # "recvStamp"
      BY <1>7 DEF TcpSend, SendMac, SendDownload, SendUpload, SendFile, SendAsk, SendClose
    <3>2. at' = at \/ at'[c] \notin {"ask", "recvStamp"}
      BY <1>2, <1>7 DEF TcpSend, SendMac, SendDownload, SendUpload, SendFile, SendAsk, SendClose,
         FailDownload, Goto, Return
    <3> QED
      BY <3>1, <3>2
  <2>2. PICK q : q = Queue(c)' /\ q = <<>>
    BY <1>7, SendQueue
  <2>3. Len(q) # 2
    BY SMTT(30), <2>2
  <2>4. Offers(c)' = {}
    BY <2>1, <2>2, <2>3 DEF Offers
  <2> QED
    BY <2>1, <2>4 DEF Waits
<1>8. CASE TcpReceive(c)
  <2>1. PICK r : r = CliRecv(c)
    OBVIOUS
  <2>2. Linked(c) /\ UNCHANGED conn
    BY <1>8, ReceivesAlone
  <2>3. CASE r # "ok"
    <3>1. at'[c] = "prompt"
      BY <1>2, <1>8, <2>1, <2>3 DEF TcpReceive, RecvGreeting, RecvStamp, RecvResponse, RecvFile,
         RecvAnswer, FailDownload, Return, Goto
    <3> QED
      BY <1>3, <3>1
  <2>4. CASE r = "ok"
    <3>1. Queue(c) # <<>>
      BY <1>8, <2>1, <2>2, <2>4, ReceivingLemma DEF TcpReceive
    <3>2. \/ /\ CliReads(c, 1)
             /\ \/ \E op \in OpsIn(Head(Queue(c))) : RecvGreeting(c, "ok", op)
                \/ \E name \in {u.name : u \in DataIn(Head(Queue(c)))} : RecvStamp(c, "ok", name)
          \/ \E ready, total : RecvResponse(c, "ok", ready, total)
          \/ \E d : RecvFile(c, "ok", d)
          \/ RecvAnswer(c, "ok")
      BY <1>8, <2>1, <2>4 DEF TcpReceive
    <3>3. CASE /\ CliReads(c, 1)
               /\ \/ \E op \in OpsIn(Head(Queue(c))) : RecvGreeting(c, "ok", op)
                  \/ \E name \in {u.name : u \in DataIn(Head(Queue(c)))} : RecvStamp(c, "ok", name)
      <4>1. Offers(c)' \subseteq Offers(c)
        BY <2>2, <3>1, <3>3, OffersLeft
      <4>2. Linked(c)' /\ conn'[c] = conn[c]
        BY <2>2 DEF Linked
      <4> QED
        BY <1>2, <2>2, <4>1, <4>2 DEF Waits
    <3>4. CASE \/ \E ready, total : RecvResponse(c, "ok", ready, total)
               \/ \E d : RecvFile(c, "ok", d)
               \/ RecvAnswer(c, "ok")
      <4>1. at'[c] \notin {"recvGreeting", "recvStamp", "ask"}
        BY <1>2, <3>4 DEF RecvResponse, RecvFile, RecvAnswer, FailDownload, Return, Goto
      <4> QED
        BY <1>3, <4>1
    <3> QED
      BY <3>2, <3>3, <3>4
  <2> QED
    BY <2>3, <2>4
<1> QED
  BY <1>4, <1>5, <1>6, <1>7, <1>8 DEF Moves

LEMMA OtherWaits ==
    ASSUME TransferInv, InStepInv, InStepInv', DownloadsInv, UNCHANGED serverVars,
           NEW c \in Clients, Moves(c), NEW d \in Clients, d # c, Waits(d)
    PROVE  Waits(d)'
<1>1. PICK k : k = conn[d]
  OBVIOUS
<1>2. /\ Others(c)
      /\ k \in Conns /\ k # conn[c] /\ k # conn'[c] => net'[k] = net[k]
  BY MovesAlone DEF DownloadsInv
<1>3. at'[d] = at[d] /\ conn'[d] = k /\ job'[d] = job[d]
  BY <1>1, <1>2 DEF Others
<1>4. k \in Conns => net'[k] = net[k]
  BY <1>1, <1>2, <1>3 DEF InStepInv, OwnersInv
<1>5. k \in Conns => Queue(d)' = Queue(d)
  BY <1>1, <1>3, <1>4 DEF Queue
<1>6. k \in Conns => Offers(d)' = Offers(d)
  BY <1>3, <1>5 DEF Offers
<1>7. Serves(k)' <=> Serves(k)
  BY ClientServes
<1> QED
  BY <1>1, <1>3, <1>6, <1>7 DEF Waits, Linked

LEMMA NextAskedInv ==
    ASSUME "server" \notin Killable, TransferInv, InStepInv, InStepInv', DownloadsInv, AskedInv,
           [TransferNext]_vars
    PROVE  AskedInv'
<1>1. CASE (ServerStep \/ KillServer \/ RestartServer) /\ UNCHANGED clientVars
  BY <1>1, ServerWaits DEF KillServer
<1>2. CASE \E c \in Clients : ClientStep(c) \/ UserStep(c) \/ KillClient(c)
  <2>1. PICK c \in Clients : ClientStep(c) \/ UserStep(c) \/ KillClient(c)
    BY <1>2
  <2>2. Moves(c) /\ UNCHANGED serverVars
    BY <2>1, ClientMoves
  <2>3. ASSUME NEW d \in Clients PROVE Waits(d)'
    BY <2>2, OwnWaits, OtherWaits DEF AskedInv
  <2> QED
    BY <2>3 DEF AskedInv
<1>3. CASE UNCHANGED vars
  <2>1. UNCHANGED <<at, conn, job, net>> /\ UNCHANGED <<pc, clients, cur>>
    BY <1>3 DEF vars, serverVars, clientVars
  <2>2. \A k : Serves(k)' <=> Serves(k)
    BY <2>1 DEF Serves, Me
  <2>3. \A c \in Clients : Queue(c)' = Queue(c) /\ Offers(c)' = Offers(c)
    BY <2>1 DEF Queue, Offers
  <2> QED
    BY <2>1, <2>2, <2>3 DEF AskedInv, Waits, Linked
<1> QED
  BY <1>1, <1>2, <1>3 DEF TransferNext

(* What a user is asked to continue is not complete: while the question is *)
(* open, the server waits for the answer and changes none of its files.    *)
THEOREM TransferPrompts ==
    ASSUME Numbers = Nat, Distinct, WantedFlat, "server" \notin Killable
    PROVE  TransferSpec => []PromptNamesUnfinished
<1>1. TransferInit => AskedInv
  <2> SUFFICES ASSUME TransferInit, NEW c \in Clients PROVE Waits(c)
    BY DEF AskedInv
  <2>1. at[c] = "prompt"
    BY DEF TransferInit, ClientInit
  <2>2. Offers(c) = {}
    BY <2>1 DEF Offers
  <2> QED
    BY <2>1, <2>2 DEF Waits
<1>2. TransferSpec => [](TransferInv /\ InStepInv /\ DownloadsInv)
  BY DownloadsInvariant
<1>3. /\ TransferInv /\ InStepInv /\ DownloadsInv
      /\ (TransferInv /\ InStepInv /\ DownloadsInv)'
      /\ AskedInv /\ [TransferNext]_vars
      => AskedInv'
  BY NextAskedInv
<1>4. TransferInv /\ InStepInv /\ DownloadsInv /\ AskedInv => PromptNamesUnfinished
  <2> SUFFICES ASSUME DownloadsInv, AskedInv, NEW c \in Clients, at[c] = "ask"
               PROVE  local[c][job[c].file].data # disk[job[c].file].data
    BY DEF PromptNamesUnfinished
  <2>1. Offers(c) = {job[c].file}
    BY DEF Offers
  <2>2. Linked(c) /\ Serves(conn[c])
    BY <2>1 DEF AskedInv, Waits
  <2>3. PromptInv(c)
    BY <2>2 DEF DownloadsInv, DialogueInv, ServedInv
  <2>4. PICK have, file : have = Kept(c, job[c].file) /\ file = Hosted(job[c].file)
    OBVIOUS
  <2>5. Begins(have, file) /\ Len(have) < Len(file)
    BY <2>1, <2>3, <2>4 DEF PromptInv
  <2> QED
    BY <2>4, <2>5 DEF Begins, Kept, Hosted
<1> QED
  BY <1>1, <1>2, <1>3, <1>4, PTL DEF TransferSpec

-----------------------------------------------------------------------------
(* Where nobody is killed, every file opens and users ask for files that   *)
(* the host has, a download on a connection that was made never fails.     *)

Quiet ==
    /\ Killable = {} /\ OpenResults \subseteq {TRUE}
    /\ \A c \in Clients : \A n \in Wanted[c], dir \in HostDirs : dir[n].kind = "file"

(* Nothing fails in the server: it lives, has no stamp and the handle it   *)
(* serves, and its status is clear.                                        *)
AliveInv ==
    /\ pc \notin {"Dead", "SendStamp"} /\ stamps = {} /\ status = "Success"
    /\ pc # "Listen" => cur \in 1..Len(clients)

(* The server closes no connection on a client, and a client closes its    *)
(* connection at its prompt: what it had sent takes the server to where    *)
(* it wants the next request.                                              *)
OpenInv == \A c \in Clients : Linked(c) => net[conn[c]].end["cli"] = "open"
DepartedInv ==
    \A k \in Conns : Awaited(k) =>
        \/ net[k].end["srv"] = "open"
        \/ net[k].end["srv"] = "fin" /\ Leads(net[k].queue["srv"], Expects(k), WantHeader)

(* What users want stays in the host directory, so that every response is  *)
(* that the file is ready; nobody is offered to resume a download.         *)
HostedInv == \A c \in Clients : \A n \in Wanted[c] : disk[n].kind = "file"
Fair(c, q) ==
    /\ at[c] \notin {"recvStamp", "ask"}
    /\ Downloading(c) => job[c].file \in Wanted[c]
    /\ at[c] = "recvGreeting" /\ q # <<>> => q[1].op = "None"
    /\ at[c] = "recvResponse" /\ q # <<>> => q[1].ready
FairInv == \A c \in Clients : IF Linked(c) THEN Fair(c, Queue(c)) ELSE Fair(c, <<>>)

CalmInv == AliveInv /\ OpenInv /\ DepartedInv /\ HostedInv /\ FairInv

-----------------------------------------------------------------------------
(* The server has not failed on the connection it serves, and does not.    *)
LEMMA QuietServing ==
    ASSUME TransferInv, InStepInv, CalmInv, Serving(pc), pc \notin {"Listen", "Dead"},
           NEW k, k = S
    PROVE  /\ net[k].end["srv"] \in {"open", "fin"}
           /\ net[k].end["srv"] = "fin" => Leads(SrvQueue, Doing, WantHeader)
           /\ SrvRecv \in Received =>
                 \/ SrvRecv = "ok" /\ SrvQueue # <<>>
                 \/ SrvRecv = "eof" /\ SrvQueue = <<>> /\ Doing = WantHeader
           /\ Doing.t \in {"reply", "stream"} =>
                 net[k].end["srv"] = "open" /\ \A u : SrvSend(u) \in Sent => SrvSend(u) = "ok"
           /\ Latch("ok") = "Success" /\ Latch("eof") = "Success" /\ ~CheckFail("Success")
           /\ \A cs : AfterCheckFail(cs, "Success") = cs
<1>1. k \in Conns /\ Serves(k) /\ SrvQueue = net[k].queue["srv"] /\ net[k].queue["srv"] \in Seq(Unit)
  BY ServerServes, ServerTalk DEF SrvQueue
<1>2. Awaited(k) /\ Expects(k) = Doing
  BY <1>1 DEF Awaited, Expects, InStepInv, ServiceInv
<1>3. /\ net[k].end["srv"] \in {"open", "fin"}
      /\ net[k].end["srv"] = "fin" => Leads(SrvQueue, Doing, WantHeader)
  BY <1>1, <1>2 DEF CalmInv, DepartedInv
<1>4. SrvRecv \in Received =>
         \/ SrvRecv = "ok" /\ SrvQueue # <<>>
         \/ SrvRecv = "eof" /\ SrvQueue = <<>> /\ Doing = WantHeader
  <2>1. SrvQueue = <<>> /\ net[k].end["srv"] = "fin" => Doing = WantHeader
    BY <1>3, LeadsNowhere
  <2> QED
    BY <1>1, <1>3, <2>1, ErrorKinds DEF SrvRecv, RecvResult
<1>5. ASSUME Doing.t \in {"reply", "stream"}
      PROVE  net[k].end["srv"] = "open" /\ \A u : SrvSend(u) \in Sent => SrvSend(u) = "ok"
  <2>1. WantHeader.t = "header"
    BY DEF WantHeader, Want
  <2>2. net[k].end["srv"] = "open"
    BY <1>1, <1>3, <1>5, <2>1, RepliesWait
  <2> QED
    BY <2>2, ErrorKinds DEF SrvSend, SendResult
<1>6. /\ Latch("ok") = "Success" /\ Latch("eof") = "Success" /\ ~CheckFail("Success")
      /\ \A cs : AfterCheckFail(cs, "Success") = cs
  BY ProtocolAssumption DEF Latch, CheckFail, AfterCheckFail, Removable, CalmInv, AliveInv
<1> QED
  BY <1>3, <1>4, <1>5, <1>6

(* The server goes on with the connection it serves, or leaves it.         *)
LEMMA QuietGoes ==
    ASSUME TransferInv, InStepInv, CalmInv, Serving(pc), pc \notin {"Listen", "Dead"},
           UNCHANGED clientVars, UNCHANGED <<backlog, cur>>, NEW k, k = S,
           Len(clients') = Len(clients), clients'[cur].conn = k,
           NEW n \in Link, SrvUpdate(n), n.end = net[k].end,
           pc' \notin {"Dead", "SendStamp"}, stamps' = {}, status' = "Success",
           \A name \in Names : disk[name].kind = "file" => disk'[name].kind = "file",
           net[k].end["srv"] = "fin" /\ pc' # "Listen" =>
              Leads(n.queue["srv"], Doing', WantHeader),
           \A c \in Clients : conn[c] = k /\ Fair(c, net[k].queue["cli"]) =>
              Fair(c, n.queue["cli"])
    PROVE  CalmInv'
<1>1. /\ k \in Conns /\ net \in [Conns -> Link] /\ Len(clients) \in Nat
      /\ \A l : Serves(l) <=> l = k
  BY ServerServes DEF TransferInv, NetInv
<1>2. net' = [net EXCEPT ![k] = n]
  <2>1. ~(Len(clients') < Len(clients))
    BY <1>1
  <2> QED
    BY <2>1 DEF SrvUpdate
<1>3. \A l : Serves(l)' => l = k
  BY DEF Serves, Me
<1>4. UNCHANGED <<at, conn, job>>
  BY DEF clientVars
<1>5. AliveInv'
  BY DEF AliveInv, Serving
<1>6. OpenInv'
  BY <1>1, <1>2, <1>4 DEF CalmInv, OpenInv, Linked
<1>7. DepartedInv'
  <2> SUFFICES ASSUME NEW l \in Conns, Awaited(l)'
               PROVE  \/ net'[l].end["srv"] = "open"
                      \/ /\ net'[l].end["srv"] = "fin"
                         /\ Leads(net'[l].queue["srv"], Expects(l)', WantHeader)
    BY DEF DepartedInv
  <2>1. CASE l = k
    <3>1. k \notin backlog /\ Awaited(k)
      BY <1>1 DEF InStepInv, ServiceInv, Awaited
    <3>2. Serves(k)' /\ Expects(k)' = Doing' /\ pc' # "Listen"
      BY <2>1, <3>1 DEF Awaited, Expects, Serves
    <3> QED
      BY <1>1, <1>2, <2>1, <3>1, <3>2 DEF CalmInv, DepartedInv
  <2>2. CASE l # k
    <3>1. l \in backlog /\ Expects(l) = WantMac /\ Expects(l)' = WantMac /\ Awaited(l)
      BY <1>3, <2>2 DEF Awaited, Expects
    <3> QED
      BY <1>1, <1>2, <2>2, <3>1 DEF CalmInv, DepartedInv
  <2> QED
    BY <2>1, <2>2
<1>8. HostedInv'
  BY TransferAssumption DEF CalmInv, HostedInv
<1>9. FairInv'
  <2>1. ASSUME NEW c \in Clients
        PROVE  IF Linked(c) THEN Fair(c, net'[conn[c]].queue["cli"]) ELSE Fair(c, <<>>)
    BY <1>1, <1>2 DEF CalmInv, FairInv, Linked, Queue
  <2>2. ASSUME NEW c \in Clients
        PROVE  IF Linked(c)' THEN Fair(c, Queue(c))' ELSE Fair(c, <<>>)'
    BY <1>4, <2>1 DEF Linked, Queue, Fair, Downloading
  <2> QED
    BY <2>2 DEF FairInv
<1> QED
  BY <1>5, <1>6, <1>7, <1>8, <1>9 DEF CalmInv

(* It has read u units there.                                              *)
LEMMA QuietReads ==
    ASSUME TransferInv, InStepInv, CalmInv, Serving(pc), pc \notin {"Listen", "Dead"},
           UNCHANGED clientVars, UNCHANGED cur, NEW u \in Nat, SrvReads(u), LeadsOn(u),
           SrvRecv \in Received, SrvRecv # "ok" => pc' = "Listen",
           Len(clients') = Len(clients), clients'[cur].conn = S,
           pc' \notin {"Dead", "SendStamp"}, UNCHANGED stamps, status' = "Success",
           \A name \in Names : disk[name].kind = "file" => disk'[name].kind = "file"
    PROVE  CalmInv'
<1>1. PICK k : k = S
  OBVIOUS
<1>2. /\ k \in Conns /\ net[k] \in Link /\ SrvQueue = net[k].queue["srv"]
      /\ net[k].end["srv"] \in {"open", "fin"}
      /\ net[k].end["srv"] = "fin" => Leads(SrvQueue, Doing, WantHeader)
  BY <1>1, ServerServes, QuietServing DEF SrvQueue
<1>3. SrvRecv = "ok" => SrvQueue # <<>>
  BY DEF SrvRecv, SrvQueue, RecvResult
<1>4. PICK n : n = AfterRecv(net[k], "srv", u)
  OBVIOUS
<1>5. n \in Link /\ SrvUpdate(n) /\ UNCHANGED backlog
  BY <1>1, <1>2, <1>4, AfterRecvLemma DEF SrvReads, Ends
<1>6. /\ net[k].queue \in [Ends -> Seq(Unit)] /\ net[k].end \in [Ends -> EndStates]
      /\ net[k] = [end |-> net[k].end, queue |-> net[k].queue]
  BY <1>2 DEF Link
<1>7. /\ n.end = net[k].end /\ n.queue["cli"] = net[k].queue["cli"]
      /\ SrvQueue # <<>> => n.queue["srv"] = SubSeq(SrvQueue, u + 1, Len(SrvQueue))
  BY <1>2, <1>4, <1>6 DEF AfterRecv, Ends
<1>8. net[k].end["srv"] = "fin" /\ pc' # "Listen" => Leads(n.queue["srv"], Doing', WantHeader)
  BY <1>2, <1>3, <1>7 DEF LeadsOn
<1>9. stamps' = {}
  BY DEF CalmInv, AliveInv
<1> QED
  BY <1>1, <1>5, <1>7, <1>8, <1>9, QuietGoes

(* It has sent units that its client may be sent.                          *)
LEMMA QuietWrites ==
    ASSUME TransferInv, InStepInv, CalmInv, Serving(pc), pc \notin {"Listen", "Dead"},
           UNCHANGED clientVars, UNCHANGED <<clients, cur, disk, stamps>>,
           Doing.t \in {"reply", "stream"}, NEW units \in Seq(Unit), SrvWrites(units),
           pc' \notin {"Dead", "SendStamp"}, status' = "Success", NEW k, k = S,
           \A c \in Clients : conn[c] = k /\ Fair(c, net[k].queue["cli"]) =>
              Fair(c, net[k].queue["cli"] \o units)
    PROVE  CalmInv'
<1>1. k \in Conns /\ net[k] \in Link /\ net[k].end["srv"] = "open"
  BY ServerServes, QuietServing
<1>2. PICK n \in AfterSend(net[k], "srv", units) : SrvUpdate(n) /\ UNCHANGED backlog
  BY DEF SrvWrites
<1>3. n \in Link
  BY <1>1, <1>2, AfterSendLemma DEF Ends
<1>4. n = [net[k] EXCEPT !.queue["cli"] = @ \o units]
  BY <1>1, <1>2 DEF AfterSend, Other
<1>5. n.end = net[k].end /\ n.queue["cli"] = net[k].queue["cli"] \o units
  BY <1>1, <1>4 DEF Link, Ends
<1>6. stamps' = {}
  BY DEF CalmInv, AliveInv
<1>7. Len(clients') = Len(clients) /\ clients'[cur].conn = k
  BY DEF S, Me
<1>8. net[k].end["srv"] # "fin"
  BY <1>1
<1>9. \A name \in Names : disk[name].kind = "file" => disk'[name].kind = "file"
  OBVIOUS
<1>10. \A c \in Clients : conn[c] = k /\ Fair(c, net[k].queue["cli"]) => Fair(c, n.queue["cli"])
  BY <1>5
<1> QED
  BY <1>2, <1>3, <1>5, <1>6, <1>7, <1>8, <1>9, <1>10, QuietGoes

(* Every step of it.                                                       *)
LEMMA QuietRecvMac ==
    ASSUME TransferInv, InStepInv, CalmInv, UNCHANGED clientVars, TcpRecvMac
    PROVE  CalmInv'
<1>1. Serving(pc) /\ pc = "RecvMac" /\ SrvRecv \in Received /\ Doing = WantMac
  BY DEF TcpRecvMac, Serving, Doing
<1>2. SrvRecv = "ok"
  <2>1. WantMac # WantHeader
    BY DEF WantMac, WantHeader, Want
  <2> QED
    BY <1>1, <2>1, QuietServing
<1>3. PICK m : RecvMac("ok", m)
  BY <1>2 DEF TcpRecvMac
<1>4. /\ pc' = "Greet" /\ clients' = [clients EXCEPT ![cur] = [conn |-> Me.conn, mac |-> m]]
      /\ status' = "Success" /\ UNCHANGED <<cur, stamps, disk>>
  BY <1>1, <1>3, QuietServing DEF RecvMac
<1>5. Len(clients') = Len(clients) /\ clients'[cur].conn = S
  BY <1>1, <1>4 DEF S, TransferInv, IInv, TypeOK, Serving
<1>6. SrvReads(1) /\ LeadsOn(1)
  BY UnitLeads
<1> QED
  BY <1>1, <1>2, <1>4, <1>5, <1>6, QuietReads

LEMMA QuietRecvHeader ==
    ASSUME TransferInv, InStepInv, CalmInv, UNCHANGED clientVars, TcpRecvHeader
    PROVE  CalmInv'
<1>1. Serving(pc) /\ pc = "RecvHeader" /\ SrvRecv \in Received
  BY DEF TcpRecvHeader, Serving
<1>2. SrvRecv \in {"ok", "eof"}
  BY <1>1, QuietServing
<1>3. PICK op : RecvHeader(SrvRecv, op, HasData(op), 0, SomeName)
  BY DEF TcpRecvHeader
<1>4. /\ pc' \notin {"Dead", "SendStamp"} /\ (SrvRecv # "ok" => pc' = "Listen")
      /\ status' = "Success" /\ UNCHANGED <<clients, cur, stamps, disk>>
  <2>1. status = "Success" /\ Latch("eof") = "Success" /\ \A cs : AfterCheckFail(cs, "Success") = cs
    BY <1>1, QuietServing DEF CalmInv, AliveInv
  <2> QED
    BY <1>2, <1>3, <2>1 DEF RecvHeader, AfterHeader, Handler
<1>5. Len(clients') = Len(clients) /\ clients'[cur].conn = S
  BY <1>4 DEF S, Me
<1>6. SrvReads(1) /\ LeadsOn(1)
  BY UnitLeads
<1> QED
  BY <1>1, <1>4, <1>5, <1>6, QuietReads

LEMMA QuietRecvData ==
    ASSUME TransferInv, InStepInv, CalmInv, UNCHANGED clientVars, TcpRecvData
    PROVE  CalmInv'
<1>1. Serving(pc) /\ pc = "RecvData" /\ SrvRecv \in Received /\ Doing = WantData(packet.op)
  BY DEF TcpRecvData, Serving, Doing
<1>2. SrvRecv = "ok"
  <2>1. \A op : WantData(op) # WantHeader
    BY DEF WantData, WantHeader, Want
  <2> QED
    BY <1>1, <2>1, QuietServing
<1>3. PICK arg, name : RecvData("ok", arg, name)
  BY <1>2 DEF TcpRecvData
<1>4. /\ pc' \notin {"Dead", "SendStamp"} /\ status' = "Success"
      /\ UNCHANGED <<clients, cur, stamps, disk>>
  <2>1. status = "Success"
    BY DEF CalmInv, AliveInv
  <2>2. packet.op \in Opcodes
    BY DEF TransferInv, IInv, TypeOK, Packet
  <2> QED
    BY <1>3, <2>1, <2>2, ErrorKinds DEF RecvData, Handler, Opcodes
<1>5. Len(clients') = Len(clients) /\ clients'[cur].conn = S
  BY <1>4 DEF S, Me
<1>6. SrvReads(1) /\ LeadsOn(1)
  BY UnitLeads
<1> QED
  BY <1>1, <1>2, <1>4, <1>5, <1>6, QuietReads

LEMMA QuietBlocks ==
    ASSUME TransferInv, InStepInv, CalmInv, UNCHANGED clientVars,
           TcpRecvChunk \/ TcpDiscard
    PROVE  CalmInv'
<1>1. Serving(pc) /\ pc \in {"RecvChunk", "Discard"} /\ SrvRecv \in Received
  BY DEF TcpRecvChunk, TcpDiscard, Serving
<1>2. SrvRecv = "ok"
  <2>1. ul.left > 0
    BY <1>1 DEF TransferInv, IInv, UploadInv, InStepInv, ServiceInv
  <2>2. Doing = WantBlocks(ul.left) /\ WantBlocks(ul.left) # WantHeader
    BY <1>1, <2>1 DEF Doing, WantBlocks, WantHeader, Want
  <2> QED
    BY <1>1, <2>2, QuietServing
<1>3. PICK d : RecvChunk("ok", d) \/ Discard("ok", Len(d))
  BY <1>2 DEF TcpRecvChunk, TcpDiscard
<1>4. /\ pc' \notin {"Dead", "SendStamp"} /\ status' = "Success"
      /\ UNCHANGED <<clients, cur, stamps>>
      /\ \E f : disk' \in {disk, [disk EXCEPT ![ul.name] = File(f)]}
  <2>1. status = "Success"
    BY DEF CalmInv, AliveInv
  <2>2. CASE RecvChunk("ok", d)
    BY <2>1, <2>2, ErrorKinds DEF RecvChunk, UploadDone
  <2>3. CASE Discard("ok", Len(d))
    BY <2>1, <2>3, ErrorKinds DEF Discard
  <2> QED
    BY <1>3, <2>2, <2>3
<1>5. \A name \in Names : disk[name].kind = "file" => disk'[name].kind = "file"
  BY <1>4 DEF File, TransferInv, IInv, TypeOK
<1>6. Len(clients') = Len(clients) /\ clients'[cur].conn = S
  BY <1>4 DEF S, Me
<1>7. PICK u \in Nat : SrvReads(u) /\ LeadsOn(u)
  BY BlocksLeft
<1> QED
  BY <1>1, <1>2, <1>4, <1>5, <1>6, <1>7, QuietReads

LEMMA QuietUpload ==
    ASSUME TransferInv, InStepInv, CalmInv, UNCHANGED clientVars, TcpUpload
    PROVE  CalmInv'
<1>1. PICK k : k = S
  OBVIOUS
<1>2. /\ Serving(pc) /\ pc = "Upload" /\ UNCHANGED <<net, backlog, clients, cur>>
      /\ pc' \in {"Listen", "RecvChunk", "Discard"}
      /\ pc' # "Listen" => Doing' = Doing
  BY UploadKeeps DEF Serving
<1>3. k \in Conns /\ net[k] \in Link
  BY <1>1, <1>2, ServerServes
<1>4. PICK canOpen : Upload(canOpen)
  BY DEF TcpUpload
<1>5. stamps' = {} /\ status' = "Success"
  BY <1>4 DEF Upload, CalmInv, AliveInv
<1>6. \A name \in Names : disk[name].kind = "file" => disk'[name].kind = "file"
  BY <1>4 DEF Upload, OpenOfstream, File, TransferInv, IInv, TypeOK
<1>7. net[k].end["srv"] = "fin" /\ pc' # "Listen" =>
         Leads(net[k].queue["srv"], Doing', WantHeader)
  BY <1>1, <1>2, QuietServing DEF SrvQueue
<1>8. Len(clients') = Len(clients) /\ clients'[cur].conn = k
  BY <1>1, <1>2 DEF S, Me
<1>9. SrvUpdate(net[k])
  BY <1>1, <1>2, <1>3, ServedKept DEF SrvUpdate, TransferInv, NetInv
<1> QED
  BY <1>1, <1>2, <1>3, <1>5, <1>6, <1>7, <1>8, <1>9, QuietGoes

LEMMA QuietAccept ==
    ASSUME TransferInv, InStepInv, CalmInv, UNCHANGED clientVars, TcpAccept
    PROVE  CalmInv'
<1>1. PICK k \in backlog : Accept(k) /\ backlog' = backlog \ {k} /\ UNCHANGED net
  BY DEF TcpAccept
<1>2. /\ pc = "Listen" /\ pc' = "RecvMac" /\ cur' = Len(clients) + 1 /\ status' = "Success"
      /\ clients' = Append(clients, [conn |-> k, mac |-> ZeroMac]) /\ UNCHANGED <<stamps, disk>>
  BY <1>1 DEF Accept, NewIndex
<1>3. clients'[cur'].conn = k /\ cur' \in 1..Len(clients')
  BY <1>2 DEF TransferInv, IInv, TypeOK
<1>4. \A l : (Serves(l)' => l = k) /\ ~Serves(l)
  BY <1>2, <1>3 DEF Serves, Me
<1>5. \A l : Awaited(l)' => Awaited(l) /\ Expects(l)' = WantMac /\ Expects(l) = WantMac
  BY <1>1, <1>2, <1>4 DEF Awaited, Expects, Doing
<1>6. UNCHANGED <<at, conn, job, net>>
  BY <1>1 DEF clientVars
<1>7. AliveInv'
  BY <1>2, <1>3 DEF CalmInv, AliveInv
<1>8. DepartedInv'
  BY <1>5, <1>6 DEF CalmInv, DepartedInv
<1>9. OpenInv' /\ HostedInv' /\ FairInv'
  BY <1>2, <1>6 DEF CalmInv, OpenInv, HostedInv, FairInv, Fair, Linked, Queue, Downloading
<1> QED
  BY <1>7, <1>8, <1>9 DEF CalmInv

LEMMA QuietGreet ==
    ASSUME TransferInv, InStepInv, DownloadsInv, CalmInv, UNCHANGED clientVars, TcpGreet
    PROVE  CalmInv'
<1>1. PICK k : k = S
  OBVIOUS
<1>2. Serving(pc) /\ pc = "Greet" /\ Doing = Owes("greeting") /\ Doing.t = "reply"
  BY DEF TcpGreet, Serving, Doing, Owes, Want
<1>3. SrvSend(1) = "ok" /\ MyStamps = {}
  BY <1>2, QuietServing DEF TcpGreet, MyStamps, CalmInv, AliveInv
<1>4. GreetNone("ok") /\ SrvWrites(<<Header("None")>>)
  BY <1>3 DEF TcpGreet, GreetRecovery
<1>5. pc' = "RecvHeader" /\ UNCHANGED <<clients, cur, disk, stamps>> /\ status' = "Success"
  BY <1>2, <1>4, QuietServing DEF GreetNone, ClearStamps, CalmInv, AliveInv
<1>6. <<Header("None")>> \in Seq(Unit)
  BY UnitLemma DEF Opcodes
<1>7. ASSUME NEW c \in Clients, conn[c] = k, Fair(c, net[k].queue["cli"])
      PROVE  Fair(c, net[k].queue["cli"] \o <<Header("None")>>)
  <2>1. /\ at[c] \in ClientPlaces /\ job[c].left \in Nat /\ Queue(c) \in Seq(Unit)
        /\ Shape(at[c], job[c].left, Queue(c)) /\ Gives(at[c], job[c].left, Queue(c)) = Doing
    BY <1>1, <1>2, <1>4, <1>5, <1>6, <1>7, Writes DEF TcpGreet
  <2>2. at[c] = "recvGreeting" /\ Queue(c) = <<>>
    BY <1>2, <2>1, ReaderPlaces
  <2>3. net[k].queue["cli"] \o <<Header("None")>> = <<Header("None")>>
    BY <1>7, <2>2 DEF Queue
  <2> QED
    BY <1>7, <2>2, <2>3 DEF Fair, Downloading, Header
<1> QED
  BY <1>1, <1>2, <1>4, <1>5, <1>6, <1>7, QuietWrites

LEMMA QuietReply ==
    ASSUME TransferInv, InStepInv, DownloadsInv, CalmInv, UNCHANGED clientVars, TcpReply
    PROVE  CalmInv'
<1>1. PICK k : k = S
  OBVIOUS
<1>2. Serving(pc) /\ pc = "Reply" /\ Doing = Owes("answer") /\ Doing.t = "reply"
  BY DEF TcpReply, Serving, Doing, Owes, Want
<1>3. Reply("ok") /\ SrvWrites(<<Answered>>)
  BY <1>2, QuietServing DEF TcpReply
<1>4. pc' = "RecvHeader" /\ UNCHANGED <<clients, cur, disk, stamps>> /\ status' = "Success"
  BY <1>2, <1>3, QuietServing DEF Reply
<1>5. <<Answered>> \in Seq(Unit)
  BY UnitLemma
<1>6. ASSUME NEW c \in Clients, conn[c] = k, Fair(c, net[k].queue["cli"])
      PROVE  Fair(c, net[k].queue["cli"] \o <<Answered>>)
  <2>1. /\ at[c] \in ClientPlaces /\ job[c].left \in Nat /\ Queue(c) \in Seq(Unit)
        /\ Shape(at[c], job[c].left, Queue(c)) /\ Gives(at[c], job[c].left, Queue(c)) = Doing
    BY <1>1, <1>2, <1>3, <1>4, <1>5, <1>6, Writes DEF TcpReply
  <2>2. at[c] = "recvAnswer"
    BY <1>2, <2>1, ReaderPlaces
  <2> QED
    BY <2>2 DEF Fair, Downloading
<1> QED
  BY <1>1, <1>2, <1>3, <1>4, <1>5, <1>6, QuietWrites

LEMMA QuietDownload ==
    ASSUME Quiet, TransferInv, InStepInv, DownloadsInv, CalmInv, UNCHANGED clientVars,
           TcpDownload
    PROVE  CalmInv'
<1>1. PICK k : k = S
  OBVIOUS
<1>2. Serving(pc) /\ pc = "Download" /\ Doing = Owes("response") /\ Doing.t = "reply"
  BY DEF TcpDownload, Serving, Doing, Owes, Want
<1>3. /\ Download("ok", TRUE)
      /\ SrvWrites(<<Response(DownloadStatus(TRUE) = "Ready", TotalSize)>>)
      /\ asked' = [asked EXCEPT ![S] = disk[packet.name].data]
  BY <1>2, QuietServing DEF TcpDownload, Quiet
<1>4. /\ pc' \in {"SendChunk", "RecvHeader"} /\ UNCHANGED <<clients, cur, disk, stamps>>
      /\ status' = "Success"
  BY <1>2, <1>3, QuietServing DEF Download
<1>5. PICK ready \in BOOLEAN : ready = (DownloadStatus(TRUE) = "Ready")
  OBVIOUS
<1>6. SrvWrites(<<Response(ready, TotalSize)>>) /\ <<Response(ready, TotalSize)>> \in Seq(Unit)
  <2>1. packet.arg \in Nat /\ disk[packet.name].data \in Seq(Blocks)
    BY DEF TransferInv, IInv, TypeOK, Packet, Entry
  <2>2. Len(disk[packet.name].data) \in Nat
    BY <2>1, LenProperties
  <2>3. TotalSize \in Nat
    BY <2>1, <2>2 DEF TotalSize
  <2> QED
    BY <1>3, <1>5, <2>3, UnitLemma
<1>7. ASSUME NEW c \in Clients, conn[c] = k, Fair(c, net[k].queue["cli"])
      PROVE  Fair(c, net[k].queue["cli"] \o <<Response(ready, TotalSize)>>)
  <2>1. /\ at[c] \in ClientPlaces /\ job[c].left \in Nat /\ Queue(c) \in Seq(Unit)
        /\ Shape(at[c], job[c].left, Queue(c)) /\ Gives(at[c], job[c].left, Queue(c)) = Doing
        /\ k \in Conns /\ Serves(k)
    <3>1. \A l \in Conns : l # k => asked'[l] = asked[l]
      BY <1>1, <1>3 DEF TransferInv, NetInv
    <3> QED
      BY <1>1, <1>2, <1>4, <1>6, <1>7, <3>1, Writes
  <2>2. at[c] = "recvResponse" /\ Queue(c) = <<>>
    BY <1>2, <2>1, ReaderPlaces
  <2>3. packet.name = job[c].file
    BY <1>2, <1>7, <2>1, <2>2 DEF DownloadsInv, DialogueInv, ServedInv, MatchInv, Linked
  <2>4. job[c].file \in Wanted[c]
    BY <1>7, <2>2 DEF Fair, Downloading
  <2>5. ready
    BY <1>5, <2>3, <2>4 DEF DownloadStatus, CalmInv, HostedInv
  <2>6. net[k].queue["cli"] \o <<Response(ready, TotalSize)>> = <<Response(ready, TotalSize)>>
    BY <1>7, <2>2 DEF Queue
  <2> QED
    BY <1>7, <2>2, <2>4, <2>5, <2>6 DEF Fair, Downloading, Response
<1> QED
  BY <1>1, <1>2, <1>4, <1>6, <1>7, QuietWrites

LEMMA QuietSendChunk ==
    ASSUME TransferInv, InStepInv, DownloadsInv, CalmInv, UNCHANGED clientVars, TcpSendChunk
    PROVE  CalmInv'
<1>1. PICK k : k = S
  OBVIOUS
<1>2. Serving(pc) /\ pc = "SendChunk" /\ Doing = Streams(dl.left) /\ dl.left \in Nat \ {0}
  BY ChunkSent DEF TcpSendChunk, Serving, Doing
<1>3. Doing.t = "stream"
  BY <1>2 DEF Streams, Want
<1>4. PICK units : /\ SrvWrites(units) /\ SendChunk("ok")
                   /\ units = Contents(SubSeq(disk[dl.file].data, StampPosition + 1,
                                              StampPosition + ChunkSize(dl.left)))
  BY <1>2, <1>3, QuietServing DEF TcpSendChunk, StampPosition
<1>5. /\ pc' \in {"SendChunk", "RecvHeader"} /\ UNCHANGED <<clients, cur, disk, stamps>>
      /\ status' = "Success"
  BY <1>4, ErrorKinds DEF SendChunk, CalmInv, AliveInv
<1>6. units \in Seq(Unit)
  BY <1>2, <1>4, ChunkSent DEF Hosted
<1>7. ASSUME NEW c \in Clients, conn[c] = k, Fair(c, net[k].queue["cli"])
      PROVE  Fair(c, net[k].queue["cli"] \o units)
  <2>1. /\ at[c] \in ClientPlaces /\ job[c].left \in Nat /\ Queue(c) \in Seq(Unit)
        /\ Shape(at[c], job[c].left, Queue(c)) /\ Gives(at[c], job[c].left, Queue(c)) = Doing
    BY <1>1, <1>2, <1>4, <1>5, <1>6, <1>7, Writes DEF TcpSendChunk
  <2>2. \/ at[c] = "recvResponse" /\ Len(Queue(c)) >= 1
        \/ at[c] = "recvFile"
    BY <1>2, <2>1, ReaderPlaces
  <2>3. Len(Queue(c)) >= 1 => Queue(c) # <<>> /\ (Queue(c) \o units)[1] = Queue(c)[1]
    BY <1>6, <2>1
  <2> QED
    BY <1>7, <2>2, <2>3 DEF Fair, Downloading, Queue
<1> QED
  BY <1>1, <1>2, <1>3, <1>4, <1>5, <1>6, <1>7, QuietWrites

(* Nothing ends the server, and it has no stamp to send.                   *)
LEMMA QuietServer ==
    ASSUME Quiet, TransferInv, InStepInv, DownloadsInv, CalmInv, UNCHANGED clientVars,
           ServerStep \/ KillServer \/ RestartServer
    PROVE  CalmInv'
<1>1. ~KillServer /\ ~RestartServer /\ ~TcpSendStamp /\ ~TcpUseAfterRemove
  BY DEF Quiet, KillServer, RestartServer, Restart, TcpSendStamp, TcpUseAfterRemove,
     UseAfterRemove, Serving, CalmInv, AliveInv
<1>2. ~TcpSigpipe
  <2>1. ASSUME Serving(pc), pc \in {"Greet", "Reply", "Download", "SendChunk"}
        PROVE  SrvSend(Units) # "sigpipe"
    <3>1. Doing.t \in {"reply", "stream"}
      BY <2>1, ChunkSent DEF Doing, Owes, Streams, Want
    <3>2. net[S].end["srv"] = "open"
      BY <2>1, <3>1, QuietServing
    <3> QED
      BY <3>2 DEF SrvSend, SendResult
  <2> QED
    BY <2>1 DEF TcpSigpipe, Sigpipe, Serving, CalmInv, AliveInv
<1> QED
  BY <1>1, <1>2, QuietAccept, QuietRecvMac, QuietGreet, QuietRecvHeader, QuietRecvData,
     QuietReply, QuietDownload, QuietSendChunk, QuietUpload, QuietBlocks DEF ServerStep

-----------------------------------------------------------------------------
(* A client that sends or receives finds its connection open at both ends. *)
LEMMA QuietTalks ==
    ASSUME TransferInv, InStepInv, CalmInv, NEW c \in Clients, TcpReceive(c) \/ TcpSend(c),
           NEW k, k = conn[c]
    PROVE  /\ k \in Conns /\ net'[k].end["srv"] = "open" /\ net'[k].end["cli"] = "open"
           /\ TcpReceive(c) => CliRecv(c) = "ok" /\ Queue(c) # <<>>
           /\ TcpSend(c) => CliSend(c, Len(Packets(c))) = "ok"
<1>1. /\ Linked(c) /\ k \in Conns /\ net[k] \in Link /\ Queue(c) = net[k].queue["cli"]
      /\ Whole(net[k])
  BY LinkedTalk DEF TcpReceive, TcpSend
<1>2. net[k].end["cli"] = "open" /\ net[k].end["srv"] = "open"
  BY <1>1 DEF CalmInv, OpenInv, Whole
<1>3. CASE TcpReceive(c)
  <2>1. CliRecv(c) = "ok" /\ Queue(c) # <<>>
    BY <1>1, <1>2, <1>3, ErrorKinds DEF TcpReceive, CliRecv, RecvResult
  <2>2. PICK u : CliReads(c, u)
    BY <1>3 DEF TcpReceive
  <2>3. PICK n : n = AfterRecv(net[k], "cli", u)
    OBVIOUS
  <2>4. n.end = net[k].end
    BY <1>1, <2>1, <2>3 DEF AfterRecv, Link
  <2>5. net'[k] = n
    BY <1>1, <2>2, <2>3 DEF CliReads, TransferInv, NetInv
  <2>6. ~TcpSend(c)
    BY <1>3 DEF TcpReceive, TcpSend, Sending, RecvGreeting, RecvStamp, RecvFile, RecvAnswer
  <2> QED
    BY <1>1, <1>2, <2>1, <2>4, <2>5, <2>6
<1>4. CASE TcpSend(c)
  <2>1. CliSend(c, Len(Packets(c))) = "ok"
    BY <1>1, <1>2, <1>4, ErrorKinds DEF TcpSend, CliSend, SendResult
  <2>2. PICK n \in AfterSend(net[k], "cli", Packets(c)) : net' = [net EXCEPT ![k] = n]
    BY <1>4 DEF TcpSend, CliWrites
  <2>3. n = [net[k] EXCEPT !.queue["srv"] = @ \o Packets(c)]
    BY <1>2, <2>2 DEF AfterSend, Other
  <2>4. n.end = net[k].end
    BY <1>1, <2>3 DEF Link
  <2>5. net'[k] = n
    BY <1>1, <2>2 DEF TransferInv, NetInv
  <2>6. ~TcpReceive(c)
    BY <1>4 DEF TcpReceive, TcpSend, Sending, RecvGreeting, RecvStamp, RecvFile, RecvAnswer
  <2> QED
    BY <1>1, <1>2, <2>1, <2>4, <2>5, <2>6
<1> QED
  BY <1>3, <1>4

(* Who leaves at the prompt has read all replies, and sent whole requests. *)
LEMMA QuietLeft ==
    ASSUME TransferInv, InStepInv, CalmInv, NEW c \in Clients, at[c] = "prompt",
           NEW l \in Conns, Awaited(l), NEW n, n = Dropped(c)[l]
    PROVE  \/ n.end["srv"] = "open"
           \/ n.end["srv"] = "fin" /\ Leads(n.queue["srv"], Expects(l), WantHeader)
<1>1. CASE Linked(c) /\ l = conn[c]
  <2>1. /\ net[l] \in Link /\ Queue(c) = net[l].queue["cli"]
        /\ Shape(at[c], job[c].left, Queue(c)) /\ net[l].end["srv"] = "open"
        /\ Leads(net[l].queue["srv"], Expects(l), Gives(at[c], job[c].left, Queue(c)))
    BY <1>1, LinkedTalk
  <2>2. net[l].queue["cli"] = <<>> /\ Gives(at[c], job[c].left, Queue(c)) = WantHeader
    BY <2>1 DEF Shape, Gives
  <2>3. n = Close(net[l], "cli")
    BY <1>1 DEF Dropped, TransferInv, NetInv
  <2>4. n.end["srv"] = "fin" /\ n.queue["srv"] = net[l].queue["srv"]
    BY <2>1, <2>2, <2>3 DEF Close, Other, Link, Ends
  <2> QED
    BY <2>1, <2>2, <2>4
<1>2. CASE ~(Linked(c) /\ l = conn[c])
  <2>1. n = net[l]
    BY <1>2 DEF Dropped, Linked, TransferInv, NetInv
  <2> QED
    BY <2>1 DEF CalmInv, DepartedInv
<1> QED
  BY <1>1, <1>2

(* A client that goes away does so at its prompt.                          *)
LEMMA QuietLeaves ==
    ASSUME Quiet, TransferInv, InStepInv, CalmInv, NEW c \in Clients,
           ClientStep(c) \/ UserStep(c) \/ KillClient(c)
    PROVE  \/ TcpReceive(c) \/ TcpSend(c) \/ TcpConnect(c) \/ Commands(c)
           \/ Leaves(c) /\ \/ ~Linked(c) /\ UNCHANGED net
                           \/ at[c] = "prompt" /\ net' = Dropped(c)
<1>1. ~KillClient(c) /\ ~TcpConnectFails(c)
  BY DEF Quiet, KillClient, TcpConnectFails, CalmInv, AliveInv
<1>2. ~TcpClientSigpipe(c)
  <2>1. Linked(c) => net[conn[c]].end["cli"] = "open"
    BY DEF CalmInv, OpenInv
  <2> QED
    BY <2>1 DEF TcpClientSigpipe, CliSend, SendResult
<1>3. CASE TcpQuit(c) \/ TcpSendUnconnected(c)
  <2>1. TcpSendUnconnected(c) => ~Linked(c)
    BY ClientAssumption DEF TcpSendUnconnected, SendUnconnected, Linked
  <2> QED
    BY <1>3, <2>1 DEF TcpQuit, QuitCmd, TcpSendUnconnected, SendUnconnected, Leaves
<1>4. CASE ClientStep(c)
  BY <1>2, <1>3, <1>4 DEF ClientStep
<1>5. CASE UserStep(c)
  <2>1. TcpConnect(c) \/ TcpQuit(c) \/ Commands(c)
    BY <1>1, <1>5 DEF UserStep, Commands
  <2> QED
    BY <1>3, <2>1
<1> QED
  BY <1>1, <1>4, <1>5

(* What becomes of the connections.                                        *)
LEMMA QuietNet ==
    ASSUME Quiet, TransferInv, InStepInv, QueueInv, CalmInv, NEW c \in Clients,
           ClientStep(c) \/ UserStep(c) \/ KillClient(c)
    PROVE  DepartedInv'
<1>1. Moves(c) /\ UNCHANGED serverVars
  BY ClientMoves
<1>2. UNCHANGED backlog =>
         \A l \in Conns : (Awaited(l)' <=> Awaited(l)) /\ Expects(l)' = Expects(l)
  BY <1>1, ServerSame
<1> SUFFICES ASSUME NEW l \in Conns, Awaited(l)'
             PROVE  \/ net'[l].end["srv"] = "open"
                    \/ /\ net'[l].end["srv"] = "fin"
                       /\ Leads(net'[l].queue["srv"], Expects(l)', WantHeader)
  BY DEF DepartedInv
<1>3. CASE TcpReceive(c) \/ TcpSend(c)
  <2>1. PICK k : k = conn[c]
    OBVIOUS
  <2>2. UNCHANGED backlog /\ (l # k => net'[l] = net[l])
    BY <1>3, <2>1, SendsAlone, ReceivesAlone
  <2>3. net'[k].end["srv"] = "open"
    BY <1>3, <2>1, QuietTalks
  <2> QED
    BY <1>2, <2>2, <2>3 DEF CalmInv, DepartedInv
<1>4. CASE UNCHANGED net /\ UNCHANGED backlog
  BY <1>2, <1>4 DEF CalmInv, DepartedInv
<1>5. CASE at[c] = "prompt" /\ net' = Dropped(c) /\ UNCHANGED backlog
  <2>1. PICK n : n = Dropped(c)[l]
    OBVIOUS
  <2> QED
    BY <1>2, <1>5, <2>1, QuietLeft
<1>6. CASE TcpConnect(c)
  <2>1. PICK k \in Conns : /\ Connect(c, k) /\ net' = [Dropped(c) EXCEPT ![k] = Fresh]
                           /\ backlog' = backlog \cup {k}
    BY <1>6 DEF TcpConnect
  <2>2. DOMAIN Dropped(c) = Conns
    BY DEF Dropped, TransferInv, NetInv
  <2>3. at[c] = "prompt" /\ conn'[c] = k
    BY <2>1 DEF Connect, TransferInv, ClientInv
  <2>4. CASE l = k
    BY <2>1, <2>2, <2>4 DEF Fresh, Ends
  <2>5. CASE l # k
    <3>1. backlog = {} /\ backlog' = {k} /\ (Serves(l)' <=> Serves(l))
      BY <1>1, <1>6, <2>3, ConnectsAlone, ClientServes
    <3>2. Awaited(l) /\ Expects(l) = Doing /\ Expects(l)' = Doing'
      BY <2>5, <3>1 DEF Awaited, Expects
    <3>3. Doing' = Doing
      BY <1>1 DEF serverVars, Doing
    <3>4. PICK n : n = Dropped(c)[l] /\ n = net'[l]
      BY <2>1, <2>2, <2>5
    <3> QED
      BY <2>3, <3>2, <3>3, <3>4, QuietLeft
  <2> QED
    BY <2>4, <2>5
<1>7. Commands(c) => UNCHANGED <<net, backlog>>
  BY DEF Commands
<1> QED
  BY <1>3, <1>4, <1>5, <1>6, <1>7, QuietLeaves DEF Leaves

(* The other clients and their connections stay as they are.               *)
LEMMA OthersKeep ==
    ASSUME TransferInv, InStepInv, InStepInv', QueueInv, UNCHANGED serverVars,
           NEW c \in Clients, Moves(c), NEW d \in Clients, d # c
    PROVE  /\ at'[d] = at[d] /\ conn'[d] = conn[d] /\ job'[d] = job[d]
           /\ Linked(d) => net'[conn[d]] = net[conn[d]]
<1>1. PICK k : k = conn[d]
  OBVIOUS
<1>2. /\ Others(c)
      /\ k \in Conns /\ k # conn[c] /\ k # conn'[c] => net'[k] = net[k]
  BY MovesAlone
<1>3. at'[d] = at[d] /\ conn'[d] = k /\ job'[d] = job[d]
  BY <1>1, <1>2 DEF Others
<1>4. k \in Conns => net'[k] = net[k]
  BY <1>1, <1>2, <1>3 DEF InStepInv, OwnersInv
<1> QED
  BY <1>1, <1>3, <1>4 DEF Linked

(* A client stays fair when it waits for nothing or nothing waits for it.  *)
LEMMA FairNext ==
    ASSUME NEW c \in Clients, at'[c] \notin {"recvStamp", "ask"},
           Downloading(c)' => job'[c].file \in Wanted[c],
           \/ at'[c] \notin {"recvGreeting", "recvResponse"}
           \/ Linked(c)' /\ Queue(c)' = <<>>
    PROVE  IF Linked(c)' THEN Fair(c, Queue(c))' ELSE Fair(c, <<>>)'
  BY DEF Fair

(* What a client receives leads it from where it waits to the end of its   *)
(* command, or from the response into the file: and no download fails.     *)
LEMMA FairReceive ==
    ASSUME TransferInv, InStepInv, SaidInv, CalmInv, NEW c \in Clients, TcpReceive(c)
    PROVE  /\ at'[c] \in {"prompt", "recvFile"}
           /\ at'[c] = "recvFile" => Downloading(c) /\ job'[c].file = job[c].file
           /\ Downloading(c) /\ at'[c] = "prompt" => said'[c] = "saved"
<1>1. PICK q : q = Queue(c)
  OBVIOUS
<1>2. CliRecv(c) = "ok" /\ q # <<>>
  <2>1. PICK k : k = conn[c]
    OBVIOUS
  <2> QED
    BY <1>1, <2>1, QuietTalks
<1>3. /\ Fair(c, q) /\ Head(q) = q[1] /\ Len(q) >= 1 /\ q \in Seq(Unit)
      /\ Shape(at[c], job[c].left, q)
  BY <1>1, <1>2, ReceivingLemma DEF TcpReceive, CalmInv, FairInv
<1>4. q[1] \in Unit
  BY <1>3, LenProperties, ElementOfSeq
<1>5. DOMAIN at = Clients /\ DOMAIN job = Clients /\ DOMAIN said = Clients
  BY DEF TransferInv, ClientInv, SaidInv
<1>6. ASSUME NEW op \in OpsIn(q[1]), RecvGreeting(c, "ok", op)
      PROVE  at'[c] = "prompt" /\ ~Downloading(c)
  <2>1. at[c] = "recvGreeting"
    BY <1>6 DEF RecvGreeting
  <2>2. op = "None"
    BY <1>2, <1>3, <1>6, <2>1 DEF Fair, Shape, OpsIn
  <2> QED
    BY <1>5, <1>6, <2>1, <2>2 DEF RecvGreeting, Return, Goto, Downloading
<1>7. ASSUME NEW name, RecvStamp(c, "ok", name) PROVE FALSE
  BY <1>3, <1>7 DEF RecvStamp, Fair
<1>8. ASSUME NEW u \in ResponsesIn(q[1]), RecvResponse(c, "ok", u.ready, u.total)
      PROVE  /\ at'[c] = "recvFile" => Downloading(c) /\ job'[c].file = job[c].file
             /\ at'[c] # "recvFile" => at'[c] = "prompt" /\ said'[c] = "saved"
  <2>1. at[c] = "recvResponse"
    BY <1>8 DEF RecvResponse
  <2>2. u = q[1] /\ q[1].t = "response"
    BY <1>3, <1>8, <2>1 DEF Shape, ResponsesIn
  <2>3. u.ready /\ u.total \in Nat
    BY <1>2, <1>3, <1>4, <2>1, <2>2 DEF Fair, Unit
  <2>4. CASE u.total > 0
    <3>1. Goto(c, "recvFile") /\ job' = [job EXCEPT ![c].left = u.total]
      BY <1>8, <2>3, <2>4 DEF RecvResponse
    <3>2. job'[c] = [job[c] EXCEPT !.left = u.total] /\ job[c] \in Job
      BY <1>5, <3>1 DEF TransferInv, ClientInv
    <3>3. job'[c].file = job[c].file
      BY <3>2 DEF Job
    <3> QED
      BY <1>5, <2>1, <3>1, <3>3 DEF Goto, Downloading
  <2>5. CASE u.total = 0
    <3>1. Return(c, "saved")
      BY <1>8, <2>3, <2>5 DEF RecvResponse
    <3> QED
      BY <1>5, <3>1 DEF Return, Goto
  <2> QED
    BY <2>3, <2>4, <2>5
<1>9. ASSUME NEW d, RecvFile(c, "ok", d)
      PROVE  /\ at'[c] = "recvFile" => Downloading(c) /\ job'[c].file = job[c].file
             /\ at'[c] # "recvFile" => at'[c] = "prompt" /\ said'[c] = "saved"
  <2>1. at[c] = "recvFile" /\ Downloading(c)
    BY <1>9 DEF RecvFile, Downloading
  <2>2. CASE MoreToReceive(c, d)
    <3>1. job' = [job EXCEPT ![c].left = @ - Len(d)] /\ UNCHANGED at
      BY <1>9, <2>2 DEF RecvFile
    <3>2. job'[c] = [job[c] EXCEPT !.left = @ - Len(d)] /\ job[c] \in Job
      BY <1>5, <3>1 DEF TransferInv, ClientInv
    <3>3. job'[c].file = job[c].file
      BY <3>2 DEF Job
    <3> QED
      BY <2>1, <3>1, <3>3
  <2>3. CASE ~MoreToReceive(c, d)
    <3>1. Return(c, "saved")
      BY <1>9, <2>3 DEF RecvFile
    <3> QED
      BY <1>5, <3>1 DEF Return, Goto
  <2> QED
    BY <2>2, <2>3
<1>10. ASSUME RecvAnswer(c, "ok") PROVE at'[c] = "prompt" /\ ~Downloading(c)
  BY <1>5, <1>10 DEF RecvAnswer, Return, Goto, Downloading
<1>11. \/ \E op \in OpsIn(q[1]) : RecvGreeting(c, "ok", op)
       \/ \E name : RecvStamp(c, "ok", name)
       \/ \E u \in ResponsesIn(q[1]) : RecvResponse(c, "ok", u.ready, u.total)
       \/ \E d : RecvFile(c, "ok", d)
       \/ RecvAnswer(c, "ok")
  BY <1>1, <1>2, <1>3 DEF TcpReceive
<1> QED
  BY <1>6, <1>7, <1>8, <1>9, <1>10, <1>11

(* What it sends is taken, and it goes on to wait for the reply.           *)
LEMMA FairSend ==
    ASSUME TransferInv, InStepInv, CalmInv, NEW c \in Clients, TcpSend(c)
    PROVE  /\ at'[c] \notin {"recvStamp", "ask"}
           /\ Downloading(c) <=> Downloading(c)'
           /\ Downloading(c) => job'[c].file = job[c].file
<1>1. CliSend(c, Len(Packets(c))) = "ok"
  <2>1. PICK k : k = conn[c]
    OBVIOUS
  <2> QED
    BY <2>1, QuietTalks
<1>2. DOMAIN at = Clients
  BY DEF TransferInv, ClientInv
<1>3. \/ SendMac(c, "ok") \/ SendDownload(c, "ok") \/ SendUpload(c, "ok") \/ SendFile(c, "ok")
      \/ SendAsk(c, "ok") \/ SendClose(c, "ok")
  BY <1>1 DEF TcpSend
<1>4. CASE SendDownload(c, "ok")
  BY <1>2, <1>4 DEF SendDownload, Goto, Downloading
<1>5. CASE SendMac(c, "ok") \/ SendAsk(c, "ok") \/ SendClose(c, "ok")
  BY <1>2, <1>5 DEF SendMac, SendAsk, SendClose, Goto, Return, Downloading
<1>6. CASE SendUpload(c, "ok")
  BY <1>2, <1>6 DEF SendUpload, Goto, Return, Downloading
<1>7. CASE SendFile(c, "ok")
  BY <1>2, <1>7 DEF SendFile, Goto, Return, Downloading
<1> QED
  BY <1>3, <1>4, <1>5, <1>6, <1>7

(* What a user asks to download is on the host.                            *)
LEMMA FairCommand ==
    ASSUME TransferInv, CalmInv, NEW c \in Clients, Commands(c)
    PROVE  /\ at'[c] \notin {"recvGreeting", "recvStamp", "ask", "recvResponse"}
           /\ Downloading(c)' => job'[c].file \in Wanted[c]
           /\ ~Downloading(c)
<1>1. DOMAIN at = Clients /\ DOMAIN job = Clients
  BY DEF TransferInv, ClientInv
<1>2. at[c] # "ask"
  BY DEF CalmInv, FairInv, Fair
<1>3. ASSUME NEW name \in Wanted[c], NEW canSave, DownloadCmd(c, name, canSave)
      PROVE  /\ at'[c] \in {"prompt", "downloadHeader"} /\ at[c] = "prompt"
             /\ at'[c] = "downloadHeader" => job'[c].file \in Wanted[c]
  BY <1>1, <1>3 DEF DownloadCmd, StartDownload, Goto, Return, Idle
<1>4. ASSUME \/ \E name : UploadCmd(c, name)
             \/ \E op : AskCmd(c, op)
             \/ CloseCmd(c) \/ StartClient(c)
      PROVE  /\ at'[c] \in {"uploadHeader", "askHeader", "sendClose", "prompt"}
             /\ at[c] \in {"prompt", "dead"}
  BY <1>1, <1>4 DEF UploadCmd, AskCmd, CloseCmd, StartClient, Goto
<1>5. CASE \E name \in Wanted[c], canSave \in OpenResults : DownloadCmd(c, name, canSave)
  BY <1>3, <1>5 DEF Downloading
<1>6. CASE ~\E name \in Wanted[c], canSave \in OpenResults : DownloadCmd(c, name, canSave)
  <2>1. \A yes, canSave : ~Answer(c, yes, canSave)
    BY <1>2 DEF Answer
  <2> QED
    BY <1>4, <1>6, <2>1 DEF Commands, Downloading
<1> QED
  BY <1>5, <1>6

(* Every step of a client.                                                 *)
LEMMA QuietClient ==
    ASSUME Quiet, TransferInv, InStepInv, InStepInv', DownloadsInv, CalmInv,
           NEW c \in Clients, ClientStep(c) \/ UserStep(c) \/ KillClient(c)
    PROVE  CalmInv'
<1>1. Moves(c) /\ UNCHANGED serverVars /\ QueueInv /\ SaidInv
  BY ClientMoves DEF DownloadsInv
<1>2. AliveInv' /\ HostedInv'
  BY <1>1 DEF serverVars, CalmInv, AliveInv, HostedInv
<1>3. DepartedInv'
  BY <1>1, QuietNet
<1>4. \/ TcpReceive(c) \/ TcpSend(c) \/ TcpConnect(c) \/ Commands(c)
      \/ Leaves(c)
  BY QuietLeaves
<1>5. ASSUME NEW d \in Clients, d # c
      PROVE  /\ Linked(d)' => net'[conn'[d]].end["cli"] = "open"
             /\ IF Linked(d)' THEN Fair(d, Queue(d))' ELSE Fair(d, <<>>)'
  <2>1. /\ at'[d] = at[d] /\ conn'[d] = conn[d] /\ job'[d] = job[d]
        /\ Linked(d) => net'[conn[d]] = net[conn[d]]
    BY <1>1, <1>5, OthersKeep
  <2>2. /\ Linked(d) => net[conn[d]].end["cli"] = "open"
        /\ IF Linked(d) THEN Fair(d, Queue(d)) ELSE Fair(d, <<>>)
    BY DEF CalmInv, OpenInv, FairInv
  <2>3. Linked(d)' <=> Linked(d)
    BY <2>1 DEF Linked
  <2>4. Linked(d) => Queue(d)' = Queue(d)
    BY <2>1 DEF Queue
  <2> QED
    BY <2>1, <2>2, <2>3, <2>4 DEF Fair, Downloading
<1>6. PICK k : k = conn[c]
  OBVIOUS
<1>7. Downloading(c) => job[c].file \in Wanted[c]
  BY DEF CalmInv, FairInv, Fair
<1>8. /\ Linked(c)' => net'[conn'[c]].end["cli"] = "open"
      /\ IF Linked(c)' THEN Fair(c, Queue(c))' ELSE Fair(c, <<>>)'
  <2>1. CASE TcpReceive(c)
    <3>1. net'[k].end["cli"] = "open" /\ conn'[c] = k
      BY <1>6, <2>1, QuietTalks, ReceivesAlone
    <3>2. /\ at'[c] \in {"prompt", "recvFile"}
          /\ at'[c] = "recvFile" => Downloading(c) /\ job'[c].file = job[c].file
      BY <1>1, <2>1, FairReceive
    <3> QED
      BY <1>7, <3>1, <3>2, FairNext DEF Downloading
  <2>2. CASE TcpSend(c)
    <3>1. net'[k].end["cli"] = "open" /\ conn'[c] = k /\ Linked(c)
      BY <1>6, <2>2, QuietTalks, SendsAlone
    <3>2. Linked(c)' /\ Queue(c)' = <<>>
      BY <1>6, <2>2, <3>1, SendQueue DEF Linked
    <3> QED
      BY <1>7, <2>2, <3>1, <3>2, FairSend, FairNext
  <2>3. CASE TcpConnect(c)
    <3>1. at'[c] = "sendMac"
      BY <1>1, <2>3, ConnectsAlone
    <3>2. PICK l \in Conns : Connect(c, l) /\ net' = [Dropped(c) EXCEPT ![l] = Fresh]
      BY <2>3 DEF TcpConnect
    <3>3. conn'[c] = l /\ net'[l] = Fresh
      BY <3>2 DEF Connect, Dropped, TransferInv, ClientInv, NetInv
    <3> QED
      BY <3>1, <3>3, FairNext DEF Downloading, Fresh, Ends
  <2>4. CASE Leaves(c)
    <3>1. conn'[c] \notin Conns /\ at'[c] \in {"prompt", "dead"}
      BY <2>4, LeavesAlone
    <3> QED
      BY <3>1, FairNext DEF Linked, Downloading
  <2>5. CASE Commands(c)
    <3>1. UNCHANGED <<conn, net>>
      BY <2>5, CommandsAlone
    <3>2. Linked(c)' => net'[conn'[c]].end["cli"] = "open"
      BY <3>1 DEF CalmInv, OpenInv, Linked
    <3> QED
      BY <2>5, <3>2, FairCommand, FairNext
  <2> QED
    BY <1>4, <2>1, <2>2, <2>3, <2>4, <2>5
<1>9. OpenInv' /\ FairInv'
  BY <1>5, <1>8 DEF OpenInv, FairInv
<1> QED
  BY <1>2, <1>3, <1>9 DEF CalmInv

LEMMA QuietInit == ASSUME Quiet, TransferInit PROVE CalmInv
<1>1. /\ at = [c \in Clients |-> "prompt"] /\ conn = [c \in Clients |-> "null"]
      /\ pc = "Listen" /\ stamps = {} /\ status = "Success" /\ disk \in HostDirs
      /\ clients = <<>> /\ backlog = {}
  BY DEF TransferInit, ServerInit, ClientInit
<1>2. \A c \in Clients : ~Linked(c) /\ Fair(c, <<>>)
  BY <1>1, ClientAssumption DEF Linked, Fair, Downloading, NoSocket
<1>3. AliveInv /\ HostedInv
  BY <1>1 DEF AliveInv, HostedInv, Quiet
<1>4. DepartedInv
  BY <1>1 DEF DepartedInv, Awaited, Serves
<1> QED
  BY <1>2, <1>3, <1>4 DEF CalmInv, OpenInv, FairInv

LEMMA QuietNext ==
    ASSUME Quiet, TransferInv, InStepInv, InStepInv', DownloadsInv, CalmInv,
           [TransferNext]_vars
    PROVE  CalmInv'
<1>1. CASE UNCHANGED vars
  <2>1. /\ UNCHANGED <<at, conn, job, net, backlog>>
        /\ UNCHANGED <<pc, clients, cur, status, stamps, disk, packet, dl, ul>>
    BY <1>1 DEF vars, serverVars, clientVars
  <2>2. \A k : (Awaited(k)' <=> Awaited(k)) /\ Expects(k)' = Expects(k)
    BY <2>1 DEF Awaited, Serves, Me, Expects, Doing
  <2>3. AliveInv' /\ HostedInv' /\ OpenInv'
    BY <2>1 DEF CalmInv, AliveInv, HostedInv, OpenInv, Linked
  <2>4. DepartedInv'
    BY <2>1, <2>2 DEF CalmInv, DepartedInv
  <2>5. FairInv'
    BY <2>1 DEF CalmInv, FairInv, Fair, Linked, Queue, Downloading
  <2> QED
    BY <2>3, <2>4, <2>5 DEF CalmInv
<1> QED
  BY <1>1, QuietServer, QuietClient DEF TransferNext

(* A download ends because its client received the last of it.             *)
LEMMA QuietEnds ==
    ASSUME Quiet, TransferInv, InStepInv, InStepInv', DownloadsInv, CalmInv,
           [TransferNext]_vars,
           NEW c \in Clients, Linked(c), Downloading(c), ~Downloading(c)'
    PROVE  said'[c] = "saved"
<1>1. PICK d \in Clients : ClientStep(d) \/ UserStep(d) \/ KillClient(d)
  <2>1. (UNCHANGED clientVars \/ UNCHANGED vars) => (Downloading(c)' <=> Downloading(c))
    BY DEF clientVars, vars, Downloading
  <2> QED
    BY <2>1 DEF TransferNext
<1>2. Moves(d) /\ UNCHANGED serverVars /\ QueueInv /\ SaidInv
  BY <1>1, ClientMoves DEF DownloadsInv
<1>3. d = c
  <2>1. d # c => at'[c] = at[c]
    BY <1>2, OthersKeep
  <2> QED
    BY <2>1 DEF Downloading
<1>4. ~TcpSend(c) /\ ~Commands(c)
  BY FairSend, FairCommand
<1>5. ~TcpConnect(c) /\ at[c] # "prompt"
  BY DEF TcpConnect, Connect, Downloading
<1>6. TcpReceive(c)
  BY <1>1, <1>3, <1>4, <1>5, QuietLeaves
<1> QED
  BY <1>2, <1>6, FairReceive DEF Downloading

(* Where nobody is killed, every file opens and users ask for files that   *)
(* the host has, a download on a connection that was made never fails: no  *)
(* refused upload, no client that leaves and no other transfer spoils it.  *)
THEOREM TransferQuietDownloads ==
    ASSUME Numbers = Nat, Distinct, WantedFlat, Quiet
    PROVE  TransferSpec => QuietDownloadsSucceed
<1>1. TransferSpec => [](TransferInv /\ InStepInv /\ DownloadsInv)
  BY DownloadsInvariant
<1>2. TransferInit => CalmInv
  BY QuietInit
<1>3. /\ TransferInv /\ InStepInv /\ DownloadsInv
      /\ (TransferInv /\ InStepInv /\ DownloadsInv)'
      /\ CalmInv /\ [TransferNext]_vars
      => CalmInv'
  BY QuietNext
<1>4. /\ TransferInv /\ InStepInv /\ DownloadsInv
      /\ (TransferInv /\ InStepInv /\ DownloadsInv)'
      /\ CalmInv /\ [TransferNext]_vars
      => [\A c \in Clients : Linked(c) /\ Downloading(c) /\ ~Downloading(c)'
                                 => said'[c] = "saved"]_vars
  BY QuietEnds
<1> QED
  BY <1>1, <1>2, <1>3, <1>4, PTL DEF TransferSpec, QuietDownloadsSucceed
=============================================================================
