------------------------------ MODULE UdpProofs ------------------------------
(***************************************************************************)
(* Proofs of UdpTransfer's properties: however its users take turns, and   *)
(* whoever of them is killed, the server and the client it serves read     *)
(* each other's datagrams for what they are, and files arrive whole.       *)
(*                                                                         *)
(* The server has one socket, and what waits there came from whoever sent. *)
(* The invariant follows it letter by letter: from what the server expects *)
(* now, each letter leads to what it will expect next, up to what the one  *)
(* client at the server is about to send or to read.  After a client was   *)
(* killed or has closed, only connects of others can follow, and until the *)
(* server listens again they lead nowhere: nobody is served by mistake.    *)
(* In the other direction the chunks that wait for a client are followed   *)
(* by what the server has left to send, and are the file's unless one was  *)
(* lost, in which case they are too few.                                   *)
(***************************************************************************)
EXTENDS UdpTransfer, FileServerProofs

-----------------------------------------------------------------------------
(* What the server does not refuse.                                        *)
Hosts(n) == n \notin BadNames /\ disk[n].kind # "dir"

-----------------------------------------------------------------------------
(* Types.                                                                  *)

UdpPlaces ==
    {"prompt", "recvAccept", "sendMac", "recvGreeting", "downloadHeader", "downloadData",
     "recvResponse", "recvFile", "uploadHeader", "uploadData", "sendFile", "askHeader",
     "askData", "recvAnswer", "sendClose", "dead"}
Reports == {"nothing", "connected", "failed", "saved", "uploaded", "answered", "closed"}
Job == [op : Opcodes, file : Names, left : Nat, start : {0}]

Headers == [t : {"header"}, op : Opcodes]
Pieces == [t : {"block"}, blocks : Seq(Blocks)]
Request ==
    [t : {"connect"}] \cup [t : {"mac"}, mac : Macs] \cup Headers \cup Pieces
    \cup [t : {"data"}, arg : Nat, name : Names, file : Seq(Blocks)]
Answers ==
    [t : {"accept"}] \cup [t : {"answer"}] \cup Headers \cup Pieces
    \cup [t : {"response"}, ready : BOOLEAN, total : Nat]
Letter == [from : Conns, unit : Request]

ClientInv ==
    /\ at \in [Clients -> UdpPlaces]
    /\ conn \in [Clients -> Conns \cup {"null"}]
    /\ made \in [Clients -> Conns \cup {"null"}]
    /\ job \in [Clients -> Job]
    /\ local \in [Clients -> [Names -> Entry]]
    /\ said \in [Clients -> Reports]

PostInv ==
    /\ inbox \in Seq(Letter)
    /\ mail \in [Conns -> Seq(Answers)]
    /\ lost \subseteq Conns
    /\ asked \in [Conns -> Seq(Blocks)]

(* No call of the server fails.                                            *)
ServerInv ==
    /\ IInv
    /\ status = "Success" /\ stamps = {}
    /\ pc \notin {"SendStamp", "Dead"}
    /\ pc # "Listen" => cur = Len(clients) /\ cur \in 1..Len(clients)
    /\ \A c \in Clients : \A n \in Offered[c] : Hosts(n)

-----------------------------------------------------------------------------
(* Who is where.                                                           *)

(* The server serves the client at address k.                              *)
Serves(k) == pc # "Listen" /\ S = k

(* Client c is connected, and has not told the server to close.            *)
Here(c) == conn[c] \in Conns /\ said[c] # "closed" /\ at[c] # "recvAccept"

DownloadPlaces == {"downloadHeader", "downloadData", "recvResponse", "recvFile"}
UploadPlaces == {"uploadHeader", "uploadData", "sendFile"}

PlaceInv(c) ==
    /\ at[c] = "recvAccept" <=> made[c] \in Conns
    /\ at[c] = "dead" => conn[c] = "null"
    /\ at[c] \notin {"prompt", "recvAccept", "dead"} => Here(c)
    /\ at[c] # "prompt" => said[c] = "nothing"
    /\ at[c] \in DownloadPlaces => job[c].file \in Wanted[c]
    /\ at[c] \in DownloadPlaces \ {"recvFile"} => local[c][job[c].file].data = <<>>
    /\ at[c] \in UploadPlaces =>
          /\ job[c].file \in Offered[c]
          /\ job[c].left \in 1..Len(local[c][job[c].file].data)
    /\ at[c] \in {"uploadHeader", "uploadData"} =>
          job[c].left = Len(local[c][job[c].file].data)
    /\ at[c] = "askHeader" => job[c].op \in {"Echo", "Time"}
    /\ at[c] = "askData" => job[c].op = "Echo"
    /\ \A n \in Offered[c] : local[c][n].kind = "file" => local[c][n].data # <<>>

(* Users take turns, and no two sockets have one address.                  *)
TurnInv ==
    \A c, d \in Clients :
        /\ AtIt(c) /\ AtIt(d) => c = d
        /\ conn[c] \in Conns => conn[c] # made[d] /\ (conn[c] = conn[d] => c = d)

(* A connect that waits comes from a new address; and if its client still  *)
(* waits too, it is the last that was sent.                                *)
AddressInv ==
    /\ \A k \in Conns : ~Bound(k) => mail[k] = <<>>
    /\ \A i \in 1..Len(inbox) :
          inbox[i].unit = ConnectMagic =>
              /\ \A j \in 1..Len(clients) : clients[j].conn # inbox[i].from
              /\ \A j \in 1..Len(inbox) : inbox[j].from = inbox[i].from => j = i
              /\ \A c \in Clients : /\ conn[c] # inbox[i].from
                                    /\ made[c] = inbox[i].from => i = Len(inbox)

-----------------------------------------------------------------------------
(* What the server expects, and what it is sent.                           *)

Awaits(t, op, n, file) == [t |-> t, op |-> op, n |-> n, file |-> file]
WantMac == Awaits("mac", "None", 0, <<>>)
WantHeader == Awaits("header", "None", 0, <<>>)
WantData(op) == Awaits("data", op, 0, <<>>)
WantBlocks(n, file) == Awaits("block", "None", n, file)
Owes(what) == Awaits(what, "None", 0, <<>>)

(* Nothing but connects: the client has left; or, at the wrong place, it   *)
(* was killed and the server reads what others send in its place.          *)
Over == Awaits("over", "None", 0, <<>>)
Lost == Awaits("lost", "None", 0, <<>>)

(* The next chunk of a file of which n blocks are still to be sent.        *)
NextChunk(n, file) == SubSeq(file, Len(file) - n + 1, Len(file) - n + ChunkSize(n))

(* What is expected after the unit u of the client, where x was.           *)
Passes(u, x, y) ==
    \/ x = WantMac /\ u.t = "mac" /\ y = Owes("greeting")
    \/ /\ x = WantHeader /\ u.t = "header"
       /\ \/ u.op \in {"Echo", "Download", "Upload"} /\ y = WantData(u.op)
          \/ u.op = "Time" /\ y = Owes("answer")
          \/ u.op = "Close" /\ y = Over
    \/ x = WantData("Echo") /\ u.t = "data" /\ y = Owes("answer")
    \/ x = WantData("Download") /\ u.t = "data" /\ u.arg = 0 /\ y = Owes("response")
    \/ /\ x = WantData("Upload") /\ u.t = "data"
       /\ u.arg = Len(u.file) /\ u.arg > 0 /\ \E c \in Clients : u.name \in Offered[c]
       /\ y = WantBlocks(u.arg, u.file)
    \/ /\ u.t = "block"
       /\ \E file \in Seq(Blocks) : \E n \in 1..Len(file) :
             /\ x = WantBlocks(n, file)
             /\ u.blocks = NextChunk(n, file)
             /\ y = IF n > ChunkSize(n) THEN WantBlocks(n - ChunkSize(n), file) ELSE WantHeader

(* The same of any letter while the client at k is served.                 *)
Follows(k, letter, x, y) ==
    \/ letter.unit = ConnectMagic /\ y = (IF x = Over THEN Over ELSE Lost)
    \/ letter.from = k /\ Passes(letter.unit, x, y)

(* The letters q lead from what is expected first to what is after them.   *)
(* Nothing leads away from Over and Lost: for the prover, which cannot do  *)
(* the induction over q, the definition says so.                           *)
Final == {Over, Lost}
Leads(k, q, x, y) ==
    \E f : /\ f[1] = x /\ f[Len(q) + 1] = y
           /\ \A i \in 1..Len(q) : Follows(k, q[i], f[i], f[i + 1])
           /\ \A i \in 1..(Len(q) + 1) : f[i] \in Final =>
                 \A j \in i..(Len(q) + 1) : f[j] = f[i]

Receiving == dl.start = 0 /\ dl.total = Len(asked[S]) /\ disk[dl.file].data = asked[S]

Wants(x) ==
    \/ pc = "Listen" /\ x = Over
    \/ pc # "Listen" /\ x = Lost
    \/ pc = "RecvMac" /\ x = WantMac
    \/ pc = "Greet" /\ x = Owes("greeting")
    \/ pc = "RecvHeader" /\ x = WantHeader
    \/ pc = "RecvData" /\ packet.op \in {"Echo", "Download", "Upload"} /\ x = WantData(packet.op)
    \/ pc = "Reply" /\ x = Owes("answer")
    \/ pc = "Download" /\ packet.arg = 0 /\ x = Owes("response")
    \/ pc = "SendChunk" /\ Receiving /\ x = Owes("stream")
    \/ /\ pc = "Upload" /\ Hosts(packet.name)
       /\ packet.arg = Len(asked[S]) /\ packet.arg > 0
       /\ x = WantBlocks(packet.arg, asked[S])
    \/ /\ pc = "RecvChunk" /\ ul.left \in 1..Len(asked[S])
       /\ disk[ul.name].data = SubSeq(asked[S], 1, Len(asked[S]) - ul.left)
       /\ x = WantBlocks(ul.left, asked[S])

(* What a client that is not answered yet is about to give, or to get.     *)
Gives(c, y) ==
    \/ at[c] = "sendMac" /\ y = WantMac
    \/ at[c] = "recvGreeting" /\ y = Owes("greeting")
    \/ at[c] \in {"prompt", "downloadHeader", "uploadHeader", "askHeader", "sendClose"}
          /\ y = WantHeader
    \/ at[c] = "downloadData" /\ y = WantData("Download")
    \/ at[c] = "uploadData" /\ y = WantData("Upload")
    \/ at[c] = "askData" /\ y = WantData("Echo")
    \/ at[c] = "recvResponse" /\ y = Owes("response")
    \/ at[c] = "recvAnswer" /\ y = Owes("answer")
    \/ at[c] = "sendFile" /\ y = WantBlocks(job[c].left, local[c][job[c].file].data)

(* It is answered, at least in part: the server sends, or waits for it.    *)
Replied(c) == mail[conn[c]] # <<>> \/ at[c] = "recvFile"
Attended(y) ==
    /\ inbox = <<>>
    /\ \/ pc = "RecvHeader" /\ y = WantHeader
       \/ pc = "SendChunk" /\ y = Owes("stream")

Ends(y) ==
    \A c \in Clients :
        /\ Here(c) => Serves(conn[c]) /\ IF Replied(c) THEN Attended(y) ELSE Gives(c, y)
        /\ conn[c] \in Conns /\ ~Here(c) /\ Serves(conn[c]) => y = Over
        /\ made[c] \in Conns /\ Serves(made[c]) => y = WantMac

ChainInv == \E x, y : Wants(x) /\ Leads(S, inbox, x, y) /\ Ends(y)

-----------------------------------------------------------------------------
(* What waits for the clients.                                             *)

ToSend == IF pc = "SendChunk" THEN dl.left ELSE 0

(* The chunks q, for a client that has some data of the file and wants n   *)
(* blocks more, when the server has t left to send: f[i] are missing       *)
(* before the i-th; and if no chunk was lost, they are the file's.         *)
FlowsOf(file, data, t, q, n) ==
    \E f : /\ f[1] = n /\ f[Len(q) + 1] \in Nat /\ f[Len(q) + 1] >= t
           /\ \A i \in 1..Len(q) :
                 /\ q[i].t = "block" /\ Len(q[i].blocks) \in 1..BufferSize
                 /\ f[i] \in Nat /\ f[i] = f[i + 1] + Len(q[i].blocks)
           /\ f[Len(q) + 1] = t =>
                 /\ n <= Len(file)
                 /\ data = SubSeq(file, 1, Len(file) - n)
                 /\ \A i \in 1..Len(q) :
                       q[i].blocks = SubSeq(file, Len(file) - f[i] + 1, Len(file) - f[i + 1])

Flows(c, q, n) == FlowsOf(asked[conn[c]], local[c][job[c].file].data, ToSend, q, n)

MailInv(c) ==
    /\ made[c] \in Conns =>
          \/ mail[made[c]] = <<>> /\ ~Serves(made[c])
          \/ mail[made[c]] = <<AcceptMagic>> /\ Serves(made[c])
    /\ conn[c] \in Conns =>
          LET q == mail[conn[c]]
          IN  \/ q = <<>> /\ at[c] # "recvFile"
              \/ at[c] = "recvGreeting" /\ q = <<Header("None")>> /\ pc # "SendChunk"
              \/ at[c] = "recvAnswer" /\ q = <<Answered>> /\ pc # "SendChunk"
              \/ /\ at[c] = "recvResponse" /\ q # <<>> /\ Head(q).t = "response"
                 /\ IF Head(q).ready THEN Flows(c, Tail(q), Head(q).total) 
                                  ELSE Tail(q) = <<>> /\ pc # "SendChunk"
              \/ at[c] = "recvFile" /\ Flows(c, q, job[c].left)

UdpInv ==
    /\ ServerInv /\ ClientInv /\ PostInv
    /\ \A c \in Clients : PlaceInv(c) /\ MailInv(c)
    /\ TurnInv /\ AddressInv /\ ChainInv

-----------------------------------------------------------------------------
(* What leads where.                                                       *)

(* A connect leads nowhere else, and is all that fits there.               *)
LEMMA FinalFollows ==
    ASSUME NEW k, NEW letter, NEW x, NEW y, Follows(k, letter, x, y)
    PROVE  /\ letter.unit = ConnectMagic => y \in Final
           /\ x \in Final => y = x /\ letter.unit = ConnectMagic
           /\ letter.unit # ConnectMagic => letter.from = k /\ Passes(letter.unit, x, y)
           /\ \A w \in {"greeting", "answer", "response", "stream"} :
                 x = Owes(w) => y = Lost /\ letter.unit = ConnectMagic
           /\ y # WantMac
<1>1. \A z \in Final : ~Passes(letter.unit, z, y)
  BY DEF Passes, Final, Over, Lost, WantMac, WantHeader, WantData, WantBlocks, Awaits
<1>2. \A w \in {"greeting", "answer", "response", "stream"} : ~Passes(letter.unit, Owes(w), y)
  BY DEF Passes, Owes, WantMac, WantHeader, WantData, WantBlocks, Awaits
<1>3. Passes(letter.unit, x, y) => y # WantMac
  BY DEF Passes, Over, Owes, WantMac, WantHeader, WantData, WantBlocks, Awaits
<1>4. Over # WantMac /\ Lost # WantMac /\ Final = {Over, Lost}
  BY DEF Over, Lost, WantMac, Awaits, Final
<1>5. \A w \in {"greeting", "answer", "response", "stream"} : Owes(w) # Over
  BY DEF Over, Owes, Awaits
<1>6. CASE letter.unit = ConnectMagic
  <2>1. ~Passes(letter.unit, x, y)
    BY <1>6 DEF Passes, ConnectMagic
  <2>2. y = IF x = Over THEN Over ELSE Lost
    BY <2>1 DEF Follows
  <2> QED
    BY <1>4, <1>5, <1>6, <2>2
<1>7. CASE letter.unit # ConnectMagic
  <2>1. letter.from = k /\ Passes(letter.unit, x, y)
    BY <1>7 DEF Follows
  <2> QED
    BY <1>1, <1>2, <1>3, <1>4, <1>7, <2>1
<1> QED
  BY <1>6, <1>7

(* No letters lead nowhere.                                                *)
LEMMA LeadsEmpty ==
    ASSUME NEW k, NEW x, NEW y
    PROVE  Leads(k, <<>>, x, y) <=> x = y
<1>1. Len(<<>>) = 0 /\ 1..0 = {} /\ 0 + 1 = 1
  OBVIOUS
<1>2. ASSUME x = y PROVE Leads(k, <<>>, x, y)
  <2> DEFINE f == [i \in {1} |-> x]
  <2>1. f[1] = x
    OBVIOUS
  <2> HIDE DEF f
  <2> QED
    BY <1>1, <1>2, <2>1 DEF Leads
<1> QED
  BY <1>1, <1>2 DEF Leads

(* The first letter leads to where the rest leads on from.                 *)
LEMMA LeadsHead ==
    ASSUME NEW k, NEW q \in Seq(Letter), q # <<>>, NEW x, NEW y, Leads(k, q, x, y)
    PROVE  \E z : Follows(k, Head(q), x, z) /\ Leads(k, Tail(q), z, y)
<1>1. PICK f : /\ f[1] = x /\ f[Len(q) + 1] = y
               /\ \A i \in 1..Len(q) : Follows(k, q[i], f[i], f[i + 1])
               /\ \A i \in 1..(Len(q) + 1) : f[i] \in Final =>
                     \A j \in i..(Len(q) + 1) : f[j] = f[i]
  BY DEF Leads
<1>2. /\ Len(q) \in Nat /\ Len(q) > 0 /\ Head(q) = q[1] /\ Len(Tail(q)) = Len(q) - 1
      /\ \A i \in 1..(Len(q) - 1) : Tail(q)[i] = q[i + 1]
  BY HeadTailProperties, LenProperties, EmptySeq
<1>3. Follows(k, Head(q), x, f[2])
  BY <1>1, <1>2
<1> DEFINE g == [i \in 1..Len(q) |-> f[i + 1]]
<1>4. \A i \in 1..Len(q) : g[i] = f[i + 1]
  OBVIOUS
<1> HIDE DEF g
<1>5. g[1] = f[2] /\ g[Len(Tail(q)) + 1] = y
  BY <1>1, <1>2, <1>4
<1>6. \A i \in 1..Len(Tail(q)) : Follows(k, Tail(q)[i], g[i], g[i + 1])
  <2> SUFFICES ASSUME NEW i \in 1..Len(Tail(q)) PROVE Follows(k, Tail(q)[i], g[i], g[i + 1])
    OBVIOUS
  <2>1. i + 1 \in 1..Len(q) /\ i \in 1..Len(q) /\ Tail(q)[i] = q[i + 1]
    BY <1>2
  <2>2. Follows(k, q[i + 1], f[i + 1], f[(i + 1) + 1])
    BY <1>1, <2>1
  <2>3. g[i] = f[i + 1] /\ g[i + 1] = f[(i + 1) + 1]
    BY <1>4, <2>1
  <2> QED
    BY <2>1, <2>2, <2>3
<1>7. \A i \in 1..(Len(Tail(q)) + 1) : g[i] \in Final =>
         \A j \in i..(Len(Tail(q)) + 1) : g[j] = g[i]
  <2> SUFFICES ASSUME NEW i \in 1..(Len(Tail(q)) + 1), g[i] \in Final,
                      NEW j \in i..(Len(Tail(q)) + 1)
               PROVE  g[j] = g[i]
    OBVIOUS
  <2>1. i \in 1..Len(q) /\ j \in 1..Len(q) /\ i + 1 \in 1..(Len(q) + 1)
        /\ j + 1 \in (i + 1)..(Len(q) + 1)
    BY <1>2
  <2>2. g[i] = f[i + 1] /\ g[j] = f[j + 1]
    BY <1>4, <2>1
  <2> QED
    BY <1>1, <2>1, <2>2
<1>8. Leads(k, Tail(q), f[2], y)
  BY <1>5, <1>6, <1>7 DEF Leads
<1> QED
  BY <1>3, <1>8

(* One more letter leads further.                                          *)
LEMMA LeadsFurther ==
    ASSUME NEW k, NEW q \in Seq(Letter), NEW letter \in Letter, NEW x, NEW y, NEW z,
           Leads(k, q, x, y), Follows(k, letter, y, z)
    PROVE  Leads(k, Append(q, letter), x, z)
<1>1. PICK f : /\ f[1] = x /\ f[Len(q) + 1] = y
               /\ \A i \in 1..Len(q) : Follows(k, q[i], f[i], f[i + 1])
               /\ \A i \in 1..(Len(q) + 1) : f[i] \in Final =>
                     \A j \in i..(Len(q) + 1) : f[j] = f[i]
  BY DEF Leads
<1> DEFINE r == Append(q, letter)
           g == [i \in 1..(Len(q) + 2) |-> IF i = Len(q) + 2 THEN z ELSE f[i]]
<1>2. /\ Len(q) \in Nat /\ Len(r) = Len(q) + 1 /\ r[Len(q) + 1] = letter
      /\ \A i \in 1..Len(q) : r[i] = q[i]
  BY LenProperties, AppendProperties
<1>3. /\ g[Len(q) + 2] = z /\ \A i \in 1..(Len(q) + 1) : g[i] = f[i]
      /\ Len(r) + 1 = Len(q) + 2
  BY <1>2
<1> HIDE DEF g, r
<1>4. g[1] = x /\ g[Len(r) + 1] = z
  BY <1>1, <1>2, <1>3
<1>5. ASSUME NEW i \in 1..Len(r) PROVE Follows(k, r[i], g[i], g[i + 1])
  <2>1. CASE i \in 1..Len(q)
    BY <1>1, <1>2, <1>3, <2>1
  <2>2. CASE i = Len(q) + 1
    <3>1. r[i] = letter /\ g[i] = y /\ g[i + 1] = z
      BY <1>1, <1>2, <1>3, <2>2
    <3> QED
      BY <3>1
  <2> QED
    BY <1>2, <1>5, <2>1, <2>2
<1>6. ASSUME NEW i \in 1..(Len(r) + 1), g[i] \in Final, NEW j \in i..(Len(r) + 1)
      PROVE  g[j] = g[i]
  <2>1. CASE j \in 1..(Len(q) + 1)
    <3>1. i \in 1..(Len(q) + 1) /\ j \in i..(Len(q) + 1)
      BY <1>2, <1>6, <2>1
    <3> QED
      BY <1>1, <1>3, <1>6, <3>1
  <2>2. CASE i = Len(q) + 2
    BY <1>2, <1>6, <2>2
  <2>3. CASE i \in 1..(Len(q) + 1) /\ j = Len(q) + 2
    <3>1. f[i] \in Final /\ Len(q) + 1 \in i..(Len(q) + 1)
      BY <1>2, <1>3, <1>6, <2>3
    <3>2. y = f[i]
      BY <1>1, <2>3, <3>1
    <3>3. z = y
      BY <3>1, <3>2, FinalFollows
    <3> QED
      BY <1>3, <2>3, <3>2, <3>3
  <2> QED
    BY <1>2, <1>3, <1>6, <2>1, <2>2, <2>3
<1> QED
  BY <1>4, <1>5, <1>6 DEF Leads, r

AllConnects(q) == \A i \in 1..Len(q) : q[i].unit = ConnectMagic

(* From a final place nothing leads away, and only connects fit there.     *)
LEMMA LeadsFinal ==
    ASSUME NEW k, NEW q \in Seq(Letter), NEW x \in Final, NEW y
    PROVE  Leads(k, q, x, y) <=> y = x /\ AllConnects(q)
<1>1. Len(q) \in Nat
  BY LenProperties
<1>2. ASSUME Leads(k, q, x, y) PROVE y = x /\ AllConnects(q)
  <2>1. PICK f : /\ f[1] = x /\ f[Len(q) + 1] = y
                 /\ \A i \in 1..Len(q) : Follows(k, q[i], f[i], f[i + 1])
                 /\ \A i \in 1..(Len(q) + 1) : f[i] \in Final =>
                       \A j \in i..(Len(q) + 1) : f[j] = f[i]
    BY <1>2 DEF Leads
  <2>2. \A j \in 1..(Len(q) + 1) : f[j] = x
    BY <1>1, <2>1
  <2>3. y = x
    BY <1>1, <2>1, <2>2
  <2>4. ASSUME NEW i \in 1..Len(q) PROVE q[i].unit = ConnectMagic
    <3>1. f[i] = x /\ Follows(k, q[i], f[i], f[i + 1])
      BY <1>1, <2>1, <2>2
    <3> QED
      BY <3>1, FinalFollows
  <2> QED
    BY <2>3, <2>4 DEF AllConnects
<1>3. ASSUME y = x, AllConnects(q) PROVE Leads(k, q, x, y)
  <2> DEFINE f == [i \in 1..(Len(q) + 1) |-> x]
  <2>1. \A i \in 1..(Len(q) + 1) : f[i] = x
    OBVIOUS
  <2> HIDE DEF f
  <2>2. f[1] = x /\ f[Len(q) + 1] = y
    BY <1>1, <1>3, <2>1
  <2>3. ASSUME NEW i \in 1..Len(q) PROVE Follows(k, q[i], f[i], f[i + 1])
    <3>1. f[i] = x /\ f[i + 1] = x /\ q[i].unit = ConnectMagic
      BY <1>1, <1>3, <2>1 DEF AllConnects
    <3> QED
      BY <3>1 DEF Follows, Final
  <2>4. \A i \in 1..(Len(q) + 1) : \A j \in i..(Len(q) + 1) : f[j] = f[i]
    BY <1>1, <2>1
  <2> QED
    BY <2>2, <2>3, <2>4 DEF Leads
<1> QED
  BY <1>2, <1>3

(* A connect anywhere leads to where nobody is served.                     *)
LEMMA ConnectLeads ==
    ASSUME NEW k, NEW q \in Seq(Letter), NEW x, NEW y, Leads(k, q, x, y),
           NEW i \in 1..Len(q), q[i].unit = ConnectMagic
    PROVE  y \in Final
<1>1. PICK f : /\ f[1] = x /\ f[Len(q) + 1] = y
               /\ \A n \in 1..Len(q) : Follows(k, q[n], f[n], f[n + 1])
               /\ \A n \in 1..(Len(q) + 1) : f[n] \in Final =>
                     \A j \in n..(Len(q) + 1) : f[j] = f[n]
  BY DEF Leads
<1>2. Len(q) \in Nat
  BY LenProperties
<1>3. f[i + 1] \in Final
  <2>1. Follows(k, q[i], f[i], f[i + 1])
    BY <1>1
  <2> QED
    BY <2>1, FinalFollows
<1>4. i + 1 \in 1..(Len(q) + 1) /\ Len(q) + 1 \in (i + 1)..(Len(q) + 1)
  BY <1>2
<1>5. f[Len(q) + 1] = f[i + 1]
  BY <1>1, <1>3, <1>4
<1> QED
  BY <1>1, <1>3, <1>5

(* While the server owes its client something, the client does not send.   *)
LEMMA OwesLeads ==
    ASSUME NEW k, NEW q \in Seq(Letter), NEW y,
           NEW w \in {"greeting", "answer", "response", "stream"}, Leads(k, q, Owes(w), y)
    PROVE  \/ q = <<>> /\ y = Owes(w)
           \/ AllConnects(q) /\ y = Lost
<1>1. CASE q = <<>>
  BY <1>1, LeadsEmpty
<1>2. CASE q # <<>>
  <2>1. PICK z : Follows(k, Head(q), Owes(w), z) /\ Leads(k, Tail(q), z, y)
    BY <1>2, LeadsHead
  <2>2. z = Lost /\ Head(q).unit = ConnectMagic
    BY <2>1, FinalFollows
  <2>3. Tail(q) \in Seq(Letter)
    BY <1>2, HeadTailProperties
  <2>4. y = Lost /\ AllConnects(Tail(q))
    BY <2>1, <2>2, <2>3, LeadsFinal DEF Final
  <2>5. ASSUME NEW i \in 1..Len(q) PROVE q[i].unit = ConnectMagic
    <3>1. /\ Len(q) \in Nat /\ Head(q) = q[1] /\ Len(Tail(q)) = Len(q) - 1
          /\ \A j \in 1..(Len(q) - 1) : Tail(q)[j] = q[j + 1]
      BY <1>2, HeadTailProperties, LenProperties
    <3>2. CASE i = 1
      BY <2>2, <3>1, <3>2
    <3>3. CASE i # 1
      <4>1. i - 1 \in 1..Len(Tail(q)) /\ Tail(q)[i - 1] = q[(i - 1) + 1] /\ (i - 1) + 1 = i
        BY <3>1, <3>3
      <4> QED
        BY <2>4, <4>1 DEF AllConnects
    <3> QED
      BY <3>2, <3>3
  <2> QED
    BY <2>4, <2>5 DEF AllConnects
<1> QED
  BY <1>1, <1>2

(* Nothing comes before the MAC address.                                   *)
LEMMA MacLeads ==
    ASSUME NEW k, NEW q \in Seq(Letter), NEW x, Leads(k, q, x, WantMac)
    PROVE  q = <<>> /\ x = WantMac
<1>1. ASSUME q # <<>> PROVE FALSE
  <2>1. PICK f : /\ f[Len(q) + 1] = WantMac
                 /\ \A i \in 1..Len(q) : Follows(k, q[i], f[i], f[i + 1])
    BY DEF Leads
  <2>2. Len(q) \in 1..Len(q)
    BY <1>1, LenProperties, EmptySeq
  <2>3. Follows(k, q[Len(q)], f[Len(q)], WantMac)
    BY <2>1, <2>2
  <2> QED
    BY <2>3, FinalFollows
<1> QED
  BY <1>1, LeadsEmpty

-----------------------------------------------------------------------------
(* What the invariant says of the client being served.                     *)

(* The types of the server's socket and of the handle it serves.           *)
LEMMA ServedFacts ==
    ASSUME UdpInv
    PROVE  /\ inbox \in Seq(Letter) /\ Len(inbox) \in Nat
           /\ clients \in Seq(Handle) /\ Len(clients) \in Nat
           /\ pc # "Listen" => /\ Serving(pc) /\ cur \in 1..Len(clients) /\ cur = Len(clients)
                               /\ Me \in Handle /\ S \in Conns /\ asked[S] \in Seq(Blocks)
<1>1. /\ inbox \in Seq(Letter) /\ clients \in Seq(Handle)
      /\ pc # "Listen" => cur = Len(clients) /\ cur \in 1..Len(clients)
      /\ asked \in [Conns -> Seq(Blocks)]
  BY DEF UdpInv, PostInv, ServerInv, IInv, TypeOK
<1>2. \A j \in 1..Len(clients) : clients[j] \in Handle
  BY <1>1, ElementOfSeq
<1> QED
  BY <1>1, <1>2, LenProperties DEF Serving, Me, S, Handle

(* Where nothing but connects follows, nobody is being served.             *)
LEMMA FinalEnds ==
    ASSUME UdpInv, NEW y \in Final, Ends(y)
    PROVE  /\ \A c \in Clients : ~Here(c)
           /\ pc # "Listen" /\ y = Lost => ~Bound(S)
<1>1. ASSUME NEW c \in Clients, Here(c) PROVE FALSE
  <2>1. ~Gives(c, y)
    BY DEF Gives, Final, Over, Lost, WantMac, WantHeader, WantData, WantBlocks, Owes, Awaits
  <2>2. ~Attended(y)
    BY DEF Attended, Final, Over, Lost, WantHeader, Owes, Awaits
  <2> QED
    BY <1>1, <2>1, <2>2 DEF Ends
<1>2. ASSUME pc # "Listen", y = Lost, Bound(S) PROVE FALSE
  <2>1. PICK c \in Clients : S \in {conn[c], made[c]}
    BY <1>2 DEF Bound
  <2>2. S \in Conns /\ Serves(S)
    BY <1>2, ServedFacts DEF Serves
  <2>3. Lost # Over /\ Lost # WantMac
    BY DEF Lost, Over, WantMac, Awaits
  <2> QED
    BY <1>1, <1>2, <2>1, <2>2, <2>3 DEF Ends
<1> QED
  BY <1>1, <1>2

(* A letter is either what the server waits for, from whom it serves, or   *)
(* another's connect; and then its client has died.                        *)
LEMMA NextLetter ==
    ASSUME UdpInv, pc # "Listen", inbox # <<>>
    PROVE  \/ /\ Head(inbox).unit = ConnectMagic /\ AllConnects(Tail(inbox))
              /\ ~Bound(S) /\ \A c \in Clients : ~Here(c)
           \/ /\ Head(inbox).unit # ConnectMagic /\ Head(inbox).from = S
              /\ \E x, y, z : /\ Wants(x) /\ x \notin Final /\ Ends(y)
                              /\ Passes(Head(inbox).unit, x, z) /\ Leads(S, Tail(inbox), z, y)
<1>1. PICK x, y : Wants(x) /\ Leads(S, inbox, x, y) /\ Ends(y)
  BY DEF UdpInv, ChainInv
<1>2. inbox \in Seq(Letter) /\ Tail(inbox) \in Seq(Letter)
  BY ServedFacts, HeadTailProperties
<1>3. PICK z : Follows(S, Head(inbox), x, z) /\ Leads(S, Tail(inbox), z, y)
  BY <1>1, <1>2, LeadsHead
<1>4. x # Over
  BY <1>1 DEF Wants, Over, Lost, WantMac, WantHeader, WantData, WantBlocks, Owes, Awaits
<1>5. CASE Head(inbox).unit = ConnectMagic
  <2>1. z \in Final
    BY <1>3, <1>5, FinalFollows
  <2>2. z = Lost
    <3>1. ~Passes(Head(inbox).unit, x, z)
      BY <1>5 DEF Passes, ConnectMagic
    <3> QED
      BY <1>3, <1>4, <3>1 DEF Follows
  <2>3. y = Lost /\ AllConnects(Tail(inbox))
    BY <1>2, <1>3, <2>1, <2>2, LeadsFinal
  <2> QED
    BY <1>1, <1>5, <2>3, FinalEnds DEF Final
<1>6. CASE Head(inbox).unit # ConnectMagic
  <2>1. x \notin Final /\ Head(inbox).from = S /\ Passes(Head(inbox).unit, x, z)
    BY <1>3, <1>6, FinalFollows
  <2> QED
    BY <1>1, <1>3, <1>6, <2>1
<1> QED
  BY <1>5, <1>6

(* Once it has gone astray the server stays so until it listens again.     *)
LEMMA AstrayChain ==
    ASSUME UNCHANGED <<clientVars, made>>, inbox' \in Seq(Letter), AllConnects(inbox'),
           \A c \in Clients : ~Here(c),
           NEW k, ~Bound(k), pc' # "Listen" => S' = k
    PROVE  ChainInv'
<1>1. UNCHANGED <<at, conn, said, made>>
  BY DEF clientVars
<1> PICK x : x = IF pc' = "Listen" THEN Over ELSE Lost
  OBVIOUS
<1>2. x \in Final /\ Wants(x)'
  BY DEF Final, Wants
<1>3. Leads(S', inbox', x, x)
  BY <1>2, LeadsFinal
<1>4. Ends(x)'
  <2> SUFFICES ASSUME NEW c \in Clients
               PROVE  ~Here(c)' /\ ~Serves(conn[c])' /\ ~Serves(made[c])'
    BY DEF Ends
  <2>1. ~Here(c)'
    BY <1>1 DEF Here
  <2>2. conn[c]' # k /\ made[c]' # k
    BY <1>1 DEF Bound
  <2> QED
    BY <2>1, <2>2 DEF Serves
<1> QED
  BY <1>2, <1>3, <1>4 DEF ChainInv

-----------------------------------------------------------------------------
(* The server reads.                                                       *)

SameHandles ==
    /\ cur' = cur /\ Len(clients') = Len(clients)
    /\ \A j \in 1..Len(clients) : clients'[j].conn = clients[j].conn

(* A step that leaves the handles alone leaves the one being served.       *)
LEMMA SameServed ==
    ASSUME UdpInv, SameHandles, pc # "Listen"
    PROVE  S' = S
BY ServedFacts DEF SameHandles, S, Me

(* The clients have nothing to read while the server goes on reading.      *)
Busy == pc # "Listen" /\ (inbox # <<>> \/ pc \notin {"RecvMac", "RecvHeader", "SendChunk"})

(* ... and nothing waits for them.                                         *)
LEMMA NobodyReads ==
    ASSUME UdpInv, Busy, NEW c \in Clients
    PROVE  /\ Here(c) => ~Replied(c)
           /\ conn[c] \in Conns => mail[conn[c]] = <<>> /\ at[c] # "recvFile"
           /\ made[c] \in Conns => mail[made[c]] = <<>> /\ ~Serves(made[c])
<1>1. PICK x, y : Wants(x) /\ Leads(S, inbox, x, y) /\ Ends(y)
  BY DEF UdpInv, ChainInv
<1>2. Here(c) => ~Replied(c)
  BY <1>1 DEF Ends, Attended, Busy
<1>3. ASSUME conn[c] \in Conns PROVE mail[conn[c]] = <<>> /\ at[c] # "recvFile"
  <2>1. CASE Here(c)
    BY <1>2, <2>1 DEF Replied
  <2>2. CASE ~Here(c)
    <3>1. at[c] \notin {"recvGreeting", "recvAnswer", "recvResponse", "recvFile"}
      BY <2>2 DEF UdpInv, PlaceInv
    <3> QED
      BY <1>3, <3>1 DEF UdpInv, MailInv
  <2> QED
    BY <2>1, <2>2
<1>4. ASSUME made[c] \in Conns PROVE mail[made[c]] = <<>> /\ ~Serves(made[c])
  <2>1. ~Serves(made[c])
    <3>1. ASSUME Serves(made[c]) PROVE FALSE
      <4>1. Leads(S, inbox, x, WantMac)
        BY <1>1, <1>4, <3>1 DEF Ends
      <4>2. inbox = <<>> /\ Wants(WantMac)
        BY <1>1, <4>1, MacLeads, ServedFacts
      <4>3. pc = "RecvMac"
        BY <4>2 DEF Wants, Over, Lost, WantMac, WantHeader, WantData, WantBlocks, Owes, Awaits
      <4> QED
        BY <4>2, <4>3 DEF Busy
    <3> QED
      BY <3>1
  <2> QED
    BY <1>4, <2>1 DEF UdpInv, MailInv
<1> QED
  BY <1>2, <1>3, <1>4

(* What the letters end with suits the clients after such a step, too.     *)
LEMMA EndsKept ==
    ASSUME UdpInv, Busy, SameHandles, UNCHANGED <<clientVars, made, mail>>,
           NEW y, Ends(y), pc' = "Listen" => y = Over
    PROVE  Ends(y)'
<1>1. UNCHANGED <<at, conn, job, local, said, made, mail>> /\ S' = S /\ pc # "Listen"
  BY SameServed DEF clientVars, Busy
<1>2. pc' = "Listen" => \A c \in Clients : ~Here(c)
  BY FinalEnds DEF Final
<1>3. ASSUME NEW c \in Clients, Here(c)'
      PROVE  Serves(conn[c])' /\ ~Replied(c)' /\ Gives(c, y)'
  <2>1. Here(c) /\ ~Replied(c)
    BY <1>1, <1>3, NobodyReads DEF Here
  <2>2. Serves(conn[c]) /\ Gives(c, y)
    BY <2>1 DEF Ends
  <2>3. Serves(conn[c])'
    BY <1>1, <1>2, <2>1, <2>2 DEF Serves
  <2>4. ~Replied(c)'
    BY <1>1, <2>1 DEF Replied
  <2>5. Gives(c, y)'
    BY <1>1, <2>2 DEF Gives
  <2> QED
    BY <2>3, <2>4, <2>5
<1>4. \A c \in Clients : Here(c)' <=> Here(c)
  BY <1>1 DEF Here
<1> SUFFICES ASSUME NEW c \in Clients
             PROVE  /\ conn[c]' \in Conns /\ ~Here(c)' /\ Serves(conn[c])' => y = Over
                    /\ made[c]' \in Conns /\ Serves(made[c])' => y = WantMac
  BY <1>3 DEF Ends
<1>5. conn[c]' = conn[c] /\ made[c]' = made[c]
  BY <1>1
<1>6. Serves(conn[c])' => Serves(conn[c])
  BY <1>1, <1>5 DEF Serves
<1>7. Serves(made[c])' => Serves(made[c])
  BY <1>1, <1>5 DEF Serves
<1> QED
  BY <1>4, <1>5, <1>6, <1>7 DEF Ends

(* The server reads a letter, and expects what that letter leads to.       *)
LEMMA ReadsOn ==
    ASSUME UdpInv, pc # "Listen", inbox # <<>>, SrvReads, SameHandles,
           UNCHANGED <<clientVars, made, mail>>,
           Head(inbox).unit # ConnectMagic /\ Head(inbox).from = S
             => \A x, z : Wants(x) /\ x \notin Final /\ Passes(Head(inbox).unit, x, z)
                            => Wants(z)' /\ (pc' = "Listen" => z = Over)
    PROVE  ChainInv'
<1>1. inbox' = Tail(inbox) /\ inbox' \in Seq(Letter) /\ S' = S /\ UNCHANGED <<clientVars, made>>
  BY ServedFacts, HeadTailProperties, SameServed DEF SrvReads
<1>2. CASE Head(inbox).unit = ConnectMagic
  <2>1. AllConnects(Tail(inbox)) /\ ~Bound(S) /\ \A c \in Clients : ~Here(c)
    BY <1>2, NextLetter
  <2> QED
    BY <1>1, <2>1, AstrayChain
<1>3. CASE Head(inbox).unit # ConnectMagic
  <2>1. PICK x, y, z : /\ Wants(x) /\ x \notin Final /\ Ends(y) /\ Head(inbox).from = S
                       /\ Passes(Head(inbox).unit, x, z) /\ Leads(S, Tail(inbox), z, y)
    BY <1>3, NextLetter
  <2>2. Wants(z)' /\ (pc' = "Listen" => z = Over)
    BY <1>3, <2>1
  <2>3. Leads(S', inbox', z, y)
    BY <1>1, <2>1
  <2>4. pc' = "Listen" => y = Over
    <3> SUFFICES ASSUME pc' = "Listen" PROVE y = Over
      OBVIOUS
    <3>1. z = Over /\ Over \in Final
      BY <2>2 DEF Final
    <3>2. Leads(S, Tail(inbox), Over, y) /\ Tail(inbox) \in Seq(Letter)
      BY <1>1, <2>1, <3>1
    <3> QED
      BY <3>1, <3>2, LeadsFinal
  <2>5. Ends(y)'
    BY <2>1, <2>4, EndsKept DEF Busy
  <2> QED
    BY <2>2, <2>3, <2>5 DEF ChainInv
<1> QED
  BY <1>2, <1>3

-----------------------------------------------------------------------------
(* The server reads.                                                       *)

(* A step of the server leaves the clients their places and turns.         *)
LEMMA SameClients ==
    ASSUME UdpInv, UNCHANGED <<clientVars, made>>
    PROVE  ClientInv' /\ TurnInv' /\ \A c \in Clients : PlaceInv(c)'
<1>1. UNCHANGED <<at, conn, job, local, said, made>>
  BY DEF clientVars
<1>2. ClientInv'
  BY <1>1 DEF UdpInv, ClientInv
<1>3. TurnInv'
  BY <1>1 DEF UdpInv, TurnInv, AtIt, K
<1>4. ASSUME NEW c \in Clients PROVE PlaceInv(c)'
  BY <1>1 DEF UdpInv, PlaceInv, Here
<1> QED
  BY <1>2, <1>3, <1>4

(* ... and what it reads is one letter less from its address.              *)
LEMMA ReadAddress ==
    ASSUME UdpInv, inbox # <<>>, SrvReads, SameHandles,
           UNCHANGED <<clientVars, made, mail>>
    PROVE  AddressInv'
<1>1. UNCHANGED <<conn, made, mail>>
  BY DEF clientVars
<1>2. /\ inbox' = Tail(inbox) /\ Len(inbox) \in Nat /\ Len(inbox') = Len(inbox) - 1
      /\ \A i \in 1..(Len(inbox) - 1) : inbox'[i] = inbox[i + 1]
  BY ServedFacts, HeadTailProperties DEF SrvReads
<1>3. \A k \in Conns : ~Bound(k)' => mail[k]' = <<>>
  BY <1>1 DEF UdpInv, AddressInv, Bound
<1>4. ASSUME NEW i \in 1..Len(inbox'), inbox'[i].unit = ConnectMagic
      PROVE  /\ \A j \in 1..Len(clients') : clients'[j].conn # inbox'[i].from
             /\ \A j \in 1..Len(inbox') : inbox'[j].from = inbox'[i].from => j = i
             /\ \A c \in Clients : /\ conn'[c] # inbox'[i].from
                                   /\ made'[c] = inbox'[i].from => i = Len(inbox')
  <2>1. i + 1 \in 1..Len(inbox) /\ inbox'[i] = inbox[i + 1]
    BY <1>2
  <2>2. /\ \A j \in 1..Len(clients) : clients[j].conn # inbox[i + 1].from
        /\ \A j \in 1..Len(inbox) : inbox[j].from = inbox[i + 1].from => j = i + 1
        /\ \A c \in Clients : /\ conn[c] # inbox[i + 1].from
                              /\ made[c] = inbox[i + 1].from => i + 1 = Len(inbox)
    BY <1>4, <2>1 DEF UdpInv, AddressInv
  <2>3. \A j \in 1..Len(clients') : clients'[j].conn # inbox'[i].from
    BY <2>1, <2>2 DEF SameHandles
  <2>4. ASSUME NEW j \in 1..Len(inbox'), inbox'[j].from = inbox'[i].from PROVE j = i
    <3>1. j + 1 \in 1..Len(inbox) /\ inbox'[j] = inbox[j + 1]
      BY <1>2
    <3>2. j + 1 = i + 1
      BY <2>1, <2>2, <2>4, <3>1
    <3> QED
      BY <1>2, <3>2
  <2>5. ASSUME NEW c \in Clients
        PROVE  conn'[c] # inbox'[i].from /\ (made'[c] = inbox'[i].from => i = Len(inbox'))
    <3>1. conn'[c] = conn[c] /\ made'[c] = made[c] /\ inbox'[i].from = inbox[i + 1].from
      BY <1>1, <2>1
    <3>2. i + 1 = Len(inbox) => i = Len(inbox')
      <4>1. Len(inbox') = Len(inbox) - 1 /\ Len(inbox) \in Nat
        BY <1>2
      <4>2. i \in Nat
        BY <4>1
      <4> QED
        BY <4>1, <4>2
    <3> QED
      BY <2>2, <3>1, <3>2
  <2> QED
    BY <2>3, <2>4, <2>5
<1> QED
  BY <1>3, <1>4 DEF AddressInv

(* A step that takes a letter and leaves the clients what they have.       *)
LEMMA ReadStep ==
    ASSUME UdpInv, pc # "Listen", inbox # <<>>, SrvReads, SameHandles,
           UNCHANGED <<clientVars, made, mail, lost>>, ServerInv', asked' \in [Conns -> Seq(Blocks)],
           Head(inbox).unit # ConnectMagic /\ Head(inbox).from = S
             => \A x, z : Wants(x) /\ x \notin Final /\ Passes(Head(inbox).unit, x, z)
                            => Wants(z)' /\ (pc' = "Listen" => z = Over)
    PROVE  UdpInv'
<1>1. UNCHANGED <<at, conn, job, local, said, made, mail>> /\ S' = S
      /\ UNCHANGED <<clientVars, made, mail>>
  BY SameServed DEF clientVars
<1>2. PostInv'
  BY ServedFacts, HeadTailProperties DEF UdpInv, PostInv, SrvReads
<1>3. ASSUME NEW c \in Clients PROVE MailInv(c)'
  <2>1. /\ conn[c] \in Conns => mail[conn[c]] = <<>> /\ at[c] # "recvFile"
        /\ made[c] \in Conns => mail[made[c]] = <<>> /\ ~Serves(made[c])
    BY NobodyReads DEF Busy
  <2>2. Serves(made[c])' => Serves(made[c])
    BY <1>1 DEF Serves
  <2> QED
    BY <1>1, <2>1, <2>2 DEF MailInv
<1>4. ClientInv' /\ TurnInv' /\ \A c \in Clients : PlaceInv(c)'
  BY <1>1, SameClients
<1>5. AddressInv'
  BY <1>1, ReadAddress
<1>6. ChainInv'
  BY <1>1, ReadsOn
<1> QED
  BY <1>2, <1>3, <1>4, <1>5, <1>6 DEF UdpInv

-----------------------------------------------------------------------------
(* A receive that delivers something: no CheckFail.                        *)
LEMMA RecvMacServer ==
    ASSUME UdpInv, NEW m \in Macs, RecvMac("ok", m)
    PROVE  ServerInv' /\ SameHandles /\ pc = "RecvMac" /\ pc' = "Greet"
<1>1. IInv /\ status = "Success" /\ stamps = {} /\ pc = "RecvMac"
  BY DEF UdpInv, ServerInv, RecvMac, Serving
<1>2. /\ clients \in Seq(Handle) /\ Len(clients) \in Nat /\ cur \in 1..Len(clients)
      /\ cur = Len(clients) /\ Me \in Handle
  BY <1>1, ServedFacts
<1>3. IInv'
  BY <1>1, RecvMacStep DEF Received
<1>4. Latch("ok") = "Success" /\ "Success" \notin Removable
  BY <1>1, ProtocolAssumption DEF Latch, Removable
<1>5. clients' = [clients EXCEPT ![cur] = [conn |-> Me.conn, mac |-> m]] /\ pc' = "Greet"
  BY <1>4 DEF RecvMac, AfterCheckFail, CheckFail
<1>6. UNCHANGED <<cur, disk, stamps>> /\ status' = "Success"
  BY DEF RecvMac
<1>7. Len(clients') = Len(clients)
  BY <1>2, <1>5
<1>8. \A j \in 1..Len(clients) : clients'[j].conn = clients[j].conn
  BY <1>2, <1>5 DEF Me
<1>9. \A c \in Clients : \A n \in Offered[c] : Hosts(n)'
  BY <1>6 DEF UdpInv, ServerInv, Hosts
<1> QED
  BY <1>1, <1>2, <1>3, <1>5, <1>6, <1>7, <1>8, <1>9 DEF ServerInv, SameHandles

(* The same of a header: what follows is its data, the answer or the end.  *)
LEMMA RecvHeaderServer ==
    ASSUME UdpInv, Numbers = Nat, NEW op \in Opcodes, NEW hasData \in BOOLEAN,
           NEW arg \in Nat, NEW name \in Names, RecvHeader("ok", op, hasData, arg, name)
    PROVE  /\ ServerInv' /\ SameHandles /\ pc = "RecvHeader"
           /\ pc' = AfterHeader(op, hasData)
<1>1. IInv /\ status = "Success" /\ stamps = {} /\ pc = "RecvHeader"
  BY DEF UdpInv, ServerInv, RecvHeader, Serving
<1>2. cur \in 1..Len(clients) /\ cur = Len(clients)
  BY <1>1, ServedFacts
<1>3. IInv'
  BY <1>1, RecvHeaderStep DEF Received
<1>4. /\ UNCHANGED <<clients, cur, disk, stamps, status>> /\ pc' = AfterHeader(op, hasData)
  BY DEF RecvHeader
<1>5. pc' \notin {"SendStamp", "Dead"}
  BY <1>4 DEF AfterHeader, Handler
<1>6. \A c \in Clients : \A n \in Offered[c] : Hosts(n)'
  BY <1>4 DEF UdpInv, ServerInv, Hosts
<1> QED
  BY <1>1, <1>2, <1>3, <1>4, <1>5, <1>6 DEF ServerInv, SameHandles

(* The same of a request's data: the request is carried out next.          *)
LEMMA RecvDataServer ==
    ASSUME UdpInv, Numbers = Nat, NEW arg \in Nat, NEW name \in Names,
           RecvData("ok", arg, name)
    PROVE  /\ ServerInv' /\ SameHandles /\ pc = "RecvData"
           /\ pc' = Handler(packet.op)
<1>1. IInv /\ status = "Success" /\ stamps = {} /\ pc = "RecvData"
  BY DEF UdpInv, ServerInv, RecvData, Serving
<1>2. cur \in 1..Len(clients) /\ cur = Len(clients)
  BY <1>1, ServedFacts
<1>3. IInv'
  BY <1>1, RecvDataStep DEF Received
<1>4. /\ UNCHANGED <<clients, cur, disk, stamps, status>> /\ pc' = Handler(packet.op)
  BY DEF RecvData
<1>5. pc' \notin {"SendStamp", "Dead"}
  BY <1>4 DEF Handler
<1>6. \A c \in Clients : \A n \in Offered[c] : Hosts(n)'
  BY <1>4 DEF UdpInv, ServerInv, Hosts
<1> QED
  BY <1>1, <1>2, <1>3, <1>4, <1>5, <1>6 DEF ServerInv, SameHandles

(* The same of a chunk.                                                    *)
LEMMA RecvChunkServer ==
    ASSUME UdpInv, NEW d \in Seq(Blocks), RecvChunk("ok", d)
    PROVE  ServerInv' /\ SameHandles /\ pc = "RecvChunk"
<1>1. IInv /\ status = "Success" /\ stamps = {} /\ pc = "RecvChunk"
  BY DEF UdpInv, ServerInv, RecvChunk, Serving
<1>2. cur \in 1..Len(clients) /\ cur = Len(clients)
  BY <1>1, ServedFacts
<1>3. "ok" \notin Errors /\ BufferSize \in Nat
  BY ServerAssumption, ProtocolAssumption
<1>4. /\ UNCHANGED <<clients, cur, stamps, status>> /\ pc' \in {"RecvChunk", "RecvHeader"}
      /\ Len(d) \in 1..ChunkSize(ul.left)
      /\ disk' = [disk EXCEPT ![ul.name] = File(@.data \o d)]
  BY <1>3 DEF RecvChunk, UploadDone
<1>5. d \in Chunks
  <2>1. ul.left \in Nat
    BY <1>1 DEF IInv, TypeOK
  <2>2. Len(d) \in 1..BufferSize
    BY <1>3, <1>4, <2>1 DEF ChunkSize
  <2>3. d \in [1..Len(d) -> Blocks]
    BY LenProperties
  <2> QED
    BY <2>2, <2>3 DEF Chunks
<1>6. IInv'
  BY <1>1, <1>5, RecvChunkStep DEF Received
<1>7. \A c \in Clients : \A n \in Offered[c] : Hosts(n)'
  <2> SUFFICES ASSUME NEW c \in Clients, NEW n \in Offered[c] PROVE Hosts(n)'
    OBVIOUS
  <2>1. Hosts(n) /\ disk \in [Names -> Entry] /\ n \in Names
    BY <1>1, UdpAssumption DEF UdpInv, ServerInv, IInv, TypeOK
  <2>2. disk'[n] = disk[n] \/ disk'[n].kind = "file"
    BY <1>4, <2>1 DEF File
  <2> QED
    BY <2>1, <2>2 DEF Hosts
<1> QED
  BY <1>1, <1>2, <1>4, <1>6, <1>7 DEF ServerInv, SameHandles

-----------------------------------------------------------------------------
(* What the server waits for says where it is.                             *)
LEMMA WantsAt ==
    ASSUME NEW x, Wants(x), pc # "Listen", x # Lost
    PROVE  /\ pc = "RecvMac" => x = WantMac
           /\ pc = "RecvHeader" => x = WantHeader
           /\ pc = "RecvData" => /\ packet.op \in {"Echo", "Download", "Upload"}
                                 /\ x = WantData(packet.op)
           /\ pc = "RecvChunk" =>
                 /\ ul.left \in 1..Len(asked[S])
                 /\ disk[ul.name].data = SubSeq(asked[S], 1, Len(asked[S]) - ul.left)
                 /\ x = WantBlocks(ul.left, asked[S])
           /\ pc = "Upload" =>
                 /\ Hosts(packet.name) /\ packet.arg = Len(asked[S]) /\ packet.arg > 0
                 /\ x = WantBlocks(packet.arg, asked[S])
           /\ pc # "Discard"
BY DEF Wants

(* A letter that waits is one a client can have sent.                      *)
LEMMA LetterFacts ==
    ASSUME UdpInv, inbox # <<>>
    PROVE  Head(inbox) \in Letter /\ Unit \in Request
<1>1. Head(inbox) \in Letter
  BY ServedFacts, HeadTailProperties
<1> QED
  BY <1>1 DEF Letter, Unit

(* What each thing passes.                                                 *)
LEMMA PassesKinds ==
    ASSUME NEW u, NEW x, NEW z, Passes(u, x, z)
    PROVE  /\ x.t = u.t
           /\ x = WantMac => z = Owes("greeting")
           /\ x = WantHeader =>
                 \/ u.op \in {"Echo", "Download", "Upload"} /\ z = WantData(u.op)
                 \/ u.op = "Time" /\ z = Owes("answer")
                 \/ u.op = "Close" /\ z = Over
           /\ x = WantData("Echo") => z = Owes("answer")
           /\ x = WantData("Download") => u.arg = 0 /\ z = Owes("response")
           /\ x = WantData("Upload") =>
                 /\ u.arg = Len(u.file) /\ u.arg > 0 /\ \E c \in Clients : u.name \in Offered[c]
                 /\ z = WantBlocks(u.arg, u.file)
           /\ \A file, n : x = WantBlocks(n, file) =>
                 /\ n \in 1..Len(file) /\ u.blocks = NextChunk(n, file)
                 /\ z = IF n > ChunkSize(n) THEN WantBlocks(n - ChunkSize(n), file) ELSE WantHeader
BY DEF Passes, WantMac, WantHeader, WantData, WantBlocks, Awaits

(* UdpRecvMac preserves the invariant.                                     *)
LEMMA UdpRecvMacInv ==
    ASSUME UdpInv, UdpRecvMac, UNCHANGED clientVars
    PROVE  UdpInv'
<1>1. PICK m \in Macs : RecvMac("ok", m)
  BY LetterFacts DEF UdpRecvMac, Request, Headers, Pieces, Got
<1>2. ServerInv' /\ SameHandles /\ pc = "RecvMac" /\ pc' = "Greet"
  BY <1>1, RecvMacServer
<1>3. /\ inbox # <<>> /\ SrvReads /\ UNCHANGED <<clientVars, made, mail, lost>>
      /\ asked' \in [Conns -> Seq(Blocks)]
  BY DEF UdpRecvMac, Got, UdpInv, PostInv
<1>4. ASSUME NEW x, NEW z, Wants(x), x \notin Final, Passes(Head(inbox).unit, x, z)
      PROVE  Wants(z)' /\ pc' # "Listen"
  <2>1. z = Owes("greeting")
    BY <1>2, <1>4, WantsAt, PassesKinds DEF Final
  <2> QED
    BY <1>2, <2>1 DEF Wants
<1> QED
  BY <1>2, <1>3, <1>4, ReadStep

(* UdpRecvHeader preserves the invariant.                                  *)
LEMMA UdpRecvHeaderInv ==
    ASSUME UdpInv, Numbers = Nat, UdpRecvHeader, UNCHANGED clientVars
    PROVE  UdpInv'
<1>1. Unit \in Request /\ SomeName \in Names /\ 0 \in Nat
  BY LetterFacts, NoneLemma DEF UdpRecvHeader, Got
<1>2. PICK op \in Opcodes, hasData \in BOOLEAN, arg \in Nat, name \in Names :
         /\ RecvHeader("ok", op, hasData, arg, name)
         /\ Unit.t = "header" => op = Unit.op /\ hasData = HasData(op)
  <2>1. CASE Unit.t = "header"
    <3>1. Unit.op \in Opcodes /\ HasData(Unit.op) \in BOOLEAN
      BY <1>1, <2>1 DEF Request, Headers, Pieces, HasData
    <3>2. RecvHeader("ok", Unit.op, HasData(Unit.op), 0, SomeName)
      <4>1. Unit # ConnectMagic
        BY <2>1 DEF ConnectMagic
      <4> QED
        BY <2>1, <4>1 DEF UdpRecvHeader
    <3> QED
      BY <1>1, <3>1, <3>2
  <2>2. CASE Unit.t # "header" /\ Unit = ConnectMagic
    <3>1. RecvHeader("ok", "None", TRUE, 0, SomeName)
      BY <2>2 DEF UdpRecvHeader
    <3> QED
      BY <1>1, <2>2, <3>1 DEF Opcodes
  <2>3. CASE Unit.t # "header" /\ Unit # ConnectMagic
    <3>1. \E op \in Opcodes, hasData \in BOOLEAN, arg \in Numbers, name \in Names :
             RecvHeader("ok", op, hasData, arg, name)
      BY <2>3 DEF UdpRecvHeader
    <3> QED
      BY <2>3, <3>1
  <2> QED
    BY <2>1, <2>2, <2>3
<1>3. /\ ServerInv' /\ SameHandles /\ pc = "RecvHeader" /\ pc' = AfterHeader(op, hasData)
  BY <1>2, RecvHeaderServer
<1>4. /\ inbox # <<>> /\ SrvReads /\ UNCHANGED <<clientVars, made, mail, lost>>
      /\ asked' \in [Conns -> Seq(Blocks)]
  BY DEF UdpRecvHeader, Got, UdpInv, PostInv
<1>5. ASSUME NEW x, NEW z, Wants(x), x \notin Final, Passes(Head(inbox).unit, x, z)
      PROVE  Wants(z)' /\ (pc' = "Listen" => z = Over)
  <2>1. x = WantHeader
    BY <1>3, <1>5, WantsAt DEF Final
  <2>2. Unit.t = "header"
    BY <1>5, <2>1, PassesKinds DEF WantHeader, Awaits, Unit
  <2>3. op = Unit.op /\ hasData = HasData(op)
    BY <1>2, <2>2
  <2>4. CASE op \in {"Echo", "Download", "Upload"} /\ z = WantData(op)
    <3>1. pc' = "RecvData"
      BY <1>3, <2>3, <2>4 DEF AfterHeader, HasData
    <3>2. packet'.op = op
      BY <1>2, <3>1 DEF RecvHeader, NoPacket
    <3> QED
      BY <2>4, <3>1, <3>2 DEF Wants
  <2>5. CASE op = "Time" /\ z = Owes("answer")
    <3>1. pc' = "Reply"
      BY <1>3, <2>3, <2>5 DEF AfterHeader, HasData, Handler
    <3> QED
      BY <2>5, <3>1 DEF Wants
  <2>6. CASE op = "Close" /\ z = Over
    <3>1. pc' = "Listen"
      BY <1>3, <2>3, <2>6 DEF AfterHeader, HasData, Handler
    <3> QED
      BY <2>6, <3>1 DEF Wants
  <2> QED
    BY <1>5, <2>1, <2>3, <2>4, <2>5, <2>6, PassesKinds DEF Unit
<1> QED
  BY <1>3, <1>4, <1>5, ReadStep

(* UdpRecvData preserves the invariant.                                    *)
LEMMA UdpRecvDataInv ==
    ASSUME UdpInv, Numbers = Nat, NothingRefused, UdpRecvData, UNCHANGED clientVars
    PROVE  UdpInv'
<1>1. Unit \in Request /\ inbox # <<>>
  BY LetterFacts DEF UdpRecvData, Got
<1>2. PICK arg \in Nat, name \in Names :
         /\ RecvData("ok", arg, name)
         /\ Unit.t = "data" => arg = Unit.arg /\ name = Unit.name
  <2>1. CASE Unit.t = "data"
    <3>1. Unit.arg \in Nat /\ Unit.name \in Names
      BY <1>1, <2>1 DEF Request, Headers, Pieces
    <3> QED
      BY <2>1, <3>1 DEF UdpRecvData
  <2>2. CASE Unit.t # "data"
    BY <2>2 DEF UdpRecvData
  <2> QED
    BY <2>1, <2>2
<1>3. ServerInv' /\ SameHandles /\ pc = "RecvData" /\ pc' = Handler(packet.op)
  BY <1>2, RecvDataServer
<1>4. SrvReads /\ UNCHANGED <<clientVars, made, mail, lost>>
  BY DEF UdpRecvData
<1>5. asked \in [Conns -> Seq(Blocks)] /\ S \in Conns /\ S' = S
  BY <1>3, ServedFacts, SameServed DEF UdpInv, PostInv
<1>6. asked' \in [Conns -> Seq(Blocks)] /\ (Unit.t = "data" => asked'[S] = Unit.file)
  <2>1. CASE Unit.t = "data"
    <3>1. Unit.file \in Seq(Blocks)
      BY <1>1, <2>1 DEF Request, Headers, Pieces
    <3> QED
      BY <1>5, <2>1, <3>1 DEF UdpRecvData
  <2> QED
    BY <1>5, <2>1 DEF UdpRecvData
<1>7. ASSUME NEW x, NEW z, Wants(x), x \notin Final, Passes(Head(inbox).unit, x, z)
      PROVE  Wants(z)' /\ (pc' = "Listen" => z = Over)
  <2>1. packet.op \in {"Echo", "Download", "Upload"} /\ x = WantData(packet.op)
    BY <1>3, <1>7, WantsAt DEF Final
  <2>2. Unit.t = "data"
    BY <1>7, <2>1, PassesKinds DEF WantData, Awaits, Unit
  <2>3. arg = Unit.arg /\ name = Unit.name /\ asked'[S'] = Unit.file
    BY <1>2, <1>5, <1>6, <2>2
  <2>4. CASE packet.op = "Echo"
    <3>1. z = Owes("answer") /\ pc' = "Reply"
      BY <1>3, <1>7, <2>1, <2>4, PassesKinds DEF Handler
    <3> QED
      BY <3>1 DEF Wants
  <2>5. CASE packet.op = "Download"
    <3>1. Unit.arg = 0 /\ z = Owes("response") /\ pc' = "Download"
      BY <1>3, <1>7, <2>1, <2>5, PassesKinds DEF Handler, Unit
    <3>2. packet' = [packet EXCEPT !.arg = arg, !.name = name] /\ packet \in Packet
      BY <1>2, <3>1 DEF RecvData, UdpInv, ServerInv, IInv, TypeOK
    <3>3. packet'.arg = 0
      BY <2>3, <3>1, <3>2 DEF Packet
    <3> QED
      BY <3>1, <3>3 DEF Wants
  <2>6. CASE packet.op = "Upload"
    <3>1. /\ Unit.arg = Len(Unit.file) /\ Unit.arg > 0
          /\ \E c \in Clients : Unit.name \in Offered[c]
          /\ z = WantBlocks(Unit.arg, Unit.file)
      BY <1>7, <2>1, <2>6, PassesKinds DEF Unit
    <3>2. pc' = "Upload"
      BY <1>3, <2>6 DEF Handler
    <3>3. packet' = [packet EXCEPT !.arg = arg, !.name = name] /\ packet \in Packet
      BY <1>2, <3>2 DEF RecvData, UdpInv, ServerInv, IInv, TypeOK
    <3>4. packet'.arg = Unit.arg /\ packet'.name = Unit.name
      BY <2>3, <3>3 DEF Packet
    <3>5. Hosts(packet.name)'
      BY <1>3, <3>1, <3>4 DEF ServerInv, Hosts
    <3> QED
      BY <2>3, <3>1, <3>2, <3>4, <3>5 DEF Wants
  <2> QED
    BY <2>1, <2>4, <2>5, <2>6
<1> QED
  BY <1>1, <1>3, <1>4, <1>6, <1>7, ReadStep

-----------------------------------------------------------------------------
(* Parts of files.                                                         *)
LEMMA SliceLemma ==
    ASSUME NEW file \in Seq(Blocks), NEW m \in Nat, NEW n \in Nat, m <= n, n <= Len(file)
    PROVE  /\ SubSeq(file, m + 1, n) \in Seq(Blocks)
           /\ Len(SubSeq(file, m + 1, n)) = n - m
           /\ SubSeq(file, 1, m) \o SubSeq(file, m + 1, n) = SubSeq(file, 1, n)
           /\ SubSeq(file, 1, 0) = <<>>
           /\ SubSeq(file, 1, Len(file)) = file
<1>1. Len(file) \in Nat /\ \A i \in 1..Len(file) : file[i] \in Blocks
  BY LenProperties, ElementOfSeq
<1>2. /\ m + 1 \in 1..(Len(file) + 1) /\ m \in ((m + 1) - 1)..Len(file) /\ n \in m..Len(file)
      /\ m + 1 \in Int /\ n \in Int /\ 1 \in 1..(Len(file) + 1) /\ m \in (1 - 1)..Len(file)
  BY <1>1
<1>3. /\ SubSeq(file, m + 1, n) \in Seq(Blocks)
      /\ Len(SubSeq(file, m + 1, n)) = IF m + 1 <= n THEN n - (m + 1) + 1 ELSE 0
  <2>1. \A i \in (m + 1)..n : file[i] \in Blocks
    BY <1>1
  <2> QED
    BY <1>2, <2>1, SubSeqProperties
<1>4. Len(SubSeq(file, m + 1, n)) = n - m
  BY <1>2, <1>3
<1>5. SubSeq(file, 1, m) \o SubSeq(file, m + 1, n) = SubSeq(file, 1, n)
  BY <1>2, ConcatAdjacentSubSeq
<1>6. SubSeq(file, 1, 0) = <<>>
  BY SubSeqEmpty
<1>7. SubSeq(file, 1, Len(file)) = file
  BY SubSeqFull
<1> QED
  BY <1>3, <1>4, <1>5, <1>6, <1>7

(* The next chunk fits the buffer, and goes on where the file stood.       *)
LEMMA NextChunkLemma ==
    ASSUME NEW file \in Seq(Blocks), NEW n \in 1..Len(file)
    PROVE  /\ ChunkSize(n) \in 1..n /\ ChunkSize(n) \in 1..BufferSize
           /\ NextChunk(n, file) \in Seq(Blocks)
           /\ Len(NextChunk(n, file)) = ChunkSize(n)
           /\ NextChunk(n, file) = SubSeq(file, Len(file) - n + 1, Len(file) - (n - ChunkSize(n)))
           /\ SubSeq(file, 1, Len(file) - n) \o NextChunk(n, file)
                 = SubSeq(file, 1, Len(file) - (n - ChunkSize(n)))
<1> DEFINE cs == ChunkSize(n)
           l == Len(file)
<1>1. l \in Nat /\ n \in Nat /\ n > 0 /\ n <= l /\ BufferSize \in Nat /\ BufferSize > 0
  BY LenProperties, ServerAssumption, ProtocolAssumption
<1>2. cs \in 1..n /\ cs \in 1..BufferSize
  BY <1>1 DEF ChunkSize
<1> HIDE DEF cs, l
<1>3. l - n \in Nat /\ l - (n - cs) \in Nat /\ l - n <= l - (n - cs) /\ l - (n - cs) <= l
      /\ l - n + cs = l - (n - cs) /\ (l - (n - cs)) - (l - n) = cs
  BY <1>1, <1>2
<1>4. NextChunk(n, file) = SubSeq(file, l - n + 1, l - (n - cs))
  BY <1>3 DEF NextChunk, cs, l
<1>5. /\ SubSeq(file, (l - n) + 1, l - (n - cs)) \in Seq(Blocks)
      /\ Len(SubSeq(file, (l - n) + 1, l - (n - cs))) = (l - (n - cs)) - (l - n)
      /\ SubSeq(file, 1, l - n) \o SubSeq(file, (l - n) + 1, l - (n - cs))
            = SubSeq(file, 1, l - (n - cs))
  BY <1>3, SliceLemma DEF l
<1> QED
  BY <1>2, <1>3, <1>4, <1>5 DEF cs, l

(* Receive cuts off nothing of a datagram that fits.                       *)
LEMMA CutLemma ==
    ASSUME NEW s \in Seq(Blocks), NEW n \in Nat
    PROVE  Cut(s, n) \in Seq(Blocks) /\ (Len(s) <= n => Cut(s, n) = s)
<1>1. Len(s) \in Nat /\ \A i \in 1..Len(s) : s[i] \in Blocks
  BY LenProperties, ElementOfSeq
<1>2. CASE Len(s) <= n
  <2>1. (IF Len(s) < n THEN Len(s) ELSE n) = Len(s)
    BY <1>1, <1>2
  <2> QED
    BY <2>1, SubSeqFull DEF Cut
<1>3. CASE n < Len(s)
  <2>1. (IF Len(s) < n THEN Len(s) ELSE n) = n
    BY <1>1, <1>3
  <2>2. \A i \in 1..n : s[i] \in Blocks
    BY <1>1, <1>3
  <2>3. SubSeq(s, 1, n) \in Seq(Blocks)
    BY <2>2, SubSeqProperties
  <2> QED
    BY <1>1, <1>3, <2>1, <2>3 DEF Cut
<1> QED
  BY <1>1, <1>2, <1>3

(* What is read of any datagram as a chunk is one.                         *)
LEMMA ContentLemma ==
    ASSUME NEW u, NEW n \in Nat, u.t = "block" => u.blocks \in Seq(Blocks)
    PROVE  Content(u, n) \in Seq(Blocks)
<1>1. <<Foreign>> \in Seq(Blocks)
  BY UdpAssumption
<1> QED
  BY <1>1, CutLemma DEF Content

(* The next chunk of an upload goes where it belongs.                      *)
LEMMA ChunkHosted ==
    ASSUME UdpInv, UdpRecvChunk, NEW n, NEW file, n \in 1..Len(file), file \in Seq(Blocks),
           n = ul.left, Unit.t = "block", Unit.blocks = NextChunk(n, file),
           disk[ul.name].data = SubSeq(file, 1, Len(file) - n)
    PROVE  /\ disk'[ul.name] = File(SubSeq(file, 1, Len(file) - (n - ChunkSize(n))))
           /\ n > ChunkSize(n) => pc' = "RecvChunk" /\ ul'.left = n - ChunkSize(n)
                                  /\ ul'.name = ul.name
           /\ ~(n > ChunkSize(n)) => pc' = "RecvHeader" /\ n = ChunkSize(n)
<1> DEFINE d == NextChunk(n, file)
<1>1. /\ ChunkSize(n) \in 1..n /\ d \in Seq(Blocks) /\ Len(d) = ChunkSize(n)
      /\ SubSeq(file, 1, Len(file) - n) \o d = SubSeq(file, 1, Len(file) - (n - ChunkSize(n)))
  BY NextChunkLemma
<1> HIDE DEF d
<1>2. Content(Unit, ChunkSize(ul.left)) = d
  BY <1>1, CutLemma DEF d, Content
<1>3. RecvChunk("ok", d)
  BY <1>2 DEF UdpRecvChunk
<1>4. "ok" \notin Errors
  BY ServerAssumption, ProtocolAssumption
<1>5. /\ disk' = [disk EXCEPT ![ul.name] = File(@.data \o d)]
      /\ pc' = IF ul.left > Len(d) THEN "RecvChunk" ELSE UploadDone
      /\ ul' = IF ul.left > Len(d) THEN [ul EXCEPT !.left = @ - Len(d)] ELSE NoUpload
  BY <1>3, <1>4 DEF RecvChunk
<1>6. ul \in [name : Names, size : Nat, left : Nat] /\ disk \in [Names -> Entry]
  BY DEF UdpInv, ServerInv, IInv, TypeOK
<1>7. disk'[ul.name] = File(SubSeq(file, 1, Len(file) - (n - ChunkSize(n))))
  BY <1>1, <1>5, <1>6
<1>8. ASSUME n > ChunkSize(n)
      PROVE  pc' = "RecvChunk" /\ ul'.left = n - ChunkSize(n) /\ ul'.name = ul.name
  BY <1>1, <1>5, <1>6, <1>8
<1>9. ASSUME ~(n > ChunkSize(n)) PROVE pc' = "RecvHeader" /\ n = ChunkSize(n)
  BY <1>1, <1>5, <1>9 DEF UploadDone
<1> QED
  BY <1>7, <1>8, <1>9

(* UdpRecvChunk preserves the invariant.                                   *)
LEMMA UdpRecvChunkInv ==
    ASSUME UdpInv, UdpRecvChunk, UNCHANGED clientVars
    PROVE  UdpInv'
<1>1. Unit \in Request /\ inbox # <<>>
  BY LetterFacts DEF UdpRecvChunk, Got
<1>2. PICK d \in Seq(Blocks) : RecvChunk("ok", d)
  <2>1. ul.left \in Nat /\ ChunkSize(ul.left) \in Nat
    BY ServerAssumption, ProtocolAssumption DEF UdpInv, ServerInv, IInv, TypeOK, ChunkSize
  <2>2. Unit.t = "block" => Unit.blocks \in Seq(Blocks)
    BY <1>1 DEF Request, Headers, Pieces
  <2>3. Content(Unit, ChunkSize(ul.left)) \in Seq(Blocks)
    BY <2>1, <2>2, ContentLemma
  <2> QED
    BY <2>3 DEF UdpRecvChunk
<1>3. ServerInv' /\ SameHandles /\ pc = "RecvChunk"
  BY <1>2, RecvChunkServer
<1>4. /\ SrvReads /\ UNCHANGED <<clientVars, made, mail, lost, asked>> /\ S' = S
      /\ asked' \in [Conns -> Seq(Blocks)] /\ asked[S] \in Seq(Blocks)
  BY <1>3, ServedFacts, SameServed DEF UdpRecvChunk, UdpInv, PostInv
<1>5. ASSUME NEW x, NEW z, Wants(x), x \notin Final, Passes(Head(inbox).unit, x, z)
      PROVE  Wants(z)' /\ pc' # "Listen"
  <2>1. PICK file, n : file = asked[S] /\ n = ul.left
    OBVIOUS
  <2>2. /\ n \in 1..Len(file) /\ disk[ul.name].data = SubSeq(file, 1, Len(file) - n)
        /\ x = WantBlocks(n, file)
    BY <1>3, <1>5, <2>1, WantsAt DEF Final
  <2>3. /\ Unit.t = "block" /\ Unit.blocks = NextChunk(n, file)
        /\ z = IF n > ChunkSize(n) THEN WantBlocks(n - ChunkSize(n), file) ELSE WantHeader
    BY <1>5, <2>2, PassesKinds DEF WantBlocks, Awaits, Unit
  <2>4. /\ disk'[ul.name] = File(SubSeq(file, 1, Len(file) - (n - ChunkSize(n))))
        /\ n > ChunkSize(n) => pc' = "RecvChunk" /\ ul'.left = n - ChunkSize(n)
                               /\ ul'.name = ul.name
        /\ ~(n > ChunkSize(n)) => pc' = "RecvHeader"
    BY <1>4, <2>1, <2>2, <2>3, ChunkHosted
  <2>5. file \in Seq(Blocks) /\ Len(file) \in Nat /\ ChunkSize(n) \in 1..n /\ asked'[S'] = file
    BY <1>4, <2>1, <2>2, NextChunkLemma, LenProperties
  <2>6. CASE n > ChunkSize(n)
    <3>1. n - ChunkSize(n) \in 1..Len(file)
      BY <2>2, <2>5, <2>6
    <3>2. disk'[ul'.name].data = SubSeq(file, 1, Len(file) - ul'.left)
      BY <2>4, <2>6 DEF File
    <3>3. /\ pc' = "RecvChunk" /\ ul'.left \in 1..Len(asked'[S'])
          /\ disk'[ul'.name].data = SubSeq(asked'[S'], 1, Len(asked'[S']) - ul'.left)
          /\ z = WantBlocks(ul'.left, asked'[S'])
      BY <2>3, <2>4, <2>5, <2>6, <3>1, <3>2
    <3> QED
      BY <3>3 DEF Wants
  <2>7. CASE ~(n > ChunkSize(n))
    BY <2>3, <2>4, <2>7 DEF Wants
  <2> QED
    BY <2>6, <2>7
<1> QED
  BY <1>1, <1>3, <1>4, <1>5, ReadStep

(* The same of a chunk that is discarded.                                  *)
LEMMA DiscardServer ==
    ASSUME UdpInv, NEW n, Discard("ok", n)
    PROVE  ServerInv' /\ SameHandles /\ pc = "Discard"
<1>1. IInv /\ status = "Success" /\ stamps = {} /\ pc = "Discard"
  BY DEF UdpInv, ServerInv, Discard, Serving
<1>2. cur \in 1..Len(clients) /\ cur = Len(clients)
  BY <1>1, ServedFacts
<1>3. "ok" \notin Errors /\ BufferSize \in Nat
  BY ServerAssumption, ProtocolAssumption
<1>4. /\ UNCHANGED <<clients, cur, stamps, status, disk>> /\ pc' \in {"Discard", "Listen"}
      /\ n \in 1..ChunkSize(ul.left)
  BY <1>3 DEF Discard
<1>5. n \in 1..BufferSize
  <2>1. ul.left \in Nat
    BY <1>1 DEF IInv, TypeOK
  <2> QED
    BY <1>3, <1>4, <2>1 DEF ChunkSize
<1>6. IInv'
  BY <1>1, <1>5, DiscardStep DEF Received
<1>7. \A c \in Clients : \A m \in Offered[c] : Hosts(m)'
  BY <1>4 DEF UdpInv, ServerInv, Hosts
<1> QED
  BY <1>1, <1>2, <1>4, <1>6, <1>7 DEF ServerInv, SameHandles

(* UdpDiscard preserves the invariant: only after a connect was taken for  *)
(* something else does the server get there.                               *)
LEMMA UdpDiscardInv ==
    ASSUME UdpInv, UdpDiscard, UNCHANGED clientVars
    PROVE  UdpInv'
<1>1. inbox # <<>>
  BY DEF UdpDiscard, Got
<1>2. ServerInv' /\ SameHandles /\ pc = "Discard"
  BY DiscardServer DEF UdpDiscard
<1>3. /\ SrvReads /\ UNCHANGED <<clientVars, made, mail, lost, asked>>
      /\ asked' \in [Conns -> Seq(Blocks)]
  BY DEF UdpDiscard, UdpInv, PostInv
<1>4. ~ \E x : Wants(x) /\ x \notin Final
  BY <1>2, WantsAt DEF Final
<1> QED
  BY <1>1, <1>2, <1>3, <1>4, ReadStep

-----------------------------------------------------------------------------
(* The server begins, and what no client is there for.                     *)

(* Nothing waits for a client that is not here.                            *)
LEMMA NotHere ==
    ASSUME UdpInv, NEW c \in Clients, ~Here(c), conn[c] \in Conns
    PROVE  mail[conn[c]] = <<>> /\ at[c] # "recvFile"
<1>1. at[c] \notin {"recvGreeting", "recvAnswer", "recvResponse", "recvFile"}
  BY DEF UdpInv, PlaceInv
<1> QED
  BY <1>1 DEF UdpInv, MailInv

(* What a server that has gone astray does harms nobody.                   *)
LEMMA AstrayStep ==
    ASSUME UdpInv, pc # "Listen", ~Bound(S), AllConnects(inbox), \A c \in Clients : ~Here(c),
           SameHandles, UNCHANGED <<clientVars, made, inbox, mail, lost>>,
           ServerInv', asked' \in [Conns -> Seq(Blocks)]
    PROVE  UdpInv'
<1>1. UNCHANGED <<at, conn, job, local, said, made, mail, inbox>> /\ S' = S
  BY SameServed DEF clientVars
<1>2. PostInv'
  BY <1>1 DEF UdpInv, PostInv
<1>3. ClientInv' /\ TurnInv' /\ \A c \in Clients : PlaceInv(c)'
  BY SameClients
<1>4. ASSUME NEW c \in Clients PROVE MailInv(c)'
  <2>1. conn[c] \in Conns => mail[conn[c]] = <<>> /\ at[c] # "recvFile"
    BY NotHere
  <2>2. made[c] \in Conns => mail[made[c]] = <<>> /\ ~Serves(made[c])
    BY DEF UdpInv, MailInv, Serves, Bound
  <2>3. Serves(made[c])' => Serves(made[c])
    BY <1>1 DEF Serves
  <2> QED
    BY <1>1, <2>1, <2>2, <2>3 DEF MailInv
<1>5. AddressInv'
  <2>1. \A k \in Conns : ~Bound(k)' => mail[k]' = <<>>
    BY <1>1 DEF UdpInv, AddressInv, Bound
  <2> QED
    BY <1>1, <2>1 DEF UdpInv, AddressInv, SameHandles
<1>6. ChainInv'
  <2>1. inbox' \in Seq(Letter) /\ AllConnects(inbox')
    BY <1>1, ServedFacts
  <2> QED
    BY <1>1, <2>1, AstrayChain
<1> QED
  BY <1>2, <1>3, <1>4, <1>5, <1>6 DEF UdpInv

-----------------------------------------------------------------------------
(* An upload that is not refused and is not empty is received next.        *)
LEMMA UploadServer ==
    ASSUME UdpInv, UdpUpload
    PROVE  ServerInv' /\ SameHandles /\ pc = "Upload"
<1>1. IInv /\ status = "Success" /\ stamps = {} /\ pc = "Upload" /\ Upload(TRUE)
  BY DEF UdpInv, ServerInv, UdpUpload, Upload, Serving
<1>2. cur \in 1..Len(clients) /\ cur = Len(clients)
  BY <1>1, ServedFacts
<1>3. IInv'
  BY <1>1, UploadStep
<1>4. /\ UNCHANGED <<clients, cur, stamps, status>> /\ pc' \in {"RecvChunk", "Discard", "Listen"}
      /\ disk' = disk \/ disk' = [disk EXCEPT ![packet.name] = File(<<>>)]
  BY <1>1 DEF Upload, OpenOfstream
<1>5. \A c \in Clients : \A n \in Offered[c] : Hosts(n)'
  <2> SUFFICES ASSUME NEW c \in Clients, NEW n \in Offered[c] PROVE Hosts(n)'
    OBVIOUS
  <2>1. Hosts(n) /\ disk \in [Names -> Entry] /\ n \in Names
    BY <1>1, UdpAssumption DEF UdpInv, ServerInv, IInv, TypeOK
  <2>2. disk'[n] = disk[n] \/ disk'[n].kind = "file"
    BY <1>4, <2>1 DEF File
  <2> QED
    BY <2>1, <2>2 DEF Hosts
<1> QED
  BY <1>1, <1>2, <1>3, <1>4, <1>5 DEF ServerInv, SameHandles

(* UdpUpload preserves the invariant.                                      *)
LEMMA UdpUploadInv ==
    ASSUME UdpInv, UdpUpload, UNCHANGED clientVars
    PROVE  UdpInv'
<1>1. ServerInv' /\ SameHandles /\ pc = "Upload"
  BY UploadServer
<1>2. UNCHANGED <<inbox, mail, made, lost, asked>> /\ asked' \in [Conns -> Seq(Blocks)]
      /\ UNCHANGED <<at, conn, job, local, said>> /\ Busy /\ S' = S
  BY <1>1, SameServed DEF UdpUpload, udpVars, UdpInv, PostInv, clientVars, Busy
<1>3. PICK x, y : Wants(x) /\ Leads(S, inbox, x, y) /\ Ends(y)
  BY DEF UdpInv, ChainInv
<1>4. inbox \in Seq(Letter) /\ asked[S] \in Seq(Blocks) /\ S \in Conns
  BY <1>1, ServedFacts
<1>5. CASE x = Lost
  <2>1. y = Lost /\ AllConnects(inbox)
    BY <1>3, <1>4, <1>5, LeadsFinal DEF Final
  <2>2. ~Bound(S) /\ \A c \in Clients : ~Here(c)
    BY <1>1, <1>3, <2>1, FinalEnds DEF Final
  <2> QED
    BY <1>1, <1>2, <2>1, <2>2, AstrayStep
<1>6. CASE x # Lost
  <2>1. /\ Hosts(packet.name) /\ packet.arg = Len(asked[S]) /\ packet.arg > 0
        /\ x = WantBlocks(packet.arg, asked[S])
    BY <1>1, <1>3, <1>6, WantsAt
  <2>2. Upload(TRUE) /\ packet.name \in Names /\ packet.arg \in Nat /\ disk \in [Names -> Entry]
    BY DEF UdpUpload, UdpInv, ServerInv, IInv, TypeOK, Packet
  <2>3. /\ pc' = "RecvChunk" /\ disk' = [disk EXCEPT ![packet.name] = File(<<>>)]
        /\ ul' = [name |-> packet.name, size |-> packet.arg, left |-> packet.arg]
    BY <2>1, <2>2 DEF Upload, OpenOfstream, Hosts
  <2>4. /\ ul'.left = Len(asked'[S']) /\ ul'.left \in 1..Len(asked'[S'])
        /\ Len(asked'[S']) - ul'.left = 0 /\ asked'[S'] = asked[S]
    BY <1>2, <1>4, <2>1, <2>2, <2>3
  <2>5. disk'[ul'.name].data = <<>>
    BY <2>2, <2>3 DEF File
  <2>6. SubSeq(asked'[S'], 1, Len(asked'[S']) - ul'.left) = <<>>
    BY <1>4, <2>4, SubSeqEmpty
  <2>7. Wants(x)'
    BY <2>1, <2>3, <2>4, <2>5, <2>6 DEF Wants
  <2>8. Ends(y)'
    BY <1>1, <1>2, <1>3, <2>3, EndsKept
  <2>9. ChainInv'
    BY <1>2, <1>3, <2>7, <2>8 DEF ChainInv
  <2>10. ClientInv' /\ TurnInv' /\ \A c \in Clients : PlaceInv(c)'
    BY <1>2, SameClients
  <2>11. PostInv'
    BY <1>2 DEF UdpInv, PostInv
  <2>12. ASSUME NEW c \in Clients PROVE MailInv(c)'
    <3>1. /\ conn[c] \in Conns => mail[conn[c]] = <<>> /\ at[c] # "recvFile"
          /\ made[c] \in Conns => mail[made[c]] = <<>> /\ ~Serves(made[c])
      BY <1>2, NobodyReads
    <3>2. Serves(made[c])' => Serves(made[c])
      BY <1>1, <1>2 DEF Serves
    <3> QED
      BY <1>2, <3>1, <3>2 DEF MailInv
  <2>13. AddressInv'
    <3>1. \A k \in Conns : ~Bound(k)' => mail[k]' = <<>>
      BY <1>2 DEF UdpInv, AddressInv, Bound
    <3> QED
      BY <1>1, <1>2, <3>1 DEF UdpInv, AddressInv, SameHandles
  <2> QED
    BY <1>1, <2>9, <2>10, <2>11, <2>12, <2>13 DEF UdpInv
<1> QED
  BY <1>5, <1>6

-----------------------------------------------------------------------------
(* The server listens: only connects are left, and it takes the first.     *)
LEMMA ListenFacts ==
    ASSUME UdpInv, pc = "Listen"
    PROVE  AllConnects(inbox) /\ \A c \in Clients : ~Here(c)
<1>1. PICK x, y : Wants(x) /\ Leads(S, inbox, x, y) /\ Ends(y)
  BY DEF UdpInv, ChainInv
<1>2. x = Over
  BY <1>1 DEF Wants
<1>3. y = Over /\ AllConnects(inbox)
  BY <1>1, <1>2, ServedFacts, LeadsFinal DEF Final
<1> QED
  BY <1>1, <1>3, FinalEnds DEF Final

(* UdpListen preserves the invariant.                                      *)
LEMMA UdpListenInv ==
    ASSUME UdpInv, UdpListen, UNCHANGED clientVars
    PROVE  UdpInv'
<1>1. pc = "Listen" /\ inbox # <<>> /\ AllConnects(inbox) /\ \A c \in Clients : ~Here(c)
  BY ListenFacts DEF UdpListen, Got
<1>2. /\ inbox \in Seq(Letter) /\ Len(inbox) \in Nat /\ Len(inbox) > 0 /\ inbox' = Tail(inbox)
      /\ Head(inbox) = inbox[1] /\ Head(inbox) \in Letter
      /\ inbox' \in Seq(Letter) /\ Len(inbox') = Len(inbox) - 1
      /\ \A i \in 1..(Len(inbox) - 1) : inbox'[i] = inbox[i + 1]
  BY <1>1, ServedFacts, HeadTailProperties, EmptySeq DEF UdpListen, SrvReads
<1>3. PICK k \in Conns : k = Head(inbox).from
  BY <1>2 DEF Letter
<1>4. /\ Accept(k) /\ SendTo(k, AcceptMagic)
      /\ UNCHANGED <<made, asked, at, conn, job, local, said>>
  <2>1. Unit = ConnectMagic
    BY <1>1, <1>2 DEF AllConnects, Unit
  <2> QED
    BY <1>3, <2>1 DEF UdpListen, clientVars
<1>5. /\ \A j \in 1..Len(clients) : clients[j].conn # k
      /\ \A j \in 1..Len(inbox) : inbox[j].from = k => j = 1
      /\ \A c \in Clients : conn[c] # k /\ (made[c] = k => 1 = Len(inbox))
  <2>1. 1 \in 1..Len(inbox) /\ inbox[1].unit = ConnectMagic /\ inbox[1].from = k
    BY <1>1, <1>2, <1>3 DEF AllConnects
  <2> QED
    BY <2>1 DEF UdpInv, AddressInv
<1>6. ServerInv' /\ pc' = "RecvMac" /\ S' = k
      /\ clients' = Append(clients, [conn |-> k, mac |-> ZeroMac]) /\ Len(clients') = Len(clients) + 1
      /\ clients'[Len(clients) + 1].conn = k /\ Len(clients) \in Nat
      /\ \A j \in 1..Len(clients) : clients'[j] = clients[j]
  <2>1. IInv' /\ stamps = {}
    BY <1>4, AcceptStep DEF UdpInv, ServerInv
  <2>2. /\ pc' = "RecvMac" /\ cur' = Len(clients) + 1 /\ status' = "Success"
        /\ clients' = Append(clients, [conn |-> k, mac |-> ZeroMac])
        /\ UNCHANGED <<stamps, disk>>
    BY <1>4 DEF Accept, NewIndex
  <2>3. /\ Len(clients') = Len(clients) + 1 /\ Len(clients) \in Nat
        /\ clients'[Len(clients) + 1] = [conn |-> k, mac |-> ZeroMac]
        /\ \A j \in 1..Len(clients) : clients'[j] = clients[j]
    <3>1. clients \in Seq(Handle) /\ [conn |-> k, mac |-> ZeroMac] \in Handle
      BY ServedFacts, ServerAssumption DEF Handle
    <3> QED
      BY <2>2, <3>1, AppendProperties, LenProperties
  <2>4. \A c \in Clients : \A n \in Offered[c] : Hosts(n)'
    BY <2>2 DEF UdpInv, ServerInv, Hosts
  <2>5. S' = k
    BY <2>2, <2>3 DEF S, Me
  <2> QED
    BY <2>1, <2>2, <2>3, <2>4, <2>5 DEF ServerInv
<1>7. mail \in [Conns -> Seq(Answers)] /\ lost \subseteq Conns
  BY DEF UdpInv, PostInv
<1>8. \A c \in Clients : made[c] \in Conns => mail[made[c]] = <<>> /\ ~Serves(made[c])
  BY <1>1 DEF UdpInv, MailInv, Serves
<1>9. mail' = IF Bound(k) THEN [mail EXCEPT ![k] = <<AcceptMagic>>] ELSE mail
  <2>1. mail[k] = <<>>
    <3>1. CASE Bound(k)
      BY <1>5, <1>8, <3>1 DEF Bound
    <3> QED
      BY <3>1 DEF UdpInv, AddressInv
  <2>2. Len(mail[k]) # ClientBuffer /\ Append(mail[k], AcceptMagic) = <<AcceptMagic>>
    BY <2>1, UdpAssumption
  <2> QED
    BY <1>4, <1>7, <2>2 DEF SendTo
<1>10. lost' \subseteq Conns
  BY <1>4, <1>7 DEF SendTo
<1>11. PostInv'
  <2>1. <<AcceptMagic>> \in Seq(Answers)
    BY DEF Answers, AcceptMagic
  <2>2. mail' \in [Conns -> Seq(Answers)]
    BY <1>7, <1>9, <2>1
  <2>3. asked' \in [Conns -> Seq(Blocks)]
    BY <1>4 DEF UdpInv, PostInv
  <2> QED
    BY <1>2, <1>10, <2>2, <2>3 DEF PostInv
<1>12. ClientInv' /\ TurnInv' /\ \A c \in Clients : PlaceInv(c)'
  BY <1>4, SameClients
<1>13. ASSUME NEW c \in Clients PROVE MailInv(c)'
  <2>1. conn[c] \in Conns => mail'[conn[c]] = <<>> /\ at[c] # "recvFile"
    <3>1. conn[c] \in Conns => mail[conn[c]] = <<>> /\ at[c] # "recvFile" /\ conn[c] # k
      BY <1>1, <1>5, NotHere
    <3> QED
      BY <1>7, <1>9, <3>1
  <2>2. made[c] \in Conns => \/ mail'[made[c]] = <<>> /\ ~Serves(made[c])'
                             \/ mail'[made[c]] = <<AcceptMagic>> /\ Serves(made[c])'
    <3>1. CASE made[c] = k
      <4>1. Bound(k) /\ Serves(made[c])'
        BY <1>4, <1>6, <3>1 DEF Bound, Serves
      <4> QED
        BY <1>7, <1>9, <3>1, <4>1
    <3>2. CASE made[c] # k
      <4>1. ~Serves(made[c])'
        BY <1>4, <1>6, <3>2 DEF Serves
      <4> QED
        BY <1>7, <1>8, <1>9, <3>2, <4>1
    <3> QED
      BY <3>1, <3>2
  <2> QED
    BY <1>4, <2>1, <2>2 DEF MailInv
<1>14. AddressInv'
  <2>1. \A l \in Conns : ~Bound(l)' => mail[l]' = <<>>
    <3>1. \A l \in Conns : ~Bound(l)' => ~Bound(l) /\ mail[l] = <<>>
      BY <1>4 DEF UdpInv, AddressInv, Bound
    <3> QED
      BY <1>7, <1>9, <3>1
  <2>2. ASSUME NEW i \in 1..Len(inbox'), inbox'[i].unit = ConnectMagic
        PROVE  /\ \A j \in 1..Len(clients') : clients'[j].conn # inbox'[i].from
               /\ \A j \in 1..Len(inbox') : inbox'[j].from = inbox'[i].from => j = i
               /\ \A c \in Clients : /\ conn'[c] # inbox'[i].from
                                     /\ made'[c] = inbox'[i].from => i = Len(inbox')
    <3>1. i + 1 \in 1..Len(inbox) /\ inbox'[i] = inbox[i + 1] /\ i + 1 # 1 /\ i \in Nat
      BY <1>2
    <3>2. /\ \A j \in 1..Len(clients) : clients[j].conn # inbox[i + 1].from
          /\ \A j \in 1..Len(inbox) : inbox[j].from = inbox[i + 1].from => j = i + 1
          /\ \A c \in Clients : /\ conn[c] # inbox[i + 1].from
                                /\ made[c] = inbox[i + 1].from => i + 1 = Len(inbox)
      BY <2>2, <3>1 DEF UdpInv, AddressInv
    <3>3. inbox'[i].from # k
      BY <1>5, <3>1
    <3>4. ASSUME NEW j \in 1..Len(clients') PROVE clients'[j].conn # inbox'[i].from
      <4>1. CASE j \in 1..Len(clients)
        BY <1>6, <3>1, <3>2, <4>1
      <4>2. CASE j = Len(clients) + 1
        BY <1>6, <3>3, <4>2
      <4> QED
        BY <1>6, <4>1, <4>2
    <3>5. ASSUME NEW j \in 1..Len(inbox'), inbox'[j].from = inbox'[i].from PROVE j = i
      <4>1. j + 1 \in 1..Len(inbox) /\ inbox'[j] = inbox[j + 1] /\ j \in Nat
        BY <1>2
      <4>2. j + 1 = i + 1
        BY <3>1, <3>2, <3>5, <4>1
      <4> QED
        BY <3>1, <4>1, <4>2
    <3>6. ASSUME NEW c \in Clients
          PROVE  conn'[c] # inbox'[i].from /\ (made'[c] = inbox'[i].from => i = Len(inbox'))
      <4>1. conn'[c] = conn[c] /\ made'[c] = made[c] /\ inbox'[i].from = inbox[i + 1].from
        BY <1>4, <3>1
      <4>2. i + 1 = Len(inbox) => i = Len(inbox')
        BY <1>2, <3>1
      <4> QED
        BY <3>2, <4>1, <4>2
    <3> QED
      BY <3>4, <3>5, <3>6
  <2> QED
    BY <2>1, <2>2 DEF AddressInv
<1>15. ChainInv'
  <2>1. CASE Bound(k)
    <3>1. PICK c \in Clients : made[c] = k
      BY <1>5, <2>1 DEF Bound
    <3>2. inbox' = <<>>
      BY <1>2, <1>5, <3>1, EmptySeq
    <3>3. Wants(WantMac)' /\ Leads(S', inbox', WantMac, WantMac)
      BY <1>6, <3>2, LeadsEmpty DEF Wants
    <3>4. Ends(WantMac)'
      <4> SUFFICES ASSUME NEW d \in Clients PROVE ~Here(d)' /\ (conn[d]' # k)
        BY <1>6 DEF Ends, Serves
      <4>1. ~Here(d)'
        BY <1>1, <1>4 DEF Here
      <4> QED
        BY <1>4, <1>5, <4>1
    <3> QED
      BY <3>3, <3>4 DEF ChainInv
  <2>2. CASE ~Bound(k)
    <3>1. AllConnects(inbox')
      <4>1. \A i \in 1..Len(inbox') : inbox'[i].unit = ConnectMagic
        BY <1>1, <1>2 DEF AllConnects
      <4> QED
        BY <4>1 DEF AllConnects
    <3>2. UNCHANGED <<clientVars, made>>
      BY <1>4 DEF clientVars
    <3> QED
      BY <1>1, <1>2, <1>6, <2>2, <3>1, <3>2, AstrayChain
  <2> QED
    BY <2>1, <2>2
<1> QED
  BY <1>6, <1>11, <1>12, <1>13, <1>14, <1>15 DEF UdpInv

-----------------------------------------------------------------------------
(* The server sends.                                                       *)
Debts == {"greeting", "answer", "response", "stream"}

(* Client c is the one who waits for what the server owes, and is alone.   *)
Awaited(c, w) ==
    /\ inbox = <<>> /\ Wants(Owes(w)) /\ Here(c) /\ conn[c] = S
    /\ IF Replied(c) THEN Attended(Owes(w)) ELSE Gives(c, Owes(w))
    /\ \A d \in Clients : made[d] \notin Conns /\ (d # c => ~Here(d) /\ conn[d] # S)

(* When the server owes something: its client is gone, or waits for just   *)
(* that.                                                                   *)
LEMMA OwingFacts ==
    ASSUME UdpInv, NEW w \in Debts, pc # "Listen",
           \A x : Wants(x) => x \in {Lost, Owes(w)}
    PROVE  \/ ~Bound(S) /\ AllConnects(inbox) /\ \A c \in Clients : ~Here(c)
           \/ \E c \in Clients : Awaited(c, w)
<1>1. PICK x, y : Wants(x) /\ Leads(S, inbox, x, y) /\ Ends(y)
  BY DEF UdpInv, ChainInv
<1>2. inbox \in Seq(Letter) /\ S \in Conns
  BY ServedFacts
<1>3. x \in {Lost, Owes(w)}
  BY <1>1
<1>4. ASSUME y = Lost, AllConnects(inbox)
      PROVE  ~Bound(S) /\ AllConnects(inbox) /\ \A c \in Clients : ~Here(c)
  BY <1>1, <1>4, FinalEnds DEF Final
<1>5. CASE x = Lost
  <2>1. y = Lost /\ AllConnects(inbox)
    BY <1>1, <1>2, <1>5, LeadsFinal DEF Final
  <2> QED
    BY <1>4, <2>1
<1>6. CASE x = Owes(w)
  <2>1. \/ inbox = <<>> /\ y = Owes(w)
        \/ AllConnects(inbox) /\ y = Lost
    BY <1>1, <1>2, <1>6, OwesLeads DEF Debts
  <2>2. CASE AllConnects(inbox) /\ y = Lost
    BY <1>4, <2>2
  <2>3. CASE inbox = <<>> /\ y = Owes(w)
    <3>1. y # Over /\ y # WantMac
      BY <2>3 DEF Owes, Over, WantMac, Awaits, Debts
    <3>2. \A c \in Clients : /\ conn[c] = S => Here(c)
                             /\ made[c] # S
                             /\ Here(c) => conn[c] = S
      BY <1>1, <1>2, <3>1 DEF Ends, Serves
    <3>3. CASE ~Bound(S)
      <4>1. \A c \in Clients : ~Here(c)
        BY <1>2, <3>2, <3>3 DEF Bound, Here
      <4> QED
        BY <2>3, <3>3, <4>1 DEF AllConnects
    <3>4. CASE Bound(S)
      <4>1. PICK c \in Clients : Here(c) /\ conn[c] = S
        BY <3>2, <3>4 DEF Bound
      <4>2. IF Replied(c) THEN Attended(Owes(w)) ELSE Gives(c, Owes(w))
        BY <1>1, <2>3, <4>1 DEF Ends
      <4>3. \A d \in Clients : Here(d) => d = c
        BY <4>1 DEF UdpInv, TurnInv, AtIt, K, Here
      <4>4. ASSUME NEW d \in Clients PROVE made[d] \notin Conns
        <5>1. ASSUME made[d] \in Conns PROVE FALSE
          <6>1. at[d] = "recvAccept"
            BY <5>1 DEF UdpInv, PlaceInv
          <6>2. d = c
            BY <4>1, <6>1 DEF UdpInv, TurnInv, AtIt, K, Here
          <6> QED
            BY <4>1, <6>1, <6>2 DEF Here
        <5> QED
          BY <5>1
      <4>5. Awaited(c, w)
        BY <1>1, <1>6, <2>3, <3>2, <4>1, <4>2, <4>3, <4>4 DEF Awaited
      <4> QED
        BY <4>5
    <3> QED
      BY <3>3, <3>4
  <2> QED
    BY <2>1, <2>2, <2>3
<1> QED
  BY <1>3, <1>5, <1>6

(* The server pays, and turns to what comes next.                          *)
LEMMA SendStep ==
    ASSUME UdpInv, NEW w \in Debts, NEW c \in Clients, Awaited(c, w), pc # "Listen", pc' # "Listen",
           SameHandles, UNCHANGED <<clientVars, made, inbox>>,
           NEW u \in Answers, SendTo(S, u), ServerInv', asked' \in [Conns -> Seq(Blocks)],
           MailInv(c)', Replied(c)', NEW y, Wants(y)', Attended(y)'
    PROVE  UdpInv'
<1>1. UNCHANGED <<at, conn, job, local, said, made, inbox>> /\ S' = S /\ S \in Conns
  BY SameServed, ServedFacts DEF clientVars
<1>2. /\ inbox' = <<>> /\ Here(c) /\ conn[c] = S
      /\ \A d \in Clients : made[d] \notin Conns /\ (d # c => ~Here(d) /\ conn[d] # S)
  BY <1>1 DEF Awaited
<1>3. mail \in [Conns -> Seq(Answers)] /\ lost \subseteq Conns
  BY DEF UdpInv, PostInv
<1>4. /\ mail' \in [Conns -> Seq(Answers)] /\ lost' \subseteq Conns
      /\ \A k \in Conns \ {S} : mail'[k] = mail[k]
  <2>1. mail' = mail \/ mail' = [mail EXCEPT ![S] = Append(mail[S], u)]
    BY <1>3 DEF SendTo
  <2>2. lost' \in {lost, lost \cup {S}}
    BY DEF SendTo
  <2>3. mail[S] \in Seq(Answers)
    BY <1>1, <1>3
  <2>4. Append(mail[S], u) \in Seq(Answers)
    BY <2>3, AppendProperties
  <2> QED
    BY <1>1, <1>3, <2>1, <2>2, <2>4
<1>5. PostInv'
  BY <1>1, <1>4 DEF UdpInv, PostInv
<1>6. ClientInv' /\ TurnInv' /\ \A d \in Clients : PlaceInv(d)'
  BY SameClients
<1>7. ASSUME NEW d \in Clients PROVE MailInv(d)'
  <2>1. CASE d = c
    BY <2>1
  <2>2. CASE d # c
    <3>1. made[d] \notin Conns /\ ~Here(d) /\ conn[d] # S
      BY <1>2, <2>2
    <3>2. conn[d] \in Conns => mail[conn[d]] = <<>> /\ at[d] # "recvFile"
      BY <3>1, NotHere
    <3> QED
      BY <1>1, <1>4, <3>1, <3>2 DEF MailInv
  <2> QED
    BY <2>1, <2>2
<1>8. AddressInv'
  <2>1. \A k \in Conns : ~Bound(k)' => k # S /\ ~Bound(k)
    BY <1>1, <1>2 DEF Bound
  <2>2. \A k \in Conns : ~Bound(k)' => mail[k]' = <<>>
    BY <1>4, <2>1 DEF UdpInv, AddressInv
  <2> QED
    BY <1>2, <2>2 DEF AddressInv
<1>9. Leads(S', inbox', y, y)
  BY <1>2, LeadsEmpty
<1>10. Ends(y)'
  <2>1. Here(c)' /\ Serves(conn[c])'
    BY <1>1, <1>2 DEF Here, Serves
  <2>2. \A d \in Clients : made[d]' \notin Conns /\ (d # c => ~Here(d)' /\ ~Serves(conn[d])')
    BY <1>1, <1>2 DEF Here, Serves
  <2> QED
    BY <2>1, <2>2 DEF Ends
<1> QED
  BY <1>5, <1>6, <1>7, <1>8, <1>9, <1>10 DEF UdpInv, ChainInv

(* An answer to a client whose socket is empty is delivered.               *)
LEMMA Delivered ==
    ASSUME UdpInv, NEW w \in Debts, NEW c \in Clients, Awaited(c, w), NEW u \in Answers,
           mail[S] = <<>>, SendTo(S, u), pc # "Listen"
    PROVE  mail'[S] = <<u>> /\ lost' = lost
<1>1. Bound(S) /\ S \in Conns /\ mail \in [Conns -> Seq(Answers)]
  BY ServedFacts DEF Awaited, Bound, UdpInv, PostInv
<1>2. Len(mail[S]) # ClientBuffer /\ Append(mail[S], u) = <<u>>
  BY UdpAssumption
<1> QED
  BY <1>1, <1>2 DEF SendTo

(* The server's part of Greet.                                             *)
LEMMA GreetServer ==
    ASSUME UdpInv, GreetNone("ok")
    PROVE  ServerInv' /\ SameHandles /\ pc = "Greet" /\ pc' = "RecvHeader"
<1>1. IInv /\ status = "Success" /\ stamps = {} /\ pc = "Greet"
  BY DEF UdpInv, ServerInv, GreetNone, Serving
<1>2. cur \in 1..Len(clients) /\ cur = Len(clients)
  BY <1>1, ServedFacts
<1>3. IInv'
  BY <1>1, GreetNoneStep DEF Sent
<1>4. Latch("ok") = "Success" /\ "Success" \notin Removable
  BY <1>1, ProtocolAssumption DEF Latch, Removable
<1>5. /\ UNCHANGED <<clients, cur, disk>> /\ stamps' = {} /\ status' = "Success"
      /\ pc' = "RecvHeader"
  BY <1>4 DEF GreetNone, AfterCheckFail, CheckFail, ClearStamps
<1>6. \A c \in Clients : \A n \in Offered[c] : Hosts(n)'
  BY <1>5 DEF UdpInv, ServerInv, Hosts
<1> QED
  BY <1>1, <1>2, <1>3, <1>5, <1>6 DEF ServerInv, SameHandles

(* The server's part of Reply.                                             *)
LEMMA ReplyServer ==
    ASSUME UdpInv, Reply("ok")
    PROVE  ServerInv' /\ SameHandles /\ pc = "Reply" /\ pc' = "RecvHeader"
<1>1. IInv /\ status = "Success" /\ stamps = {} /\ pc = "Reply"
  BY DEF UdpInv, ServerInv, Reply, Serving
<1>2. cur \in 1..Len(clients) /\ cur = Len(clients)
  BY <1>1, ServedFacts
<1>3. IInv'
  BY <1>1, ReplyStep DEF Sent
<1>4. Latch("ok") = "Success" /\ "Success" \notin Removable
  BY <1>1, ProtocolAssumption DEF Latch, Removable
<1>5. /\ UNCHANGED <<clients, cur, disk, stamps>> /\ status' = "Success"
      /\ pc' = "RecvHeader"
  BY <1>4 DEF Reply, AfterCheckFail, CheckFail
<1>6. \A c \in Clients : \A n \in Offered[c] : Hosts(n)'
  BY <1>5 DEF UdpInv, ServerInv, Hosts
<1> QED
  BY <1>1, <1>2, <1>3, <1>5, <1>6 DEF ServerInv, SameHandles

(* Greet and Reply: one unit, and then the next header.                    *)
LEMMA AnswerStep ==
    ASSUME UdpInv, NEW w \in {"greeting", "answer"}, pc # "Listen", pc # "RecvHeader",
           pc # "SendChunk", pc' = "RecvHeader", \A x : Wants(x) => x \in {Lost, Owes(w)},
           ServerInv', SameHandles, UNCHANGED <<clientVars, inbox, made, asked>>,
           NEW u, u = (IF w = "greeting" THEN Header("None") ELSE Answered), SendTo(S, u)
    PROVE  UdpInv'
<1>1. UNCHANGED <<at, conn, job, local, said, made, inbox>> /\ S' = S /\ S \in Conns
  BY SameServed, ServedFacts DEF clientVars
<1>2. asked' \in [Conns -> Seq(Blocks)]
  BY DEF UdpInv, PostInv
<1>3. u \in Answers
  BY DEF Answers, Headers, Header, Answered, Opcodes
<1>4. CASE ~Bound(S) /\ AllConnects(inbox) /\ \A c \in Clients : ~Here(c)
  <2>1. UNCHANGED <<mail, lost>>
    BY <1>4 DEF SendTo
  <2> QED
    BY <1>1, <1>2, <1>4, <2>1, AstrayStep
<1>5. ASSUME NEW c \in Clients, Awaited(c, w) PROVE UdpInv'
  <2>1. /\ Here(c) /\ conn[c] = S /\ made[c] \notin Conns /\ inbox = <<>>
        /\ ~Replied(c) /\ Gives(c, Owes(w))
    BY <1>5 DEF Awaited, Attended
  <2>2. mail'[S] = <<u>>
    BY <1>3, <1>5, <2>1, Delivered DEF Replied, Debts
  <2>3. at[c] = IF w = "greeting" THEN "recvGreeting" ELSE "recvAnswer"
    BY <2>1 DEF Gives, Owes, WantMac, WantHeader, WantData, WantBlocks, Awaits
  <2>4. MailInv(c)'
    BY <1>1, <2>1, <2>2, <2>3 DEF MailInv
  <2>5. Replied(c)'
    BY <1>1, <2>1, <2>2 DEF Replied
  <2>6. Wants(WantHeader)' /\ Attended(WantHeader)'
    BY <1>1, <2>1 DEF Wants, Attended
  <2> QED
    BY <1>2, <1>3, <1>5, <2>4, <2>5, <2>6, SendStep DEF Debts
<1> QED
  BY <1>4, <1>5, OwingFacts DEF Debts

(* UdpGreet preserves the invariant.                                       *)
LEMMA UdpGreetInv ==
    ASSUME UdpInv, UdpGreet, UNCHANGED clientVars
    PROVE  UdpInv'
<1>1. GreetNone("ok") /\ SendTo(S, Header("None")) /\ UNCHANGED <<inbox, made, asked>>
  BY DEF UdpGreet
<1>2. ServerInv' /\ SameHandles /\ pc = "Greet" /\ pc' = "RecvHeader"
  BY <1>1, GreetServer
<1>3. \A x : Wants(x) => x \in {Lost, Owes("greeting")}
  BY <1>2 DEF Wants
<1> QED
  BY <1>1, <1>2, <1>3, AnswerStep

(* UdpReply preserves the invariant.                                       *)
LEMMA UdpReplyInv ==
    ASSUME UdpInv, UdpReply, UNCHANGED clientVars
    PROVE  UdpInv'
<1>1. Reply("ok") /\ SendTo(S, Answered) /\ UNCHANGED <<inbox, made, asked>>
  BY DEF UdpReply
<1>2. ServerInv' /\ SameHandles /\ pc = "Reply" /\ pc' = "RecvHeader"
  BY <1>1, ReplyServer
<1>3. \A x : Wants(x) => x \in {Lost, Owes("answer")}
  BY <1>2 DEF Wants
<1> QED
  BY <1>1, <1>2, <1>3, AnswerStep

-----------------------------------------------------------------------------
(* What flows.                                                             *)
LEMMA FlowsNone ==
    ASSUME NEW file, NEW data, NEW t \in Nat, NEW n \in Nat, n >= t,
           n = t => n <= Len(file) /\ data = SubSeq(file, 1, Len(file) - n)
    PROVE  FlowsOf(file, data, t, <<>>, n)
<1> DEFINE f == [i \in {1} |-> n]
<1>1. f[1] = n /\ Len(<<>>) = 0 /\ 0 + 1 = 1 /\ 1..0 = {}
  OBVIOUS
<1> HIDE DEF f
<1> QED
  BY <1>1 DEF FlowsOf

(* A chunk that was lost: what flows is no longer all.                     *)
LEMMA FlowsLess ==
    ASSUME NEW file, NEW data, NEW t \in Nat, NEW q, NEW n, NEW m \in Nat, m < t,
           FlowsOf(file, data, t, q, n)
    PROVE  FlowsOf(file, data, m, q, n)
<1>1. PICK f : /\ f[1] = n /\ f[Len(q) + 1] \in Nat /\ f[Len(q) + 1] >= t
               /\ \A i \in 1..Len(q) :
                     /\ q[i].t = "block" /\ Len(q[i].blocks) \in 1..BufferSize
                     /\ f[i] \in Nat /\ f[i] = f[i + 1] + Len(q[i].blocks)
  BY DEF FlowsOf
<1>2. f[Len(q) + 1] >= m /\ f[Len(q) + 1] # m
  BY <1>1
<1> QED
  BY <1>1, <1>2 DEF FlowsOf

(* A chunk that is sent and not lost.                                      *)
LEMMA FlowsFurther ==
    ASSUME NEW file \in Seq(Blocks), NEW data, NEW t \in 1..Len(file), NEW q \in Seq(Answers),
           NEW n, FlowsOf(file, data, t, q, n)
    PROVE  FlowsOf(file, data, t - ChunkSize(t), Append(q, Chunk(NextChunk(t, file))), n)
<1> DEFINE u == Chunk(NextChunk(t, file))
           r == Append(q, u)
           cs == ChunkSize(t)
           l == Len(file)
<1>1. PICK f : /\ f[1] = n /\ f[Len(q) + 1] \in Nat /\ f[Len(q) + 1] >= t
               /\ \A i \in 1..Len(q) :
                     /\ q[i].t = "block" /\ Len(q[i].blocks) \in 1..BufferSize
                     /\ f[i] \in Nat /\ f[i] = f[i + 1] + Len(q[i].blocks)
               /\ f[Len(q) + 1] = t =>
                     /\ n <= l
                     /\ data = SubSeq(file, 1, l - n)
                     /\ \A i \in 1..Len(q) :
                           q[i].blocks = SubSeq(file, l - f[i] + 1, l - f[i + 1])
  BY DEF FlowsOf
<1> DEFINE e == f[Len(q) + 1]
           z == e - cs
           g == [i \in 1..(Len(q) + 2) |-> IF i = Len(q) + 2 THEN z ELSE f[i]]
<1>2. /\ Len(q) \in Nat /\ l \in Nat /\ cs \in 1..t /\ cs \in 1..BufferSize
      /\ u.t = "block" /\ u.blocks = NextChunk(t, file) /\ Len(u.blocks) = cs
      /\ NextChunk(t, file) = SubSeq(file, l - t + 1, l - (t - cs))
  BY LenProperties, NextChunkLemma DEF Chunk
<1>3. /\ Len(r) = Len(q) + 1 /\ r[Len(q) + 1] = u /\ \A i \in 1..Len(q) : r[i] = q[i]
  <2>1. u \in Answers
    BY NextChunkLemma DEF Answers, Pieces, Chunk
  <2> QED
    BY <2>1, AppendProperties
<1>5. e \in Nat /\ e >= t
  BY <1>1
<1> HIDE DEF z, r, u, l
<1>4. /\ g[Len(q) + 2] = e - cs /\ \A i \in 1..(Len(q) + 1) : g[i] = f[i]
      /\ Len(r) + 1 = Len(q) + 2
  <2>1. Len(q) \in Nat /\ Len(r) + 1 = Len(q) + 2
    BY <1>2, <1>3
  <2>2. g[Len(q) + 2] = z
    BY <2>1
  <2>3. \A i \in 1..(Len(q) + 1) : g[i] = f[i]
    BY <2>1
  <2> QED
    BY <2>1, <2>2, <2>3 DEF z
<1> HIDE DEF g
<1>6. g[1] = n /\ g[Len(q) + 1] = e
  <2>1. 1 \in 1..(Len(q) + 1) /\ Len(q) + 1 \in 1..(Len(q) + 1)
    BY <1>2
  <2> QED
    BY <1>1, <1>4, <2>1
<1> HIDE DEF e, cs
<1>7. g[Len(r) + 1] = e - cs /\ e - cs \in Nat /\ e - cs >= t - cs
  BY <1>2, <1>4, <1>5
<1>8. ASSUME NEW i \in 1..Len(r)
      PROVE  /\ r[i].t = "block" /\ Len(r[i].blocks) \in 1..BufferSize
             /\ g[i] \in Nat /\ g[i] = g[i + 1] + Len(r[i].blocks)
  <2>1. CASE i \in 1..Len(q)
    <3>1. r[i] = q[i] /\ g[i] = f[i] /\ g[i + 1] = f[i + 1]
      BY <1>2, <1>3, <1>4, <2>1
    <3> QED
      BY <1>1, <2>1, <3>1
  <2>2. CASE i = Len(q) + 1
    <3>1. r[i] = u /\ g[i] = e /\ g[i + 1] = e - cs
      BY <1>2, <1>3, <1>4, <1>6, <2>2
    <3>2. e = (e - cs) + cs
      BY <1>2, <1>5
    <3> QED
      BY <1>2, <1>5, <3>1, <3>2
  <2> QED
    BY <1>2, <1>3, <2>1, <2>2
<1>9. ASSUME e - cs = t - cs
      PROVE  /\ n <= l /\ data = SubSeq(file, 1, l - n)
             /\ \A i \in 1..Len(r) : r[i].blocks = SubSeq(file, l - g[i] + 1, l - g[i + 1])
  <2>1. e = t
    BY <1>2, <1>5, <1>9
  <2>2. /\ n <= l /\ data = SubSeq(file, 1, l - n)
        /\ \A i \in 1..Len(q) : q[i].blocks = SubSeq(file, l - f[i] + 1, l - f[i + 1])
    BY <1>1, <2>1 DEF e
  <2>3. ASSUME NEW i \in 1..Len(r)
        PROVE  r[i].blocks = SubSeq(file, l - g[i] + 1, l - g[i + 1])
    <3>1. CASE i \in 1..Len(q)
      <4>1. i \in 1..(Len(q) + 1) /\ i + 1 \in 1..(Len(q) + 1)
        BY <1>2, <3>1
      <4>2. r[i] = q[i] /\ g[i] = f[i] /\ g[i + 1] = f[i + 1]
        BY <1>3, <1>4, <3>1, <4>1
      <4> QED
        BY <2>2, <3>1, <4>2
    <3>2. CASE i = Len(q) + 1
      <4>1. r[i] = u /\ g[i] = t /\ g[i + 1] = t - cs
        BY <1>2, <1>3, <1>4, <1>6, <2>1, <3>2
      <4> QED
        BY <1>2, <4>1
    <3> QED
      BY <1>2, <1>3, <3>1, <3>2
  <2> QED
    BY <2>2, <2>3
<1>10. FlowsOf(file, data, t - cs, r, n)
  BY <1>6, <1>7, <1>8, <1>9 DEF FlowsOf, l
<1> QED
  BY <1>10 DEF r, u, cs

(* A chunk that is received.                                               *)
LEMMA FlowsHead ==
    ASSUME NEW file \in Seq(Blocks), NEW data, NEW t \in Nat, NEW q \in Seq(Answers), q # <<>>,
           NEW n, FlowsOf(file, data, t, q, n)
    PROVE  LET d == Head(q).blocks
           IN  /\ Head(q).t = "block" /\ Len(d) \in 1..BufferSize /\ n \in Nat /\ Len(d) <= n
               /\ FlowsOf(file, data \o d, t, Tail(q), n - Len(d))
<1> DEFINE d == Head(q).blocks
           r == Tail(q)
           l == Len(file)
<1>1. PICK f : /\ f[1] = n /\ f[Len(q) + 1] \in Nat /\ f[Len(q) + 1] >= t
               /\ \A i \in 1..Len(q) :
                     /\ q[i].t = "block" /\ Len(q[i].blocks) \in 1..BufferSize
                     /\ f[i] \in Nat /\ f[i] = f[i + 1] + Len(q[i].blocks)
               /\ f[Len(q) + 1] = t =>
                     /\ n <= l
                     /\ data = SubSeq(file, 1, l - n)
                     /\ \A i \in 1..Len(q) :
                           q[i].blocks = SubSeq(file, l - f[i] + 1, l - f[i + 1])
  BY DEF FlowsOf
<1>2. /\ Len(q) \in Nat /\ Len(q) > 0 /\ Head(q) = q[1] /\ Len(r) = Len(q) - 1
      /\ \A i \in 1..(Len(q) - 1) : r[i] = q[i + 1]
      /\ l \in Nat /\ BufferSize \in Nat
  BY HeadTailProperties, LenProperties, EmptySeq, ServerAssumption, ProtocolAssumption
<1> DEFINE g == [i \in 1..Len(q) |-> f[i + 1]]
<1>3. \A i \in 1..Len(q) : g[i] = f[i + 1]
  OBVIOUS
<1> HIDE DEF g, r, d, l
<1>4. 1 \in 1..Len(q) /\ d = q[1].blocks
  BY <1>2 DEF d
<1>5. /\ Head(q).t = "block" /\ Len(d) \in 1..BufferSize /\ n \in Nat
      /\ n = f[2] + Len(d)
  BY <1>1, <1>2, <1>4
<1>6. f[2] \in Nat
  <2>1. CASE Len(q) = 1
    BY <1>1, <2>1
  <2>2. CASE Len(q) # 1
    <3>1. 2 \in 1..Len(q)
      BY <1>2, <2>2
    <3> QED
      BY <1>1, <3>1
  <2> QED
    BY <2>1, <2>2
<1>7. Len(d) <= n /\ f[2] = n - Len(d) /\ Len(d) \in Nat
  BY <1>2, <1>5, <1>6
<1>8. g[1] = n - Len(d) /\ g[Len(r) + 1] = f[Len(q) + 1]
  BY <1>2, <1>3, <1>7
<1>9. ASSUME NEW i \in 1..Len(r)
      PROVE  /\ i + 1 \in 1..Len(q) /\ r[i] = q[i + 1]
             /\ g[i] = f[i + 1] /\ g[i + 1] = f[(i + 1) + 1]
  <2>1. i \in 1..Len(q) /\ i + 1 \in 1..Len(q) /\ i \in 1..(Len(q) - 1)
    BY <1>2
  <2> QED
    BY <1>2, <1>3, <2>1
<1>10. ASSUME NEW i \in 1..Len(r)
       PROVE  /\ r[i].t = "block" /\ Len(r[i].blocks) \in 1..BufferSize
              /\ g[i] \in Nat /\ g[i] = g[i + 1] + Len(r[i].blocks)
  BY <1>1, <1>9
<1>11. ASSUME f[Len(q) + 1] = t
       PROVE  /\ n - Len(d) <= l /\ data \o d = SubSeq(file, 1, l - (n - Len(d)))
              /\ \A i \in 1..Len(r) : r[i].blocks = SubSeq(file, l - g[i] + 1, l - g[i + 1])
  <2>1. /\ n <= l /\ data = SubSeq(file, 1, l - n)
        /\ \A i \in 1..Len(q) : q[i].blocks = SubSeq(file, l - f[i] + 1, l - f[i + 1])
    BY <1>1, <1>11
  <2>2. d = SubSeq(file, (l - n) + 1, l - (n - Len(d)))
    BY <1>1, <1>4, <1>7, <2>1
  <2>3. /\ l - n \in Nat /\ l - (n - Len(d)) \in Nat /\ l - n <= l - (n - Len(d))
        /\ l - (n - Len(d)) <= l /\ n - Len(d) <= l
    <3>1. l \in Nat /\ n \in Nat /\ Len(d) \in Nat /\ Len(d) <= n /\ n <= l
      BY <1>2, <1>5, <1>7, <2>1
    <3> QED
      BY <3>1
  <2>4. PICK m, k : m = l - n /\ k = l - (n - Len(d))
    OBVIOUS
  <2>5. SubSeq(file, 1, m) \o SubSeq(file, m + 1, k) = SubSeq(file, 1, k)
    BY ZenonT(60), <2>3, <2>4, SliceLemma DEF l
  <2>6. data = SubSeq(file, 1, m) /\ d = SubSeq(file, m + 1, k)
    BY <2>1, <2>2, <2>4
  <2>7. data \o d = SubSeq(file, 1, l - (n - Len(d)))
    BY <2>4, <2>5, <2>6
  <2>8. ASSUME NEW i \in 1..Len(r)
        PROVE  r[i].blocks = SubSeq(file, l - g[i] + 1, l - g[i + 1])
    BY <1>9, <2>1
  <2> QED
    BY <2>3, <2>7, <2>8
<1>12. FlowsOf(file, data \o d, t, r, n - Len(d))
  BY <1>1, <1>8, <1>10, <1>11 DEF FlowsOf, l
<1> QED
  BY <1>5, <1>7, <1>12 DEF d, r

(* Nothing is missing: that was all.                                       *)
LEMMA FlowsEnd ==
    ASSUME NEW file \in Seq(Blocks), NEW data, NEW t \in Nat, NEW q \in Seq(Answers),
           FlowsOf(file, data, t, q, 0)
    PROVE  q = <<>> /\ t = 0 /\ data = file
<1>1. q = <<>>
  <2>1. ASSUME q # <<>> PROVE FALSE
    <3>1. Len(Head(q).blocks) \in 1..BufferSize /\ Len(Head(q).blocks) <= 0
      BY <2>1, FlowsHead
    <3>2. BufferSize \in Nat
      BY ServerAssumption, ProtocolAssumption
    <3> QED
      BY <3>1, <3>2
  <2> QED
    BY <2>1
<1>2. PICK f : /\ f[1] = 0 /\ f[Len(q) + 1] \in Nat /\ f[Len(q) + 1] >= t
               /\ f[Len(q) + 1] = t => data = SubSeq(file, 1, Len(file) - 0)
  BY DEF FlowsOf
<1>3. Len(q) + 1 = 1 /\ Len(file) \in Nat
  BY <1>1, LenProperties
<1>4. t = 0 /\ data = SubSeq(file, 1, Len(file))
  BY <1>2, <1>3
<1> QED
  BY <1>1, <1>4, SubSeqFull

(* What is appended to a sequence leaves its head.                         *)
LEMMA AppendHeadTail ==
    ASSUME NEW q \in Seq(Answers), q # <<>>, NEW u \in Answers
    PROVE  /\ Append(q, u) # <<>> /\ Head(Append(q, u)) = Head(q)
           /\ Tail(Append(q, u)) = Append(Tail(q), u)
<1> DEFINE r == Append(q, u)
<1>1. /\ r \in Seq(Answers) /\ Len(r) = Len(q) + 1 /\ r[Len(q) + 1] = u
      /\ \A i \in 1..Len(q) : r[i] = q[i]
      /\ Len(q) \in Nat /\ Len(q) > 0
  BY AppendProperties, LenProperties, EmptySeq
<1> HIDE DEF r
<1>2. r # <<>> /\ Head(r) = r[1] /\ Head(q) = q[1]
  BY <1>1, EmptySeq, HeadTailProperties
<1>3. /\ Tail(r) \in Seq(Answers) /\ Len(Tail(r)) = Len(q)
      /\ \A i \in 1..Len(q) : Tail(r)[i] = r[i + 1]
      /\ Tail(q) \in Seq(Answers) /\ Len(Tail(q)) = Len(q) - 1
      /\ \A i \in 1..(Len(q) - 1) : Tail(q)[i] = q[i + 1]
  BY <1>1, <1>2, HeadTailProperties
<1>4. PICK s : s = Append(Tail(q), u)
  OBVIOUS
<1>5. /\ s \in Seq(Answers) /\ Len(s) = Len(q) /\ s[Len(q)] = u
      /\ \A i \in 1..(Len(q) - 1) : s[i] = Tail(q)[i]
  BY <1>1, <1>3, <1>4, AppendProperties
<1>6. \A i \in 1..Len(q) : Tail(r)[i] = s[i]
  <2> SUFFICES ASSUME NEW i \in 1..Len(q) PROVE Tail(r)[i] = s[i]
    OBVIOUS
  <2>1. CASE i = Len(q)
    BY <1>1, <1>3, <1>5, <2>1
  <2>2. CASE i # Len(q)
    <3>1. i \in 1..(Len(q) - 1) /\ i + 1 \in 1..Len(q)
      BY <1>1, <2>2
    <3> QED
      BY <1>1, <1>3, <1>5, <3>1
  <2> QED
    BY <2>1, <2>2
<1>7. Tail(r) = s
  BY <1>3, <1>5, <1>6, SeqEqual
<1> QED
  BY <1>1, <1>2, <1>4, <1>7 DEF r

-----------------------------------------------------------------------------
(* The server sends a file.                                                *)

(* The server's part of Download.                                          *)
LEMMA DownloadServer ==
    ASSUME UdpInv, Download("ok", TRUE)
    PROVE  /\ ServerInv' /\ SameHandles /\ pc = "Download" /\ disk' = disk
           /\ LET ready == DownloadStatus(TRUE) = "Ready"
              IN  IF ready /\ TotalSize > 0
                  THEN /\ pc' = "SendChunk"
                       /\ dl' = [file |-> packet.name, start |-> packet.arg,
                                 total |-> TotalSize, left |-> TotalSize]
                  ELSE pc' = "RecvHeader"
<1>1. IInv /\ status = "Success" /\ stamps = {} /\ pc = "Download"
  BY DEF UdpInv, ServerInv, Download, Serving
<1>2. cur \in 1..Len(clients) /\ cur = Len(clients)
  BY <1>1, ServedFacts
<1>3. IInv'
  BY <1>1, DownloadStep DEF Sent
<1>4. Latch("ok") = "Success" /\ "Success" \notin Removable
  BY <1>1, ProtocolAssumption DEF Latch, Removable
<1>5. ~CheckFail("Success") /\ AfterCheckFail(clients, "Success") = clients
  BY <1>4 DEF CheckFail, AfterCheckFail
<1>6. /\ UNCHANGED <<clients, cur, disk, stamps>> /\ status' = "Success"
      /\ IF DownloadStatus(TRUE) = "Ready" /\ TotalSize > 0
         THEN /\ pc' = "SendChunk"
              /\ dl' = [file |-> packet.name, start |-> packet.arg,
                        total |-> TotalSize, left |-> TotalSize]
         ELSE pc' = "RecvHeader"
  BY <1>4, <1>5 DEF Download
<1>7. \A c \in Clients : \A n \in Offered[c] : Hosts(n)'
  BY <1>6 DEF UdpInv, ServerInv, Hosts
<1> QED
  BY <1>1, <1>2, <1>3, <1>6, <1>7 DEF ServerInv, SameHandles

(* UdpDownload preserves the invariant.                                    *)
LEMMA UdpDownloadInv ==
    ASSUME UdpInv, UdpDownload, UNCHANGED clientVars
    PROVE  UdpInv'
<1> DEFINE file == disk[packet.name].data
           ready == DownloadStatus(TRUE) = "Ready"
           u == Response(ready, TotalSize)
<1>1. /\ Download("ok", TRUE) /\ SendTo(S, u) /\ UNCHANGED <<inbox, made>>
      /\ asked' = [asked EXCEPT ![S] = file]
  BY DEF UdpDownload
<1>2. /\ ServerInv' /\ SameHandles /\ pc = "Download" /\ disk' = disk
      /\ IF ready /\ TotalSize > 0
         THEN /\ pc' = "SendChunk"
              /\ dl' = [file |-> packet.name, start |-> packet.arg,
                        total |-> TotalSize, left |-> TotalSize]
         ELSE pc' = "RecvHeader"
  BY <1>1, DownloadServer
<1>3. UNCHANGED <<at, conn, job, local, said, made, inbox>> /\ S' = S /\ S \in Conns
  BY <1>1, <1>2, SameServed, ServedFacts DEF clientVars
<1>4. packet.name \in Names /\ packet.arg \in Nat /\ file \in Seq(Blocks) /\ Len(file) \in Nat
  BY LenProperties DEF UdpInv, ServerInv, IInv, TypeOK, Packet, Entry
<1>5. TotalSize \in Nat /\ (packet.arg = 0 => TotalSize = Len(file))
  BY <1>4 DEF TotalSize
<1>6. asked \in [Conns -> Seq(Blocks)]
  BY DEF UdpInv, PostInv
<1>7. asked' \in [Conns -> Seq(Blocks)] /\ asked'[S] = file
  BY <1>1, <1>3, <1>4, <1>6
<1>8. u \in Answers /\ u.t = "response" /\ u.ready = ready /\ u.total = TotalSize
  BY <1>5 DEF Answers, Response
<1> HIDE DEF u, ready, file
<1>9. \A x : Wants(x) => x \in {Lost, Owes("response")}
  BY <1>2 DEF Wants
<1>10. CASE ~Bound(S) /\ AllConnects(inbox) /\ \A c \in Clients : ~Here(c)
  <2>1. UNCHANGED <<mail, lost>>
    BY <1>1, <1>10 DEF SendTo
  <2> QED
    BY <1>1, <1>2, <1>7, <1>10, <2>1, AstrayStep
<1>11. ASSUME NEW c \in Clients, Awaited(c, "response") PROVE UdpInv'
  <2>1. /\ Here(c) /\ conn[c] = S /\ made[c] \notin Conns /\ inbox = <<>>
        /\ ~Replied(c) /\ Gives(c, Owes("response")) /\ Wants(Owes("response"))
    BY <1>2, <1>11 DEF Awaited, Attended
  <2>2. mail'[S] = <<u>>
    BY <1>1, <1>2, <1>8, <1>11, <2>1, Delivered DEF Replied, Debts
  <2>3. at[c] = "recvResponse"
    BY <2>1 DEF Gives, Owes, WantMac, WantHeader, WantData, WantBlocks, Awaits
  <2>4. packet.arg = 0
    BY <1>2, <2>1 DEF Wants, Owes, Lost, Awaits
  <2>5. Replied(c)'
    BY <1>3, <2>1, <2>2 DEF Replied
  <2>6. local[c][job[c].file].data = <<>>
    BY <2>3 DEF UdpInv, PlaceInv, DownloadPlaces
  <2>7. ASSUME ready PROVE ToSend' = TotalSize
    <3>1. CASE TotalSize > 0
      BY <1>2, <2>7, <3>1 DEF ToSend
    <3>2. CASE ~(TotalSize > 0)
      BY <1>2, <1>5, <2>7, <3>2 DEF ToSend
    <3> QED
      BY <3>1, <3>2
  <2> DEFINE data == local[c][job[c].file].data
  <2>8. ASSUME ready PROVE FlowsOf(file, data, ToSend', <<>>, TotalSize)
    <3>1. PICK n \in Nat : n = TotalSize
      BY <1>5
    <3>2. n = Len(file) /\ Len(file) - n = 0
      BY <1>4, <1>5, <2>4, <3>1
    <3>3. n >= n /\ (n = n => n <= Len(file) /\ <<>> = SubSeq(file, 1, Len(file) - n))
      BY <3>2, SubSeqEmpty
    <3>4. FlowsOf(file, <<>>, n, <<>>, n)
      BY <3>3, FlowsNone
    <3> QED
      BY <2>6, <2>7, <2>8, <3>1, <3>4
  <2>9. MailInv(c)'
    <3>1. mail'[S] # <<>> /\ Head(mail'[S]) = u /\ Tail(mail'[S]) = <<>>
      BY <2>2
    <3>2. ~ready => pc' # "SendChunk"
      BY <1>2
    <3>3. ready => Flows(c, Tail(mail[S]), Head(mail[S]).total)'
      BY <1>3, <1>7, <1>8, <2>1, <2>8, <3>1 DEF Flows
    <3> QED
      BY <1>3, <1>8, <2>1, <2>3, <3>1, <3>2, <3>3 DEF MailInv
  <2>10. CASE ready /\ TotalSize > 0
    <3>1. Receiving'
      BY <1>2, <1>3, <1>4, <1>5, <1>7, <2>4, <2>10 DEF Receiving, file
    <3>2. Wants(Owes("stream"))' /\ Attended(Owes("stream"))'
      BY <1>2, <1>3, <2>1, <2>10, <3>1 DEF Wants, Attended
    <3> QED
      BY <1>1, <1>2, <1>7, <1>8, <1>11, <2>5, <2>9, <2>10, <3>2, SendStep DEF Debts
  <2>11. CASE ~(ready /\ TotalSize > 0)
    <3>1. Wants(WantHeader)' /\ Attended(WantHeader)' /\ pc' = "RecvHeader"
      BY <1>2, <1>3, <2>1, <2>11 DEF Wants, Attended
    <3> QED
      BY <1>1, <1>2, <1>7, <1>8, <1>11, <2>5, <2>9, <3>1, SendStep DEF Debts
  <2> QED
    BY <2>10, <2>11
<1> QED
  BY <1>2, <1>9, <1>10, <1>11, OwingFacts DEF Debts

-----------------------------------------------------------------------------
(* The server's part of SendChunk.                                         *)
LEMMA SendChunkServer ==
    ASSUME UdpInv, SendChunk("ok")
    PROVE  /\ ServerInv' /\ SameHandles /\ pc = "SendChunk" /\ disk' = disk
           /\ dl.left \in 1..dl.total /\ dl.total \in Nat /\ ChunkSize(dl.left) \in 1..dl.left
           /\ IF dl.left - ChunkSize(dl.left) > 0
              THEN /\ pc' = "SendChunk" /\ dl'.left = dl.left - ChunkSize(dl.left)
                   /\ dl'.start = dl.start /\ dl'.total = dl.total /\ dl'.file = dl.file
              ELSE pc' = "RecvHeader" /\ dl.left - ChunkSize(dl.left) = 0
<1>1. IInv /\ status = "Success" /\ stamps = {} /\ pc = "SendChunk"
  BY DEF UdpInv, ServerInv, SendChunk, Serving
<1>2. cur \in 1..Len(clients) /\ cur = Len(clients)
  BY <1>1, ServedFacts
<1>3. IInv'
  BY <1>1, SendChunkStep DEF Sent
<1>4. /\ UNCHANGED <<clients, cur, disk, stamps, status>>
      /\ pc' = IF dl.left - ChunkSize(dl.left) > 0 THEN "SendChunk" ELSE "RecvHeader"
      /\ dl' = IF dl.left - ChunkSize(dl.left) > 0
               THEN [dl EXCEPT !.left = dl.left - ChunkSize(dl.left)] ELSE NoDownload
  BY DEF SendChunk
<1>5. \A c \in Clients : \A n \in Offered[c] : Hosts(n)'
  BY <1>4 DEF UdpInv, ServerInv, Hosts
<1>6. /\ dl.left \in 1..dl.total /\ dl.total \in Nat
      /\ dl \in [file : Names, start : Nat, total : Nat, left : Nat]
  BY <1>1 DEF IInv, DownloadInv, TypeOK
<1>7. ChunkSize(dl.left) \in 1..dl.left
  BY <1>6, ChunkSizeLemma
<1>8. ASSUME dl.left - ChunkSize(dl.left) > 0
      PROVE  /\ pc' = "SendChunk" /\ dl'.left = dl.left - ChunkSize(dl.left)
             /\ dl'.start = dl.start /\ dl'.total = dl.total /\ dl'.file = dl.file
  BY <1>4, <1>6, <1>8
<1>9. ASSUME ~(dl.left - ChunkSize(dl.left) > 0)
      PROVE  pc' = "RecvHeader" /\ dl.left - ChunkSize(dl.left) = 0
  BY <1>4, <1>6, <1>7, <1>9
<1> QED
  BY <1>1, <1>2, <1>3, <1>4, <1>5, <1>6, <1>7, <1>8, <1>9 DEF ServerInv, SameHandles

(* UdpSendChunk preserves the invariant.                                   *)
LEMMA UdpSendChunkInv ==
    ASSUME UdpInv, UdpSendChunk, UNCHANGED clientVars
    PROVE  UdpInv'
<1> DEFINE from == dl.start + dl.total - dl.left
           u == Chunk(SubSeq(disk[dl.file].data, from + 1, from + ChunkSize(dl.left)))
           left == dl.left - ChunkSize(dl.left)
<1>1. SendChunk("ok") /\ SendTo(S, u) /\ UNCHANGED <<inbox, made, asked>>
  BY DEF UdpSendChunk
<1>2. /\ ServerInv' /\ SameHandles /\ pc = "SendChunk" /\ disk' = disk
      /\ dl.left \in 1..dl.total /\ dl.total \in Nat /\ ChunkSize(dl.left) \in 1..dl.left
      /\ IF left > 0
         THEN /\ pc' = "SendChunk" /\ dl'.left = left
              /\ dl'.start = dl.start /\ dl'.total = dl.total /\ dl'.file = dl.file
         ELSE pc' = "RecvHeader" /\ left = 0
  BY <1>1, SendChunkServer
<1>3. UNCHANGED <<at, conn, job, local, said, made, inbox, asked>> /\ S' = S /\ S \in Conns
      /\ asked \in [Conns -> Seq(Blocks)] /\ asked[S] \in Seq(Blocks)
  BY <1>1, <1>2, SameServed, ServedFacts DEF clientVars, UdpInv, PostInv
<1>4. left \in Nat /\ left < dl.left /\ ToSend = dl.left /\ ToSend' = left
  <2>1. left \in Nat /\ left < dl.left
    BY <1>2
  <2>2. ToSend = dl.left
    BY <1>2 DEF ToSend
  <2>3. ToSend' = left
    BY <1>2, <2>1 DEF ToSend
  <2> QED
    BY <2>1, <2>2, <2>3
<1>5. \A x : Wants(x) => x \in {Lost, Owes("stream")}
  BY <1>2 DEF Wants
<1> HIDE DEF left, u, from
<1>6. CASE ~Bound(S) /\ AllConnects(inbox) /\ \A c \in Clients : ~Here(c)
  <2>1. UNCHANGED <<mail, lost>>
    BY <1>1, <1>6 DEF SendTo
  <2> QED
    BY <1>1, <1>2, <1>3, <1>6, <2>1, AstrayStep
<1>7. ASSUME NEW c \in Clients, Awaited(c, "stream") PROVE UdpInv'
  <2>1. /\ Here(c) /\ conn[c] = S /\ made[c] \notin Conns /\ inbox = <<>>
        /\ Wants(Owes("stream"))
    BY <1>7 DEF Awaited
  <2>2. Replied(c)
    <3>1. ~Gives(c, Owes("stream"))
      BY DEF Gives, Owes, WantMac, WantHeader, WantData, WantBlocks, Awaits
    <3> QED
      BY <1>7, <3>1 DEF Awaited
  <2>3. PICK file \in Seq(Blocks) : file = asked[S]
    BY <1>3
  <2>4. dl.start = 0 /\ dl.total = Len(file) /\ disk[dl.file].data = file
    BY <1>2, <2>1, <2>3 DEF Wants, Receiving, Owes, Lost, Awaits
  <2>5. dl.left \in 1..Len(file) /\ Len(file) \in Nat
    BY <1>2, <2>4
  <2>6. u = Chunk(NextChunk(dl.left, file)) /\ u \in Answers
    <3>1. from = Len(file) - dl.left
      BY <2>4, <2>5 DEF from
    <3>2. u = Chunk(NextChunk(dl.left, file))
      BY <2>4, <3>1 DEF u, NextChunk
    <3>3. u \in Answers
      BY <2>5, <3>2, NextChunkLemma DEF Answers, Pieces, Chunk
    <3> QED
      BY <3>2, <3>3
  <2>7. PICK q \in Seq(Answers) : q = mail[S] 
    BY <1>3 DEF UdpInv, PostInv
  <2>8. /\ mail'[S] \in {q, Append(q, u)}
        /\ mail \in [Conns -> Seq(Answers)]
    <3>1. mail \in [Conns -> Seq(Answers)]
      BY DEF UdpInv, PostInv
    <3> QED
      BY <1>1, <1>3, <2>7, <3>1 DEF SendTo
  <2>9. Append(q, u) # <<>>
    BY <2>6, <2>7, AppendProperties
  <2>10. Replied(c)'
    BY <1>3, <2>1, <2>2, <2>7, <2>8, <2>9 DEF Replied
  <2> DEFINE data == local[c][job[c].file].data
  <2>11. ASSUME NEW r \in Seq(Answers), NEW n, FlowsOf(file, data, dl.left, r, n)
         PROVE  FlowsOf(file, data, left, r, n) /\ FlowsOf(file, data, left, Append(r, u), n)
    <3> PICK t : t = dl.left
      OBVIOUS
    <3>1. t \in 1..Len(file) /\ t \in Nat
      BY <2>5
    <3>2. FlowsOf(file, data, left, r, n)
      BY <1>4, <2>11, <3>1, FlowsLess
    <3>3. FlowsOf(file, data, t - ChunkSize(t), Append(r, Chunk(NextChunk(t, file))), n)
      BY <2>11, <3>1, FlowsFurther
    <3> QED
      BY <2>6, <3>2, <3>3 DEF left
  <2>12. \A r, n : Flows(c, r, n) <=> FlowsOf(file, data, dl.left, r, n)
    BY <1>4, <2>1, <2>3 DEF Flows
  <2>13. ASSUME at[c] = "recvFile" PROVE MailInv(c)'
    <3>1. Flows(c, q, job[c].left)
      BY <1>3, <2>1, <2>7, <2>13 DEF UdpInv, MailInv
    <3>2. FlowsOf(file, data, left, mail'[S], job[c].left)
      BY <2>8, <2>11, <2>12, <3>1
    <3>3. Flows(c, mail[S], job[c].left)'
      BY <1>3, <1>4, <2>1, <2>3, <3>2 DEF Flows
    <3> QED
      BY <1>3, <2>1, <2>13, <3>3 DEF MailInv
  <2>14. ASSUME at[c] # "recvFile" PROVE MailInv(c)'
    <3>1. q # <<>>
      BY <2>1, <2>2, <2>7, <2>14 DEF Replied
    <3>2. /\ at[c] = "recvResponse" /\ Head(q).t = "response" /\ Head(q).ready
          /\ Flows(c, Tail(q), Head(q).total)
      BY <1>2, <1>3, <2>1, <2>7, <2>14, <3>1 DEF UdpInv, MailInv
    <3>3. Tail(q) \in Seq(Answers)
      BY <3>1, HeadTailProperties
    <3>4. /\ mail'[S] # <<>> /\ Head(mail'[S]) = Head(q)
          /\ Tail(mail'[S]) \in {Tail(q), Append(Tail(q), u)}
      BY <2>6, <2>8, <3>1, AppendHeadTail
    <3>5. FlowsOf(file, data, left, Tail(mail'[S]), Head(q).total)
      BY <2>11, <2>12, <3>2, <3>3, <3>4
    <3>6. Flows(c, Tail(mail[S]), Head(mail[S]).total)'
      BY <1>3, <1>4, <2>1, <2>3, <3>4, <3>5 DEF Flows
    <3> QED
      BY <1>3, <2>1, <3>2, <3>4, <3>6 DEF MailInv
  <2>15. CASE left > 0
    <3>1. Receiving'
      BY <1>2, <1>3, <2>3, <2>4, <2>15 DEF Receiving
    <3>2. Wants(Owes("stream"))' /\ Attended(Owes("stream"))' /\ pc' # "Listen"
      BY <1>2, <1>3, <2>1, <2>15, <3>1 DEF Wants, Attended
    <3> QED
      BY <1>1, <1>2, <1>3, <1>7, <2>6, <2>10, <2>13, <2>14, <3>2, SendStep DEF Debts
  <2>16. CASE ~(left > 0)
    <3>1. Wants(WantHeader)' /\ Attended(WantHeader)' /\ pc' = "RecvHeader"
      BY <1>2, <1>3, <2>1, <2>16 DEF Wants, Attended
    <3> QED
      BY <1>1, <1>2, <1>3, <1>7, <2>6, <2>10, <2>13, <2>14, <3>1, SendStep DEF Debts
  <2> QED
    BY <2>15, <2>16
<1> QED
  BY <1>2, <1>5, <1>6, <1>7, OwingFacts DEF Debts

-----------------------------------------------------------------------------
(* The clients.                                                            *)
Stays(d) ==
    /\ at'[d] = at[d] /\ conn'[d] = conn[d] /\ made'[d] = made[d]
    /\ job'[d] = job[d] /\ local'[d] = local[d] /\ said'[d] = said[d]

(* A client's step leaves the server what it wants.                        *)
LEMMA ServerStays ==
    ASSUME UdpInv, UNCHANGED <<serverVars, asked>>
    PROVE  /\ ServerInv' /\ (\A x : Wants(x) => Wants(x)')
           /\ S' = S /\ pc' = pc /\ ToSend' = ToSend /\ clients' = clients /\ asked' = asked
<1>1. UNCHANGED <<pc, clients, cur, status, packet, stamps, disk, dl, ul, asked>>
  BY DEF serverVars
<1>2. S' = S /\ ToSend' = ToSend
  BY <1>1 DEF S, Me, ToSend
<1>3. ServerInv'
  <2>1. IInv'
    BY StutterStep DEF UdpInv, ServerInv
  <2> QED
    BY <1>1, <2>1 DEF UdpInv, ServerInv, Hosts
<1>4. \A x : Wants(x) => Wants(x)'
  BY <1>1, <1>2 DEF Wants, Hosts, Receiving
<1> QED
  BY <1>1, <1>2, <1>3, <1>4

(* ... and another client, whose mail it does not touch, its place.        *)
LEMMA ClientStays ==
    ASSUME UdpInv, UNCHANGED <<serverVars, asked>>, NEW d \in Clients, Stays(d),
           conn[d] \in Conns => mail'[conn[d]] = mail[conn[d]],
           made[d] \in Conns => mail'[made[d]] = mail[made[d]]
    PROVE  /\ PlaceInv(d)' /\ MailInv(d)'
           /\ Here(d)' <=> Here(d)
           /\ AtIt(d)' <=> AtIt(d)
           /\ Here(d) => (Replied(d)' <=> Replied(d))
           /\ \A y : Gives(d, y)' <=> Gives(d, y)
           /\ Serves(conn[d])' <=> Serves(conn[d])
           /\ Serves(made[d])' <=> Serves(made[d])
<1>1. S' = S /\ pc' = pc /\ ToSend' = ToSend /\ asked' = asked
  BY ServerStays
<1>2. Here(d)' <=> Here(d)
  BY DEF Here, Stays
<1>3. AtIt(d)' <=> AtIt(d)
  BY DEF AtIt, Stays, K
<1>4. Here(d) => (Replied(d)' <=> Replied(d))
  BY DEF Here, Replied, Stays
<1>5. \A y : Gives(d, y)' <=> Gives(d, y)
  BY DEF Gives, Stays
<1>6. /\ Serves(conn[d])' <=> Serves(conn[d])
      /\ Serves(made[d])' <=> Serves(made[d])
  BY <1>1 DEF Serves, Stays
<1>7. PlaceInv(d)'
  BY <1>2 DEF UdpInv, PlaceInv, Stays
<1>8. conn[d] \in Conns => \A q, n : Flows(d, q, n)' <=> Flows(d, q, n)
  BY <1>1 DEF Flows, Stays
<1>9. MailInv(d)'
  <2>1. conn'[d] = conn[d] /\ made'[d] = made[d] /\ at'[d] = at[d] /\ job'[d] = job[d]
    BY DEF Stays
  <2>2. MailInv(d)
    BY DEF UdpInv
  <2>3. conn[d] \in Conns => \A q, n : Flows(d, q, n) => Flows(d, q, n)'
    BY <1>8
  <2>4. made'[d] \in Conns =>
           \/ mail'[made'[d]] = <<>> /\ ~Serves(made[d])'
           \/ mail'[made'[d]] = <<AcceptMagic>> /\ Serves(made[d])'
    BY <1>6, <2>1, <2>2 DEF MailInv
  <2>5. CASE conn[d] \in Conns
    <3>1. mail'[conn[d]] = mail[conn[d]]
      BY <2>5
    <3>2. Flows(d, mail[conn[d]], job[d].left) => Flows(d, mail[conn[d]], job[d].left)'
      BY <2>1, <2>3, <2>5, <3>1 DEF Flows
    <3>3. Flows(d, Tail(mail[conn[d]]), Head(mail[conn[d]]).total)
             => Flows(d, Tail(mail[conn[d]]), Head(mail[conn[d]]).total)'
      BY <2>1, <2>3, <2>5, <3>1 DEF Flows
    <3> QED
      BY <1>1, <2>1, <2>2, <2>4, <2>5, <3>1, <3>2, <3>3 DEF MailInv
  <2>6. CASE conn[d] \notin Conns
    BY <2>1, <2>4, <2>6 DEF MailInv
  <2> QED
    BY <2>5, <2>6
<1> QED
  BY <1>2, <1>3, <1>4, <1>5, <1>6, <1>7, <1>9

(* The client who is there has the server for itself.                      *)
LEMMA HereAlone ==
    ASSUME UdpInv, NEW c \in Clients, Here(c)
    PROVE  /\ conn[c] = S /\ S \in Conns /\ pc # "Listen" /\ AtIt(c)
           /\ \A d \in Clients : /\ made[d] \notin Conns
                                 /\ d # c => ~AtIt(d) /\ ~Here(d) /\ conn[d] # S
           /\ \A i \in 1..Len(inbox) : inbox[i].unit # ConnectMagic
<1>1. PICK x, y : Wants(x) /\ Leads(S, inbox, x, y) /\ Ends(y)
  BY DEF UdpInv, ChainInv
<1>2. Serves(conn[c]) /\ conn[c] \in Conns
  BY <1>1 DEF Ends, Here
<1>3. conn[c] = S /\ S \in Conns /\ pc # "Listen"
  BY <1>2 DEF Serves
<1>4. AtIt(c)
  BY DEF AtIt, Here, K
<1>5. ASSUME NEW d \in Clients
      PROVE  made[d] \notin Conns /\ (d # c => ~AtIt(d) /\ ~Here(d) /\ conn[d] # S)
  <2>1. made[d] \notin Conns
    <3>1. ASSUME made[d] \in Conns PROVE FALSE
      <4>1. at[d] = "recvAccept" /\ AtIt(d)
        BY <3>1 DEF UdpInv, PlaceInv, AtIt
      <4>2. d = c
        BY <1>4, <4>1 DEF UdpInv, TurnInv
      <4> QED
        BY <4>1, <4>2 DEF Here
    <3> QED
      BY <3>1
  <2>2. d # c => ~AtIt(d)
    BY <1>4 DEF UdpInv, TurnInv
  <2>3. Here(d) => AtIt(d)
    BY DEF Here, AtIt, K
  <2>4. d # c => conn[d] # S
    BY <1>2, <1>3 DEF UdpInv, TurnInv
  <2> QED
    BY <2>1, <2>2, <2>3, <2>4
<1>6. ASSUME NEW i \in 1..Len(inbox), inbox[i].unit = ConnectMagic PROVE FALSE
  <2>1. y \in Final
    BY <1>1, <1>6, ConnectLeads, ServedFacts
  <2> QED
    BY <1>1, <2>1, FinalEnds
<1> QED
  BY <1>3, <1>4, <1>5, <1>6

(* What the server's socket has room for joins what waits there.           *)
LEMMA SentWhole ==
    ASSUME NEW k, NEW u, CliSend(k, u), dropped' = {}
    PROVE  inbox' = Append(inbox, [from |-> k, unit |-> u])
BY DEF CliSend

(* The client being served sends u, and turns to what comes next.          *)
LEMMA ClientSends ==
    ASSUME UdpInv, NEW c \in Clients, Here(c), ~Replied(c), NEW u \in Request, u # ConnectMagic,
           CliSend(conn[c], u), dropped' = {},
           UNCHANGED <<serverVars, mail, made, lost, asked, conn>>,
           \A d \in Clients \ {c} : Stays(d), ClientInv', PlaceInv(c)',
           at'[c] \notin {"recvFile", "recvAccept"},
           \A y : Gives(c, y) => \E z : /\ Passes(u, y, z)
                                        /\ Here(c)' => Gives(c, z)'
                                        /\ ~Here(c)' => z = Over
    PROVE  UdpInv'
<1>1. /\ conn[c] = S /\ S \in Conns /\ pc # "Listen" /\ AtIt(c)
      /\ \A d \in Clients : /\ made[d] \notin Conns
                            /\ d # c => ~AtIt(d) /\ ~Here(d) /\ conn[d] # S
      /\ \A i \in 1..Len(inbox) : inbox[i].unit # ConnectMagic
  BY HereAlone
<1>2. ServerInv' /\ (\A x : Wants(x) => Wants(x)') /\ S' = S /\ pc' = pc
      /\ clients' = clients
  BY ServerStays
<1> DEFINE letter == [from |-> S, unit |-> u]
<1>3. /\ inbox \in Seq(Letter) /\ letter \in Letter /\ inbox' = Append(inbox, letter)
  BY <1>1, ServedFacts, SentWhole DEF Letter
<1>4. /\ inbox' \in Seq(Letter) /\ Len(inbox') = Len(inbox) + 1 /\ Len(inbox) \in Nat
      /\ inbox'[Len(inbox) + 1] = letter /\ \A i \in 1..Len(inbox) : inbox'[i] = inbox[i]
  BY <1>3, AppendProperties, LenProperties
<1>5. PostInv'
  BY <1>4 DEF UdpInv, PostInv
<1>6. ASSUME NEW d \in Clients, d # c
      PROVE  PlaceInv(d)' /\ MailInv(d)' /\ ~Here(d)' /\ ~AtIt(d)'
  BY <1>1, <1>6, ClientStays
<1>7. mail[conn[c]] = <<>>
  BY DEF Replied
<1>8. MailInv(c)'
  BY <1>1, <1>7 DEF MailInv
<1>9. TurnInv'
  BY <1>6 DEF UdpInv, TurnInv
<1>10. AddressInv'
  <2>1. ASSUME NEW i \in 1..Len(inbox') PROVE inbox'[i].unit # ConnectMagic
    <3>1. CASE i \in 1..Len(inbox)
      BY <1>1, <1>4, <3>1
    <3>2. CASE i = Len(inbox) + 1
      BY <1>4, <3>2
    <3> QED
      BY <1>4, <3>1, <3>2
  <2>2. \A k \in Conns : ~Bound(k)' => mail[k]' = <<>>
    BY DEF UdpInv, AddressInv, Bound
  <2> QED
    BY <2>1, <2>2 DEF AddressInv
<1>11. ChainInv'
  <2>1. PICK x, y : Wants(x) /\ Leads(S, inbox, x, y) /\ Ends(y)
    BY DEF UdpInv, ChainInv
  <2>2. Gives(c, y)
    BY <2>1 DEF Ends
  <2>3. PICK z : Passes(u, y, z) /\ (Here(c)' => Gives(c, z)') /\ (~Here(c)' => z = Over)
    BY <2>2
  <2>4. Follows(S, letter, y, z)
    BY <2>3 DEF Follows
  <2>5. Leads(S', inbox', x, z)
    BY <1>2, <1>3, <2>1, <2>4, LeadsFurther
  <2>6. Ends(z)'
    <3> SUFFICES ASSUME NEW d \in Clients
                 PROVE  /\ Here(d)' => Serves(conn[d])' /\ IF Replied(d)' THEN Attended(z)'
                                                                         ELSE Gives(d, z)'
                        /\ conn[d]' \in Conns /\ ~Here(d)' /\ Serves(conn[d])' => z = Over
                        /\ made[d]' \notin Conns
      BY DEF Ends
    <3>1. made[d]' \notin Conns
      BY <1>1
    <3>2. CASE d = c
      <4>1. ~Replied(d)' /\ Serves(conn[d])'
        BY <1>1, <1>2, <1>7, <3>2 DEF Replied, Serves
      <4> QED
        BY <2>3, <3>1, <3>2, <4>1
    <3>3. CASE d # c
      <4>1. ~Here(d)' /\ ~Serves(conn[d])'
        BY <1>1, <1>2, <1>6, <3>3 DEF Serves
      <4> QED
        BY <3>1, <4>1
    <3> QED
      BY <3>2, <3>3
  <2> QED
    BY <1>2, <2>1, <2>5, <2>6 DEF ChainInv
<1> QED
  BY <1>2, <1>5, <1>6, <1>8, <1>9, <1>10, <1>11 DEF UdpInv

-----------------------------------------------------------------------------
(* The clients send.                                                       *)

(* A client that sends is here, and has nothing to read.                   *)
LEMMA SenderFacts ==
    ASSUME UdpInv, NEW c \in Clients, at[c] \in Sending
    PROVE  /\ Here(c) /\ ~Replied(c) /\ conn[c] \in Conns /\ said[c] = "nothing"
           /\ PlaceInv(c) /\ made[c] \notin Conns
<1>1. at[c] \notin {"prompt", "recvAccept", "dead", "recvGreeting", "recvAnswer", "recvResponse",
                    "recvFile"}
  BY DEF Sending
<1>2. PlaceInv(c) /\ MailInv(c)
  BY DEF UdpInv
<1>3. Here(c) /\ conn[c] \in Conns /\ said[c] = "nothing" /\ made[c] \notin Conns
  BY <1>1, <1>2 DEF PlaceInv, Here
<1>4. mail[conn[c]] = <<>>
  BY <1>1, <1>2, <1>3 DEF MailInv
<1> QED
  BY <1>1, <1>2, <1>3, <1>4 DEF Replied

(* Client c goes on at p, all else as it was.                              *)
LEMMA Goes ==
    ASSUME UdpInv, NEW c \in Clients, NEW p \in UdpPlaces, Goto(c, p),
           UNCHANGED <<conn, job, local, said, made>>
    PROVE  /\ ClientInv' /\ at'[c] = p /\ \A d \in Clients \ {c} : Stays(d)
           /\ conn'[c] = conn[c] /\ job'[c] = job[c] /\ local'[c] = local[c]
           /\ said'[c] = said[c] /\ made'[c] = made[c]
<1>1. at \in [Clients -> UdpPlaces]
  BY DEF UdpInv, ClientInv
<1>2. at'[c] = p /\ (\A d \in Clients \ {c} : at'[d] = at[d]) /\ at' \in [Clients -> UdpPlaces]
  BY <1>1 DEF Goto
<1>3. ClientInv'
  BY <1>2 DEF UdpInv, ClientInv
<1> QED
  BY <1>2, <1>3 DEF Stays

(* Client c returns to the prompt.                                         *)
LEMMA Returns ==
    ASSUME UdpInv, NEW c \in Clients, NEW s \in Reports, Return(c, s),
           UNCHANGED <<conn, made>>,
           local' \in [Clients -> [Names -> Entry]],
           \A d \in Clients \ {c} : local'[d] = local[d]
    PROVE  /\ ClientInv' /\ at'[c] = "prompt" /\ job'[c] = Idle /\ said'[c] = s
           /\ conn'[c] = conn[c] /\ made'[c] = made[c]
           /\ \A d \in Clients \ {c} : Stays(d)
<1>1. /\ at \in [Clients -> UdpPlaces] /\ job \in [Clients -> Job]
      /\ said \in [Clients -> Reports] /\ Idle \in Job /\ "prompt" \in UdpPlaces
  BY NoneLemma DEF UdpInv, ClientInv, Idle, Job, Opcodes, UdpPlaces
<1>2. /\ at'[c] = "prompt" /\ (\A d \in Clients \ {c} : at'[d] = at[d])
      /\ at' \in [Clients -> UdpPlaces]
  BY <1>1 DEF Return, Goto
<1>3. /\ job'[c] = Idle /\ (\A d \in Clients \ {c} : job'[d] = job[d])
      /\ job' \in [Clients -> Job]
  BY <1>1 DEF Return
<1>4. /\ said'[c] = s /\ (\A d \in Clients \ {c} : said'[d] = said[d])
      /\ said' \in [Clients -> Reports]
  BY <1>1 DEF Return
<1>5. ClientInv'
  BY <1>2, <1>3, <1>4 DEF UdpInv, ClientInv
<1> QED
  BY <1>2, <1>3, <1>4, <1>5 DEF Stays

(* What a client has when it is back at the prompt.                        *)
LEMMA PromptPlace ==
    ASSUME UdpInv, NEW c \in Clients, at[c] # "recvAccept",
           at'[c] = "prompt", conn'[c] = conn[c], made'[c] = made[c],
           \A n \in Offered[c] : local'[c][n] = local[c][n]
    PROVE  PlaceInv(c)'
<1>1. PlaceInv(c)
  BY DEF UdpInv
<1> QED
  BY <1>1 DEF PlaceInv, DownloadPlaces, UploadPlaces

-----------------------------------------------------------------------------
Kept ==
    UNCHANGED <<serverVars, mail, made, lost, asked>> /\ dropped' = {}

(* SendMac preserves the invariant.                                        *)
LEMMA SendMacInv ==
    ASSUME UdpInv, NEW c \in Clients, SendMac(c, "ok"), CliSend(K(c), Mac(MacOf[c])), Kept
    PROVE  UdpInv'
<1>1. /\ at[c] = "sendMac" /\ Goto(c, "recvGreeting")
      /\ UNCHANGED <<serverVars, mail, made, lost, asked, conn, job, local, said>>
      /\ dropped' = {}
  BY DEF SendMac, Kept
<1>2. Here(c) /\ ~Replied(c) /\ conn[c] \in Conns /\ said[c] = "nothing" /\ PlaceInv(c)
  BY <1>1, SenderFacts DEF Sending
<1>3. /\ ClientInv' /\ at'[c] = "recvGreeting" /\ \A d \in Clients \ {c} : Stays(d)
      /\ conn'[c] = conn[c] /\ job'[c] = job[c] /\ local'[c] = local[c]
      /\ said'[c] = said[c] /\ made'[c] = made[c]
  BY <1>1, Goes DEF UdpPlaces
<1>4. Here(c)'
  BY <1>2, <1>3 DEF Here
<1>5. PlaceInv(c)'
  BY <1>1, <1>2, <1>3, <1>4 DEF PlaceInv, DownloadPlaces, UploadPlaces
<1> DEFINE u == Mac(MacOf[c])
<1>6. u \in Request /\ u # ConnectMagic /\ u.t = "mac"
  BY UdpAssumption DEF Mac, Request, ConnectMagic
<1>7. ASSUME NEW y, Gives(c, y) PROVE \E z : Passes(u, y, z) /\ Gives(c, z)'
  <2>1. y = WantMac
    BY <1>1, <1>7 DEF Gives
  <2>2. Passes(u, y, Owes("greeting")) /\ Gives(c, Owes("greeting"))'
    BY <1>3, <1>6, <2>1 DEF Passes, Gives
  <2> QED
    BY <2>2
<1> HIDE DEF u
<1>8. CliSend(conn[c], u)
  BY DEF K, u
<1> QED
  BY <1>1, <1>2, <1>3, <1>4, <1>5, <1>6, <1>7, <1>8, ClientSends

(* SendDownload preserves the invariant.                                   *)
LEMMA SendDownloadInv ==
    ASSUME UdpInv, NEW c \in Clients, SendDownload(c, "ok"), Kept,
           CliSend(K(c), IF at[c] = "downloadHeader" THEN Header("Download")
                         ELSE Data(job[c].start, job[c].file, <<>>))
    PROVE  UdpInv'
<1> DEFINE first == at[c] = "downloadHeader"
           p == IF first THEN "downloadData" ELSE "recvResponse"
           u == IF first THEN Header("Download") ELSE Data(job[c].start, job[c].file, <<>>)
<1>1. /\ at[c] \in {"downloadHeader", "downloadData"} /\ Goto(c, p)
      /\ UNCHANGED <<serverVars, mail, made, lost, asked, conn, job, local, said>>
      /\ dropped' = {}
  BY DEF SendDownload, Kept
<1>2. Here(c) /\ ~Replied(c) /\ conn[c] \in Conns /\ said[c] = "nothing" /\ PlaceInv(c)
  BY <1>1, SenderFacts DEF Sending
<1>3. /\ ClientInv' /\ at'[c] = p /\ \A d \in Clients \ {c} : Stays(d)
      /\ conn'[c] = conn[c] /\ job'[c] = job[c] /\ local'[c] = local[c]
      /\ said'[c] = said[c] /\ made'[c] = made[c]
  <2>1. p \in UdpPlaces
    BY DEF UdpPlaces
  <2> HIDE DEF p
  <2> QED
    BY <1>1, <2>1, Goes
<1>4. Here(c)'
  BY <1>2, <1>3 DEF Here
<1>5. PlaceInv(c)'
  BY <1>1, <1>2, <1>3, <1>4 DEF PlaceInv, DownloadPlaces, UploadPlaces
<1>6. job[c] \in Job
  BY DEF UdpInv, ClientInv
<1>7. u \in Request /\ u # ConnectMagic
  <2>1. Header("Download") \in Request /\ Header("Download") # ConnectMagic
    BY DEF Header, Request, Headers, ConnectMagic, Opcodes
  <2>2. <<>> \in Seq(Blocks) /\ job[c].start = 0 /\ job[c].file \in Names
    BY <1>6 DEF Job
  <2>3. /\ Data(job[c].start, job[c].file, <<>>) \in Request
        /\ Data(job[c].start, job[c].file, <<>>) # ConnectMagic
    BY <2>2 DEF Data, Request, ConnectMagic
  <2> QED
    BY <2>1, <2>3
<1>8. ASSUME NEW y, Gives(c, y) PROVE \E z : Passes(u, y, z) /\ Gives(c, z)'
  <2>1. CASE first
    <3>1. y = WantHeader /\ u.t = "header" /\ u.op = "Download"
      BY <1>8, <2>1 DEF Gives, Header
    <3>2. Passes(u, y, WantData("Download")) /\ Gives(c, WantData("Download"))'
      BY <1>3, <2>1, <3>1 DEF Passes, Gives
    <3> QED
      BY <3>2
  <2>2. CASE ~first
    <3>1. y = WantData("Download") /\ u.t = "data" /\ u.arg = 0
      BY <1>1, <1>6, <1>8, <2>2 DEF Gives, Data, Job
    <3>2. Passes(u, y, Owes("response")) /\ Gives(c, Owes("response"))'
      BY <1>3, <2>2, <3>1 DEF Passes, Gives
    <3> QED
      BY <3>2
  <2> QED
    BY <2>1, <2>2
<1>9. at'[c] \notin {"recvFile", "recvAccept"}
  BY <1>3
<1>10. CliSend(conn[c], u)
  BY DEF K
<1> HIDE DEF u, p
<1> QED
  BY <1>1, <1>2, <1>3, <1>4, <1>5, <1>7, <1>8, <1>9, <1>10, ClientSends

(* SendUpload preserves the invariant.                                     *)
LEMMA SendUploadInv ==
    ASSUME UdpInv, NEW c \in Clients, SendUpload(c, "ok"), Kept,
           CliSend(K(c), IF at[c] = "uploadHeader" THEN Header("Upload")
                         ELSE Data(job[c].left, job[c].file, local[c][job[c].file].data))
    PROVE  UdpInv'
<1> DEFINE first == at[c] = "uploadHeader"
           data == local[c][job[c].file].data
           p == IF first THEN "uploadData" ELSE "sendFile"
           u == IF first THEN Header("Upload") ELSE Data(job[c].left, job[c].file, data)
<1>1. at[c] \in {"uploadHeader", "uploadData"}
  BY DEF SendUpload
<1>2. Here(c) /\ ~Replied(c) /\ conn[c] \in Conns /\ said[c] = "nothing" /\ PlaceInv(c)
  BY <1>1, SenderFacts DEF Sending
<1>3. /\ job[c] \in Job /\ local[c] \in [Names -> Entry] /\ data \in Seq(Blocks)
      /\ Len(data) \in Nat
  BY LenProperties DEF UdpInv, ClientInv, Job, Entry
<1>4. job[c].left = Len(data) /\ job[c].left > 0 /\ job[c].file \in Offered[c]
  BY <1>1, <1>2, <1>3 DEF PlaceInv, UploadPlaces
<1>5. /\ Goto(c, p)
      /\ UNCHANGED <<serverVars, mail, made, lost, asked, conn, job, local, said>>
      /\ dropped' = {}
  BY <1>1, <1>4 DEF SendUpload, Kept
<1>6. /\ ClientInv' /\ at'[c] = p /\ \A d \in Clients \ {c} : Stays(d)
      /\ conn'[c] = conn[c] /\ job'[c] = job[c] /\ local'[c] = local[c]
      /\ said'[c] = said[c] /\ made'[c] = made[c]
  <2>1. p \in UdpPlaces
    BY DEF UdpPlaces
  <2> HIDE DEF p
  <2> QED
    BY <1>5, <2>1, Goes
<1>7. Here(c)'
  BY <1>2, <1>6 DEF Here
<1>8. PlaceInv(c)'
  BY <1>1, <1>2, <1>6, <1>7 DEF PlaceInv, DownloadPlaces, UploadPlaces
<1>9. u \in Request /\ u # ConnectMagic
  <2>1. Header("Upload") \in Request /\ Header("Upload") # ConnectMagic
    BY DEF Header, Request, Headers, ConnectMagic, Opcodes
  <2>2. job[c].left \in Nat /\ job[c].file \in Names
    BY <1>3 DEF Job
  <2>3. /\ Data(job[c].left, job[c].file, data) \in Request
        /\ Data(job[c].left, job[c].file, data) # ConnectMagic
    BY <1>3, <2>2 DEF Data, Request, ConnectMagic
  <2> QED
    BY <2>1, <2>3
<1>10. ASSUME NEW y, Gives(c, y) PROVE \E z : Passes(u, y, z) /\ Gives(c, z)'
  <2>1. CASE first
    <3>1. y = WantHeader /\ u.t = "header" /\ u.op = "Upload"
      BY <1>10, <2>1 DEF Gives, Header
    <3>2. Passes(u, y, WantData("Upload")) /\ Gives(c, WantData("Upload"))'
      BY <1>6, <2>1, <3>1 DEF Passes, Gives
    <3> QED
      BY <3>2
  <2>2. CASE ~first
    <3>1. /\ y = WantData("Upload") /\ u.t = "data" /\ u.arg = Len(data) /\ u.file = data
          /\ u.arg > 0 /\ u.name \in Offered[c]
      BY <1>1, <1>4, <1>10, <2>2 DEF Gives, Data
    <3>2. Passes(u, y, WantBlocks(u.arg, u.file))
      BY <3>1 DEF Passes
    <3>3. Gives(c, WantBlocks(job[c].left, data))'
      BY <1>6, <2>2 DEF Gives
    <3> QED
      BY <1>4, <1>5, <3>1, <3>2, <3>3
  <2> QED
    BY <2>1, <2>2
<1>11. at'[c] \notin {"recvFile", "recvAccept"}
  BY <1>6
<1>12. CliSend(conn[c], u)
  BY DEF K
<1> HIDE DEF u, p
<1> QED
  BY <1>2, <1>5, <1>6, <1>7, <1>8, <1>9, <1>10, <1>11, <1>12, ClientSends

-----------------------------------------------------------------------------
(* SendFile preserves the invariant.                                       *)
LEMMA SendFileInv ==
    ASSUME UdpInv, NEW c \in Clients, SendFile(c, "ok"), Kept,
           LET data == local[c][job[c].file].data
               done == Len(data) - job[c].left
           IN  CliSend(K(c), Chunk(SubSeq(data, done + 1, done + ChunkSize(job[c].left))))
    PROVE  UdpInv'
<1> PICK n, data : n = job[c].left /\ data = local[c][job[c].file].data
  OBVIOUS
<1> DEFINE left == n - ChunkSize(n)
           u == Chunk(NextChunk(n, data))
<1>1. at[c] = "sendFile" /\ UNCHANGED <<serverVars, mail, made, lost, asked, conn, local>>
 /\ dropped' = {}
  BY DEF SendFile, Kept
<1>2. Here(c) /\ ~Replied(c) /\ conn[c] \in Conns /\ said[c] = "nothing" /\ PlaceInv(c)
  BY <1>1, SenderFacts DEF Sending
<1>3. /\ at \in [Clients -> UdpPlaces] /\ job \in [Clients -> Job] /\ job[c] \in Job
      /\ data \in Seq(Blocks) /\ Len(data) \in Nat
      /\ local \in [Clients -> [Names -> Entry]]
  BY LenProperties DEF UdpInv, ClientInv, Job, Entry
<1>4. n \in 1..Len(data)
  BY <1>1, <1>2 DEF PlaceInv, UploadPlaces
<1>5. ChunkSize(n) \in 1..n /\ NextChunk(n, data) \in Seq(Blocks) /\ left \in Nat /\ n \in Nat
      /\ (left > 0 <=> n > ChunkSize(n)) /\ (left = 0 <=> ~(left > 0)) /\ left <= n
      /\ left <= Len(data)
  <2>1. ChunkSize(n) \in 1..n /\ NextChunk(n, data) \in Seq(Blocks)
    BY <1>3, <1>4, NextChunkLemma
  <2>2. n \in Nat /\ ChunkSize(n) \in Nat /\ ChunkSize(n) <= n /\ n <= Len(data)
    BY <1>3, <1>4, <2>1
  <2> QED
    BY SMTT(30), <1>3, <2>1, <2>2
<1>6. CliSend(conn[c], u)
  BY DEF K, NextChunk
<1>7. u \in Request /\ u # ConnectMagic /\ u.t = "block" /\ u.blocks = NextChunk(n, data)
  BY <1>5 DEF Chunk, Request, Pieces, ConnectMagic
<1>8. "ok" = "ok" /\ (left > 0 \/ left = 0)
  BY <1>5
<1>9. CASE left > 0
  <2>1. job' = [job EXCEPT ![c].left = left] /\ UNCHANGED <<at, said>>
    BY <1>9 DEF SendFile
  <2>2. /\ job'[c].left = left /\ job'[c].file = job[c].file
        /\ (\A d \in Clients \ {c} : job'[d] = job[d]) /\ job' \in [Clients -> Job]
    BY <1>3, <1>5, <2>1 DEF Job
  <2>3. ClientInv' /\ \A d \in Clients \ {c} : Stays(d)
    BY <1>1, <2>1, <2>2 DEF UdpInv, ClientInv, Stays
  <2>4. Here(c)'
    BY <1>1, <1>2, <2>1 DEF Here
  <2>5. PlaceInv(c)'
    BY <1>1, <1>2, <1>3, <1>5, <1>9, <2>1, <2>2, <2>4 DEF PlaceInv, DownloadPlaces, UploadPlaces
  <2>6. ASSUME NEW y, Gives(c, y) PROVE \E z : Passes(u, y, z) /\ Gives(c, z)'
    <3>1. y = WantBlocks(n, data)
      BY <1>1, <2>6 DEF Gives
    <3>2. Passes(u, y, WantBlocks(left, data))
      BY <1>3, <1>4, <1>5, <1>7, <1>9, <3>1 DEF Passes
    <3>3. Gives(c, WantBlocks(left, data))'
      <4>1. at'[c] = "sendFile" /\ job'[c].left = left /\ local'[c][job'[c].file].data = data
        BY <1>1, <2>1, <2>2
      <4> QED
        BY <4>1 DEF Gives
    <3> QED
      BY <3>2, <3>3
  <2> HIDE DEF u
  <2>7. at'[c] \notin {"recvFile", "recvAccept"}
    BY <1>1, <2>1
  <2> QED
    BY <1>1, <1>2, <1>6, <1>7, <2>3, <2>4, <2>5, <2>6, <2>7, ClientSends
<1>10. CASE left = 0
  <2>1. Return(c, "uploaded")
    BY <1>5, <1>10 DEF SendFile
  <2>2. /\ ClientInv' /\ at'[c] = "prompt" /\ said'[c] = "uploaded"
        /\ conn'[c] = conn[c] /\ made'[c] = made[c]
        /\ \A d \in Clients \ {c} : Stays(d)
    BY <1>1, <1>3, <2>1, Returns DEF Reports
  <2>3. Here(c)'
    BY <1>2, <2>2 DEF Here
  <2>4. PlaceInv(c)'
    BY <1>1, <2>2, PromptPlace
  <2>5. ASSUME NEW y, Gives(c, y) PROVE \E z : Passes(u, y, z) /\ Gives(c, z)'
    <3>1. y = WantBlocks(n, data)
      BY <1>1, <2>5 DEF Gives
    <3>2. Passes(u, y, WantHeader)
      BY <1>3, <1>4, <1>5, <1>7, <1>10, <3>1 DEF Passes
    <3>3. Gives(c, WantHeader)'
      BY <2>2 DEF Gives
    <3> QED
      BY <3>2, <3>3
  <2> HIDE DEF u
  <2> QED
    BY <1>1, <1>2, <1>6, <1>7, <2>2, <2>3, <2>4, <2>5, ClientSends
<1> QED
  BY <1>8, <1>9, <1>10

(* SendAsk preserves the invariant.                                        *)
LEMMA SendAskInv ==
    ASSUME UdpInv, NEW c \in Clients, SendAsk(c, "ok"), Kept,
           CliSend(K(c), IF at[c] = "askHeader" THEN Header(job[c].op)
                         ELSE Data(0, SomeName, <<>>))
    PROVE  UdpInv'
<1> DEFINE first == at[c] = "askHeader"
           p == IF first /\ job[c].op = "Echo" THEN "askData" ELSE "recvAnswer"
           u == IF first THEN Header(job[c].op) ELSE Data(0, SomeName, <<>>)
<1>1. /\ at[c] \in {"askHeader", "askData"} /\ Goto(c, p)
      /\ UNCHANGED <<serverVars, mail, made, lost, asked, conn, job, local, said>>
      /\ dropped' = {}
  BY DEF SendAsk, Kept
<1>2. Here(c) /\ ~Replied(c) /\ conn[c] \in Conns /\ said[c] = "nothing" /\ PlaceInv(c)
  BY <1>1, SenderFacts DEF Sending
<1>3. /\ ClientInv' /\ at'[c] = p /\ \A d \in Clients \ {c} : Stays(d)
      /\ conn'[c] = conn[c] /\ job'[c] = job[c] /\ local'[c] = local[c]
      /\ said'[c] = said[c] /\ made'[c] = made[c]
  <2>1. p \in UdpPlaces
    BY DEF UdpPlaces
  <2> HIDE DEF p
  <2> QED
    BY <1>1, <2>1, Goes
<1>4. Here(c)'
  BY <1>2, <1>3 DEF Here
<1>5. PlaceInv(c)'
  BY <1>1, <1>2, <1>3, <1>4 DEF PlaceInv, DownloadPlaces, UploadPlaces
<1>6. first => job[c].op \in {"Echo", "Time"}
  BY <1>2 DEF PlaceInv
<1>7. u \in Request /\ u # ConnectMagic
  <2>1. first => Header(job[c].op) \in Request /\ Header(job[c].op) # ConnectMagic
    BY <1>6 DEF Header, Request, Headers, ConnectMagic, Opcodes
  <2>2. <<>> \in Seq(Blocks) /\ SomeName \in Names
    BY NoneLemma
  <2>3. Data(0, SomeName, <<>>) \in Request /\ Data(0, SomeName, <<>>) # ConnectMagic
    BY <2>2 DEF Data, Request, ConnectMagic
  <2> QED
    BY <2>1, <2>3
<1>8. ASSUME NEW y, Gives(c, y) PROVE \E z : Passes(u, y, z) /\ Gives(c, z)'
  <2>1. CASE first
    <3>1. y = WantHeader /\ u.t = "header" /\ u.op = job[c].op
      BY <1>8, <2>1 DEF Gives, Header
    <3>2. CASE job[c].op = "Echo"
      <4>1. Passes(u, y, WantData("Echo")) /\ Gives(c, WantData("Echo"))'
        BY <1>3, <2>1, <3>1, <3>2 DEF Passes, Gives
      <4> QED
        BY <4>1
    <3>3. CASE job[c].op = "Time"
      <4>1. Passes(u, y, Owes("answer")) /\ Gives(c, Owes("answer"))'
        BY <1>3, <2>1, <3>1, <3>3 DEF Passes, Gives
      <4> QED
        BY <4>1
    <3> QED
      BY <1>6, <2>1, <3>2, <3>3
  <2>2. CASE ~first
    <3>1. y = WantData("Echo") /\ u.t = "data"
      BY <1>1, <1>8, <2>2 DEF Gives, Data
    <3>2. Passes(u, y, Owes("answer")) /\ Gives(c, Owes("answer"))'
      BY <1>3, <2>2, <3>1 DEF Passes, Gives
    <3> QED
      BY <3>2
  <2> QED
    BY <2>1, <2>2
<1>9. at'[c] \notin {"recvFile", "recvAccept"}
  BY <1>3
<1>10. CliSend(conn[c], u)
  BY DEF K
<1> HIDE DEF u, p
<1> QED
  BY <1>1, <1>2, <1>3, <1>4, <1>5, <1>7, <1>8, <1>9, <1>10, ClientSends

(* SendClose preserves the invariant.                                      *)
LEMMA SendCloseInv ==
    ASSUME UdpInv, NEW c \in Clients, SendClose(c, "ok"), CliSend(K(c), Header("Close")), Kept
    PROVE  UdpInv'
<1>1. /\ at[c] = "sendClose" /\ Return(c, "closed")
      /\ UNCHANGED <<serverVars, mail, made, lost, asked, conn, local>>
      /\ dropped' = {}
  BY DEF SendClose, Kept
<1>2. Here(c) /\ ~Replied(c) /\ conn[c] \in Conns /\ said[c] = "nothing" /\ PlaceInv(c)
  BY <1>1, SenderFacts DEF Sending
<1>3. /\ ClientInv' /\ at'[c] = "prompt" /\ said'[c] = "closed"
      /\ conn'[c] = conn[c] /\ made'[c] = made[c]
      /\ \A d \in Clients \ {c} : Stays(d)
  <2>1. local \in [Clients -> [Names -> Entry]] /\ "closed" \in Reports
    BY DEF UdpInv, ClientInv, Reports
  <2> QED
    BY <1>1, <2>1, Returns
<1>4. ~Here(c)'
  BY <1>3 DEF Here
<1>5. PlaceInv(c)'
  BY <1>1, <1>3, PromptPlace
<1> DEFINE u == Header("Close")
<1>6. u \in Request /\ u # ConnectMagic /\ u.t = "header" /\ u.op = "Close"
  BY DEF Header, Request, Headers, ConnectMagic, Opcodes
<1>7. ASSUME NEW y, Gives(c, y) PROVE \E z : Passes(u, y, z) /\ z = Over
  <2>1. y = WantHeader
    BY <1>1, <1>7 DEF Gives
  <2>2. Passes(u, y, Over)
    BY <1>6, <2>1 DEF Passes
  <2> QED
    BY <2>2
<1>8. CliSend(conn[c], u)
  BY DEF K
<1> HIDE DEF u
<1> QED
  BY <1>1, <1>2, <1>3, <1>4, <1>5, <1>6, <1>7, <1>8, ClientSends

(* UdpSend preserves the invariant.                                        *)
LEMMA UdpSendInv ==
    ASSUME UdpInv, NEW c \in Clients, UdpSend(c), dropped' = {},
           UNCHANGED <<serverVars, lost, asked>>
    PROVE  UdpInv'
<1>1. Kept
  BY DEF UdpSend, Kept
<1> QED
  BY <1>1, SendMacInv, SendDownloadInv, SendUploadInv, SendFileInv, SendAskInv, SendCloseInv
     DEF UdpSend

-----------------------------------------------------------------------------
(* The clients read.                                                       *)

Posted == UNCHANGED <<serverVars, made, inbox, conn, lost, asked>>

(* A client that reads is the one the server serves.                       *)
LEMMA ReaderFacts ==
    ASSUME UdpInv, NEW c \in Clients, UdpReceive(c)
    PROVE  /\ Here(c) /\ Replied(c) /\ conn[c] = S /\ S \in Conns /\ mail[S] # <<>>
           /\ at[c] \in {"recvGreeting", "recvResponse", "recvFile", "recvAnswer"}
           /\ mail[S] \in Seq(Answers) /\ Head(mail[S]) \in Answers /\ Tail(mail[S]) \in Seq(Answers)
           /\ asked[S] \in Seq(Blocks) /\ ToSend \in Nat /\ (ToSend = 0 => pc # "SendChunk")
           /\ job[c] \in Job /\ local[c] \in [Names -> Entry]
           /\ mail'[S] = Tail(mail[S])
<1>1. at[c] \in {"recvGreeting", "recvResponse", "recvFile", "recvAnswer"}
  BY DEF UdpReceive, RecvGreeting, RecvResponse, RecvFile, RecvAnswer
<1>2. conn[c] \in Conns /\ mail[conn[c]] # <<>> /\ CliReads(conn[c])
  BY DEF UdpReceive, K, Mail
<1>3. Here(c)
  BY <1>1 DEF UdpInv, PlaceInv
<1>4. Replied(c)
  BY <1>2 DEF Replied
<1>5. conn[c] = S /\ S \in Conns
  BY <1>3, HereAlone
<1>6. mail \in [Conns -> Seq(Answers)] /\ asked[S] \in Seq(Blocks)
  BY <1>5 DEF UdpInv, PostInv
<1>7. mail[S] \in Seq(Answers) /\ Head(mail[S]) \in Answers /\ Tail(mail[S]) \in Seq(Answers)
  BY <1>2, <1>5, <1>6, HeadTailProperties
<1>8. ToSend \in Nat /\ (ToSend = 0 => pc # "SendChunk")
  <2>1. dl.total \in Nat /\ (pc = "SendChunk" => dl.left \in 1..dl.total)
    BY DEF UdpInv, ServerInv, IInv, DownloadInv, TypeOK
  <2> QED
    BY <2>1 DEF ToSend
<1>9. job[c] \in Job /\ local[c] \in [Names -> Entry]
  BY DEF UdpInv, ClientInv
<1>10. mail'[S] = Tail(mail[S])
  BY <1>2, <1>5, <1>6 DEF CliReads
<1> QED
  BY <1>1, <1>2, <1>3, <1>4, <1>5, <1>6, <1>7, <1>8, <1>9, <1>10

(* Client c takes a letter of what is held for it.                         *)
LEMMA ClientReads ==
    ASSUME UdpInv, NEW c \in Clients, Here(c), Replied(c), CliReads(conn[c]), Posted,
           mail[S] # <<>>,
           \A d \in Clients \ {c} : Stays(d), ClientInv', PlaceInv(c)', MailInv(c)',
           said'[c] # "closed",
           at'[c] = "recvFile" \/ (at'[c] = "prompt" /\ pc # "SendChunk")
    PROVE  UdpInv'
<1>1. /\ conn[c] = S /\ S \in Conns /\ pc # "Listen" /\ AtIt(c)
      /\ \A d \in Clients : /\ made[d] \notin Conns
                            /\ d # c => ~AtIt(d) /\ ~Here(d) /\ conn[d] # S
      /\ \A i \in 1..Len(inbox) : inbox[i].unit # ConnectMagic
  BY HereAlone
<1>2. ServerInv' /\ (\A x : Wants(x) => Wants(x)') /\ S' = S /\ pc' = pc
      /\ clients' = clients
  BY ServerStays DEF Posted
<1>3. /\ mail \in [Conns -> Seq(Answers)] /\ mail' = [mail EXCEPT ![S] = Tail(@)]
      /\ Tail(mail[S]) \in Seq(Answers)
  <2>1. mail \in [Conns -> Seq(Answers)]
    BY DEF UdpInv, PostInv
  <2> QED
    BY <1>1, <2>1, HeadTailProperties DEF CliReads
<1>4. PostInv'
  BY <1>1, <1>3 DEF UdpInv, PostInv, Posted
<1>5. UNCHANGED <<made, inbox, conn, lost, asked, serverVars>>
  BY DEF Posted
<1>6. ASSUME NEW d \in Clients, d # c
      PROVE  PlaceInv(d)' /\ MailInv(d)' /\ ~Here(d)' /\ ~AtIt(d)'
  <2>1. conn[d] \in Conns => mail'[conn[d]] = mail[conn[d]]
    BY <1>1, <1>3, <1>6
  <2> QED
    BY <1>1, <1>5, <1>6, <2>1, ClientStays
<1>7. Here(c)'
  BY <1>5 DEF Here
<1>8. TurnInv'
  BY <1>5, <1>6 DEF UdpInv, TurnInv
<1>9. AddressInv'
  <2>1. \A k \in Conns : ~Bound(k)' => ~Bound(k) /\ k # S
    BY <1>1, <1>5 DEF Bound
  <2>2. \A k \in Conns : ~Bound(k)' => mail[k]' = <<>>
    BY <1>3, <2>1 DEF UdpInv, AddressInv
  <2> QED
    BY <1>1, <1>5, <2>2 DEF AddressInv
<1>10. ChainInv'
  <2>1. PICK x, y : Wants(x) /\ Leads(S, inbox, x, y) /\ Ends(y)
    BY DEF UdpInv, ChainInv
  <2>2. Attended(y)
    BY <2>1 DEF Ends
  <2>3. Attended(y)' /\ Leads(S', inbox', x, y)
    BY <1>2, <1>5, <2>1, <2>2 DEF Attended
  <2>4. Ends(y)'
    <3> SUFFICES ASSUME NEW d \in Clients
                 PROVE  /\ Here(d)' => Serves(conn[d])' /\ IF Replied(d)' THEN Attended(y)'
                                                                         ELSE Gives(d, y)'
                        /\ conn[d]' \in Conns /\ ~Here(d)' /\ Serves(conn[d])' => y = Over
                        /\ made[d]' \notin Conns
      BY DEF Ends
    <3>1. made[d]' \notin Conns
      BY <1>1, <1>5
    <3>2. CASE d = c
      <4>1. Serves(conn[d])'
        BY <1>1, <1>2, <1>5, <3>2 DEF Serves
      <4>2. ~Replied(c)' => Gives(c, y)'
        <5>1. ~Replied(c)' => at'[c] = "prompt" /\ pc # "SendChunk"
          BY DEF Replied
        <5>2. pc # "SendChunk" => y = WantHeader
          BY <2>2 DEF Attended
        <5> QED
          BY <5>1, <5>2 DEF Gives
      <4> QED
        BY <1>7, <2>3, <3>1, <3>2, <4>1, <4>2
    <3>3. CASE d # c
      <4>1. ~Here(d)' /\ ~Serves(conn[d])'
        BY <1>1, <1>2, <1>5, <1>6, <3>3 DEF Serves
      <4> QED
        BY <3>1, <4>1
    <3> QED
      BY <3>2, <3>3
  <2> QED
    BY <1>2, <2>1, <2>3, <2>4 DEF ChainInv
<1> QED
  BY <1>2, <1>4, <1>6, <1>8, <1>9, <1>10 DEF UdpInv

(* It is back at the prompt, with nothing more held for it.                *)
LEMMA ReadsLast ==
    ASSUME UdpInv, NEW c \in Clients, UdpReceive(c), Posted, Tail(mail[S]) = <<>>,
           pc # "SendChunk", NEW s \in Reports \ {"closed"}, Return(c, s),
           local' \in [Clients -> [Names -> Entry]],
           \A d \in Clients \ {c} : local'[d] = local[d],
           \A n \in Offered[c] : local'[c][n] = local[c][n]
    PROVE  UdpInv'
<1>1. /\ Here(c) /\ Replied(c) /\ conn[c] = S /\ S \in Conns /\ mail[S] # <<>>
      /\ at[c] # "recvAccept" /\ mail'[S] = <<>>
  BY ReaderFacts
<1>2. /\ ClientInv' /\ at'[c] = "prompt" /\ said'[c] = s
      /\ conn'[c] = conn[c] /\ made'[c] = made[c] /\ \A d \in Clients \ {c} : Stays(d)
  BY Returns DEF Posted
<1>3. PlaceInv(c)'
  BY <1>1, <1>2, PromptPlace
<1>4. made[c] \notin Conns
  BY <1>1, HereAlone
<1>5. MailInv(c)'
  BY <1>1, <1>2, <1>4 DEF MailInv
<1>6. CliReads(conn[c])
  BY DEF UdpReceive, K
<1> QED
  BY <1>1, <1>2, <1>3, <1>5, <1>6, ClientReads

(* RecvGreeting and RecvAnswer read all there is.                          *)
LEMMA ReceiveOneInv ==
    ASSUME UdpInv, NEW c \in Clients, UdpReceive(c), Posted,
           \/ RecvGreeting(c, "ok", Head(Mail(c)).op)
           \/ RecvAnswer(c, "ok")
    PROVE  UdpInv' /\ said'[c] # "saved"
<1>1. /\ Here(c) /\ conn[c] = S /\ S \in Conns /\ mail[S] # <<>>
      /\ mail[S] \in Seq(Answers)
  BY ReaderFacts
<1>2. at[c] \in {"recvGreeting", "recvAnswer"}
  BY DEF RecvGreeting, RecvAnswer
<1>3. MailInv(c)
  BY DEF UdpInv
<1>4. \/ at[c] = "recvGreeting" /\ mail[S] = <<Header("None")>> /\ pc # "SendChunk"
      \/ at[c] = "recvAnswer" /\ mail[S] = <<Answered>> /\ pc # "SendChunk"
  BY <1>1, <1>2, <1>3 DEF MailInv
<1>5. Tail(mail[S]) = <<>> /\ pc # "SendChunk"
  <2>1. \A e : Tail(<<e>>) = <<>>
    OBVIOUS
  <2> QED
    BY <1>4, <2>1
<1>6. PICK s \in {"connected", "answered"} : Return(c, s) /\ UNCHANGED local
  <2>1. CASE RecvAnswer(c, "ok")
    BY <2>1 DEF RecvAnswer
  <2>2. CASE RecvGreeting(c, "ok", Head(Mail(c)).op)
    <3>1. mail[S] = <<Header("None")>>
      BY <1>4, <2>2 DEF RecvGreeting
    <3>2. Head(Mail(c)).op = "None"
      BY <1>1, <3>1 DEF Mail, K, Header
    <3> QED
      BY <2>2, <3>2 DEF RecvGreeting
  <2> QED
    BY <2>1, <2>2
<1>7. s \in Reports \ {"closed"} /\ local \in [Clients -> [Names -> Entry]]
  BY DEF Reports, UdpInv, ClientInv
<1>8. UdpInv'
  BY <1>5, <1>6, <1>7, ReadsLast
<1>9. said'[c] = s
  <2>1. said \in [Clients -> Reports]
    BY DEF UdpInv, ClientInv
  <2> QED
    BY <1>6, <2>1 DEF Return
<1> QED
  BY <1>8, <1>9

(* RecvResponse: a file of no blocks is saved at once.                     *)
LEMMA ReceiveResponseInv ==
    ASSUME NothingRefused, UdpInv, NEW c \in Clients, UdpReceive(c), Posted,
           NEW ready, NEW total, RecvResponse(c, "ok", ready, total),
           Head(Mail(c)).t = "response" =>
              ready = Head(Mail(c)).ready /\ total = Head(Mail(c)).total
    PROVE  /\ UdpInv'
           /\ said'[c] = "saved" => local'[c][job[c].file].data = asked[conn[c]]
<1> DEFINE q == mail[S]
           u == Head(q)
           file == asked[S]
           data == local[c][job[c].file].data
<1>1. /\ Here(c) /\ Replied(c) /\ conn[c] = S /\ S \in Conns /\ mail[S] # <<>>
      /\ q \in Seq(Answers) /\ u \in Answers /\ Tail(q) \in Seq(Answers)
      /\ file \in Seq(Blocks) /\ ToSend \in Nat /\ (ToSend = 0 => pc # "SendChunk")
      /\ job[c] \in Job /\ local[c] \in [Names -> Entry]
      /\ mail'[S] = Tail(q)
  BY ReaderFacts
<1>2. at[c] = "recvResponse" /\ UNCHANGED conn /\ Posted
  BY DEF RecvResponse
<1>3. /\ u.t = "response"
      /\ IF u.ready THEN FlowsOf(file, data, ToSend, Tail(q), u.total)
                    ELSE Tail(q) = <<>> /\ pc # "SendChunk"
  <2>1. MailInv(c)
    BY DEF UdpInv
  <2> QED
    BY <1>1, <1>2, <2>1 DEF MailInv, Flows
<1>4. u.ready \in BOOLEAN /\ u.total \in Nat
  BY <1>1, <1>3 DEF Answers, Headers, Pieces
<1>5. ready = u.ready /\ total = u.total
  BY <1>1, <1>3 DEF Mail, K
<1>6. PlaceInv(c) /\ said[c] = "nothing" /\ job[c].file \in Wanted[c] /\ made[c] \notin Conns
  <2>1. PlaceInv(c)
    BY DEF UdpInv
  <2> QED
    BY <1>1, <1>2, <2>1, HereAlone DEF PlaceInv, DownloadPlaces
<1>7. /\ at \in [Clients -> UdpPlaces] /\ job \in [Clients -> Job]
      /\ local \in [Clients -> [Names -> Entry]] /\ said \in [Clients -> Reports]
  BY DEF UdpInv, ClientInv
<1>8. CASE u.ready /\ u.total > 0
  <2>1. Goto(c, "recvFile") /\ job' = [job EXCEPT ![c].left = u.total] /\ UNCHANGED <<local, said>>
    BY <1>5, <1>8 DEF RecvResponse
  <2>2. /\ at'[c] = "recvFile" /\ (\A d \in Clients \ {c} : at'[d] = at[d])
        /\ at' \in [Clients -> UdpPlaces]
    BY <1>7, <2>1 DEF Goto, UdpPlaces
  <2>3. /\ job'[c].left = u.total /\ job'[c].file = job[c].file
        /\ (\A d \in Clients \ {c} : job'[d] = job[d]) /\ job' \in [Clients -> Job]
    BY <1>4, <1>7, <2>1 DEF Job
  <2>4. ClientInv' /\ \A d \in Clients \ {c} : Stays(d)
    BY <1>2, <2>1, <2>2, <2>3 DEF UdpInv, ClientInv, Stays, Posted
  <2>5. Here(c)' /\ said'[c] = "nothing"
    BY <1>1, <1>2, <1>6, <2>1, <2>2 DEF Here
  <2>6. PlaceInv(c)'
    BY <1>2, <1>6, <2>1, <2>2, <2>3, <2>5 DEF PlaceInv, DownloadPlaces, UploadPlaces, Posted
  <2>7. MailInv(c)'
    <3>1. S' = S /\ ToSend' = ToSend /\ asked' = asked
      BY ServerStays DEF Posted
    <3>2. FlowsOf(asked'[conn'[c]], local'[c][job'[c].file].data, ToSend', mail'[conn'[c]],
                  job'[c].left)
      BY <1>1, <1>2, <1>3, <1>8, <2>1, <2>3, <3>1
    <3>3. Flows(c, mail[conn[c]], job[c].left)'
      BY <3>2 DEF Flows
    <3> QED
      BY <1>2, <1>6, <2>2, <3>3 DEF MailInv, Posted
  <2>8. CliReads(conn[c])
    BY DEF UdpReceive, K
  <2>9. UdpInv'
    BY <1>1, <2>2, <2>4, <2>5, <2>6, <2>7, <2>8, ClientReads
  <2> QED
    BY <2>5, <2>9
<1>9. CASE u.ready /\ u.total = 0
  <2>1. Tail(q) = <<>> /\ ToSend = 0 /\ data = file
    BY <1>1, <1>3, <1>9, FlowsEnd
  <2>2. Return(c, "saved") /\ UNCHANGED local
    BY <1>5, <1>9 DEF RecvResponse
  <2>3. UdpInv'
    BY <1>1, <1>7, <2>1, <2>2, ReadsLast DEF Reports
  <2> QED
    BY <1>1, <2>1, <2>2, <2>3
<1>10. CASE ~u.ready
  <2>1. FailDownload(c)
    BY <1>5, <1>10 DEF RecvResponse
  <2>2. Return(c, "failed") /\ local' = [local EXCEPT ![c][job[c].file] = NoEntry]
    BY <2>1 DEF FailDownload, RemoveSaved
  <2>3. NoEntry \in Entry
    BY DEF NoEntry, Entry
  <2>4. /\ local' \in [Clients -> [Names -> Entry]]
        /\ \A d \in Clients \ {c} : local'[d] = local[d]
        /\ \A n \in Names : n # job[c].file => local'[c][n] = local[c][n]
    BY <1>7, <2>2, <2>3
  <2>5. \A n \in Offered[c] : local'[c][n] = local[c][n]
    BY <1>6, <2>4, UdpAssumption DEF NothingRefused
  <2>6. UdpInv'
    BY <1>3, <1>10, <2>2, <2>4, <2>5, ReadsLast DEF Reports
  <2>7. said'[c] = "failed"
    BY <1>7, <2>2 DEF Return
  <2> QED
    BY <2>6, <2>7
<1> QED
  BY <1>4, <1>8, <1>9, <1>10

(* RecvFile: what is saved is all of the file, or the download goes on.    *)
LEMMA ReceiveFileInv ==
    ASSUME UdpInv, NEW c \in Clients, UdpReceive(c), Posted, NothingRefused,
           RecvFile(c, "ok", Content(Head(Mail(c)), ChunkSize(job[c].left)))
    PROVE  /\ UdpInv'
           /\ said'[c] = "saved" => local'[c][job[c].file].data = asked[conn[c]]
<1> PICK d, n : d = Head(mail[S]).blocks /\ n = job[c].left
  OBVIOUS
<1> DEFINE q == mail[S]
           file == asked[S]
           data == local[c][job[c].file].data
<1>1. /\ Here(c) /\ Replied(c) /\ conn[c] = S /\ S \in Conns /\ mail[S] # <<>>
      /\ q \in Seq(Answers) /\ Head(q) \in Answers /\ Tail(q) \in Seq(Answers)
      /\ file \in Seq(Blocks) /\ ToSend \in Nat /\ (ToSend = 0 => pc # "SendChunk")
      /\ job[c] \in Job /\ local[c] \in [Names -> Entry]
      /\ mail'[S] = Tail(q)
  BY ReaderFacts
<1>2. at[c] = "recvFile" /\ UNCHANGED conn /\ Posted
  BY DEF RecvFile
<1>3. FlowsOf(file, data, ToSend, q, n)
  <2>1. MailInv(c)
    BY DEF UdpInv
  <2> QED
    BY <1>1, <1>2, <2>1 DEF MailInv, Flows
<1>4. /\ Head(q).t = "block" /\ Len(d) \in 1..BufferSize /\ n \in Nat /\ Len(d) <= n
      /\ FlowsOf(file, data \o d, ToSend, Tail(q), n - Len(d))
  BY <1>1, <1>3, FlowsHead
<1>5. d \in Seq(Blocks) /\ BufferSize \in Nat
  BY <1>1, <1>4, ProtocolAssumption DEF Answers, Headers, Pieces
<1>6. Len(d) <= ChunkSize(n) /\ ChunkSize(n) \in Nat
  BY <1>4, <1>5 DEF ChunkSize
<1>7. Content(Head(q), ChunkSize(n)) = d
  BY <1>4, <1>5, <1>6, CutLemma DEF Content
<1>8. RecvFile(c, "ok", d)
  BY <1>1, <1>7 DEF Mail, K
<1>9. PlaceInv(c) /\ said[c] = "nothing" /\ job[c].file \in Wanted[c] /\ made[c] \notin Conns
  <2>1. PlaceInv(c)
    BY DEF UdpInv
  <2> QED
    BY <1>1, <1>2, <2>1, HereAlone DEF PlaceInv, DownloadPlaces
<1>10. /\ at \in [Clients -> UdpPlaces] /\ job \in [Clients -> Job]
       /\ local \in [Clients -> [Names -> Entry]] /\ said \in [Clients -> Reports]
       /\ job[c].file \in Names
  BY <1>1 DEF UdpInv, ClientInv, Job
<1>11. local' = [local EXCEPT ![c][job[c].file] = File(data \o d)]
  BY <1>8 DEF RecvFile
<1>12. /\ local' \in [Clients -> [Names -> Entry]]
       /\ \A e \in Clients \ {c} : local'[e] = local[e]
       /\ \A m \in Names : m # job[c].file => local'[c][m] = local[c][m]
       /\ local'[c][job[c].file].data = data \o d
  <2>1. data \in Seq(Blocks)
    BY <1>1, <1>10 DEF Entry
  <2>2. data \o d \in Seq(Blocks)
    BY <1>5, <2>1, ConcatProperties
  <2>3. File(data \o d) \in Entry /\ File(data \o d).data = data \o d
    BY <2>2 DEF File, Entry
  <2> HIDE DEF data
  <2> QED
    BY <1>10, <1>11, <2>3
<1>13. \A m \in Offered[c] : local'[c][m] = local[c][m]
  BY <1>9, <1>12, UdpAssumption DEF NothingRefused
<1>14. CASE MoreToReceive(c, d)
  <2>1. job' = [job EXCEPT ![c].left = @ - Len(d)] /\ UNCHANGED <<at, said>>
    BY <1>8, <1>14 DEF RecvFile
  <2>2. n - Len(d) \in Nat
    BY <1>4, <1>5
  <2>3. /\ job'[c].left = n - Len(d) /\ job'[c].file = job[c].file
        /\ (\A e \in Clients \ {c} : job'[e] = job[e]) /\ job' \in [Clients -> Job]
    BY <1>10, <2>1, <2>2 DEF Job
  <2>4. ClientInv' /\ \A e \in Clients \ {c} : Stays(e)
    BY <1>2, <1>12, <2>1, <2>3 DEF UdpInv, ClientInv, Stays, Posted
  <2>5. Here(c)' /\ said'[c] = "nothing" /\ at'[c] = "recvFile"
    BY <1>1, <1>2, <1>9, <2>1 DEF Here
  <2>6. PlaceInv(c)'
    BY <1>2, <1>9, <1>13, <2>1, <2>3, <2>5 DEF PlaceInv, DownloadPlaces, UploadPlaces, Posted
  <2>7. MailInv(c)'
    <3>1. S' = S /\ ToSend' = ToSend /\ asked' = asked
      BY ServerStays DEF Posted
    <3>2. FlowsOf(asked'[conn'[c]], local'[c][job'[c].file].data, ToSend', mail'[conn'[c]],
                  job'[c].left)
      BY <1>1, <1>2, <1>4, <1>12, <2>3, <3>1
    <3>3. Flows(c, mail[conn[c]], job[c].left)'
      BY <3>2 DEF Flows
    <3> QED
      BY <1>2, <1>9, <2>5, <3>3 DEF MailInv, Posted
  <2>8. CliReads(conn[c])
    BY DEF UdpReceive, K
  <2>9. UdpInv'
    BY <1>1, <2>4, <2>5, <2>6, <2>7, <2>8, ClientReads
  <2> QED
    BY <2>5, <2>9
<1>15. CASE ~MoreToReceive(c, d)
  <2>1. n - Len(d) = 0
    BY <1>4, <1>5, <1>15 DEF MoreToReceive
  <2>2. Tail(q) = <<>> /\ ToSend = 0 /\ data \o d = file
    BY <1>1, <1>4, <2>1, FlowsEnd
  <2>3. Return(c, "saved")
    BY <1>8, <1>15 DEF RecvFile
  <2>4. UdpInv'
    BY <1>1, <1>12, <1>13, <2>2, <2>3, ReadsLast DEF Reports
  <2> QED
    BY <1>1, <1>12, <2>2, <2>4
<1> QED
  BY <1>14, <1>15

(* UdpReceive preserves the invariant, and saves only whole files.         *)
LEMMA UdpReceiveInv ==
    ASSUME NothingRefused, UdpInv, NEW c \in Clients, UdpReceive(c),
           UNCHANGED <<serverVars, lost, asked>>
    PROVE  /\ UdpInv'
           /\ said'[c] = "saved" => local'[c][job[c].file].data = asked[conn[c]]
<1>1. Posted
  BY DEF UdpReceive, Posted, RecvGreeting, RecvResponse, RecvFile, RecvAnswer
<1>2. ASSUME NEW ready, NEW total, RecvResponse(c, "ok", ready, total),
             Head(Mail(c)).t = "response" =>
                ready = Head(Mail(c)).ready /\ total = Head(Mail(c)).total
      PROVE  /\ UdpInv'
             /\ said'[c] = "saved" => local'[c][job[c].file].data = asked[conn[c]]
  BY <1>1, <1>2, ReceiveResponseInv
<1> QED
  BY <1>1, <1>2, ReceiveOneInv, ReceiveFileInv DEF UdpReceive

-----------------------------------------------------------------------------
(* The users.                                                              *)
LEMMA IdleFacts ==
    ASSUME UdpInv, NEW c \in Clients, at[c] \in {"prompt", "dead"}
    PROVE  /\ PlaceInv(c) /\ made[c] \notin Conns
           /\ conn[c] \in Conns => mail[conn[c]] = <<>> /\ ~Replied(c)
           /\ Here(c) <=> AtIt(c)
<1>1. PlaceInv(c) /\ MailInv(c)
  BY DEF UdpInv
<1>2. made[c] \notin Conns
  BY <1>1 DEF PlaceInv
<1>3. conn[c] \in Conns => mail[conn[c]] = <<>> /\ ~Replied(c)
  BY <1>1 DEF MailInv, Replied
<1>4. Here(c) <=> AtIt(c)
  BY DEF Here, AtIt, K
<1> QED
  BY <1>1, <1>2, <1>3, <1>4

(* Nobody's place at the server changes.                                   *)
HoldsOn(d) ==
    /\ Stays(d)
    /\ conn[d] \in Conns => mail'[conn[d]] = mail[conn[d]]
    /\ made[d] \in Conns => mail'[made[d]] = mail[made[d]]

(* ... so the letters lead where they did.                                 *)
LEMMA ChainStays ==
    ASSUME UdpInv, UNCHANGED <<serverVars, inbox, asked>>,
           \A d \in Clients : HoldsOn(d) \/ (conn'[d] \notin Conns /\ made'[d] \notin Conns)
    PROVE  ChainInv'
<1>1. /\ \A x : Wants(x) => Wants(x)'
      /\ S' = S /\ pc' = pc /\ ToSend' = ToSend
  BY ServerStays
<1>2. PICK x, y : Wants(x) /\ Leads(S, inbox, x, y) /\ Ends(y)
  BY DEF UdpInv, ChainInv
<1>3. Attended(y) => Attended(y)'
  BY <1>1 DEF Attended
<1>4. Ends(y)'
  <2> SUFFICES ASSUME NEW d \in Clients
               PROVE  /\ Here(d)' => Serves(conn[d])' /\ IF Replied(d)' THEN Attended(y)'
                                                                       ELSE Gives(d, y)'
                      /\ conn[d]' \in Conns /\ ~Here(d)' /\ Serves(conn[d])' => y = Over
                      /\ made[d]' \in Conns /\ Serves(made[d])' => y = WantMac
    BY DEF Ends
  <2>1. CASE HoldsOn(d)
    <3>1. conn'[d] = conn[d] /\ made'[d] = made[d]
      BY <2>1 DEF HoldsOn, Stays
    <3>2. /\ Here(d)' <=> Here(d)
          /\ Here(d) => (Replied(d)' <=> Replied(d))
          /\ Gives(d, y)' <=> Gives(d, y)
          /\ Serves(conn[d])' <=> Serves(conn[d])
          /\ Serves(made[d])' <=> Serves(made[d])
      BY <2>1, ClientStays DEF HoldsOn
    <3>3. /\ Here(d) => Serves(conn[d]) /\ IF Replied(d) THEN Attended(y) ELSE Gives(d, y)
          /\ conn[d] \in Conns /\ ~Here(d) /\ Serves(conn[d]) => y = Over
          /\ made[d] \in Conns /\ Serves(made[d]) => y = WantMac
      BY <1>2 DEF Ends
    <3> QED
      BY <1>3, <3>1, <3>2, <3>3
  <2>2. CASE conn'[d] \notin Conns /\ made'[d] \notin Conns
    <3>1. ~Here(d)'
      BY <2>2 DEF Here
    <3> QED
      BY <2>2, <3>1
  <2> QED
    BY <2>1, <2>2
<1>5. Leads(S', inbox', x, y)
  BY <1>1, <1>2
<1> QED
  BY <1>1, <1>2, <1>4, <1>5 DEF ChainInv

(* The user's next command: the client at the prompt has nothing to read.  *)
LEMMA UserTurns ==
    ASSUME UdpInv, NEW c \in Clients, at[c] = "prompt", AtIt(c),
           at'[c] \in {"downloadHeader", "uploadHeader", "askHeader", "sendClose"},
           UNCHANGED <<serverVars, inbox, mail, made, lost, asked, conn>>,
           said'[c] = "nothing", \A d \in Clients \ {c} : Stays(d), ClientInv',
           Here(c)' => PlaceInv(c)'
    PROVE  UdpInv'
<1>1. Here(c) /\ made[c] \notin Conns /\ conn[c] \in Conns /\ mail[conn[c]] = <<>> /\ ~Replied(c)
  BY IdleFacts DEF Here
<1>2. /\ conn[c] = S /\ S \in Conns /\ pc # "Listen"
      /\ \A d \in Clients : /\ made[d] \notin Conns
                            /\ d # c => ~AtIt(d) /\ ~Here(d) /\ conn[d] # S
      /\ \A i \in 1..Len(inbox) : inbox[i].unit # ConnectMagic
  BY <1>1, HereAlone
<1>3. ServerInv' /\ (\A x : Wants(x) => Wants(x)') /\ S' = S /\ pc' = pc
      /\ clients' = clients
  BY ServerStays
<1>4. PostInv'
  BY DEF UdpInv, PostInv
<1>5. ASSUME NEW d \in Clients, d # c
      PROVE  PlaceInv(d)' /\ MailInv(d)' /\ ~Here(d)' /\ ~AtIt(d)'
  BY <1>2, <1>5, ClientStays
<1>6. Here(c)' /\ PlaceInv(c)'
  BY <1>1 DEF Here
<1>7. MailInv(c)'
  BY <1>1 DEF MailInv
<1>8. TurnInv'
  BY <1>5 DEF UdpInv, TurnInv
<1>9. AddressInv'
  <2>1. \A k \in Conns : ~Bound(k)' => mail[k]' = <<>>
    BY DEF UdpInv, AddressInv, Bound
  <2> QED
    BY <1>2, <2>1 DEF AddressInv
<1>10. ChainInv'
  <2>1. PICK x, y : Wants(x) /\ Leads(S, inbox, x, y) /\ Ends(y)
    BY DEF UdpInv, ChainInv
  <2>2. Gives(c, y)
    BY <1>1, <2>1 DEF Ends
  <2>3. Gives(c, y)'
    BY <2>2 DEF Gives
  <2>4. Ends(y)'
    <3> SUFFICES ASSUME NEW d \in Clients
                 PROVE  /\ Here(d)' => Serves(conn[d])' /\ IF Replied(d)' THEN Attended(y)'
                                                                         ELSE Gives(d, y)'
                        /\ conn[d]' \in Conns /\ ~Here(d)' /\ Serves(conn[d])' => y = Over
                        /\ made[d]' \notin Conns
      BY DEF Ends
    <3>1. made[d]' \notin Conns
      BY <1>2
    <3>2. CASE d = c
      <4>1. ~Replied(d)' /\ Serves(conn[d])'
        BY <1>1, <1>2, <1>3, <3>2 DEF Replied, Serves
      <4> QED
        BY <1>6, <2>3, <3>1, <3>2, <4>1
    <3>3. CASE d # c
      <4>1. ~Here(d)' /\ ~Serves(conn[d])'
        BY <1>2, <1>3, <1>5, <3>3 DEF Serves
      <4> QED
        BY <3>1, <4>1
    <3> QED
      BY <3>2, <3>3
  <2> QED
    BY <1>3, <2>1, <2>4 DEF ChainInv
<1> QED
  BY <1>3, <1>4, <1>5, <1>6, <1>7, <1>8, <1>9, <1>10 DEF UdpInv

(* The job that a command begins.                                          *)
LEMMA Begins ==
    ASSUME UdpInv, NEW c \in Clients, NEW p \in UdpPlaces, NEW j \in Job, Goto(c, p),
           job' = [job EXCEPT ![c] = j], said' = [said EXCEPT ![c] = "nothing"],
           UNCHANGED <<conn, made>>, local' \in [Clients -> [Names -> Entry]],
           \A d \in Clients \ {c} : local'[d] = local[d]
    PROVE  /\ ClientInv' /\ at'[c] = p /\ job'[c] = j /\ said'[c] = "nothing"
           /\ \A d \in Clients \ {c} : Stays(d)
<1>1. /\ at \in [Clients -> UdpPlaces] /\ job \in [Clients -> Job]
      /\ said \in [Clients -> Reports] /\ "nothing" \in Reports
  BY DEF UdpInv, ClientInv, Reports
<1>2. /\ at'[c] = p /\ (\A d \in Clients \ {c} : at'[d] = at[d])
      /\ at' \in [Clients -> UdpPlaces]
  BY <1>1 DEF Goto
<1>3. /\ job'[c] = j /\ (\A d \in Clients \ {c} : job'[d] = job[d])
      /\ job' \in [Clients -> Job]
  BY <1>1
<1>4. /\ said'[c] = "nothing" /\ (\A d \in Clients \ {c} : said'[d] = said[d])
      /\ said' \in [Clients -> Reports]
  BY <1>1
<1>5. ClientInv'
  BY <1>2, <1>3, <1>4 DEF UdpInv, ClientInv
<1> QED
  BY <1>2, <1>3, <1>4, <1>5 DEF Stays

(* The commands preserve the invariant.                                    *)
LEMMA UdpCommandInv ==
    ASSUME NothingRefused, UdpInv, NEW c \in Clients, AtIt(c),
           \/ \E name \in Wanted[c] : DownloadCmd(c, name, TRUE)
           \/ \E name \in Offered[c] : UploadCmd(c, name)
           \/ \E op \in Asks[c] : AskCmd(c, op)
           \/ CloseCmd(c),
           UNCHANGED <<serverVars, inbox, mail, made, lost, asked>>
    PROVE  UdpInv'
<1>1. /\ at[c] = "prompt" /\ UNCHANGED <<conn, made>>
  BY DEF DownloadCmd, StartDownload, UploadCmd, AskCmd, CloseCmd
<1>2. PlaceInv(c) /\ made[c] \notin Conns
  BY <1>1, IdleFacts
<1>3. local \in [Clients -> [Names -> Entry]] /\ SomeName \in Names
  BY NoneLemma DEF UdpInv, ClientInv
<1>5. ASSUME NEW name \in Wanted[c], DownloadCmd(c, name, TRUE) PROVE UdpInv'
  <2> DEFINE j == [Idle EXCEPT !.op = "Download", !.file = name, !.start = 0]
  <2>1. /\ Goto(c, "downloadHeader") /\ job' = [job EXCEPT ![c] = j]
        /\ local' = [local EXCEPT ![c][name] = File(<<>>)]
        /\ said' = [said EXCEPT ![c] = "nothing"]
    BY <1>5 DEF DownloadCmd, StartDownload
  <2>2. name \in Names /\ \A n \in Offered[c] : n \in Names /\ n # name
    BY UdpAssumption DEF NothingRefused
  <2>3. j \in Job /\ j.file = name
    BY <2>2 DEF Idle, Job, Opcodes
  <2>4. File(<<>>) \in Entry /\ File(<<>>).data = <<>>
    BY DEF File, Entry
  <2>5. /\ local' \in [Clients -> [Names -> Entry]]
        /\ \A d \in Clients \ {c} : local'[d] = local[d]
        /\ \A n \in Names : n # name => local'[c][n] = local[c][n]
        /\ local'[c][name].data = <<>>
    BY <1>3, <2>1, <2>2, <2>4
  <2> HIDE DEF j
  <2>6. /\ ClientInv' /\ at'[c] = "downloadHeader" /\ job'[c] = j /\ said'[c] = "nothing"
        /\ \A d \in Clients \ {c} : Stays(d)
    BY <1>1, <2>1, <2>3, <2>5, Begins DEF UdpPlaces
  <2>7. Here(c)' => PlaceInv(c)'
    BY <1>1, <1>2, <2>2, <2>3, <2>5, <2>6 DEF PlaceInv, DownloadPlaces, UploadPlaces
  <2> QED
    BY <1>1, <2>6, <2>7, UserTurns
<1>6. ASSUME NEW name \in Offered[c], UploadCmd(c, name) PROVE UdpInv'
  <2> DEFINE j == [Idle EXCEPT !.op = "Upload", !.file = name, !.left = Len(local[c][name].data)]
  <2>1. /\ Goto(c, "uploadHeader") /\ job' = [job EXCEPT ![c] = j] /\ local[c][name].kind = "file"
        /\ said' = [said EXCEPT ![c] = "nothing"] /\ UNCHANGED local
    BY <1>6 DEF UploadCmd
  <2>2. name \in Names
    BY UdpAssumption
  <2>3. local[c][name].data \in Seq(Blocks) /\ local[c][name].data # <<>>
    BY <1>2, <1>3, <2>1, <2>2 DEF PlaceInv, Entry
  <2>4. Len(local[c][name].data) \in Nat \ {0}
    BY <2>3, LenProperties, EmptySeq
  <2>5. j \in Job /\ j.file = name /\ j.left = Len(local[c][name].data)
    BY <2>2, <2>4 DEF Idle, Job, Opcodes
  <2> HIDE DEF j
  <2>6. /\ ClientInv' /\ at'[c] = "uploadHeader" /\ job'[c] = j /\ said'[c] = "nothing"
        /\ \A d \in Clients \ {c} : Stays(d)
    BY <1>1, <1>3, <2>1, <2>5, Begins DEF UdpPlaces
  <2>7. Here(c)' => PlaceInv(c)'
    BY <1>1, <1>2, <2>1, <2>4, <2>5, <2>6 DEF PlaceInv, DownloadPlaces, UploadPlaces
  <2> QED
    BY <1>1, <2>6, <2>7, UserTurns
<1>7. ASSUME NEW op, AskCmd(c, op) PROVE UdpInv'
  <2> DEFINE j == [Idle EXCEPT !.op = op]
  <2>1. /\ Goto(c, "askHeader") /\ job' = [job EXCEPT ![c] = j] /\ op \in {"Echo", "Time"}
        /\ said' = [said EXCEPT ![c] = "nothing"] /\ UNCHANGED local
    BY <1>7 DEF AskCmd
  <2>2. j \in Job /\ j.op = op
    BY <1>3, <2>1 DEF Idle, Job, Opcodes
  <2> HIDE DEF j
  <2>3. /\ ClientInv' /\ at'[c] = "askHeader" /\ job'[c] = j /\ said'[c] = "nothing"
        /\ \A d \in Clients \ {c} : Stays(d)
    BY <1>1, <1>3, <2>1, <2>2, Begins DEF UdpPlaces
  <2>4. Here(c)' => PlaceInv(c)'
    BY <1>1, <1>2, <2>1, <2>2, <2>3 DEF PlaceInv, DownloadPlaces, UploadPlaces
  <2> QED
    BY <1>1, <2>3, <2>4, UserTurns
<1>8. ASSUME CloseCmd(c) PROVE UdpInv'
  <2> DEFINE j == [Idle EXCEPT !.op = "Close"]
  <2>1. /\ Goto(c, "sendClose") /\ job' = [job EXCEPT ![c] = j]
        /\ said' = [said EXCEPT ![c] = "nothing"] /\ UNCHANGED local
    BY <1>8 DEF CloseCmd
  <2>2. j \in Job
    BY <1>3 DEF Idle, Job, Opcodes
  <2> HIDE DEF j
  <2>3. /\ ClientInv' /\ at'[c] = "sendClose" /\ job'[c] = j /\ said'[c] = "nothing"
        /\ \A d \in Clients \ {c} : Stays(d)
    BY <1>1, <1>3, <2>1, <2>2, Begins DEF UdpPlaces
  <2>4. Here(c)' => PlaceInv(c)'
    BY <1>1, <1>2, <2>1, <2>3 DEF PlaceInv, DownloadPlaces, UploadPlaces
  <2> QED
    BY <1>1, <2>3, <2>4, UserTurns
<1> QED
  BY <1>5, <1>6, <1>7, <1>8

-----------------------------------------------------------------------------
(* Users connect.                                                          *)

(* UdpConnect preserves the invariant.                                     *)
LEMMA UdpConnectInv ==
    ASSUME UdpInv, NEW c \in Clients, \A other \in Clients : ~AtIt(other), UdpConnect(c),
           dropped' = {}, UNCHANGED <<serverVars, lost, asked>>
    PROVE  UdpInv'
<1>1. PICK k \in Conns :
          /\ ~Bound(k) /\ \A i \in 1..Len(clients) : clients[i].conn # k
          /\ \A i \in 1..Len(inbox) : inbox[i].from # k
          /\ made' = [made EXCEPT ![c] = k]
          /\ CliSend(k, ConnectMagic)
  BY DEF UdpConnect
<1>2. /\ at[c] = "prompt" /\ Goto(c, "recvAccept") /\ said' = [said EXCEPT ![c] = "nothing"]
      /\ UNCHANGED <<conn, job, local, mail, serverVars, lost, asked>>
  BY DEF UdpConnect
<1>3. ASSUME NEW d \in Clients PROVE ~Here(d) /\ made[d] \notin Conns /\ at[d] \in {"prompt", "dead"}
  <2>1. at[d] \in {"prompt", "dead"}
    BY DEF AtIt
  <2> QED
    BY <2>1, IdleFacts
<1>4. /\ at \in [Clients -> UdpPlaces] /\ made \in [Clients -> Conns \cup {"null"}]
      /\ said \in [Clients -> Reports]
  BY DEF UdpInv, ClientInv
<1>5. /\ at'[c] = "recvAccept" /\ made'[c] = k /\ said'[c] = "nothing"
      /\ \A d \in Clients \ {c} : at'[d] = at[d] /\ made'[d] = made[d] /\ said'[d] = said[d]
      /\ ClientInv'
  <2>1. at' \in [Clients -> UdpPlaces] /\ said' \in [Clients -> Reports]
    BY <1>2, <1>4 DEF Goto, UdpPlaces, Reports
  <2> QED
    BY <1>1, <1>2, <1>4, <2>1 DEF Goto, UdpInv, ClientInv
<1>6. ServerInv' /\ (\A x : Wants(x) => Wants(x)') /\ S' = S /\ pc' = pc
      /\ clients' = clients
  BY <1>2, ServerStays
<1> DEFINE letter == [from |-> k, unit |-> ConnectMagic]
<1>7. /\ inbox \in Seq(Letter) /\ letter \in Letter /\ inbox' = Append(inbox, letter)
  BY <1>1, ServedFacts, SentWhole DEF Letter, Request, ConnectMagic
<1>8. /\ inbox' \in Seq(Letter) /\ Len(inbox') = Len(inbox) + 1 /\ Len(inbox) \in Nat
      /\ inbox'[Len(inbox) + 1] = letter /\ \A i \in 1..Len(inbox) : inbox'[i] = inbox[i]
      /\ \A i \in 1..Len(inbox) : inbox[i].from \in Conns
  <2>1. \A i \in 1..Len(inbox) : inbox[i] \in Letter
    BY <1>7, ElementOfSeq
  <2> QED
    BY <1>7, <2>1, AppendProperties, LenProperties DEF Letter
<1>9. PostInv'
  BY <1>2, <1>8 DEF UdpInv, PostInv
<1>10. ASSUME NEW d \in Clients, d # c PROVE PlaceInv(d)' /\ MailInv(d)' /\ ~Here(d)' /\ ~AtIt(d)'
  <2>1. Stays(d)
    BY <1>2, <1>5, <1>10 DEF Stays
  <2> QED
    BY <1>2, <1>3, <2>1, ClientStays
<1>11. PlaceInv(c)'
  <2>1. PlaceInv(c)
    BY DEF UdpInv
  <2> QED
    BY <1>2, <1>5, <2>1 DEF PlaceInv, DownloadPlaces, UploadPlaces
<1>12. ~Serves(k) /\ ~Serves(k)'
  <2>1. pc # "Listen" => S # k
    BY <1>1, ServedFacts DEF S, Me
  <2> QED
    BY <1>6, <2>1 DEF Serves
<1>13. MailInv(c)'
  <2>1. mail[k] = <<>>
    BY <1>1 DEF UdpInv, AddressInv
  <2>2. conn[c] \in Conns => mail[conn[c]] = <<>>
    BY <1>3, IdleFacts
  <2>3. mail'[made'[c]] = <<>> /\ ~Serves(made[c])'
    BY <1>2, <1>5, <1>12, <2>1 DEF Serves
  <2> QED
    BY <1>2, <1>5, <2>2, <2>3 DEF MailInv
<1>14. TurnInv'
  <2>1. \A d, e \in Clients : AtIt(d)' /\ AtIt(e)' => d = e
    BY <1>10
  <2>2. \A d \in Clients : conn[d] # k
    BY <1>1 DEF Bound
  <2>3. \A d, e \in Clients : conn'[d] \in Conns => conn'[d] # made'[e] /\ (conn'[d] = conn'[e] => d = e)
    BY <1>2, <1>5, <2>2 DEF UdpInv, TurnInv
  <2> QED
    BY <2>1, <2>3 DEF TurnInv
<1>15. AddressInv'
  <2>1. \A j \in Conns : ~Bound(j)' => mail'[j] = <<>>
    <3>1. \A j \in Conns : ~Bound(j)' => ~Bound(j)
      BY <1>2, <1>3, <1>5 DEF Bound
    <3> QED
      BY <1>2, <3>1 DEF UdpInv, AddressInv
  <2> SUFFICES ASSUME NEW i \in 1..Len(inbox'), inbox'[i].unit = ConnectMagic
               PROVE  /\ \A j \in 1..Len(clients') : clients'[j].conn # inbox'[i].from
                      /\ \A j \in 1..Len(inbox') : inbox'[j].from = inbox'[i].from => j = i
                      /\ \A d \in Clients : /\ conn'[d] # inbox'[i].from
                                            /\ made'[d] = inbox'[i].from => i = Len(inbox')
    BY <2>1 DEF AddressInv
  <2>2. CASE i \in 1..Len(inbox)
    <3>1. inbox'[i] = inbox[i] /\ inbox[i].from \in Conns /\ inbox[i].from # k
      BY <1>1, <1>8, <2>2
    <3>2. /\ \A j \in 1..Len(clients) : clients[j].conn # inbox[i].from
          /\ \A j \in 1..Len(inbox) : inbox[j].from = inbox[i].from => j = i
          /\ \A d \in Clients : conn[d] # inbox[i].from
      BY <2>2, <3>1 DEF UdpInv, AddressInv
    <3>3. \A j \in 1..Len(inbox') : inbox'[j].from = inbox'[i].from => j = i
      BY <1>8, <3>1, <3>2
    <3>4. \A d \in Clients : made'[d] # inbox[i].from
      BY <1>3, <1>5, <3>1
    <3> QED
      BY <1>2, <1>6, <3>1, <3>2, <3>3, <3>4
  <2>3. CASE i = Len(inbox) + 1
    <3>1. inbox'[i].from = k
      BY <1>8, <2>3
    <3>2. \A j \in 1..Len(inbox') : inbox'[j].from = k => j = i
      BY <1>1, <1>8, <2>3
    <3>3. \A d \in Clients : conn'[d] # k
      BY <1>1, <1>2 DEF Bound
    <3> QED
      BY <1>1, <1>6, <1>8, <2>3, <3>1, <3>2, <3>3
  <2> QED
    BY <1>8, <2>2, <2>3
<1>16. ChainInv'
  <2>1. PICK x, y : Wants(x) /\ Leads(S, inbox, x, y) /\ Ends(y)
    BY DEF UdpInv, ChainInv
  <2>2. PICK z : z = IF y = Over THEN Over ELSE Lost
    OBVIOUS
  <2>3. Follows(S, letter, y, z)
    BY <2>2 DEF Follows
  <2>4. Leads(S', inbox', x, z)
    BY <1>6, <1>7, <2>1, <2>3, LeadsFurther
  <2>5. Ends(z)'
    <3> SUFFICES ASSUME NEW d \in Clients
                 PROVE  /\ ~Here(d)'
                        /\ conn[d]' \in Conns /\ Serves(conn[d])' => z = Over
                        /\ ~(made[d]' \in Conns /\ Serves(made[d])')
      BY DEF Ends
    <3>1. ~Here(d)'
      BY <1>5, <1>10 DEF Here
    <3>2. conn[d]' \in Conns /\ Serves(conn[d])' => z = Over
      <4>1. Serves(conn[d])' => Serves(conn[d])
        BY <1>2, <1>6 DEF Serves
      <4> QED
        BY <1>2, <1>3, <2>1, <2>2, <4>1 DEF Ends
    <3>3. ~(made[d]' \in Conns /\ Serves(made[d])')
      <4>1. d # c => made'[d] \notin Conns
        BY <1>3, <1>5
      <4>2. d = c => ~Serves(made[d])'
        BY <1>5, <1>12 DEF Serves
      <4> QED
        BY <4>1, <4>2
    <3> QED
      BY <3>1, <3>2, <3>3
  <2> QED
    BY <1>6, <2>1, <2>4, <2>5 DEF ChainInv
<1> QED
  BY <1>5, <1>6, <1>9, <1>10, <1>11, <1>13, <1>14, <1>15, <1>16 DEF UdpInv

(* UdpAccepted preserves the invariant.                                    *)
LEMMA UdpAcceptedInv ==
    ASSUME UdpInv, NEW c \in Clients, UdpAccepted(c), UNCHANGED <<serverVars, lost, asked>>
    PROVE  UdpInv'
<1>1. /\ at[c] = "recvAccept" /\ mail[made[c]] # <<>>
      /\ mail' = [k \in Conns |-> CASE k = made[c] -> Tail(mail[k])
                                    [] k = conn[c] -> <<>>
                                    [] OTHER -> mail[k]]
      /\ conn' = [conn EXCEPT ![c] = made[c]]
      /\ made' = [made EXCEPT ![c] = "null"]
      /\ Goto(c, "sendMac")
      /\ UNCHANGED <<job, local, said, inbox, serverVars, lost, asked>>
  BY DEF UdpAccepted
<1>2. PlaceInv(c) /\ MailInv(c)
  BY DEF UdpInv
<1>3. made[c] \in Conns /\ said[c] = "nothing" /\ AtIt(c)
  BY <1>1, <1>2 DEF PlaceInv, AtIt
<1>4. mail[made[c]] = <<AcceptMagic>> /\ Serves(made[c])
  BY <1>1, <1>2, <1>3 DEF MailInv
<1>5. ASSUME NEW d \in Clients, d # c
      PROVE  ~AtIt(d) /\ ~Here(d) /\ made[d] \notin Conns /\ conn[d] # made[c]
             /\ (conn[d] \in Conns => conn[d] # conn[c])
  <2>1. ~AtIt(d)
    BY <1>3, <1>5 DEF UdpInv, TurnInv
  <2>2. at[d] \in {"prompt", "dead"}
    BY <2>1 DEF AtIt
  <2>3. ~Here(d) /\ made[d] \notin Conns
    BY <2>1, <2>2, IdleFacts
  <2> QED
    BY <1>3, <1>5, <2>1, <2>3 DEF UdpInv, TurnInv
<1>6. "null" \notin Conns
  BY ClientAssumption DEF NoSocket
<1>7. /\ at'[c] = "sendMac" /\ conn'[c] = made[c] /\ made'[c] = "null"
      /\ \A d \in Clients \ {c} : Stays(d)
      /\ ClientInv'
  <2>1. /\ at \in [Clients -> UdpPlaces] /\ conn \in [Clients -> Conns \cup {"null"}]
        /\ made \in [Clients -> Conns \cup {"null"}]
    BY DEF UdpInv, ClientInv
  <2>2. at' \in [Clients -> UdpPlaces] /\ at'[c] = "sendMac" /\ \A d \in Clients \ {c} : at'[d] = at[d]
    BY <1>1, <2>1 DEF Goto, UdpPlaces
  <2>3. /\ conn' \in [Clients -> Conns \cup {"null"}] /\ made' \in [Clients -> Conns \cup {"null"}]
        /\ conn'[c] = made[c] /\ made'[c] = "null"
        /\ \A d \in Clients \ {c} : conn'[d] = conn[d] /\ made'[d] = made[d]
    BY <1>1, <1>3, <2>1
  <2> QED
    BY <1>1, <2>2, <2>3 DEF UdpInv, ClientInv, Stays
<1>8. /\ mail' \in [Conns -> Seq(Answers)] /\ mail'[made[c]] = <<>>
      /\ conn[c] \in Conns => mail'[conn[c]] = <<>>
      /\ \A k \in Conns : k # made[c] /\ k # conn[c] => mail'[k] = mail[k]
  <2>1. mail \in [Conns -> Seq(Answers)] /\ <<>> \in Seq(Answers) /\ Tail(<<AcceptMagic>>) = <<>>
    BY DEF UdpInv, PostInv
  <2>2. conn[c] \in Conns => conn[c] # made[c]
    BY DEF UdpInv, TurnInv
  <2>3. \A k \in Conns : Tail(mail[made[c]]) = <<>>
    BY <1>4, <2>1
  <2>4. \A k \in Conns : mail'[k] = IF k = made[c] THEN <<>> ELSE
                                    IF k = conn[c] THEN <<>> ELSE mail[k]
    BY <1>1, <1>3, <2>3
  <2>5. mail' \in [Conns -> Seq(Answers)]
    <3>1. \A k \in Conns : mail'[k] \in Seq(Answers)
      BY <2>1, <2>4
    <3>2. mail' = [k \in Conns |-> mail'[k]]
      BY <1>1
    <3> QED
      BY <3>1, <3>2
  <2> QED
    BY <1>3, <2>2, <2>4, <2>5
<1>9. ServerInv' /\ (\A x : Wants(x) => Wants(x)') /\ S' = S /\ pc' = pc
      /\ clients' = clients
  BY <1>1, ServerStays
<1>10. PostInv'
  BY <1>1, <1>8 DEF UdpInv, PostInv
<1>11. PICK x, y : Wants(x) /\ Leads(S, inbox, x, y) /\ Ends(y)
  BY DEF UdpInv, ChainInv
<1>12. y = WantMac /\ inbox = <<>> /\ x = WantMac
  <2>1. y = WantMac
    BY <1>3, <1>4, <1>11 DEF Ends
  <2> QED
    BY <1>11, <2>1, MacLeads, ServedFacts
<1>13. Here(c)'
  BY <1>1, <1>3, <1>7 DEF Here
<1>14. PlaceInv(c)'
  BY <1>1, <1>2, <1>6, <1>7, <1>13 DEF PlaceInv, DownloadPlaces, UploadPlaces
<1>15. MailInv(c)'
  BY <1>3, <1>6, <1>7, <1>8 DEF MailInv
<1>16. ASSUME NEW d \in Clients, d # c PROVE PlaceInv(d)' /\ MailInv(d)' /\ ~Here(d)' /\ ~AtIt(d)'
  <2>1. conn[d] \in Conns => mail'[conn[d]] = mail[conn[d]]
    BY <1>5, <1>8, <1>16
  <2> QED
    BY <1>1, <1>5, <1>7, <1>16, <2>1, ClientStays
<1>17. TurnInv'
  <2>1. \A d, e \in Clients : AtIt(d)' /\ AtIt(e)' => d = e
    BY <1>16
  <2>2. \A d \in Clients : made'[d] \notin Conns
    BY <1>5, <1>6, <1>7 DEF Stays
  <2>3. \A d, e \in Clients : conn'[d] \in Conns => (conn'[d] = conn'[e] => d = e)
    BY <1>5, <1>7 DEF UdpInv, TurnInv, Stays
  <2> QED
    BY <2>1, <2>2, <2>3 DEF TurnInv
<1>18. AddressInv'
  <2>1. inbox' = <<>> /\ 1..Len(<<>>) = {}
    BY <1>1, <1>12
  <2>2. ASSUME NEW k \in Conns, ~Bound(k)' PROVE mail'[k] = <<>>
    <3>1. k # made[c]
      BY <1>7, <2>2 DEF Bound
    <3>2. CASE k = conn[c]
      BY <1>8, <3>2
    <3>3. CASE k # conn[c]
      <4>1. ~Bound(k)
        BY <1>7, <2>2, <3>1, <3>3 DEF Bound, Stays
      <4> QED
        BY <1>8, <3>1, <3>3, <4>1 DEF UdpInv, AddressInv
    <3> QED
      BY <3>2, <3>3
  <2> QED
    BY <2>1, <2>2 DEF AddressInv
<1>19. ChainInv'
  <2>1. Ends(y)'
    <3> SUFFICES ASSUME NEW d \in Clients
                 PROVE  /\ Here(d)' => Serves(conn[d])' /\ IF Replied(d)' THEN Attended(y)'
                                                                         ELSE Gives(d, y)'
                        /\ conn[d]' \in Conns /\ ~Here(d)' /\ Serves(conn[d])' => y = Over
                        /\ made[d]' \notin Conns
      BY DEF Ends
    <3>1. made[d]' \notin Conns
      BY <1>5, <1>6, <1>7 DEF Stays
    <3>2. CASE d = c
      <4>1. Serves(conn[d])' /\ ~Replied(d)'
        BY <1>4, <1>7, <1>8, <1>9, <3>2 DEF Serves, Replied
      <4>2. Gives(d, y)'
        BY <1>7, <1>12, <3>2 DEF Gives
      <4> QED
        BY <1>13, <3>1, <3>2, <4>1, <4>2
    <3>3. CASE d # c
      <4>1. ~Serves(conn[d])'
        BY <1>4, <1>5, <1>7, <1>9, <3>3 DEF Serves, Stays
      <4> QED
        BY <1>16, <3>1, <3>3, <4>1
    <3> QED
      BY <3>2, <3>3
  <2> QED
    BY <1>1, <1>9, <1>11, <2>1 DEF ChainInv
<1> QED
  BY <1>7, <1>9, <1>10, <1>14, <1>15, <1>16, <1>17, <1>18, <1>19 DEF UdpInv

-----------------------------------------------------------------------------
(* Users are killed, and start again.                                      *)

(* StartClient preserves the invariant.                                    *)
LEMMA StartClientInv ==
    ASSUME UdpInv, NEW c \in Clients, StartClient(c),
           UNCHANGED <<serverVars, inbox, mail, made, lost, asked>>
    PROVE  UdpInv'
<1>1. /\ at[c] = "dead" /\ Goto(c, "prompt")
      /\ UNCHANGED <<conn, job, local, said, serverVars, inbox, mail, made, lost, asked>>
  BY DEF StartClient
<1>2. /\ PlaceInv(c) /\ made[c] \notin Conns /\ conn[c] = "null" /\ "null" \notin Conns
  BY <1>1, IdleFacts, ClientAssumption DEF PlaceInv, NoSocket
<1>3. /\ ClientInv' /\ at'[c] = "prompt" /\ \A d \in Clients \ {c} : Stays(d)
  BY <1>1, Goes DEF UdpPlaces
<1>4. ServerInv' /\ S' = S /\ pc' = pc
  BY <1>1, ServerStays
<1>5. \A d \in Clients \ {c} : HoldsOn(d)
  BY <1>1, <1>3 DEF HoldsOn
<1>6. conn'[c] \notin Conns /\ made'[c] \notin Conns
  BY <1>1, <1>2
<1>7. ChainInv'
  BY <1>1, <1>5, <1>6, ChainStays
<1>8. ASSUME NEW d \in Clients, d # c PROVE PlaceInv(d)' /\ MailInv(d)' /\ (AtIt(d)' <=> AtIt(d))
  BY <1>1, <1>5, <1>8, ClientStays DEF HoldsOn
<1>9. PlaceInv(c)'
  BY <1>1, <1>2, <1>3, PromptPlace
<1>10. MailInv(c)'
  BY <1>6 DEF MailInv
<1>11. ~AtIt(c)'
  BY <1>3, <1>6 DEF AtIt, K
<1>12. TurnInv'
  BY <1>1, <1>8, <1>11 DEF UdpInv, TurnInv
<1>13. AddressInv'
  <2>1. UNCHANGED <<clients, mail, inbox, conn, made>>
    BY <1>1 DEF serverVars
  <2> QED
    BY <2>1 DEF UdpInv, AddressInv, Bound
<1>14. PostInv'
  BY <1>1 DEF UdpInv, PostInv
<1> QED
  BY <1>3, <1>4, <1>7, <1>8, <1>9, <1>10, <1>12, <1>13, <1>14 DEF UdpInv

(* UdpKillClient preserves the invariant: what was sent stays where it is. *)
LEMMA UdpKillInv ==
    ASSUME NothingRefused, UdpInv, NEW c \in Clients, UdpKillClient(c)
    PROVE  UdpInv'
<1>1. /\ ClientDies(c)
      /\ made' = [made EXCEPT ![c] = "null"]
      /\ mail' = [k \in Conns |-> IF k \in {conn[c], made[c]} THEN <<>> ELSE mail[k]]
      /\ UNCHANGED <<serverVars, inbox, lost, asked>>
  BY DEF UdpKillClient
<1>2. /\ at \in [Clients -> UdpPlaces] /\ job \in [Clients -> Job] /\ Idle \in Job
      /\ local \in [Clients -> [Names -> Entry]] /\ said \in [Clients -> Reports]
      /\ conn \in [Clients -> Conns \cup {"null"}] /\ made \in [Clients -> Conns \cup {"null"}]
      /\ "null" \notin Conns
  BY NoneLemma, ClientAssumption DEF UdpInv, ClientInv, Idle, Job, Opcodes, NoSocket
<1>3. /\ local' \in [Clients -> [Names -> Entry]]
      /\ \A d \in Clients \ {c} : local'[d] = local[d]
      /\ \A n \in Offered[c] : local'[c][n] = local[c][n]
  <2>1. CASE UNCHANGED local
    BY <1>2, <2>1
  <2>2. CASE ~UNCHANGED local
    <3> DEFINE data == local[c][job[c].file].data
               cut == SubSeq(data, 1, Len(data) - 1)
    <3>1. /\ at[c] = "recvFile" /\ Len(data) > job[c].start
          /\ local' = [local EXCEPT ![c][job[c].file] = File(cut)]
      BY <1>1, <2>2 DEF ClientDies
    <3>2. job[c].file \in Wanted[c] /\ job[c].file \in Names /\ job[c].start = 0
      <4>1. PlaceInv(c)
        BY DEF UdpInv
      <4> QED
        BY <1>2, <3>1, <4>1 DEF PlaceInv, DownloadPlaces, Job
    <3>3. data \in Seq(Blocks)
      BY <1>2, <3>2 DEF Entry
    <3>4. cut \in Seq(Blocks)
      <4>1. Len(data) \in Nat /\ \A i \in 1..Len(data) : data[i] \in Blocks
        BY <3>3, LenProperties, ElementOfSeq
      <4>2. \A i \in 1..(Len(data) - 1) : data[i] \in Blocks
        BY <4>1
      <4> QED
        BY <4>2, SubSeqProperties
    <3>5. File(cut) \in Entry
      BY <3>4 DEF File, Entry
    <3> HIDE DEF cut
    <3>6. /\ local' \in [Clients -> [Names -> Entry]]
          /\ \A d \in Clients \ {c} : local'[d] = local[d]
          /\ \A n \in Names : n # job[c].file => local'[c][n] = local[c][n]
      BY <1>2, <3>1, <3>2, <3>5
    <3> QED
      BY <3>2, <3>6, UdpAssumption DEF NothingRefused
  <2> QED
    BY <2>1, <2>2
<1>4. /\ at'[c] = "dead" /\ conn'[c] = "null" /\ made'[c] = "null" /\ said'[c] = "nothing"
      /\ \A d \in Clients \ {c} : Stays(d)
      /\ ClientInv'
  <2>1. /\ at' = [at EXCEPT ![c] = "dead"] /\ conn' = [conn EXCEPT ![c] = "null"]
        /\ job' = [job EXCEPT ![c] = Idle] /\ said' = [said EXCEPT ![c] = "nothing"]
    BY <1>1 DEF ClientDies, Goto
  <2>2. "dead" \in UdpPlaces /\ "nothing" \in Reports
    BY DEF UdpPlaces, Reports
  <2>3. /\ at' \in [Clients -> UdpPlaces] /\ conn' \in [Clients -> Conns \cup {"null"}]
        /\ made' \in [Clients -> Conns \cup {"null"}] /\ job' \in [Clients -> Job]
        /\ said' \in [Clients -> Reports]
    BY <1>1, <1>2, <2>1, <2>2
  <2>4. \A d \in Clients \ {c} : /\ at'[d] = at[d] /\ conn'[d] = conn[d] /\ made'[d] = made[d]
                                 /\ job'[d] = job[d] /\ said'[d] = said[d]
    BY <1>1, <1>2, <2>1
  <2> QED
    BY <1>1, <1>2, <1>3, <2>1, <2>3, <2>4 DEF ClientInv, Stays
<1>5. ServerInv' /\ clients' = clients
  BY <1>1, ServerStays
<1>6. \A d \in Clients \ {c} : HoldsOn(d)
  <2> SUFFICES ASSUME NEW d \in Clients \ {c} PROVE HoldsOn(d)
    OBVIOUS
  <2>1. conn[d] \in Conns => conn[d] # conn[c] /\ conn[d] # made[c]
    BY DEF UdpInv, TurnInv
  <2>2. made[d] \in Conns => made[d] # conn[c]
    BY DEF UdpInv, TurnInv
  <2>3. made[d] \in Conns => made[d] # made[c]
    <3>1. ASSUME made[d] \in Conns, made[c] \in Conns PROVE FALSE
      <4>1. at[d] = "recvAccept" /\ at[c] = "recvAccept"
        BY <3>1 DEF UdpInv, PlaceInv
      <4> QED
        BY <4>1 DEF UdpInv, TurnInv, AtIt
    <3> QED
      BY <3>1
  <2> QED
    BY <1>1, <1>4, <2>1, <2>2, <2>3 DEF HoldsOn
<1>7. ChainInv'
  BY <1>1, <1>2, <1>4, <1>6, ChainStays
<1>8. ASSUME NEW d \in Clients, d # c PROVE PlaceInv(d)' /\ MailInv(d)' /\ (AtIt(d)' <=> AtIt(d))
  BY <1>1, <1>6, <1>8, ClientStays DEF HoldsOn
<1>9. PlaceInv(c)'
  <2>1. PlaceInv(c)
    BY DEF UdpInv
  <2> QED
    BY <1>2, <1>3, <1>4, <2>1 DEF PlaceInv, DownloadPlaces, UploadPlaces
<1>10. MailInv(c)'
  BY <1>2, <1>4 DEF MailInv
<1>11. ~AtIt(c)'
  BY <1>2, <1>4 DEF AtIt, K
<1>12. TurnInv'
  <2>1. \A d, e \in Clients : AtIt(d)' /\ AtIt(e)' => d = e
    BY <1>8, <1>11 DEF UdpInv, TurnInv
  <2>2. \A d, e \in Clients : conn'[d] \in Conns => conn'[d] # made'[e] /\ (conn'[d] = conn'[e] => d = e)
    BY <1>2, <1>4 DEF UdpInv, TurnInv, Stays
  <2> QED
    BY <2>1, <2>2 DEF TurnInv
<1>13. AddressInv'
  <2>1. ASSUME NEW k \in Conns, ~Bound(k)' PROVE mail'[k] = <<>>
    <3>1. CASE k \in {conn[c], made[c]}
      BY <1>1, <3>1
    <3>2. CASE k \notin {conn[c], made[c]}
      <4>1. ~Bound(k)
        BY <1>4, <2>1, <3>2 DEF Bound, Stays
      <4> QED
        BY <1>1, <3>2, <4>1 DEF UdpInv, AddressInv
    <3> QED
      BY <3>1, <3>2
  <2>2. \A i \in 1..Len(inbox) : inbox[i].from \in Conns
    <3>1. \A i \in 1..Len(inbox) : inbox[i] \in Letter
      BY ElementOfSeq DEF UdpInv, PostInv
    <3> QED
      BY <3>1 DEF Letter
  <2>3. \A d \in Clients, k \in Conns : /\ conn'[d] = k => conn[d] = k
                                        /\ made'[d] = k => made[d] = k
    BY <1>2, <1>4 DEF Stays
  <2>4. inbox' = inbox
    BY <1>1
  <2> SUFFICES ASSUME NEW i \in 1..Len(inbox), inbox[i].unit = ConnectMagic
               PROVE  /\ \A j \in 1..Len(clients) : clients[j].conn # inbox[i].from
                      /\ \A j \in 1..Len(inbox) : inbox[j].from = inbox[i].from => j = i
                      /\ \A d \in Clients : /\ conn'[d] # inbox[i].from
                                            /\ made'[d] = inbox[i].from => i = Len(inbox)
    BY <1>5, <2>1, <2>4 DEF AddressInv
  <2>5. /\ \A j \in 1..Len(clients) : clients[j].conn # inbox[i].from
        /\ \A j \in 1..Len(inbox) : inbox[j].from = inbox[i].from => j = i
        /\ \A d \in Clients : /\ conn[d] # inbox[i].from
                              /\ made[d] = inbox[i].from => i = Len(inbox)
    BY DEF UdpInv, AddressInv
  <2> QED
    BY <2>2, <2>3, <2>5
<1>14. PostInv'
  <2>1. mail \in [Conns -> Seq(Answers)] /\ <<>> \in Seq(Answers)
    BY DEF UdpInv, PostInv
  <2>2. mail' \in [Conns -> Seq(Answers)]
    BY <1>1, <2>1
  <2> QED
    BY <1>1, <2>2 DEF UdpInv, PostInv
<1> QED
  BY <1>4, <1>5, <1>7, <1>8, <1>9, <1>10, <1>12, <1>13, <1>14 DEF UdpInv

(* So does a step that changes nothing.                                    *)
LEMMA UdpStutter ==
    ASSUME UdpInv, UNCHANGED vars
    PROVE  UdpInv'
<1>1. UNCHANGED <<serverVars, inbox, mail, made, lost, asked, at, conn, job, local, said>>
  BY DEF vars, clientVars, udpVars
<1>2. \A d \in Clients : Stays(d)
  BY <1>1 DEF Stays
<1>3. \A d \in Clients : HoldsOn(d)
  BY <1>1, <1>2 DEF HoldsOn
<1>4. ServerInv' /\ ChainInv'
  BY <1>1, <1>3, ServerStays, ChainStays
<1>5. \A d \in Clients : PlaceInv(d)' /\ MailInv(d)' /\ (AtIt(d)' <=> AtIt(d))
  BY <1>1, <1>3, ClientStays DEF HoldsOn
<1>6. TurnInv'
  BY <1>1, <1>5 DEF UdpInv, TurnInv
<1>7. AddressInv'
  <2>1. UNCHANGED <<clients, mail, inbox, conn, made>>
    BY <1>1 DEF serverVars
  <2> QED
    BY <2>1 DEF UdpInv, AddressInv, Bound
<1>8. PostInv' /\ ClientInv'
  BY <1>1 DEF UdpInv, PostInv, ClientInv
<1> QED
  BY <1>4, <1>5, <1>6, <1>7, <1>8 DEF UdpInv

-----------------------------------------------------------------------------
(* The invariant is one.                                                   *)

(* The initial states satisfy the invariant.                               *)
LEMMA InitUdpInv ==
    ASSUME NothingRefused, UdpInit
    PROVE  UdpInv
<1>1. /\ ServerInit /\ inbox = <<>> /\ mail = [k \in Conns |-> <<>>]
      /\ made = [c \in Clients |-> "null"] /\ lost = {} /\ asked = [k \in Conns |-> <<>>]
      /\ at = [c \in Clients |-> "prompt"] /\ conn = [c \in Clients |-> "null"]
      /\ job = [c \in Clients |-> Idle] /\ local = LocalDir
      /\ said = [c \in Clients |-> "nothing"]
  BY DEF UdpInit, ClientInit
<1>2. pc = "Listen" /\ status = "Success" /\ stamps = {} /\ disk \in HostDirs
  BY <1>1 DEF ServerInit
<1>3. "null" \notin Conns /\ LocalDir \in [Clients -> [Names -> Entry]]
  BY ClientAssumption DEF NoSocket
<1>4. ServerInv
  <2>1. IInv
    BY <1>1, InitIInv
  <2>2. \A c \in Clients : \A n \in Offered[c] : Hosts(n)
    BY <1>2 DEF NothingRefused, Hosts
  <2> QED
    BY <1>2, <2>1, <2>2 DEF ServerInv
<1>5. ClientInv
  <2>1. Idle \in Job
    BY NoneLemma DEF Idle, Job, Opcodes
  <2> QED
    BY <1>1, <1>3, <2>1 DEF ClientInv, UdpPlaces, Reports
<1>6. PostInv
  <2>1. <<>> \in Seq(Letter) /\ <<>> \in Seq(Answers) /\ <<>> \in Seq(Blocks)
    OBVIOUS
  <2> QED
    BY <1>1, <2>1 DEF PostInv
<1>7. ASSUME NEW c \in Clients PROVE PlaceInv(c) /\ MailInv(c) /\ ~AtIt(c) /\ ~Here(c)
  <2>1. at[c] = "prompt" /\ conn[c] = "null" /\ made[c] = "null"
    BY <1>1
  <2>2. \A n \in Offered[c] : local[c][n].kind = "file" => local[c][n].data # <<>>
    BY <1>1 DEF NothingRefused
  <2> QED
    BY <1>3, <2>1, <2>2 DEF PlaceInv, MailInv, AtIt, Here, K, DownloadPlaces, UploadPlaces
<1>8. TurnInv
  BY <1>1, <1>3, <1>7 DEF TurnInv
<1>9. AddressInv
  BY <1>1 DEF AddressInv
<1>10. ChainInv
  <2>1. Wants(Over)
    BY <1>2 DEF Wants
  <2>2. Leads(S, inbox, Over, Over)
    BY <1>1, LeadsEmpty
  <2>3. Ends(Over)
    BY <1>1, <1>3, <1>7 DEF Ends
  <2> QED
    BY <2>1, <2>2, <2>3 DEF ChainInv
<1> QED
  BY <1>4, <1>5, <1>6, <1>7, <1>8, <1>9, <1>10 DEF UdpInv

(* Every step preserves it.                                                *)
LEMMA NextUdpInv ==
    ASSUME Numbers = Nat, NothingRefused, UdpInv, [UdpNext]_vars, dropped' = {}
    PROVE  UdpInv'
<1>1. CASE UdpServerStep
  BY <1>1, UdpListenInv, UdpRecvMacInv, UdpGreetInv, UdpRecvHeaderInv, UdpRecvDataInv,
     UdpReplyInv, UdpDownloadInv, UdpSendChunkInv, UdpUploadInv, UdpRecvChunkInv, UdpDiscardInv
     DEF UdpServerStep
<1>2. ASSUME NEW c \in Clients, UdpClientStep(c) PROVE UdpInv'
  BY <1>2, UdpAcceptedInv, UdpSendInv, UdpReceiveInv DEF UdpClientStep
<1>3. ASSUME NEW c \in Clients, UdpUserStep(c) PROVE UdpInv'
  <2>1. UNCHANGED <<serverVars, lost, asked>>
    BY <1>3 DEF UdpUserStep
  <2>2. CASE (\A other \in Clients : ~AtIt(other)) /\ UdpConnect(c)
    BY <2>1, <2>2, UdpConnectInv
  <2>3. CASE /\ AtIt(c)
             /\ \/ /\ K(c) \in dropped => c \in Persistent
                   /\ \/ \E name \in Wanted[c] : DownloadCmd(c, name, TRUE)
                      \/ \E name \in Offered[c] : UploadCmd(c, name)
                      \/ \E op \in Asks[c] : AskCmd(c, op)
                \/ CloseCmd(c)
             /\ UNCHANGED <<inbox, mail, made, dropped>>
    BY <2>1, <2>3, UdpCommandInv
  <2>4. CASE StartClient(c) /\ UNCHANGED <<inbox, mail, made, dropped>>
    BY <2>1, <2>4, StartClientInv
  <2> QED
    BY <1>3, <2>2, <2>3, <2>4 DEF UdpUserStep
<1>4. ASSUME NEW c \in Clients, UdpKillClient(c) PROVE UdpInv'
  BY <1>4, UdpKillInv
<1>5. CASE UNCHANGED vars
  BY <1>5, UdpStutter
<1> QED
  BY <1>1, <1>2, <1>3, <1>4, <1>5 DEF UdpNext

-----------------------------------------------------------------------------
(* The properties.                                                         *)
LEMMA UdpTypes == UdpInv /\ dropped = {} => UdpTypeOK
<1> SUFFICES ASSUME UdpInv, dropped = {} PROVE UdpTypeOK
  OBVIOUS
<1>1. \A i \in 1..Len(inbox) : inbox[i].from \in Conns
  <2>1. \A i \in 1..Len(inbox) : inbox[i] \in Letter
    BY ElementOfSeq DEF UdpInv, PostInv
  <2> QED
    BY <2>1 DEF Letter
<1> QED
  BY <1>1 DEF UdpInv, ServerInv, ClientInv, PostInv, IInv, UdpTypeOK, NoSocket

(* It says what each unit is read as.                                      *)
LEMMA UdpReads == UdpInv => UdpInStep
<1> SUFFICES ASSUME UdpInv PROVE UdpInStep
  OBVIOUS
<1>1. ASSUME Serving(pc), pc \in DOMAIN ServerExpects, Got, Bound(S)
      PROVE  Unit.t = ServerExpects[pc] /\ Head(inbox).from = S
  <2>1. pc \in {"RecvMac", "RecvHeader", "RecvData", "RecvChunk", "Discard"}
    BY <1>1 DEF ServerExpects
  <2>2. Head(inbox).from = S /\ \E x, y, z : Wants(x) /\ x \notin Final /\ Passes(Unit, x, z)
    BY <1>1, <2>1, NextLetter DEF Got, Unit
  <2>3. PICK x, z : Wants(x) /\ x \notin Final /\ Passes(Unit, x, z)
    BY <2>2
  <2>4. x.t = Unit.t
    BY <2>3, PassesKinds
  <2>5. /\ pc = "RecvMac" => x = WantMac
        /\ pc = "RecvHeader" => x = WantHeader
        /\ pc = "RecvData" => x = WantData(packet.op)
        /\ pc = "RecvChunk" => x = WantBlocks(ul.left, asked[S])
        /\ pc # "Discard"
    BY <2>1, <2>3, WantsAt DEF Final
  <2>6. /\ pc = "RecvMac" => x.t = "mac"
        /\ pc = "RecvHeader" => x.t = "header"
        /\ pc = "RecvData" => x.t = "data"
        /\ pc = "RecvChunk" => x.t = "block"
    BY <2>5 DEF WantMac, WantHeader, WantData, WantBlocks, Awaits
  <2>7. /\ ServerExpects["RecvMac"] = "mac" /\ ServerExpects["RecvHeader"] = "header"
        /\ ServerExpects["RecvData"] = "data" /\ ServerExpects["RecvChunk"] = "block"
    BY DEF ServerExpects
  <2> QED
    BY <2>1, <2>2, <2>4, <2>5, <2>6, <2>7
<1>2. ASSUME NEW c \in Clients, at[c] \in DOMAIN ClientExpects
      PROVE  LET k == IF at[c] = "recvAccept" THEN made[c] ELSE K(c)
             IN  mail[k] # <<>> => Head(mail[k]).t = ClientExpects[at[c]]
  <2>1. PlaceInv(c) /\ MailInv(c) /\ at[c] \in UdpPlaces
    BY DEF UdpInv, ClientInv
  <2>2. at[c] \in {"recvAccept", "recvGreeting", "recvResponse", "recvFile", "recvAnswer"}
    BY <1>2, <2>1 DEF ClientExpects, UdpPlaces
  <2>3. /\ ClientExpects["recvAccept"] = "accept" /\ ClientExpects["recvGreeting"] = "header"
        /\ ClientExpects["recvResponse"] = "response" /\ ClientExpects["recvFile"] = "block"
        /\ ClientExpects["recvAnswer"] = "answer"
    BY DEF ClientExpects
  <2>4. CASE at[c] = "recvAccept"
    <3>1. mail[made[c]] # <<>> => mail[made[c]] = <<AcceptMagic>>
      BY <2>1, <2>4 DEF PlaceInv, MailInv
    <3> QED
      BY <2>3, <2>4, <3>1 DEF AcceptMagic
  <2>5. CASE at[c] # "recvAccept" /\ mail[conn[c]] # <<>>
    <3>1. Here(c) /\ conn[c] \in Conns
      BY <2>1, <2>2, <2>5 DEF PlaceInv, Here
    <3>2. conn[c] = S /\ asked[S] \in Seq(Blocks) /\ mail[S] \in Seq(Answers)
      BY <3>1, HereAlone DEF UdpInv, PostInv
    <3>3. \/ at[c] = "recvGreeting" /\ mail[S] = <<Header("None")>>
          \/ at[c] = "recvAnswer" /\ mail[S] = <<Answered>>
          \/ at[c] = "recvResponse" /\ Head(mail[S]).t = "response"
          \/ at[c] = "recvFile" /\ Flows(c, mail[S], job[c].left)
      BY <2>1, <2>5, <3>1, <3>2 DEF MailInv
    <3>4. CASE at[c] = "recvFile"
      <4>1. FlowsOf(asked[S], local[c][job[c].file].data, ToSend, mail[S], job[c].left)
        BY <3>2, <3>3, <3>4 DEF Flows
      <4>2. ToSend \in Nat
        BY DEF ToSend, UdpInv, ServerInv, IInv, TypeOK
      <4>3. Head(mail[S]).t = "block"
        BY <2>5, <3>2, <4>1, <4>2, FlowsHead
      <4> QED
        BY <2>3, <3>2, <3>4, <4>3 DEF K
    <3>5. CASE at[c] # "recvFile"
      <4>1. Head(<<Header("None")>>) = Header("None") /\ Head(<<Answered>>) = Answered
        OBVIOUS
      <4>2. Header("None").t = "header" /\ Answered.t = "answer"
        BY DEF Header, Answered
      <4> QED
        BY <2>3, <2>5, <3>2, <3>3, <3>5, <4>1, <4>2 DEF K
    <3> QED
      BY <3>4, <3>5
  <2> QED
    BY <2>4, <2>5 DEF K
<1> QED
  BY <1>1, <1>2 DEF UdpInStep

(* An upload ends with the file's last chunk.                              *)
LEMMA UdpUploadEnds ==
    ASSUME UdpInv, [UdpNext]_vars
    PROVE  [pc = "RecvChunk" /\ pc' = "RecvHeader" /\ Bound(S)
              => disk'[ul.name] = File(asked[S])]_vars
<1> SUFFICES ASSUME UdpNext, pc = "RecvChunk", pc' = "RecvHeader", Bound(S)
             PROVE  disk'[ul.name] = File(asked[S])
  OBVIOUS
<1>1. ASSUME UNCHANGED serverVars PROVE FALSE
  BY <1>1 DEF serverVars
<1>2. UdpServerStep
  BY <1>1 DEF UdpNext, UdpClientStep, UdpUserStep, UdpKillClient
<1>3. UdpRecvChunk
  BY <1>2 DEF UdpServerStep, UdpListen, UdpRecvMac, UdpGreet, UdpRecvHeader, UdpRecvData, UdpReply,
              UdpDownload, UdpSendChunk, UdpUpload, Upload, UdpDiscard, Discard, Serving
<1>4. PICK x, z : Wants(x) /\ x \notin Final /\ Passes(Unit, x, z)
  BY <1>3, NextLetter DEF UdpRecvChunk, Got, Unit
<1>5. PICK file, n : file = asked[S] /\ n = ul.left
  OBVIOUS
<1>6. /\ n \in 1..Len(file) /\ disk[ul.name].data = SubSeq(file, 1, Len(file) - n)
      /\ x = WantBlocks(n, file)
  BY <1>4, <1>5, WantsAt DEF Final
<1>7. Unit.t = "block" /\ Unit.blocks = NextChunk(n, file)
  BY <1>4, <1>6, PassesKinds DEF WantBlocks, Awaits
<1>8. file \in Seq(Blocks) /\ Len(file) \in Nat
  BY <1>5, ServedFacts, LenProperties
<1>9. /\ disk'[ul.name] = File(SubSeq(file, 1, Len(file) - (n - ChunkSize(n))))
      /\ n > ChunkSize(n) => pc' = "RecvChunk"
      /\ ~(n > ChunkSize(n)) => n = ChunkSize(n)
  BY <1>3, <1>5, <1>6, <1>7, <1>8, ChunkHosted
<1>10. n = ChunkSize(n) /\ Len(file) - (n - ChunkSize(n)) = Len(file)
  BY <1>6, <1>8, <1>9
<1>11. SubSeq(file, 1, Len(file)) = file
  BY <1>8, SubSeqFull
<1> QED
  BY <1>5, <1>9, <1>10, <1>11

(* A download is saved when the file's last block has come.                *)
LEMMA UdpDownloadSaves ==
    ASSUME NothingRefused, UdpInv, [UdpNext]_vars
    PROVE  [\A c \in Clients :
              at[c] \in {"recvResponse", "recvFile"} /\ said'[c] = "saved"
                 => local'[c][job[c].file].data = asked[K(c)]]_vars
<1> SUFFICES ASSUME UdpNext, NEW c \in Clients, at[c] \in {"recvResponse", "recvFile"},
                    said'[c] = "saved"
             PROVE  local'[c][job[c].file].data = asked[conn[c]]
  BY DEF K
<1>1. said[c] = "nothing" /\ said \in [Clients -> Reports]
  BY DEF UdpInv, PlaceInv, ClientInv
<1>2. said' # said
  BY <1>1
<1>3. ~UdpServerStep
  BY <1>2 DEF UdpServerStep, clientVars
<1>4. PICK d \in Clients : UdpClientStep(d) \/ UdpUserStep(d) \/ UdpKillClient(d)
  BY <1>3 DEF UdpNext
<1>5. ~UdpUserStep(d)
  <2>1. ASSUME UdpUserStep(d) PROVE said'[c] \in {"nothing", said[c]}
    BY <1>1, <2>1 DEF UdpUserStep, UdpConnect, DownloadCmd, StartDownload, UploadCmd, AskCmd, CloseCmd,
                      StartClient
  <2> QED
    BY <1>1, <2>1
<1>6. ~UdpKillClient(d)
  BY <1>1 DEF UdpKillClient, ClientDies
<1>7. UdpClientStep(d) /\ UNCHANGED <<serverVars, lost, asked>>
  BY <1>4, <1>5, <1>6 DEF UdpClientStep
<1>8. ~UdpAccepted(d)
  BY <1>2 DEF UdpAccepted
<1>9. ~UdpSend(d)
  <2>1. ASSUME UdpSend(d)
        PROVE  UNCHANGED said \/ said' = [said EXCEPT ![d] = "uploaded"]
               \/ said' = [said EXCEPT ![d] = "closed"] \/ said' = [said EXCEPT ![d] = "failed"]
    BY <2>1 DEF UdpSend, SendMac, SendDownload, SendUpload, SendFile, SendAsk, SendClose, Return,
                FailDownload
  <2> QED
    BY <1>1, <2>1
<1>10. UdpReceive(d)
  BY <1>7, <1>8, <1>9 DEF UdpClientStep
<1>11. d = c
  <2>1. ASSUME d # c PROVE said'[c] = said[c]
    BY <1>1, <1>10, <2>1 DEF UdpReceive, RecvGreeting, RecvResponse, RecvFile, RecvAnswer, Return,
                             FailDownload
  <2> QED
    BY <1>1, <2>1
<1> QED
  BY <1>7, <1>10, <1>11, UdpReceiveInv

-----------------------------------------------------------------------------
(* The theorems are about the behaviours in which the server's socket has  *)
(* room for whatever is sent to it, [](dropped = {}).  (A client's need    *)
(* not have.)  After a loss toward the server the letters lead nowhere.    *)

(* The invariant holds throughout.                                         *)
LEMMA Throughout ==
    ASSUME Numbers = Nat, NothingRefused
    PROVE  UdpInit /\ [][UdpNext]_vars /\ [](dropped = {}) => []UdpInv
<1>1. UdpInit => UdpInv
  BY InitUdpInv
<1>2. UdpInv /\ [UdpNext]_vars /\ (dropped = {})' => UdpInv'
  BY NextUdpInv
<1> QED
  BY <1>1, <1>2, PTL

(* However its users connect, leave and are killed, and whatever the       *)
(* clients' sockets lose, the system over UDP keeps its shape (UdpTypeOK)  *)
(* as long as the server's socket loses nothing.                           *)
THEOREM UdpTypesOK ==
    ASSUME Numbers = Nat, NothingRefused
    PROVE  UdpSpec /\ [](dropped = {}) => []UdpTypeOK
BY Throughout, UdpTypes, PTL DEF UdpSpec

(* UdpServer reads from one socket whatever comes next; still, while the   *)
(* client it serves lives, it takes each of that client's datagrams for    *)
(* what it is, and so does every client with the server's (UdpInStep),     *)
(* when the server's socket loses nothing.                                 *)
THEOREM UdpStaysInStep ==
    ASSUME Numbers = Nat, NothingRefused
    PROVE  UdpSpec /\ [](dropped = {}) => []UdpInStep
BY Throughout, UdpReads, PTL DEF UdpSpec

(* An upload whose client lives to its end is hosted as it was sent,       *)
(* whoever was killed before and left what datagrams in the server's       *)
(* socket (UdpUploadIntegrity), when that socket loses nothing: nothing    *)
(* but such a loss can spoil an upload that its client finishes.           *)
THEOREM UdpUploads ==
    ASSUME Numbers = Nat, NothingRefused
    PROVE  UdpSpec /\ [](dropped = {}) => UdpUploadIntegrity
<1>1. UdpInv /\ [UdpNext]_vars
         => [pc = "RecvChunk" /\ pc' = "RecvHeader" /\ Bound(S) /\ S \notin dropped
               => disk'[ul.name] = File(asked[S])]_vars
  BY UdpUploadEnds
<1> QED
  BY <1>1, Throughout, PTL DEF UdpSpec, UdpUploadIntegrity

(* Client::Download reports success only if it has saved the whole file: a *)
(* datagram that the client's socket lost keeps it waiting, and is never   *)
(* taken for its end (UdpDownloadIntegrity), when the server's loses none. *)
THEOREM UdpDownloads ==
    ASSUME Numbers = Nat, NothingRefused
    PROVE  UdpSpec /\ [](dropped = {}) => UdpDownloadIntegrity
<1>1. UdpInv /\ [UdpNext]_vars
         => [\A c \in Clients :
               at[c] \in {"recvResponse", "recvFile"} /\ said'[c] = "saved" /\ K(c) \notin dropped
                  => local'[c][job[c].file].data = asked[K(c)]]_vars
  BY UdpDownloadSaves
<1> QED
  BY <1>1, Throughout, PTL DEF UdpSpec, UdpDownloadIntegrity
=============================================================================
