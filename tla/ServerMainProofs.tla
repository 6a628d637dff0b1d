-------------------------- MODULE ServerMainProofs --------------------------
(***************************************************************************)
(* Proofs about ListenServer and ServerMain.  For any number of            *)
(* descriptors, clients and errors, every open descriptor has one owner,   *)
(* and what is served did bind.  Whatever the command line, of whatever    *)
(* length, help is given to whom it asks for it and nothing else is done,  *)
(* a server that starts is the one that was asked for, and what is shown   *)
(* of its sockets holds of the whole process.                              *)
(***************************************************************************)
EXTENDS ServerMain, SequenceTheorems, TLAPS

-----------------------------------------------------------------------------
(* The server's sockets.                                                   *)

(* Before the start-up is over there are neither clients nor a local       *)
(* socket; later only Move and Leave meet one, and UDP has no connections. *)
PlaceInv ==
    /\ pc \in {"open", "option", "bind", "closeUnbound", "check", "ended"} => handles = <<>>
    /\ pc # "move" => ~IsOpen(accepted)
    /\ pc = "move" => IsOpen(accepted) /\ protocol = "TCP"
    /\ pc = "leave" => protocol = "TCP"
    /\ pc = "answer" => protocol = "UDP"
    /\ pc = "leave" \/ (pc = "serve" /\ protocol = "TCP") => Len(handles) > 0
    /\ protocol = "UDP" => handles = <<>> /\ ~IsListening(socket)

(* How far the socket of the server is; a status tells of every failure.   *)
StartInv ==
    /\ pc \in {"open", "ended"} => socket = NewSocket
    /\ pc \in {"option", "bind", "closeUnbound"} => IsOpen(socket)
    /\ pc \in {"option", "bind", "closeUnbound", "check"} => ~IsListening(socket)
    /\ pc = "closeUnbound" => socket.status # "Success"
    /\ pc = "check" /\ socket.status = "Success" => IsOpen(socket) /\ kernel[socket.fd] = "bound"

IInv == TypeOK /\ DescriptorsOwned /\ ServesBound /\ PlaceInv /\ StartInv

(* A new socket is a socket, and holds nothing.                            *)
LEMMA NewSocketLemma ==
    /\ NewSocket \in Socket
    /\ ~IsOpen(NewSocket) /\ ~IsListening(NewSocket)
    /\ NewSocket.fd = INVALID_SOCKET /\ NewSocket.status = "Success"
BY DEF NewSocket, Socket, States, IsOpen, IsListening

(* Latching an error and reading it change no more than the status.        *)
LEMMA StatusLemma ==
    ASSUME NEW s \in Socket, NEW r \in Results
    PROVE  /\ Latched(s, r) \in Socket /\ Failed(s) \in Socket
           /\ Latched(s, r).fd = s.fd /\ Latched(s, r).state = s.state
           /\ Failed(s).fd = s.fd /\ Failed(s).state = s.state
           /\ r # "ok" => Latched(s, r).status # "Success"
           /\ r = "ok" => Latched(s, r) = s
BY SocketAssumption DEF Latched, Failed, Results, Socket

(* What an open socket holds is a descriptor.                              *)
LEMMA OpenLemma == ASSUME NEW s \in Socket, IsOpen(s) PROVE s.fd \in Fds
BY DEF Socket, IsOpen

(* The process starts with nothing, and ends with nothing.                 *)
LEMMA EmptyIInv ==
    ASSUME pc' \in {"open", "ended"}, protocol' \in Protocols,
           socket' = NewSocket, accepted' = NewSocket, handles' = <<>>,
           kernel' = [k \in Fds |-> "free"], report' \in {"nothing", "Success"} \cup Errnos
    PROVE  IInv'
<1>1. TypeOK'
  BY NewSocketLemma DEF TypeOK, Places, KernelStates
<1>2. DescriptorsOwned'
  <2>1. Holders' = {INVALID_SOCKET}
    BY NewSocketLemma DEF Holders
  <2> QED
    BY <2>1, NewSocketLemma, SocketAssumption DEF DescriptorsOwned
<1> QED
  BY <1>1, <1>2, NewSocketLemma DEF IInv, ServesBound, PlaceInv, StartInv

LEMMA InitIInv == Init => IInv
<1> SUFFICES ASSUME Init PROVE IInv
  OBVIOUS
<1>1. TypeOK
  BY NewSocketLemma DEF Init, TypeOK, Places, KernelStates
<1>2. DescriptorsOwned
  <2>1. Holders = {INVALID_SOCKET}
    BY NewSocketLemma DEF Init, Holders
  <2> QED
    BY <2>1, NewSocketLemma, SocketAssumption DEF Init, DescriptorsOwned
<1> QED
  BY <1>1, <1>2, NewSocketLemma DEF Init, IInv, ServesBound, PlaceInv, StartInv

(* A step that changes the status or the state of the server's socket, and *)
(* marks its descriptor as anything but free.                              *)
LEMMA OwnedLemma ==
    ASSUME IInv, socket' \in Socket, socket'.fd = socket.fd, UNCHANGED <<accepted, handles>>,
           \/ UNCHANGED kernel
           \/ \E st \in KernelStates \ {"free"} : IsOpen(socket) /\ kernel' = Mark(socket.fd, st)
    PROVE  DescriptorsOwned' /\ kernel' \in [Fds -> KernelStates]
<1>1. Holders' = Holders
  BY DEF Holders
<1>2. /\ kernel' \in [Fds -> KernelStates]
      /\ \A k \in Fds : kernel'[k] # "free" <=> kernel[k] # "free"
  <2>1. CASE UNCHANGED kernel
    BY <2>1 DEF IInv, TypeOK
  <2>2. CASE ~UNCHANGED kernel
    <3>1. PICK st \in KernelStates \ {"free"} : IsOpen(socket) /\ kernel' = Mark(socket.fd, st)
      BY <2>2
    <3>2. socket.fd \in Fds /\ kernel[socket.fd] # "free"
      BY <3>1, OpenLemma DEF IInv, TypeOK, DescriptorsOwned, Holders
    <3> QED
      BY <3>1, <3>2 DEF IInv, TypeOK, Mark
  <2> QED
    BY <2>1, <2>2
<1> QED
  BY <1>1, <1>2 DEF IInv, DescriptorsOwned, IsOpen

(* socket(2): the descriptor it returns was free, so nobody held it.       *)
LEMMA OpenIInv == ASSUME IInv, NEW r \in Results, Open(r) PROVE IInv'
<1>1. /\ pc = "open" /\ handles = <<>> /\ socket = NewSocket /\ ~IsOpen(accepted)
      /\ UNCHANGED <<protocol, accepted, handles, report>>
  BY DEF Open, IInv, PlaceInv, StartInv
<1>2. CASE r = "ok"
  <2>1. PICK k \in Unused : socket' = Opened(socket, r, k) /\ kernel' = Mark(k, "open")
    BY <1>2 DEF Open
  <2>2. pc' = "option" /\ socket' = [fd |-> k, state |-> "None", status |-> "Success"]
    BY <1>1, <1>2, <2>1 DEF Open, Opened, Latched, NewSocket
  <2>3. k \in Fds /\ k # INVALID_SOCKET /\ kernel' = [kernel EXCEPT ![k] = "open"]
    BY <2>1, SocketAssumption DEF Unused, Mark
  <2>4. TypeOK'
    BY <1>1, <2>2, <2>3 DEF IInv, TypeOK, Places, KernelStates, Socket, States
  <2>5. Holders = {INVALID_SOCKET} /\ Holders' = {k, INVALID_SOCKET}
    BY <1>1, <2>2, NewSocketLemma DEF Holders, IsOpen
  <2>6. DescriptorsOwned'
    <3>1. \A j \in Fds : kernel[j] = "free"
      BY <2>5, SocketAssumption DEF IInv, DescriptorsOwned
    <3> QED
      BY <1>1, <2>2, <2>3, <2>5, <3>1, SocketAssumption
         DEF IInv, TypeOK, DescriptorsOwned, IsOpen
  <2>7. ServesBound' /\ PlaceInv' /\ StartInv'
    BY <1>1, <2>2, <2>3 DEF ServesBound, PlaceInv, StartInv, IsOpen, IsListening
  <2> QED
    BY <2>4, <2>6, <2>7 DEF IInv
<1>3. CASE r # "ok"
  <2>1. /\ pc' = "check" /\ UNCHANGED kernel
        /\ socket' = [fd |-> INVALID_SOCKET, state |-> "None", status |-> r]
    BY <1>1, <1>3 DEF Open, Opened, Latched, NewSocket
  <2>2. r \in Errnos /\ r # "Success"
    BY <1>3, SocketAssumption DEF Results
  <2>3. socket' \in Socket /\ socket'.fd = socket.fd
    BY <1>1, <2>1, <2>2, NewSocketLemma DEF Socket, States
  <2>4. DescriptorsOwned' /\ TypeOK'
    BY <1>1, <2>1, <2>3, OwnedLemma DEF IInv, TypeOK, Places
  <2> QED
    BY <1>1, <2>1, <2>2, <2>4 DEF IInv, ServesBound, PlaceInv, StartInv, IsOpen, IsListening
<1> QED
  BY <1>2, <1>3

(* setsockopt(2): a failure only shows later, in the status.               *)
LEMMA SetOptionIInv == ASSUME IInv, NEW r \in Results, SetOption(r) PROVE IInv'
<1>1. /\ pc = "option" /\ pc' = "bind" /\ socket \in Socket
      /\ socket' = Latched(socket, r)
      /\ UNCHANGED <<protocol, accepted, handles, kernel, report>>
  BY DEF SetOption, IInv, TypeOK
<1>2. socket' \in Socket /\ socket'.fd = socket.fd /\ socket'.state = socket.state
  BY <1>1, StatusLemma
<1>3. DescriptorsOwned' /\ TypeOK'
  BY <1>1, <1>2, OwnedLemma DEF IInv, TypeOK, Places
<1> QED
  BY <1>1, <1>2, <1>3 DEF IInv, ServesBound, PlaceInv, StartInv, IsOpen, IsListening

(* bind(2).                                                                *)
LEMMA BindIInv == ASSUME IInv, NEW r \in Results, Bind(r) PROVE IInv'
<1>1. /\ pc = "bind" /\ socket \in Socket /\ IsOpen(socket) /\ ~IsListening(socket)
      /\ socket.fd \in Fds
      /\ socket' = Latched(socket, r)
      /\ UNCHANGED <<protocol, accepted, handles, report>>
  BY OpenLemma DEF Bind, IInv, TypeOK, StartInv
<1>2. socket' \in Socket /\ socket'.fd = socket.fd /\ socket'.state = socket.state
  BY <1>1, StatusLemma
<1>3. /\ r = "ok" => pc' = "check" /\ kernel' = Mark(socket.fd, "bound")
      /\ r # "ok" => pc' = "closeUnbound" /\ UNCHANGED kernel /\ socket'.status # "Success"
  BY <1>1, StatusLemma DEF Bind
<1>4. DescriptorsOwned' /\ TypeOK'
  BY <1>1, <1>2, <1>3, OwnedLemma DEF IInv, TypeOK, Places, KernelStates
<1>5. r = "ok" => kernel'[socket'.fd] = "bound"
  BY <1>1, <1>2, <1>3 DEF IInv, TypeOK, Mark
<1> QED
  BY <1>1, <1>2, <1>3, <1>4, <1>5 DEF IInv, ServesBound, PlaceInv, StartInv, IsOpen, IsListening

(* close(2) on the socket that did not bind.                               *)
LEMMA CloseUnboundIInv == ASSUME IInv, NEW r \in Results, CloseUnbound(r) PROVE IInv'
<1>1. /\ pc = "closeUnbound" /\ pc' = "check" /\ handles = <<>> /\ ~IsOpen(accepted)
      /\ socket \in Socket /\ IsOpen(socket) /\ socket.fd \in Fds /\ socket.status # "Success"
      /\ UNCHANGED <<protocol, accepted, handles, report>>
      /\ kernel' = [kernel EXCEPT ![socket.fd] = "free"]
  BY OpenLemma DEF CloseUnbound, IInv, TypeOK, PlaceInv, StartInv, Mark
<1>2. /\ socket' \in Socket /\ socket'.fd = INVALID_SOCKET
      /\ socket'.state = "None" /\ socket'.status # "Success"
  BY <1>1, SocketAssumption DEF CloseUnbound, Closed, Latched, Results, Socket, States
<1>3. TypeOK'
  BY <1>1, <1>2 DEF IInv, TypeOK, Places, KernelStates
<1>4. Holders' = {INVALID_SOCKET} /\ Holders = {socket.fd, INVALID_SOCKET}
  BY <1>1, <1>2 DEF Holders, IsOpen
<1>5. DescriptorsOwned'
  BY <1>1, <1>2, <1>4, SocketAssumption DEF IInv, TypeOK, DescriptorsOwned, IsOpen
<1> QED
  BY <1>1, <1>2, <1>3, <1>5 DEF IInv, ServesBound, PlaceInv, StartInv, IsOpen, IsListening

(* main goes on only with a status of Success, that is, with a bound socket.*)
LEMMA CheckStartupIInv == ASSUME IInv, CheckStartup PROVE IInv'
<1>1. /\ pc = "check" /\ socket \in Socket /\ protocol' = protocol
      /\ report' \in {"Success"} \cup Errnos
  BY DEF CheckStartup, IInv, TypeOK, Socket
<1>2. CASE End
  BY <1>1, <1>2, EmptyIInv DEF End, IInv, TypeOK
<1>3. CASE ~End
  <2>1. /\ pc' = "listen" /\ socket.status = "Success"
        /\ UNCHANGED <<protocol, socket, accepted, handles, kernel>>
    BY <1>1, <1>3 DEF CheckStartup
  <2>2. DescriptorsOwned' /\ TypeOK'
    BY <1>1, <2>1, OwnedLemma DEF IInv, TypeOK, Places
  <2> QED
    BY <1>1, <2>1, <2>2 DEF IInv, ServesBound, PlaceInv, StartInv, IsOpen
<1> QED
  BY <1>2, <1>3

(* listen(2).                                                              *)
LEMMA ListenIInv == ASSUME IInv, NEW r \in Results, Listen(r) PROVE IInv'
<1>1. /\ pc = "listen" /\ protocol = "TCP" /\ ~IsListening(socket)
      /\ socket \in Socket /\ IsOpen(socket) /\ socket.fd \in Fds
      /\ UNCHANGED <<protocol, accepted, handles, report>>
  BY OpenLemma DEF Listen, IInv, TypeOK, ServesBound
<1>2. CASE r = "ok"
  <2>1. /\ pc' = "listen" /\ kernel' = Mark(socket.fd, "listening")
        /\ socket' = [socket EXCEPT !.state = "Listening"]
    BY <1>2 DEF Listen, Listening
  <2>2. socket' \in Socket /\ socket'.fd = socket.fd
    BY <1>1, <2>1 DEF Socket, States
  <2>3. DescriptorsOwned' /\ TypeOK'
    BY <1>1, <2>1, <2>2, OwnedLemma DEF IInv, TypeOK, Places, KernelStates
  <2>4. kernel'[socket'.fd] = "listening"
    BY <1>1, <2>1, <2>2 DEF IInv, TypeOK, Mark
  <2> QED
    BY <1>1, <2>1, <2>2, <2>3, <2>4 DEF IInv, ServesBound, PlaceInv, StartInv, IsOpen
<1>3. CASE r # "ok"
  <2>1. pc' = "report" /\ UNCHANGED kernel /\ socket' = Latched(socket, r)
    BY <1>3 DEF Listen, Listening
  <2>2. socket' \in Socket /\ socket'.fd = socket.fd /\ socket'.state = socket.state
    BY <1>1, <2>1, StatusLemma
  <2>3. DescriptorsOwned' /\ TypeOK'
    BY <1>1, <2>1, <2>2, OwnedLemma DEF IInv, TypeOK, Places
  <2> QED
    BY <1>1, <2>1, <2>2, <2>3 DEF IInv, ServesBound, PlaceInv, StartInv, IsOpen, IsListening
<1> QED
  BY <1>2, <1>3

(* accept(2): the descriptor it returns was free, so nobody held it.       *)
LEMMA AcceptIInv == ASSUME IInv, NEW r \in Results, Accept(r) PROVE IInv'
<1>1. /\ pc = "listen" /\ protocol = "TCP" /\ socket \in Socket /\ IsOpen(socket)
      /\ ~IsOpen(accepted) /\ IsListening(socket)
      /\ UNCHANGED <<protocol, handles, report>>
  BY DEF Accept, IInv, TypeOK, ServesBound, PlaceInv
<1>2. CASE r = "ok"
  <2>1. PICK k \in Unused : accepted' = AcceptedSocket(r, k) /\ kernel' = Mark(k, "connected")
    BY <1>2 DEF Accept
  <2>2. /\ pc' = "move" /\ UNCHANGED socket
        /\ accepted' = [fd |-> k, state |-> "Connected", status |-> "Success"]
    BY <1>2, <2>1 DEF Accept, AcceptedSocket, NewSocket
  <2>3. /\ k \in Fds /\ k # INVALID_SOCKET /\ k \notin Holders
        /\ kernel' = [kernel EXCEPT ![k] = "connected"]
    BY <2>1, SocketAssumption DEF Unused, Mark, IInv, DescriptorsOwned
  <2>4. TypeOK'
    BY <1>1, <2>2, <2>3 DEF IInv, TypeOK, Places, KernelStates, Socket, States
  <2>5. Holders' \cap Fds = (Holders \cap Fds) \cup {k}
    BY <1>1, <2>2, <2>3, SocketAssumption DEF Holders, IsOpen
  <2>6. DescriptorsOwned'
    <3>1. \A j \in Fds : kernel'[j] # "free" <=> j \in Holders'
      BY <2>3, <2>5 DEF IInv, TypeOK, DescriptorsOwned
    <3>2. k # socket.fd /\ \A i \in 1..Len(handles) : handles[i].fd # k
      BY <2>3 DEF Holders
    <3> QED
      BY <1>1, <2>2, <3>1, <3>2 DEF IInv, DescriptorsOwned
  <2>7. ServesBound'
    BY <1>1, <2>2, <2>3, OpenLemma DEF IInv, TypeOK, ServesBound, Holders
  <2>8. PlaceInv' /\ StartInv'
    BY <1>1, <2>2, <2>3 DEF IInv, PlaceInv, StartInv, IsOpen
  <2> QED
    BY <2>4, <2>6, <2>7, <2>8 DEF IInv
<1>3. CASE r # "ok"
  <2>1. pc' = "report" /\ UNCHANGED <<accepted, kernel>> /\ socket' = Latched(socket, r)
    BY <1>3 DEF Accept
  <2>2. socket' \in Socket /\ socket'.fd = socket.fd /\ socket'.state = socket.state
    BY <1>1, <2>1, StatusLemma
  <2>3. DescriptorsOwned' /\ TypeOK'
    BY <1>1, <2>1, <2>2, OwnedLemma DEF IInv, TypeOK, Places
  <2> QED
    BY <1>1, <2>1, <2>2, <2>3 DEF IInv, ServesBound, PlaceInv, StartInv, IsOpen, IsListening
<1> QED
  BY <1>2, <1>3

(* The descriptor passes from the local socket to the new handle.          *)
LEMMA MoveIInv == ASSUME IInv, Move PROVE IInv'
<1>1. /\ pc = "move" /\ pc' = "leave" /\ protocol = "TCP"
      /\ handles \in Seq(Socket) /\ accepted \in Socket /\ IsOpen(accepted)
      /\ handles' = Append(handles, accepted)
      /\ UNCHANGED <<protocol, socket, kernel, report>>
  BY DEF Move, IInv, TypeOK, PlaceInv
<1>2. accepted' \in Socket /\ accepted'.fd = INVALID_SOCKET
  BY <1>1 DEF Move, MovedFrom, Socket
<1>3. /\ handles' \in Seq(Socket) /\ Len(handles) \in Nat /\ Len(handles') = Len(handles) + 1
      /\ handles'[Len(handles')] = accepted
      /\ \A i \in 1..Len(handles) : handles'[i] = handles[i]
  BY <1>1
<1>4. TypeOK'
  BY <1>1, <1>2, <1>3 DEF IInv, TypeOK, Places
<1>5. \A i \in 1..Len(handles') : i \in 1..Len(handles) \/ i = Len(handles')
  BY <1>3
<1>6. DescriptorsOwned'
  <2>1. \A k \in Fds : k \in Holders' <=> k \in Holders
    <3>1. {handles'[i].fd : i \in 1..Len(handles')}
            = {handles[i].fd : i \in 1..Len(handles)} \cup {accepted.fd}
      BY <1>3, <1>5
    <3> QED
      BY <1>1, <1>2, <3>1, SocketAssumption DEF Holders
  <2>2. \A i \in 1..Len(handles) : handles[i].fd # accepted.fd
    BY DEF IInv, DescriptorsOwned
  <2>3. IsOpen(socket) => socket.fd # accepted.fd
    BY DEF IInv, DescriptorsOwned
  <2>4. accepted.fd # socket.fd
    BY <1>1, <2>3 DEF IsOpen
  <2>5. \A i \in 1..Len(handles') :
           IsOpen(handles'[i]) /\ handles'[i].fd \notin {socket.fd, INVALID_SOCKET}
    BY <1>1, <1>3, <1>5, <2>4 DEF IInv, DescriptorsOwned, IsOpen
  <2>6. \A i, j \in 1..Len(handles') : handles'[i].fd = handles'[j].fd => i = j
    BY <1>3, <1>5, <2>2 DEF IInv, DescriptorsOwned
  <2> QED
    BY <1>1, <1>2, <2>1, <2>5, <2>6 DEF IInv, DescriptorsOwned, IsOpen
<1>7. ServesBound' /\ PlaceInv' /\ StartInv'
  BY <1>1, <1>2, <1>3 DEF IInv, ServesBound, PlaceInv, StartInv, IsOpen
<1> QED
  BY <1>4, <1>6, <1>7 DEF IInv

(* What the local socket holds when it is destroyed is no handle's: Move   *)
(* left it without a descriptor.                                           *)
LEMMA LeaveIInv == ASSUME IInv, Leave PROVE IInv'
<1>1. /\ pc = "leave" /\ pc' = "serve" /\ protocol = "TCP" /\ accepted' = NewSocket
      /\ ~IsOpen(accepted)
      /\ UNCHANGED <<protocol, socket, handles, kernel, report>>
  BY DEF Leave, IInv, PlaceInv
<1>2. TypeOK'
  BY <1>1, NewSocketLemma DEF IInv, TypeOK, Places
<1>3. accepted'.fd = accepted.fd
  BY <1>1, NewSocketLemma DEF IsOpen
<1>4. Holders' = Holders
  BY <1>1, <1>3 DEF Holders
<1>5. DescriptorsOwned'
  BY <1>1, <1>3, <1>4 DEF IInv, DescriptorsOwned
<1>6. Len(handles) > 0
  BY <1>1 DEF IInv, PlaceInv
<1> QED
  BY <1>1, <1>2, <1>5, <1>6, NewSocketLemma DEF IInv, ServesBound, PlaceInv, StartInv

(* A call that changes no more than the status of the server's socket.     *)
LEMMA SocketStatusIInv ==
    ASSUME IInv, NEW r \in Results, socket' \in {Latched(socket, r), Failed(socket)},
           UNCHANGED <<protocol, accepted, handles, kernel>>,
           report' \in {"nothing", "Success"} \cup Errnos,
           pc \in {"listen", "answer", "serve", "report"},
           pc' \in {"listen", "answer", "serve", "report"},
           pc' = "answer" => protocol = "UDP",
           pc' = "serve" => pc = "serve" \/ protocol = "UDP"
    PROVE  IInv'
<1>1. socket' \in Socket /\ socket'.fd = socket.fd /\ socket'.state = socket.state
  BY ZenonT(60), StatusLemma DEF IInv, TypeOK
<1>2. DescriptorsOwned'
  BY <1>1, OwnedLemma
<1>3. TypeOK'
  BY <1>1 DEF IInv, TypeOK, Places
<1> QED
  BY <1>1, <1>2, <1>3 DEF IInv, ServesBound, PlaceInv, StartInv, IsOpen, IsListening

(* UdpServer::Listen, and main's report of a failure.                      *)
LEMMA UdpListenIInv ==
    ASSUME IInv, NEW r \in Results, NEW magic \in BOOLEAN,
           ReceiveFrom(r, magic) \/ AnswerMagic(r) \/ Report
    PROVE  IInv'
<1>1. socket.status \in {"Success"} \cup Errnos
  BY DEF IInv, TypeOK, Socket
<1> QED
  BY <1>1, SocketStatusIInv DEF ReceiveFrom, AnswerMagic, Report, IInv, TypeOK, PlaceInv

(* Over TCP, a call that changes no more than the status of the socket     *)
(* served, the last of the handles.                                        *)
LEMMA ServedStatusIInv ==
    ASSUME IInv, pc = "serve", protocol = "TCP", NEW r \in Results,
           NEW s \in {Latched(Served, r), Failed(Served)}, SetServed(s),
           UNCHANGED <<protocol, accepted, kernel, report>>,
           pc' \in {"listen", "report", "serve"}
    PROVE  IInv'
<1>1. /\ handles \in Seq(Socket) /\ Len(handles) > 0
      /\ Len(handles) \in 1..Len(handles) /\ Len(handles) \in Nat
      /\ Served = handles[Len(handles)] /\ Served \in Socket
      /\ handles' = [handles EXCEPT ![Len(handles)] = s]
      /\ socket' = socket
  BY DEF IInv, TypeOK, PlaceInv, Served, SetServed
<1>2. s \in Socket /\ s.fd = Served.fd /\ s.state = Served.state
  BY <1>1, StatusLemma
<1>3. /\ handles' \in Seq(Socket) /\ Len(handles') = Len(handles)
      /\ \A i \in 1..Len(handles) : handles'[i].fd = handles[i].fd
  BY <1>1, <1>2
<1>4. TypeOK'
  BY <1>1, <1>3 DEF IInv, TypeOK, Places
<1>5. {handles'[i].fd : i \in 1..Len(handles')} = {handles[i].fd : i \in 1..Len(handles)}
  BY <1>3
<1>6. Holders' = Holders
  BY <1>1, <1>5 DEF Holders
<1>7. DescriptorsOwned'
  BY ZenonT(60), <1>1, <1>3, <1>6 DEF IInv, DescriptorsOwned, IsOpen
<1>8. Len(handles') > 0
  BY <1>1, <1>3
<1> QED
  BY <1>1, <1>4, <1>7, <1>8 DEF IInv, ServesBound, PlaceInv, StartInv

(* A Send or Receive fails, or CheckFail clears a status it does not list. *)
LEMMA FailsIInv ==
    ASSUME IInv, NEW r \in Results, Fails(r) \/ CheckFailOther
    PROVE  IInv'
<1>1. /\ pc = "serve" /\ pc' \in {"listen", "report", "serve"}
      /\ SetServed(Latched(Served, r)) \/ SetServed(Failed(Served))
      /\ UNCHANGED <<protocol, accepted, kernel, report>>
  BY DEF Fails, CheckFailOther
<1>2. CASE protocol = "TCP"
  BY <1>1, <1>2, ServedStatusIInv
<1>3. CASE protocol # "TCP"
  <2>1. protocol = "UDP"
    BY <1>3, ListenAssumption DEF IInv, TypeOK
  <2>2. socket' \in {Latched(socket, r), Failed(socket)} /\ UNCHANGED handles
    BY <1>1, <1>3 DEF SetServed, Served
  <2>3. report' \in {"nothing", "Success"} \cup Errnos
    BY <1>1 DEF IInv, TypeOK
  <2> QED
    BY <1>1, <2>1, <2>2, <2>3, SocketStatusIInv
<1> QED
  BY <1>2, <1>3

(* A sequence without its last element.                                    *)
LEMMA ButLastLemma ==
    ASSUME NEW S, NEW s \in Seq(S), Len(s) > 0
    PROVE  LET t == SubSeq(s, 1, Len(s) - 1)
           IN  /\ t \in Seq(S) /\ Len(t) = Len(s) - 1
               /\ \A i \in 1..(Len(s) - 1) : t[i] = s[i]
<1>1. PICK m \in Nat : m = Len(s) - 1
  OBVIOUS
<1>2. \A i \in 1..m : s[i] \in S
  BY <1>1
<1>3. /\ SubSeq(s, 1, m) \in Seq(S)
      /\ Len(SubSeq(s, 1, m)) = IF 1 <= m THEN m - 1 + 1 ELSE 0
      /\ \A i \in 1..(m - 1 + 1) : SubSeq(s, 1, m)[i] = s[1 + i - 1]
  BY <1>2, SubSeqProperties
<1>4. Len(SubSeq(s, 1, m)) = m
  BY <1>3
<1>5. ASSUME NEW i \in 1..m PROVE SubSeq(s, 1, m)[i] = s[i]
  <2>1. i \in 1..(m - 1 + 1) /\ 1 + i - 1 = i
    OBVIOUS
  <2> QED
    BY <1>3, <2>1
<1> QED
  BY <1>1, <1>3, <1>4, <1>5

(* The connection that failed is closed as its handle is removed.          *)
LEMMA RemoveIInv ==
    ASSUME IInv, pc = "serve", protocol = "TCP", pc' = "listen",
           kernel' = Mark(Served.fd, "free"),
           handles' = SubSeq(handles, 1, Len(handles) - 1),
           UNCHANGED <<protocol, socket, accepted, report>>
    PROVE  IInv'
<1> DEFINE n == Len(handles)
<1>1. /\ handles \in Seq(Socket) /\ n \in Nat \ {0} /\ n \in 1..n
      /\ Served = handles[n]
      /\ ~IsOpen(accepted)
  BY DEF IInv, TypeOK, PlaceInv, Served
<1>2. /\ handles' \in Seq(Socket) /\ Len(handles') = n - 1
      /\ \A i \in 1..(n - 1) : handles'[i] = handles[i]
  BY <1>1, ButLastLemma
<1>3. /\ \A i \in 1..n : IsOpen(handles[i]) /\ handles[i].fd \notin {socket.fd, accepted.fd}
      /\ \A i, j \in 1..n : handles[i].fd = handles[j].fd => i = j
      /\ \A k \in Fds : kernel[k] # "free" <=> k \in Holders
      /\ IsOpen(socket) => socket.fd # accepted.fd
  BY DEF IInv, DescriptorsOwned
<1>4. Served.fd \in Fds /\ kernel' = [kernel EXCEPT ![Served.fd] = "free"]
  BY <1>1, <1>3, OpenLemma DEF Mark
<1>5. TypeOK'
  BY <1>2, <1>4 DEF IInv, TypeOK, Places, KernelStates
<1>6. Holders' = Holders \ {Served.fd}
  <2>1. \A i \in 1..n : i \in 1..(n - 1) \/ i = n
    BY <1>1
  <2>2. \A i \in 1..(n - 1) : i \in 1..n /\ i # n
    BY <1>1
  <2>3. {handles'[i].fd : i \in 1..Len(handles')} = {handles[i].fd : i \in 1..(n - 1)}
    BY <1>2
  <2>4. {handles[i].fd : i \in 1..n} = {handles[i].fd : i \in 1..(n - 1)} \cup {Served.fd}
    BY <1>1, <2>1, <2>2
  <2>5. Served.fd \notin {handles[i].fd : i \in 1..(n - 1)}
    BY <1>1, <1>3, <2>2
  <2>6. Served.fd \notin {socket.fd, accepted.fd}
    BY <1>1, <1>3
  <2> QED
    BY <2>3, <2>4, <2>5, <2>6 DEF Holders
<1>7. DescriptorsOwned'
  <2>1. \A k \in Fds : kernel'[k] # "free" <=> k \in Holders'
    BY <1>3, <1>4, <1>6 DEF IInv, TypeOK
  <2>2. \A i \in 1..Len(handles') :
           IsOpen(handles'[i]) /\ handles'[i].fd \notin {socket.fd, accepted.fd}
    BY <1>1, <1>2, <1>3
  <2>3. \A i, j \in 1..Len(handles') : handles'[i].fd = handles'[j].fd => i = j
    BY <1>1, <1>2, <1>3
  <2> QED
    BY <1>3, <2>1, <2>2, <2>3 DEF DescriptorsOwned
<1>8. ServesBound'
  <2>1. socket \in Socket /\ IsOpen(socket) /\ kernel[socket.fd] \in {"bound", "listening"}
    BY DEF IInv, TypeOK, ServesBound
  <2>2. socket.fd \in Fds /\ socket.fd # Served.fd
    BY <1>1, <1>3, <2>1, OpenLemma
  <2>3. kernel'[socket.fd] = kernel[socket.fd]
    BY <1>4, <2>2 DEF IInv, TypeOK
  <2> QED
    BY <2>1, <2>3 DEF IInv, ServesBound
<1> QED
  BY <1>1, <1>5, <1>7, <1>8 DEF IInv, PlaceInv, StartInv

(* CheckFail and a status it lists; or a step of the loop without one.     *)
LEMMA CheckFailListedIInv == ASSUME IInv, CheckFailListed \/ Leaves PROVE IInv'
<1>0. report \in {"nothing", "Success"} \cup Errnos /\ protocol \in {"TCP", "UDP"}
  BY ListenAssumption DEF IInv, TypeOK
<1>1. CASE CheckFailListed /\ End
  BY <1>0, <1>1, EmptyIInv DEF CheckFailListed, End, IInv, TypeOK
<1>2. CASE CheckFailListed /\ ~End /\ protocol = "TCP"
  BY <1>2, RemoveIInv DEF CheckFailListed
<1>3. CASE CheckFailListed /\ ~End /\ protocol = "UDP"
  BY <1>0, <1>3, SocketStatusIInv DEF CheckFailListed, Results
<1>4. CASE Leaves
  <2>1. DescriptorsOwned' /\ TypeOK'
    BY <1>4, OwnedLemma DEF Leaves, IInv, TypeOK, Places
  <2> QED
    BY <1>4, <2>1 DEF Leaves, IInv, ServesBound, PlaceInv, StartInv
<1> QED
  BY <1>0, <1>1, <1>2, <1>3, <1>4

(* Every step keeps the invariant.                                         *)
LEMMA NextIInv == IInv /\ [Next]_vars => IInv'
<1> SUFFICES ASSUME IInv, [Next]_vars PROVE IInv'
  OBVIOUS
<1>1. CASE Startup
  BY <1>1, OpenIInv, SetOptionIInv, BindIInv, CloseUnboundIInv, CheckStartupIInv DEF Startup
<1>2. CASE TcpListen
  BY <1>2, ListenIInv, AcceptIInv, MoveIInv, LeaveIInv DEF TcpListen
<1>3. CASE UdpListen \/ Report
  BY <1>3, UdpListenIInv DEF UdpListen, Results
<1>4. CASE Serving
  BY <1>4, FailsIInv, CheckFailListedIInv DEF Serving, Results
<1>5. CASE UNCHANGED vars
  BY <1>5
     DEF vars, IInv, TypeOK, DescriptorsOwned, Holders, ServesBound, PlaceInv, StartInv
<1> QED
  BY <1>1, <1>2, <1>3, <1>4, <1>5 DEF Next

(* The inductive invariant holds.                                          *)
THEOREM ListenInvariant == Spec => []IInv
BY InitIInv, NextIInv, PTL DEF Spec

(* Every variable of the server's sockets keeps its type.                  *)
THEOREM ListenTypeOK == Spec => []TypeOK
<1>1. IInv => TypeOK
  BY DEF IInv
<1> QED
  BY <1>1, ListenInvariant, PTL

(* Every open descriptor of the server has exactly one owner.              *)
THEOREM ListenDescriptorsOwned == Spec => []DescriptorsOwned
<1>1. IInv => DescriptorsOwned
  BY DEF IInv
<1> QED
  BY <1>1, ListenInvariant, PTL

(* Only a socket that did bind is served.                                  *)
THEOREM ListenServesBound == Spec => []ServesBound
<1>1. IInv => ServesBound
  BY DEF IInv
<1> QED
  BY <1>1, ListenInvariant, PTL

-----------------------------------------------------------------------------
(* The command line.                                                       *)

(* How much of the command line ParseServerArgs has behind it.             *)
Done == Len(argv) - Len(rest)

(* What is left of the command line is an end of it, and it is looked at   *)
(* only until the directory is known to be good.                           *)
RestInv ==
    /\ step \in {"parse", "directory", "start", "running", "help", "failed", "aborted"}
    /\ argv \in Seq(Arguments)
    /\ rest \in Seq(Arguments)
    /\ Len(rest) <= Len(argv)
    /\ \A i \in 1..Len(rest) : rest[i] = argv[Done + i]
    /\ step # "parse" => rest = <<>>

(* The options behind: those whose places are up to Done.                  *)
Behind(names) == {i \in 1..Done : argv[i] \in names}
LastBehind(names, i) == i \in Behind(names) /\ \A j \in Behind(names) : j <= i

HelpInv ==
    /\ help \in BOOLEAN
    /\ help <=> Behind({"help", "h"}) # {}
    /\ step \in {"directory", "start"} => ~help

(* What was parsed so far is what was asked for so far.                    *)
ConfigInv ==
    /\ result \in BOOLEAN
    /\ config = [port |-> config.port, protocol |-> config.protocol, dir |-> config.dir]
    /\ config.protocol \in {"TCP", "UDP"}
ProtocolInv == config.protocol = "UDP" <=> Behind({"udp"}) # {}
ParametersInv == \A i \in Behind(PortNames \cup DirNames) : ParameterAt(i)
DirInv ==
    /\ Behind(DirNames) = {} => config.dir = DEFAULT_FILES_DIR
    /\ \A i : LastBehind(DirNames, i) => config.dir = argv[i + 1]
PortIs(port, value) == \A n \in Number[value] : n < Unsigneds => port = n
PortInv ==
    /\ Behind(PortNames) = {} => config.port = DEFAULT_SERVER_PORT
    /\ \A i : LastBehind(PortNames, i) => PortIs(config.port, argv[i + 1])
LastInv == \A names \in {PortNames, DirNames} : Behind(names) # {} => \E i : LastBehind(names, i)

AskedInv ==
    /\ ConfigInv
    /\ step \in {"parse", "directory", "start"} =>
          /\ ProtocolInv /\ LastInv
          /\ result => ParametersInv /\ DirInv /\ PortInv
    /\ step \in {"directory", "start"} => result
    /\ step = "start" => path[config.dir] = "directory"
    /\ path \in [Values -> PathStates]

ArgsInv == RestInv /\ HelpInv /\ AskedInv

(* A turn of the loop takes an option, and perhaps a value with it.        *)
Turn(n) ==
    /\ step = "parse" /\ rest # <<>>
    /\ n <= Len(rest)
    /\ n = 2 => rest[2] \notin Options
    /\ Take(n)
    /\ UNCHANGED <<step, argv>>

LEMMA TurnLemma ==
    ASSUME RestInv, NEW n \in 1..2, Turn(n)
    PROVE  /\ RestInv'
           /\ Done \in Nat /\ Done' = Done + n /\ Done + n <= Len(argv)
           /\ Option = argv[Done + 1] /\ Option \in Arguments
           /\ n = 2 => rest[2] = argv[Done + 2] /\ rest[2] \in Values
<1>1. /\ Len(rest) \in Nat /\ Len(argv) \in Nat /\ Len(rest) >= n
      /\ rest \in Seq(Arguments) /\ argv \in Seq(Arguments) /\ Len(rest) <= Len(argv)
  BY DEF Turn, RestInv
<1>2. Done \in Nat /\ Done + n <= Len(argv)
  BY <1>1 DEF Done
<1>3. /\ rest' = SubSeq(rest, n + 1, Len(rest))
      /\ rest' \in Seq(Arguments)
      /\ Len(rest') = Len(rest) - n
      /\ \A i \in 1..Len(rest') : rest'[i] = rest[n + i]
  BY <1>1 DEF Turn, Take
<1>4. Done' = Done + n
  <2>1. argv' = argv
    BY DEF Turn
  <2>2. Len(rest') = Len(rest) - n
    BY <1>3
  <2> QED
    BY <1>1, <2>1, <2>2 DEF Done
<1>5. \A i \in 1..Len(rest') : rest'[i] = argv'[Done' + i]
  <2> TAKE i \in 1..Len(rest')
  <2>1. n + i \in 1..Len(rest)
    BY <1>1, <1>3
  <2>2. rest[n + i] = argv[Done + (n + i)]
    BY <2>1 DEF RestInv
  <2>3. Done' + i = Done + (n + i)
    BY <1>2, <1>4
  <2> QED
    BY <2>2, <2>3, <1>3 DEF Turn
<1>6. RestInv'
  BY <1>1, <1>3, <1>5 DEF RestInv, Turn
<1>7. Option = rest[1] /\ rest[1] = argv[Done + 1] /\ rest[1] \in Arguments
  BY <1>1 DEF Option, RestInv
<1>8. n = 2 => rest[2] = argv[Done + 2] /\ rest[2] \in Values
  BY <1>1 DEF RestInv, Turn, Arguments
<1> QED
  BY <1>2, <1>4, <1>6, <1>7, <1>8

(* Of an option only the option itself comes to lie behind.                *)
LEMMA BehindLemma ==
    ASSUME RestInv, NEW n \in 1..2, Turn(n), NEW names \in SUBSET Options
    PROVE  /\ Option \in names => Behind(names)' = Behind(names) \cup {Done + 1}
           /\ Option \notin names => Behind(names)' = Behind(names)
<1>1. Done \in Nat /\ Done' = Done + n /\ Option = argv[Done + 1] /\ argv' = argv
  BY TurnLemma DEF Turn
<1>2. n = 2 => argv[Done + 2] \notin names
  <2>1. Options \cap Values = {}
    BY ServerArgsAssumption
  <2> QED
    BY <2>1, TurnLemma
<1>3. Behind(names)' = {i \in 1..(Done + n) : argv[i] \in names}
  BY <1>1 DEF Behind
<1>4. \A i : i \in 1..(Done + n) <=> i \in 1..Done \/ i = Done + 1 \/ (n = 2 /\ i = Done + 2)
  BY <1>1
<1> QED
  BY <1>1, <1>2, <1>3, <1>4 DEF Behind

LEMMA NamesLemma ==
    /\ PortNames \in SUBSET Options /\ DirNames \in SUBSET Options
    /\ (PortNames \cup DirNames) \in SUBSET Options
    /\ {"udp"} \in SUBSET Options /\ {"help", "h"} \in SUBSET Options
  BY DEF PortNames, DirNames, Options

(* Nothing is behind at the start, and everything at the end.              *)
LEMMA InitArgsInv == ArgsInit => ArgsInv
<1> SUFFICES ASSUME ArgsInit PROVE ArgsInv
  OBVIOUS
<1>1. PICK n \in 0..MaxArgs : argv \in [1..n -> Arguments]
  BY DEF ArgsInit, CommandLines
<1>2. n \in Nat
  BY ServerArgsAssumption
<1>3. argv \in Seq(Arguments) /\ Len(argv) = n
  BY <1>1, <1>2
<1>4. rest = argv /\ Done = 0
  BY <1>3, <1>2 DEF ArgsInit, Done
<1>5. RestInv
  BY <1>3, <1>4 DEF ArgsInit, RestInv
<1>6. \A names : Behind(names) = {}
  BY <1>4 DEF Behind
<1>7. HelpInv
  BY <1>6 DEF ArgsInit, HelpInv
<1>8. AskedInv
  BY <1>6, ServerArgsAssumption
     DEF ArgsInit, AskedInv, LastBehind, ConfigInv, ProtocolInv, ParametersInv, DirInv,
         PortInv, LastInv
<1> QED
  BY <1>5, <1>7, <1>8 DEF ArgsInv

(* An option that is of none of the kinds asked about changes nothing.     *)
LEMMA OthersBehindLemma ==
    ASSUME ArgsInv, NEW n \in 1..2, Turn(n), NEW names \in SUBSET Options, Option \notin names
    PROVE  /\ Behind(names)' = Behind(names)
           /\ \A i : LastBehind(names, i)' <=> LastBehind(names, i)
<1>1. Behind(names)' = Behind(names)
  BY BehindLemma DEF ArgsInv
<1> QED
  BY <1>1 DEF LastBehind

(* The option just read is the last of its kind.                           *)
LEMMA LastBehindLemma ==
    ASSUME ArgsInv, NEW n \in 1..2, Turn(n), NEW names \in SUBSET Options, Option \in names
    PROVE  /\ Behind(names)' = Behind(names) \cup {Done + 1}
           /\ \A i : LastBehind(names, i)' <=> i = Done + 1
<1>1. Behind(names)' = Behind(names) \cup {Done + 1}
  BY BehindLemma DEF ArgsInv
<1>2. Done \in Nat
  BY TurnLemma DEF ArgsInv
<1>3. \A i \in Behind(names) : i \in Nat /\ i <= Done
  BY <1>2 DEF Behind
<1>4. \A i : LastBehind(names, i)' <=> i \in Behind(names)' /\ \A j \in Behind(names)' : j <= i
  BY DEF LastBehind
<1> QED
  BY <1>1, <1>2, <1>3, <1>4

(* The help flag is one of the options behind.                             *)
LEMMA HelpTurnLemma ==
    ASSUME ArgsInv, NEW n \in 1..2, Turn(n),
           help' = (help \/ Option \in {"help", "h"})
    PROVE  HelpInv'
<1>1. help' \in BOOLEAN /\ step' = "parse"
  BY DEF ArgsInv, HelpInv, Turn
<1>2. CASE Option \in {"help", "h"}
  BY ZenonT(60), <1>1, <1>2, LastBehindLemma, NamesLemma DEF HelpInv
<1>3. CASE Option \notin {"help", "h"}
  BY <1>1, <1>3, OthersBehindLemma, NamesLemma DEF HelpInv, ArgsInv
<1> QED
  BY <1>2, <1>3

(* What a turn keeps of the options it does not read, and of their last.   *)
LEMMA LastTurnLemma ==
    ASSUME ArgsInv, NEW n \in 1..2, Turn(n)
    PROVE  LastInv'
<1>1. LastInv
  BY DEF ArgsInv, AskedInv, Turn
<1> SUFFICES ASSUME NEW names \in {PortNames, DirNames}
             PROVE  Behind(names)' # {} => \E i : LastBehind(names, i)'
  BY DEF LastInv
<1>2. names \in SUBSET Options
  BY NamesLemma
<1>3. CASE Option \in names
  BY <1>2, <1>3, LastBehindLemma
<1>4. CASE Option \notin names
  BY <1>1, <1>2, <1>4, OthersBehindLemma DEF LastInv
<1> QED
  BY <1>3, <1>4

LEMMA ProtocolTurnLemma ==
    ASSUME ArgsInv, NEW n \in 1..2, Turn(n),
           config'.protocol = IF Option = "udp" THEN "UDP" ELSE config.protocol
    PROVE  ProtocolInv'
<1>1. ProtocolInv
  BY DEF ArgsInv, AskedInv, Turn
<1>2. CASE Option = "udp"
  <2>1. Behind({"udp"})' = Behind({"udp"}) \cup {Done + 1}
    BY <1>2, LastBehindLemma, NamesLemma
  <2> QED
    BY <1>2, <2>1 DEF ProtocolInv
<1>3. CASE Option # "udp"
  <2>1. Behind({"udp"})' = Behind({"udp"})
    BY <1>3, OthersBehindLemma, NamesLemma
  <2> QED
    BY <1>1, <1>3, <2>1 DEF ProtocolInv
<1> QED
  BY <1>2, <1>3

(* Every option that must have a parameter had one, and it was taken.      *)
LEMMA ParametersTurnLemma ==
    ASSUME ArgsInv, result, NEW n \in 1..2, Turn(n),
           Option \in PortNames \cup DirNames => n = 2
    PROVE  ParametersInv'
<1>1. ParametersInv /\ argv' = argv
  BY DEF ArgsInv, AskedInv, Turn
<1>2. CASE Option \notin PortNames \cup DirNames
  <2>1. Behind(PortNames \cup DirNames)' = Behind(PortNames \cup DirNames)
    BY <1>2, OthersBehindLemma, NamesLemma
  <2> QED
    BY <1>1, <2>1 DEF ParametersInv, ParameterAt
<1>3. CASE Option \in PortNames \cup DirNames
  <2>1. Behind(PortNames \cup DirNames)' = Behind(PortNames \cup DirNames) \cup {Done + 1}
    BY <1>3, LastBehindLemma, NamesLemma
  <2>2. Done \in Nat /\ Done + 2 <= Len(argv) /\ argv[Done + 2] \in Values
    BY <1>3, TurnLemma DEF ArgsInv
  <2>3. Done + 1 < Len(argv) /\ argv[(Done + 1) + 1] \in Values
    <3>1. Len(argv) \in Nat /\ (Done + 1) + 1 = Done + 2
      BY <2>2 DEF ArgsInv, RestInv
    <3> QED
      BY <2>2, <3>1
  <2> QED
    BY <1>1, <2>1, <2>3 DEF ParametersInv, ParameterAt
<1> QED
  BY <1>2, <1>3

LEMMA DirTurnLemma ==
    ASSUME ArgsInv, result, NEW n \in 1..2, Turn(n),
           Option \in DirNames => n = 2 /\ config'.dir = GetParameter,
           Option \notin DirNames => config'.dir = config.dir
    PROVE  DirInv'
<1>1. DirInv /\ argv' = argv
  BY DEF ArgsInv, AskedInv, Turn
<1>2. CASE Option \notin DirNames
  BY <1>1, <1>2, OthersBehindLemma, NamesLemma DEF DirInv
<1>3. CASE Option \in DirNames
  <2>1. Behind(DirNames)' # {} /\ \A i : LastBehind(DirNames, i)' <=> i = Done + 1
    BY <1>3, LastBehindLemma, NamesLemma
  <2>2. Done \in Nat /\ config'.dir = argv[Done + 2]
    BY <1>3, TurnLemma DEF ArgsInv, GetParameter
  <2>3. (Done + 1) + 1 = Done + 2
    BY <2>2
  <2> QED
    BY <1>1, <2>1, <2>2, <2>3 DEF DirInv
<1> QED
  BY <1>2, <1>3

LEMMA PortTurnLemma ==
    ASSUME ArgsInv, result, NEW n \in 1..2, Turn(n),
           Option \in PortNames => n = 2 /\ PortIs(config'.port, GetParameter),
           Option \notin PortNames => config'.port = config.port
    PROVE  PortInv'
<1>1. PortInv /\ argv' = argv
  BY DEF ArgsInv, AskedInv, Turn
<1>2. CASE Option \notin PortNames
  BY <1>1, <1>2, OthersBehindLemma, NamesLemma DEF PortInv
<1>3. CASE Option \in PortNames
  <2>1. Behind(PortNames)' # {} /\ \A i : LastBehind(PortNames, i)' <=> i = Done + 1
    BY <1>3, LastBehindLemma, NamesLemma
  <2>2. Done \in Nat /\ PortIs(config'.port, argv[Done + 2])
    BY <1>3, TurnLemma DEF ArgsInv, GetParameter
  <2>3. (Done + 1) + 1 = Done + 2
    BY <2>2
  <2> QED
    BY <1>1, <2>1, <2>2, <2>3 DEF PortInv
<1> QED
  BY <1>2, <1>3

(* The port that ParseTo returns is the number that was typed.             *)
LEMMA ParsePortLemma ==
    ASSUME NEW value \in Values, NEW port \in ParsePort(value)
    PROVE  PortIs(port, value)
<1>1. PICK m \in Number[value] : port = m % Unsigneds
  BY DEF ParsePort, ParseUnsigned
<1>2. \A n \in Number[value] : n = m /\ n \in Nat
  BY ServerArgsAssumption
<1>3. Unsigneds \in Nat /\ Unsigneds > 0
  BY ServerArgsAssumption
<1> QED
  BY <1>1, <1>2, <1>3 DEF PortIs

(* The turns that read no parameter.                                       *)
LEMMA BareTurnIInv ==
    ASSUME ArgsInv, UnexpectedArgument \/ UdpOption \/ HelpOption PROVE ArgsInv'
<1>1. /\ Turn(1) /\ result' = result
      /\ Option \notin PortNames \cup DirNames
      /\ help' = (help \/ Option \in {"help", "h"})
      /\ config' = IF Option = "udp" THEN [config EXCEPT !.protocol = "UDP"] ELSE config
  <2>1. /\ Options \cap Values = {} /\ rest # <<>> /\ Len(rest) \in Nat /\ help \in BOOLEAN
        /\ rest \in Seq(Arguments)
    BY ServerArgsAssumption DEF UnexpectedArgument, UdpOption, HelpOption, ArgsInv, RestInv, HelpInv
  <2>2. 1 <= Len(rest)
    BY <2>1
  <2>3. CASE UnexpectedArgument
    <3>1. Option \notin {"port", "p", "dir", "d", "udp", "help", "h"}
      BY <2>1, <2>3 DEF UnexpectedArgument, Options
    <3> QED
      BY <2>1, <2>2, <2>3, <3>1 DEF UnexpectedArgument, Turn, PortNames, DirNames
  <2>4. CASE UdpOption
    BY <2>1, <2>2, <2>4 DEF UdpOption, Turn, PortNames, DirNames
  <2>5. CASE HelpOption
    <3>1. help' = TRUE /\ Option \in {"help", "h"}
      BY <2>5 DEF HelpOption
    <3>2. help' = (help \/ Option \in {"help", "h"})
      BY <3>1
    <3> QED
      BY <2>1, <2>2, <2>5, <3>1, <3>2 DEF HelpOption, Turn, PortNames, DirNames
  <2>6. UnexpectedArgument \/ UdpOption \/ HelpOption
    OBVIOUS
  <2> QED
    BY <2>3, <2>4, <2>5, <2>6
<1>2. /\ config'.protocol = IF Option = "udp" THEN "UDP" ELSE config.protocol
      /\ config'.port = config.port /\ config'.dir = config.dir
      /\ ConfigInv'
  <2>1. ConfigInv
    BY DEF ArgsInv, AskedInv
  <2> QED
    BY <1>1, <2>1 DEF ConfigInv
<1>3. step' = "parse"
  BY <1>1 DEF Turn
<1>4. RestInv' /\ HelpInv' /\ ProtocolInv' /\ LastInv'
  BY <1>1, <1>2, TurnLemma, HelpTurnLemma, ProtocolTurnLemma, LastTurnLemma DEF ArgsInv
<1>5. ASSUME result PROVE ParametersInv' /\ DirInv' /\ PortInv'
  BY <1>1, <1>2, <1>5, ParametersTurnLemma, DirTurnLemma, PortTurnLemma
<1>6. path' = path
  BY DEF UnexpectedArgument, UdpOption, HelpOption
<1> QED
  BY <1>1, <1>2, <1>3, <1>4, <1>5, <1>6 DEF ArgsInv, AskedInv

(* The turns that need one: without it result is false for ever.           *)
LEMMA ParameterTurnLemma ==
    ASSUME ArgsInv, PortOption \/ DirOption
    PROVE  /\ Turn(Taken) /\ Taken \in 1..2 /\ help' = help
           /\ Option \notin {"udp", "help", "h"}
           /\ HasParameter => Taken = 2 /\ GetParameter \in Values
<1>1. /\ rest # <<>> /\ Len(rest) \in Nat /\ rest \in Seq(Arguments)
      /\ Take(Taken) /\ step = "parse" /\ UNCHANGED <<step, argv, help>>
      /\ Option \in {"port", "p", "dir", "d"}
  BY DEF PortOption, DirOption, ArgsInv, RestInv
<1>2. 1 <= Len(rest)
  BY <1>1
<1>3. CASE HasParameter
  BY <1>1, <1>2, <1>3 DEF Turn, Taken, HasParameter, GetParameter, Arguments
<1>4. CASE ~HasParameter
  BY <1>1, <1>2, <1>4 DEF Turn, Taken
<1> QED
  BY <1>1, <1>3, <1>4

LEMMA DirOptionIInv == ASSUME ArgsInv, DirOption PROVE ArgsInv'
<1>1. /\ Turn(Taken) /\ Taken \in 1..2 /\ help' = help
      /\ Option \notin {"udp", "help", "h"} /\ step' = "parse"
      /\ HasParameter => Taken = 2 /\ GetParameter \in Values
  BY ParameterTurnLemma DEF Turn
<1>2. Option \in DirNames /\ Option \notin PortNames
  BY DEF DirOption, DirNames, PortNames
<1>3. /\ result' = (result /\ HasParameter)
      /\ config' = IF HasParameter THEN [config EXCEPT !.dir = GetParameter] ELSE config
  BY DEF DirOption
<1>4. ConfigInv
  BY DEF ArgsInv, AskedInv
<1>5. /\ config'.protocol = config.protocol /\ config'.port = config.port
      /\ HasParameter => config'.dir = GetParameter
  BY <1>3, <1>4 DEF ConfigInv
<1>6. ConfigInv'
  <2>1. result' \in BOOLEAN
    BY <1>3, <1>4 DEF ConfigInv, HasParameter
  <2>2. config' = [port |-> config'.port, protocol |-> config'.protocol, dir |-> config'.dir]
    BY <1>3, <1>4 DEF ConfigInv
  <2> QED
    BY <1>4, <1>5, <2>1, <2>2 DEF ConfigInv
<1>7. RestInv' /\ HelpInv' /\ ProtocolInv' /\ LastInv'
  <2>1. help' = (help \/ Option \in {"help", "h"})
    BY <1>1 DEF ArgsInv, HelpInv
  <2> QED
    BY <1>1, <1>5, <2>1, TurnLemma, HelpTurnLemma, ProtocolTurnLemma, LastTurnLemma DEF ArgsInv
<1>8. ASSUME result' PROVE ParametersInv' /\ DirInv' /\ PortInv'
  <2>1. result /\ HasParameter
    BY <1>3, <1>8
  <2> QED
    BY <1>1, <1>2, <1>5, <2>1, ParametersTurnLemma, DirTurnLemma, PortTurnLemma
<1>9. path' = path
  BY DEF DirOption
<1> QED
  BY <1>1, <1>6, <1>7, <1>8, <1>9 DEF ArgsInv, AskedInv

LEMMA PortOptionIInv == ASSUME ArgsInv, PortOption PROVE ArgsInv'
<1> DEFINE parsed == IF HasParameter THEN ParsePort(GetParameter) ELSE {}
<1>1. /\ Turn(Taken) /\ Taken \in 1..2 /\ help' = help
      /\ Option \notin {"udp", "help", "h"} /\ step' = "parse"
      /\ HasParameter => Taken = 2 /\ GetParameter \in Values
  BY ParameterTurnLemma DEF Turn
<1>2. Option \in PortNames /\ Option \notin DirNames
  BY DEF PortOption, DirNames, PortNames
<1>3. /\ result' = (result /\ parsed # {})
      /\ (parsed = {} /\ config' = config) \/ \E n \in parsed : config' = [config EXCEPT !.port = n]
  BY DEF PortOption
<1>4. ConfigInv
  BY DEF ArgsInv, AskedInv
<1>5. config'.protocol = config.protocol /\ config'.dir = config.dir
  BY <1>3, <1>4 DEF ConfigInv
<1>6. ConfigInv'
  <2>1. result' \in BOOLEAN
    BY <1>3, <1>4 DEF ConfigInv
  <2>2. config' = [port |-> config'.port, protocol |-> config'.protocol, dir |-> config'.dir]
    BY <1>3, <1>4 DEF ConfigInv
  <2> QED
    BY <1>4, <1>5, <2>1, <2>2 DEF ConfigInv
<1>7. RestInv' /\ HelpInv' /\ ProtocolInv' /\ LastInv'
  <2>1. help' = (help \/ Option \in {"help", "h"})
    BY <1>1 DEF ArgsInv, HelpInv
  <2> QED
    BY <1>1, <1>5, <2>1, TurnLemma, HelpTurnLemma, ProtocolTurnLemma, LastTurnLemma DEF ArgsInv
<1>8. ASSUME result' PROVE ParametersInv' /\ DirInv' /\ PortInv'
  <2>1. result /\ parsed # {} /\ HasParameter
    BY <1>3, <1>8
  <2>2. PICK n \in ParsePort(GetParameter) : config' = [config EXCEPT !.port = n]
    BY <1>3, <2>1
  <2>3. config'.port = n
    BY <1>4, <2>2 DEF ConfigInv
  <2>4. PortIs(config'.port, GetParameter)
    BY <1>1, <2>1, <2>3, ParsePortLemma
  <2> QED
    BY <1>1, <1>2, <1>5, <2>1, <2>4, ParametersTurnLemma, DirTurnLemma, PortTurnLemma
<1>9. path' = path
  BY DEF PortOption
<1> QED
  BY <1>1, <1>6, <1>7, <1>8, <1>9 DEF ArgsInv, AskedInv

(* What is behind when everything is behind.                               *)
LEMMA AllBehindLemma ==
    ASSUME RestInv, rest = <<>>, NEW names
    PROVE  Done = Len(argv) /\ Behind(names) = PlacesOf(names)
<1>1. Done = Len(argv)
  BY DEF RestInv, Done
<1> QED
  BY <1>1 DEF Behind, PlacesOf

(* The steps that do not read the command line keep what it asked for.     *)
LEMMA KeptLemma ==
    ASSUME UNCHANGED <<argv, rest, config, result, help>>
    PROVE  /\ Done' = Done
           /\ \A names : Behind(names)' = Behind(names)
           /\ ConfigInv' <=> ConfigInv
           /\ ProtocolInv' <=> ProtocolInv
           /\ ParametersInv' <=> ParametersInv
           /\ DirInv' <=> DirInv
           /\ PortInv' <=> PortInv
           /\ LastInv' <=> LastInv
<1>1. Done' = Done
  BY DEF Done
<1>2. \A names : Behind(names)' = Behind(names)
  BY <1>1 DEF Behind
<1>3. \A names, i : LastBehind(names, i)' <=> LastBehind(names, i)
  BY <1>2 DEF LastBehind
<1>4. (ConfigInv' <=> ConfigInv) /\ (ProtocolInv' <=> ProtocolInv)
  BY <1>2 DEF ConfigInv, ProtocolInv
<1>5. ParametersInv' <=> ParametersInv
  BY <1>2 DEF ParametersInv, ParameterAt
<1>6. (DirInv' <=> DirInv) /\ (PortInv' <=> PortInv)
  BY <1>2, <1>3 DEF DirInv, PortInv
<1>7. LastInv' <=> LastInv
  BY <1>2, <1>3 DEF LastInv
<1> QED
  BY <1>1, <1>2, <1>4, <1>5, <1>6, <1>7

LEMMA ParseEndIInv == ASSUME ArgsInv, ParseEnd PROVE ArgsInv'
<1>1. /\ step = "parse" /\ rest = <<>>
      /\ UNCHANGED <<argv, rest, config, result, help, path>>
      /\ step' \in {"help", "failed", "directory"}
      /\ step' = "directory" => ~help /\ result
  <2>1. help \in BOOLEAN /\ result \in BOOLEAN
    BY DEF ArgsInv, HelpInv, AskedInv, ConfigInv
  <2> QED
    BY <2>1 DEF ParseEnd
<1>2. RestInv'
  BY <1>1, KeptLemma DEF ArgsInv, RestInv
<1>3. HelpInv'
  BY <1>1, KeptLemma DEF ArgsInv, HelpInv
<1>4. AskedInv'
  BY <1>1, KeptLemma DEF ArgsInv, AskedInv
<1> QED
  BY <1>2, <1>3, <1>4 DEF ArgsInv

LEMMA CheckDirectoryIInv ==
    ASSUME ArgsInv, NEW creates \in BOOLEAN, CheckDirectory(creates) PROVE ArgsInv'
<1>1. /\ step = "directory" /\ rest = <<>>
      /\ UNCHANGED <<argv, rest, config, result, help>>
  BY DEF CheckDirectory, ArgsInv, RestInv
<1>2. path \in [Values -> PathStates] /\ ParametersInv /\ DirInv /\ LastInv
  BY <1>1 DEF ArgsInv, AskedInv
<1>3. config.dir \in Values
  <2>1. CASE Behind(DirNames) = {}
    BY <1>2, <2>1, ServerArgsAssumption DEF DirInv
  <2>2. CASE Behind(DirNames) # {}
    <3>1. PICK i : LastBehind(DirNames, i)
      BY <1>2, <2>2 DEF LastInv
    <3>2. i \in Behind(PortNames \cup DirNames)
      BY <3>1 DEF LastBehind, Behind
    <3> QED
      BY <1>2, <3>1, <3>2 DEF DirInv, ParametersInv, ParameterAt
  <2> QED
    BY <2>1, <2>2
<1>4. path[config.dir] \in PathStates
  BY <1>2, <1>3
<1>5. step' \in {"start", "failed", "aborted"} /\ path' \in [Values -> PathStates]
  BY <1>2, <1>4 DEF CheckDirectory, PathStates
<1>6. step' = "start" => path'[config.dir] = "directory"
  BY <1>2, <1>3, <1>4 DEF CheckDirectory, PathStates
<1>7. RestInv'
  BY <1>1, <1>5, KeptLemma DEF ArgsInv, RestInv
<1>8. HelpInv'
  BY <1>1, <1>5, KeptLemma DEF ArgsInv, HelpInv
<1>9. AskedInv'
  BY <1>1, <1>5, <1>6, KeptLemma DEF ArgsInv, AskedInv
<1> QED
  BY <1>7, <1>8, <1>9 DEF ArgsInv

LEMMA ConstructArgsInv == ASSUME ArgsInv, Construct PROVE ArgsInv'
<1>1. /\ step = "start" /\ step' = "running" /\ argv' = <<>> /\ rest' = <<>>
      /\ UNCHANGED <<config, result, help, path>>
  BY DEF Construct
<1>2. Done' = 0
  BY <1>1 DEF Done
<1>3. RestInv'
  BY <1>1, <1>2 DEF RestInv
<1>4. HelpInv'
  BY <1>1, <1>2 DEF ArgsInv, HelpInv, Behind
<1>5. AskedInv'
  BY <1>1 DEF ArgsInv, AskedInv, ConfigInv
<1> QED
  BY <1>3, <1>4, <1>5 DEF ArgsInv

LEMMA UnchangedArgsInv == ASSUME ArgsInv, UNCHANGED argsVars PROVE ArgsInv'
<1>1. UNCHANGED <<step, argv, rest, config, result, help, path>>
  BY DEF argsVars
<1>2. RestInv'
  BY <1>1, KeptLemma DEF ArgsInv, RestInv
<1>3. HelpInv'
  BY <1>1, KeptLemma DEF ArgsInv, HelpInv
<1>4. AskedInv'
  BY <1>1, KeptLemma DEF ArgsInv, AskedInv
<1> QED
  BY <1>2, <1>3, <1>4 DEF ArgsInv

LEMMA ArgsNextIInv == ASSUME ArgsInv, ArgsNext PROVE ArgsInv'
  BY BareTurnIInv, PortOptionIInv, DirOptionIInv, ParseEndIInv, CheckDirectoryIInv DEF ArgsNext

-----------------------------------------------------------------------------
(* The sockets.                                                            *)

-----------------------------------------------------------------------------
(* The whole process.                                                      *)

(* Until the Server object is constructed they are as they start.          *)
MainIInv ==
    /\ ArgsInv
    /\ step # "running" => Init
    /\ IInv

LEMMA InitMainIInv == MainInit => MainIInv
  BY InitArgsInv, InitIInv DEF MainInit, MainIInv

LEMMA NextMainIInv == MainIInv /\ [MainNext]_mainVars => MainIInv'
<1> SUFFICES ASSUME MainIInv, [MainNext]_mainVars PROVE MainIInv'
  OBVIOUS
<1>1. CASE ArgsNext /\ UNCHANGED vars
  <2>1. step \in {"parse", "directory"}
    BY <1>1 DEF ArgsNext, UnexpectedArgument, PortOption, DirOption, UdpOption, HelpOption,
                ParseEnd, CheckDirectory
  <2>2. Init'
    BY <1>1, <2>1 DEF MainIInv, Init, vars
  <2>3. IInv' /\ ArgsInv'
    BY <1>1, NextIInv, ArgsNextIInv DEF MainIInv
  <2> QED
    BY <2>2, <2>3 DEF MainIInv
<1>2. CASE Construct
  <2>1. ArgsInv' /\ step' = "running"
    BY <1>2, ConstructArgsInv DEF MainIInv, Construct
  <2>2. IInv /\ Init /\ UNCHANGED <<pc, socket, accepted, handles, kernel, report>>
    BY <1>2 DEF Construct, MainIInv
  <2>3. protocol' \in Protocols
    BY <1>2, ServerMainAssumption DEF MainIInv, ArgsInv, AskedInv, ConfigInv, Construct
  <2>4. TypeOK' /\ DescriptorsOwned' /\ ServesBound' /\ StartInv'
    BY <2>2, <2>3
       DEF IInv, TypeOK, DescriptorsOwned, Holders, ServesBound, StartInv
  <2>5. PlaceInv'
    BY <2>2 DEF IInv, PlaceInv, Init, NewSocket, IsListening
  <2> QED
    BY <2>1, <2>4, <2>5 DEF MainIInv, IInv
<1>3. CASE step = "running" /\ Next /\ UNCHANGED argsVars
  BY <1>3, NextIInv, UnchangedArgsInv DEF MainIInv, argsVars
<1>4. CASE UNCHANGED mainVars
  <2>1. UNCHANGED argsVars /\ step' = step /\ UNCHANGED vars
    BY <1>4 DEF mainVars, argsVars
  <2> QED
    BY <2>1, NextIInv, UnchangedArgsInv DEF MainIInv, Init, vars
<1> QED
  BY <1>1, <1>2, <1>3, <1>4 DEF MainNext

(* The sockets keep their types, with the command line before them.        *)
THEOREM MainTypeOK == MainSpec => []TypeOK
<1>1. MainIInv => TypeOK
  BY DEF MainIInv, IInv
<1> QED
  BY <1>1, InitMainIInv, NextMainIInv, PTL DEF MainSpec

(* Every open descriptor of the process has exactly one owner.             *)
THEOREM MainDescriptorsOwned == MainSpec => []DescriptorsOwned
<1>1. MainIInv => DescriptorsOwned
  BY DEF MainIInv, IInv
<1> QED
  BY <1>1, InitMainIInv, NextMainIInv, PTL DEF MainSpec

(* Only a socket that did bind is served.                                  *)
THEOREM MainServesBound == MainSpec => []ServesBound
<1>1. MainIInv => ServesBound
  BY DEF MainIInv, IInv
<1> QED
  BY <1>1, InitMainIInv, NextMainIInv, PTL DEF MainSpec

(* The last of a kind, when there is one, is the one CHOOSE takes.         *)
LEMMA LastLemma ==
    ASSUME RestInv, rest = <<>>, NEW names, NEW i, LastBehind(names, i)
    PROVE  PlacesOf(names) # {} /\ Last(PlacesOf(names)) = i
<1>1. PlacesOf(names) = Behind(names) /\ PlacesOf(names) \subseteq Int
  BY AllBehindLemma DEF PlacesOf
<1>2. i \in PlacesOf(names) /\ \A j \in PlacesOf(names) : j <= i
  BY <1>1 DEF LastBehind
<1>3. \A k \in PlacesOf(names) : (\A j \in PlacesOf(names) : j <= k) => k = i
  BY <1>1, <1>2
<1> QED
  BY <1>2, <1>3 DEF Last

(* The server that is started is the one the user asked for.               *)
THEOREM MainStartsAsAsked == MainSpec => []StartsAsAsked
<1>1. MainIInv => StartsAsAsked
  <2> SUFFICES ASSUME MainIInv, step = "start" PROVE StartsAsAsked
    BY DEF StartsAsAsked
  <2>1. /\ RestInv /\ rest = <<>>
        /\ ConfigInv /\ ProtocolInv /\ LastInv /\ ParametersInv /\ DirInv /\ PortInv
        /\ path[config.dir] = "directory"
    BY DEF MainIInv, ArgsInv, RestInv, AskedInv
  <2>2. \A names : Behind(names) = PlacesOf(names)
    BY <2>1, AllBehindLemma
  <2>3. \A i \in PlacesOf(PortNames \cup DirNames) : ParameterAt(i)
    BY <2>1, <2>2 DEF ParametersInv
  <2>4. config.protocol = AskedProtocol
    BY <2>1, <2>2 DEF AskedProtocol, ConfigInv, ProtocolInv
  <2>5. config.dir = AskedDir
    <3>1. CASE PlacesOf(DirNames) = {}
      BY <2>1, <2>2, <3>1 DEF AskedDir, DirInv
    <3>2. CASE PlacesOf(DirNames) # {}
      <4>1. PICK i : LastBehind(DirNames, i)
        BY <2>1, <2>2, <3>2 DEF LastInv
      <4>2. Last(PlacesOf(DirNames)) = i
        BY <2>1, <4>1, LastLemma
      <4> QED
        BY <2>1, <3>2, <4>1, <4>2 DEF AskedDir, DirInv
    <3> QED
      BY <3>1, <3>2
  <2>6. AskedPort(config.port)
    <3>1. CASE PlacesOf(PortNames) = {}
      BY <2>1, <2>2, <3>1 DEF AskedPort, PortInv
    <3>2. CASE PlacesOf(PortNames) # {}
      <4>1. PICK i : LastBehind(PortNames, i)
        BY <2>1, <2>2, <3>2 DEF LastInv
      <4>2. Last(PlacesOf(PortNames)) = i
        BY <2>1, <4>1, LastLemma
      <4> QED
        BY <2>1, <3>2, <4>1, <4>2 DEF AskedPort, PortInv, PortIs
    <3> QED
      BY <3>1, <3>2
  <2> QED
    BY <2>1, <2>3, <2>4, <2>5, <2>6 DEF StartsAsAsked
<1> QED
  BY <1>1, InitMainIInv, NextMainIInv, PTL DEF MainSpec

(* Who asks for help gets it, and nothing else is done for him.            *)
THEOREM MainHelpOnly == MainSpec => HelpOnly
<1> DEFINE Asked == PlacesOf({"help", "h"}) # {}
           HelpStep == /\ step = "parse" /\ step' # "parse" => (step' = "help" <=> Asked)
                       /\ path' # path => ~Asked
<1>1. MainIInv /\ [MainNext]_mainVars => [HelpStep]_argsVars
  <2> SUFFICES ASSUME MainIInv, MainNext, ~UNCHANGED argsVars PROVE HelpStep
    BY DEF mainVars
  <2>1. CASE UnexpectedArgument \/ PortOption \/ DirOption \/ UdpOption \/ HelpOption
    BY <2>1 DEF UnexpectedArgument, PortOption, DirOption, UdpOption, HelpOption
  <2>2. CASE ParseEnd
    <3>1. RestInv /\ HelpInv /\ rest = <<>> /\ path' = path
      BY <2>2 DEF MainIInv, ArgsInv, ParseEnd
    <3>2. step' = "help" <=> help
      BY <2>2, <3>1 DEF ParseEnd, HelpInv
    <3>3. help <=> Asked
      BY <3>1, AllBehindLemma DEF HelpInv
    <3> QED
      BY <3>1, <3>2, <3>3
  <2>3. CASE \E creates \in BOOLEAN : CheckDirectory(creates)
    <3>1. step = "directory"
      BY <2>3 DEF CheckDirectory
    <3>2. RestInv /\ HelpInv /\ rest = <<>> /\ ~help
      BY <3>1 DEF MainIInv, ArgsInv, RestInv, HelpInv
    <3>3. ~Asked
      BY <3>2, AllBehindLemma DEF HelpInv
    <3> QED
      BY <3>1, <3>3
  <2>4. CASE Construct
    BY <2>4 DEF Construct
  <2> QED
    BY <2>1, <2>2, <2>3, <2>4 DEF MainNext, ArgsNext
<1> QED
  BY <1>1, InitMainIInv, NextMainIInv, PTL DEF MainSpec, HelpOnly
=============================================================================
