---------------------------- MODULE ListenServer ----------------------------
(***************************************************************************)
(* The sockets of the server process: TcpServer and UdpServer (src/src/    *)
(* core/server.{h,cpp}), the constructor of Server, and the start-up and   *)
(* the loop of src/src/server/main.cpp, one step for each system call.     *)
(* What the server says to a client is FileServer; here it only uses the   *)
(* socket of the connection it serves until it turns to the next.          *)
(***************************************************************************)
EXTENDS SocketClass, Naturals, Sequences

CONSTANTS
    Protocols,  \* those the user may start the server with: "TCP", "UDP"
    Listed      \* the errors for which CheckFail drops the client

ASSUME ListenAssumption ==
    /\ Protocols \subseteq {"TCP", "UDP"}
    /\ Listed \subseteq Errnos

VARIABLES
    pc,        \* the system call the thread is about to make
    protocol,  \* of the server
    socket,    \* TcpServer::socket or UdpServer::socket
    accepted,  \* clientSocket, a local of TcpServer::Listen
    handles,   \* TCP: the sockets of the connections in Server::clients
    kernel,    \* external: what the kernel knows of each descriptor
    report     \* the status main printed last

vars == <<pc, protocol, socket, accepted, handles, kernel, report>>

KernelStates == {"free", "open", "bound", "listening", "connected"}
Unused == {k \in Fds : kernel[k] = "free"}
Mark(k, st) == [kernel EXCEPT ![k] = st]

Init ==
    /\ pc = "open"
    /\ protocol \in Protocols
    /\ socket = NewSocket
    /\ accepted = NewSocket
    /\ handles = <<>>
    /\ kernel = [k \in Fds |-> "free"]
    /\ report = "nothing"

(* The end of the process closes everything.                               *)
End ==
    /\ pc' = "ended"
    /\ socket' = NewSocket
    /\ accepted' = NewSocket
    /\ handles' = <<>>
    /\ kernel' = [k \in Fds |-> "free"]

-----------------------------------------------------------------------------
(* SocketOpenAndBind: open, set an option, bind; close what did not bind.  *)

Open(r) ==
    /\ pc = "open"
    /\ \/ /\ r = "ok"
          /\ \E k \in Unused : socket' = Opened(socket, r, k) /\ kernel' = Mark(k, "open")
          /\ pc' = "option"
       \/ /\ r # "ok"
          /\ socket' = Opened(socket, r, INVALID_SOCKET)
          /\ pc' = "check"
          /\ UNCHANGED kernel
    /\ UNCHANGED <<protocol, accepted, handles, report>>

SetOption(r) ==
    /\ pc = "option"
    /\ socket' = Latched(socket, r)
    /\ pc' = "bind"
    /\ UNCHANGED <<protocol, accepted, handles, kernel, report>>

Bind(r) ==
    /\ pc = "bind"
    /\ socket' = Latched(socket, r)
    /\ kernel' = IF r = "ok" THEN Mark(socket.fd, "bound") ELSE kernel
    /\ pc' = IF r = "ok" THEN "check" ELSE "closeUnbound"
    /\ UNCHANGED <<protocol, accepted, handles, report>>

CloseUnbound(r) ==
    /\ pc = "closeUnbound"
    /\ kernel' = Mark(socket.fd, "free")
    /\ socket' = Closed(socket, r)
    /\ pc' = "check"
    /\ UNCHANGED <<protocol, accepted, handles, report>>

(* main: any failure that left a status ends the process.                  *)
CheckStartup ==
    /\ pc = "check"
    /\ report' = socket.status
    /\ \/ socket.status # "Success" /\ End
       \/ /\ socket.status = "Success"
          /\ pc' = "listen"
          /\ UNCHANGED <<socket, accepted, handles, kernel>>
    /\ UNCHANGED protocol

-----------------------------------------------------------------------------
(* TcpServer::Listen.                                                      *)

Listen(r) ==
    /\ pc = "listen" /\ protocol = "TCP" /\ ~IsListening(socket)
    /\ socket' = Listening(socket, r)
    /\ kernel' = IF r = "ok" THEN Mark(socket.fd, "listening") ELSE kernel
    /\ pc' = IF r = "ok" THEN "listen" ELSE "report"
    /\ UNCHANGED <<protocol, accepted, handles, report>>

Accept(r) ==
    /\ pc = "listen" /\ protocol = "TCP" /\ IsListening(socket)
    /\ \/ /\ r = "ok"
          /\ \E k \in Unused : accepted' = AcceptedSocket(r, k) /\ kernel' = Mark(k, "connected")
          /\ pc' = "move"
          /\ UNCHANGED socket
       \/ /\ r # "ok"
          /\ socket' = Latched(socket, r)
          /\ pc' = "report"
          /\ UNCHANGED <<accepted, kernel>>
    /\ UNCHANGED <<protocol, handles, report>>

(* The socket moves into the new connection, and the connection into the   *)
(* handle that Server::Listen appends.                                     *)
Move ==
    /\ pc = "move"
    /\ handles' = Append(handles, accepted)
    /\ accepted' = MovedFrom(accepted)
    /\ pc' = "leave"
    /\ UNCHANGED <<protocol, socket, kernel, report>>

(* At the end of TcpServer::Listen clientSocket is destroyed.              *)
Leave ==
    /\ pc = "leave"
    /\ kernel' = IF IsOpen(accepted) THEN Mark(accepted.fd, "free") ELSE kernel
    /\ accepted' = NewSocket
    /\ pc' = "serve"
    /\ UNCHANGED <<protocol, socket, handles, report>>

-----------------------------------------------------------------------------
(* UdpServer::Listen: one datagram is received.  The magic word makes its  *)
(* sender the client, and is answered.                                     *)

ReceiveFrom(r, magic) ==
    /\ pc = "listen" /\ protocol = "UDP"
    /\ socket' = Latched(socket, r)
    /\ pc' = IF r = "ok" /\ magic THEN "answer" ELSE "report"
    /\ UNCHANGED <<protocol, accepted, handles, kernel, report>>

AnswerMagic(r) ==
    /\ pc = "answer"
    /\ socket' = Latched(socket, r)
    /\ pc' = IF r = "ok" THEN "serve" ELSE "report"
    /\ UNCHANGED <<protocol, accepted, handles, kernel, report>>

-----------------------------------------------------------------------------
(* The connection being served is the last; over UDP it has no socket of   *)
(* its own and uses the server's.                                          *)

Served == IF protocol = "TCP" THEN handles[Len(handles)] ELSE socket
SetServed(s) ==
    IF protocol = "TCP"
    THEN handles' = [handles EXCEPT ![Len(handles)] = s] /\ UNCHANGED socket
    ELSE socket' = s /\ UNCHANGED handles

(* A Send or Receive fails.                                                *)
Fails(r) ==
    /\ pc = "serve"
    /\ r # "ok"
    /\ SetServed(Latched(Served, r))
    /\ UNCHANGED <<pc, protocol, accepted, kernel, report>>

(* CheckFail and a status it lists: the handle goes, and its socket with   *)
(* it.  Handle may end there, or go on into the destroyed connection.      *)
CheckFailListed ==
    /\ pc = "serve" /\ Served.status \in Listed
    /\ \/ /\ pc' = "listen"
          /\ IF protocol = "TCP"
             THEN /\ kernel' = Mark(Served.fd, "free")
                  /\ handles' = SubSeq(handles, 1, Len(handles) - 1)
                  /\ UNCHANGED socket
             ELSE socket' = Failed(socket) /\ UNCHANGED <<handles, kernel>>
          /\ UNCHANGED accepted
       \/ End
    /\ UNCHANGED <<protocol, report>>

(* CheckFail and any other status: the handle stays.  main reports it when *)
(* it was Listen that failed.                                              *)
CheckFailOther ==
    /\ pc = "serve" /\ Served.status \in Errnos \ Listed
    /\ SetServed(Failed(Served))
    /\ pc' \in {"listen", "report"}
    /\ UNCHANGED <<protocol, accepted, kernel, report>>

(* Handle returns false without CheckFail: the packet is invalid or        *)
(* refused, its data did not come, or a chunk of a download was not sent.  *)
Leaves ==
    /\ pc = "serve"
    /\ pc' = "listen"
    /\ UNCHANGED <<protocol, socket, accepted, handles, kernel, report>>

(* "Listen failed: ..."                                                    *)
Report ==
    /\ pc = "report"
    /\ report' = socket.status
    /\ socket' = Failed(socket)
    /\ pc' = "listen"
    /\ UNCHANGED <<protocol, accepted, handles, kernel>>

Startup == (\E r \in Results : Open(r) \/ SetOption(r) \/ Bind(r) \/ CloseUnbound(r)) \/ CheckStartup
TcpListen == (\E r \in Results : Listen(r) \/ Accept(r)) \/ Move \/ Leave
UdpListen == \E r \in Results : (\E magic \in BOOLEAN : ReceiveFrom(r, magic)) \/ AnswerMagic(r)
Serving == (\E r \in Results : Fails(r)) \/ CheckFailListed \/ CheckFailOther \/ Leaves

Next == Startup \/ TcpListen \/ UdpListen \/ Serving \/ Report
Spec == Init /\ [][Next]_vars

-----------------------------------------------------------------------------
(* Properties.                                                             *)

Places == {"open", "option", "bind", "closeUnbound", "check", "listen", "move", "leave",
           "answer", "serve", "report", "ended"}

(* Every variable has its type: sockets are sockets.                       *)
TypeOK ==
    /\ pc \in Places
    /\ protocol \in Protocols
    /\ socket \in Socket
    /\ accepted \in Socket
    /\ handles \in Seq(Socket)
    /\ kernel \in [Fds -> KernelStates]
    /\ report \in {"nothing", "Success"} \cup Errnos

(* Every descriptor the process has open is held by exactly one Socket     *)
(* object, and no object holds one that is not open: nothing leaks, and no *)
(* destructor closes a descriptor that by then belongs to another client.  *)
Holders == {socket.fd, accepted.fd} \cup {handles[i].fd : i \in 1..Len(handles)}
DescriptorsOwned ==
    /\ \A k \in Fds : kernel[k] # "free" <=> k \in Holders
    /\ IsOpen(socket) => socket.fd # accepted.fd
    /\ \A i \in 1..Len(handles) : IsOpen(handles[i]) /\ handles[i].fd \notin {socket.fd, accepted.fd}
    /\ \A i, j \in 1..Len(handles) : handles[i].fd = handles[j].fd => i = j

(* What main starts to serve is a socket that did bind, and the flag that  *)
(* keeps TcpServer::Listen from listening twice tells the truth: a failure *)
(* of any step of the start-up is still latched when main asks.            *)
ServesBound ==
    /\ pc \in {"listen", "move", "leave", "answer", "serve", "report"}
          => IsOpen(socket) /\ kernel[socket.fd] \in {"bound", "listening"}
    /\ IsListening(socket) => kernel[socket.fd] = "listening"
=============================================================================
