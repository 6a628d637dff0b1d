---------------------------- MODULE ClientSockets ----------------------------
(***************************************************************************)
(* The sockets of a client process: TcpClient and UdpClient (src/src/core/ *)
(* client.cpp), SocketConnection, Client::Connect and what ClientConsole   *)
(* does with the outcome, one step for each system call.  What a command   *)
(* says to the server is FileClient; here it only uses the connection.     *)
(***************************************************************************)
EXTENDS SocketClass

CONSTANT Protocols  \* those the user may connect over: "TCP", "UDP"

ASSUME ProtocolsAssumption == Protocols \subseteq {"TCP", "UDP"}

VARIABLES
    pc,          \* the system call the program is about to make
    protocol,    \* of the connect command being run
    connection,  \* Client::connection: a null pointer, or its socket
    made,        \* `connection', the local of TcpClient and UdpClient::Connect
    kernel,      \* external: what the kernel knows of each descriptor
    report       \* the status the last failure was explained with

vars == <<pc, protocol, connection, made, kernel, report>>

Null == [NewSocket EXCEPT !.state = "null"]
KernelStates == {"free", "open", "connected"}
Unused == {k \in Fds : kernel[k] = "free"}
Mark(k, st) == [kernel EXCEPT ![k] = st]

(* The kernel once a socket has been destroyed.                            *)
WithoutMutant(s) == kernel
Without(s) == IF IsOpen(s) THEN Mark(s.fd, "free") ELSE kernel

Init ==
    /\ pc = "prompt"
    /\ protocol \in Protocols
    /\ connection = Null
    /\ made = NewSocket
    /\ kernel = [k \in Fds |-> "free"]
    /\ report = "nothing"

(* The end of the process.                                                 *)
End ==
    /\ pc' = "ended"
    /\ connection' = Null
    /\ made' = NewSocket
    /\ kernel' = [k \in Fds |-> "free"]
    /\ UNCHANGED <<protocol, report>>

-----------------------------------------------------------------------------
(* TcpClient::Connect and UdpClient::Connect.  The old connection stays    *)
(* until the new one is assigned over it.                                  *)

ConnectCmd ==
    /\ pc = "prompt"
    /\ protocol' \in Protocols
    /\ made' = NewSocket
    /\ pc' = "open"
    /\ UNCHANGED <<connection, kernel, report>>

(* Over TCP a socket that failed is returned all the same, over UDP a null *)
(* pointer is.                                                             *)
AfterFailureMutant == "check"
AfterFailure == IF protocol = "TCP" THEN "assign" ELSE "assignNull"

Open(r) ==
    /\ pc = "open"
    /\ \/ /\ r = "ok"
          /\ \E k \in Unused : made' = Opened(made, r, k) /\ kernel' = Mark(k, "open")
          /\ pc' = "connect"
       \/ /\ r # "ok"
          /\ made' = Opened(made, r, INVALID_SOCKET)
          /\ pc' = AfterFailure
          /\ UNCHANGED kernel
    /\ UNCHANGED <<protocol, connection, report>>

Connect(r) ==
    /\ pc = "connect"
    /\ made' = Connected(made, r)
    /\ kernel' = IF r = "ok" THEN Mark(made.fd, "connected") ELSE kernel
    /\ pc' = CASE r # "ok" -> AfterFailure
               [] r = "ok" /\ protocol = "TCP" -> "assign"
               [] r = "ok" /\ protocol = "UDP" -> "sendMagic"
    /\ UNCHANGED <<protocol, connection, report>>

SendMagic(r) ==
    /\ pc = "sendMagic"
    /\ made' = Latched(made, r)
    /\ pc' = IF r = "ok" THEN "receiveMagic" ELSE "assignNull"
    /\ UNCHANGED <<protocol, connection, kernel, report>>

ReceiveMagic(r, magic) ==
    /\ pc = "receiveMagic"
    /\ made' = Latched(made, r)
    /\ pc' = IF r = "ok" /\ magic THEN "assign" ELSE "assignNull"
    /\ UNCHANGED <<protocol, connection, kernel, report>>

(* connection = ...: the old one is destroyed.                             *)
Assign ==
    /\ pc = "assign"
    /\ kernel' = Without(connection)
    /\ connection' = made
    /\ made' = NewSocket
    /\ pc' = "check"
    /\ UNCHANGED <<protocol, report>>

(* A null pointer is assigned, and then followed.                          *)
AssignNull == pc = "assignNull" /\ End

(* if (connection->Fail()) return false: it clears what it reads.          *)
CheckConnected ==
    /\ pc = "check"
    /\ pc' = IF connection.status # "Success" THEN "connectFailed" ELSE "sendMac"
    /\ connection' = Failed(connection)
    /\ UNCHANGED <<protocol, made, kernel, report>>

SendMac(r) ==
    /\ pc = "sendMac"
    /\ connection' = Latched(connection, r)
    /\ pc' = IF r = "ok" THEN "prompt" ELSE "connectFailed"
    /\ UNCHANGED <<protocol, made, kernel, report>>

(* "Connection failed: ..." and the like: GetStatus is connection->Fail(). *)
Explain ==
    /\ pc \in {"connectFailed", "useFailed"}
    /\ report' = connection.status
    /\ connection' = Failed(connection)
    /\ pc' = "prompt"
    /\ UNCHANGED <<protocol, made, kernel>>

-----------------------------------------------------------------------------
(* Any other command.                                                      *)

Command ==
    /\ pc = "prompt"
    /\ pc' = "use"
    /\ UNCHANGED <<protocol, connection, made, kernel, report>>

(* Its calls succeed; or one fails, or finds the end of the stream, which  *)
(* latches nothing.  A descriptor that is not open only fails.             *)
Use(r) ==
    /\ pc = "use" /\ connection # Null
    /\ IsOpen(connection) => IsConnected(connection)
    /\ \/ /\ r = "ok" /\ IsOpen(connection)
          /\ pc' \in {"prompt", "useFailed"}
       \/ /\ r # "ok"
          /\ pc' = "useFailed"
    /\ connection' = Latched(connection, r)
    /\ UNCHANGED <<protocol, made, kernel, report>>

(* A null pointer ends the process, and so does SIGPIPE: sending into a    *)
(* TCP socket that is not connected, or no more.                           *)
UseEnds ==
    /\ pc = "use"
    /\ connection = Null \/ (IsOpen(connection) /\ protocol = "TCP")
    /\ End

Quit == pc = "prompt" /\ End

Making ==
    \/ ConnectCmd \/ Assign \/ AssignNull \/ CheckConnected
    \/ \E r \in Results : Open(r) \/ Connect(r) \/ SendMagic(r) \/ SendMac(r)
    \/ \E r \in Results, magic \in BOOLEAN : ReceiveMagic(r, magic)
Using == Command \/ (\E r \in Results : Use(r)) \/ UseEnds \/ Quit

Next == Making \/ Using \/ Explain
Spec == Init /\ [][Next]_vars

-----------------------------------------------------------------------------
(* Properties.                                                             *)

Places == {"prompt", "open", "connect", "sendMagic", "receiveMagic", "assign", "assignNull",
           "check", "sendMac", "connectFailed", "use", "useFailed", "ended"}

(* Every variable has its type: sockets are sockets.                       *)
TypeOK ==
    /\ pc \in Places
    /\ protocol \in Protocols
    /\ connection \in Socket \cup {Null}
    /\ made \in Socket
    /\ kernel \in [Fds -> KernelStates]
    /\ report \in {"nothing", "Success"} \cup Errnos

(* Every descriptor the process has open is held by exactly one of its two *)
(* sockets, and none holds one that is not open: however often connecting  *)
(* fails or is repeated, nothing leaks and nothing is closed twice.        *)
DescriptorsOwned ==
    /\ \A k \in Fds : kernel[k] # "free" <=> k \in {connection.fd, made.fd}
    /\ IsOpen(connection) => connection.fd # made.fd

(* The server's answer is only waited for, and the MAC address only sent,  *)
(* on a connection that was made: every failure before that is still       *)
(* latched when Client::Connect asks.                                      *)
ConnectedWhenGreeting ==
    pc \in {"receiveMagic", "sendMac"} =>
        LET s == IF pc = "sendMac" THEN connection ELSE made
        IN  IsConnected(s) /\ IsOpen(s) /\ kernel[s.fd] = "connected"
=============================================================================
