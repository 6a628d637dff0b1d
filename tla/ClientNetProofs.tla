--------------------------- MODULE ClientNetProofs ---------------------------
(***************************************************************************)
(* Proofs about ClientSockets and about ClientNet, which implements it.    *)
(* For any number of descriptors and errors, and however often connecting  *)
(* fails and is repeated: descriptors have one owner, and only a connected *)
(* socket is used to greet.  What is proved of ClientSockets holds of      *)
(* ClientNet; and there no machine is greeted but one that the connect     *)
(* command named.                                                          *)
(***************************************************************************)
EXTENDS ClientNet, Integers, TLAPS

-----------------------------------------------------------------------------
(* Descriptors and connected sockets.                                      *)

(* A connection was made over this socket.                                 *)
Made(s) == IsOpen(s) /\ IsConnected(s) /\ kernel[s.fd] = "connected"

(* What the local socket of Connect is at each place of the program, and   *)
(* that a socket without a status to report is a connected one.            *)
MadeInv ==
    /\ pc \notin {"connect", "sendMagic", "receiveMagic", "assign", "assignNull"}
          => ~IsOpen(made)
    /\ pc = "open" => made = NewSocket
    /\ pc = "connect" => IsOpen(made) /\ made.status = "Success"
    /\ pc \in {"sendMagic", "receiveMagic"} => Made(made)
    /\ pc = "assign" /\ made.status = "Success" => Made(made)

(* The same for the connection once it is assigned.                        *)
ConnectionInv ==
    /\ pc \in {"check", "sendMac", "connectFailed"} => connection \in Socket
    /\ pc = "check" /\ connection.status = "Success" => Made(connection)
    /\ pc = "sendMac" => Made(connection)

IInv == TypeOK /\ DescriptorsOwned /\ MadeInv /\ ConnectionInv

(* The program starts without a connection.                                *)
LEMMA InitIInv == Init => IInv
BY SocketAssumption
   DEF Init, IInv, TypeOK, DescriptorsOwned, MadeInv, ConnectionInv, Places, KernelStates,
       NewSocket, Null, Socket, States, IsOpen, INVALID_SOCKET

(* The end of the process gives everything back.                           *)
LEMMA EndIInv == ASSUME IInv, End PROVE IInv'
BY SocketAssumption
   DEF End, IInv, TypeOK, DescriptorsOwned, MadeInv, ConnectionInv, Places, KernelStates,
       NewSocket, Null, Socket, States, IsOpen, INVALID_SOCKET

(* A command that touches no socket, or makes a new one that is not open.  *)
LEMMA CommandIInv == ASSUME IInv, ConnectCmd \/ Command PROVE IInv'
BY SocketAssumption
   DEF ConnectCmd, Command, IInv, TypeOK, DescriptorsOwned, MadeInv, ConnectionInv, Places,
       NewSocket, Socket, States, IsOpen, INVALID_SOCKET

(* socket(2): the descriptor it returns was free, so nobody held it.       *)
LEMMA OpenIInv == ASSUME IInv, NEW r \in Results, Open(r) PROVE IInv'
<1>1. CASE r = "ok"
  <2>1. PICK k \in Unused : made' = Opened(made, r, k) /\ kernel' = Mark(k, "open")
    BY <1>1 DEF Open
  <2>2. /\ pc = "open" /\ pc' = "connect" /\ made = NewSocket
        /\ UNCHANGED <<protocol, connection, report>>
    BY <1>1, <2>1 DEF Open, IInv, MadeInv
  <2>3. made' = [fd |-> k, state |-> "None", status |-> "Success"]
    BY <1>1, <2>1, <2>2 DEF Opened, Latched, NewSocket
  <2>4. k \in Fds /\ kernel[k] = "free" /\ k # INVALID_SOCKET
    BY SocketAssumption DEF Unused
  <2>5. kernel' = [kernel EXCEPT ![k] = "open"]
    BY <2>1 DEF Mark
  <2>6. TypeOK'
    BY <2>2, <2>3, <2>4, <2>5
       DEF IInv, TypeOK, Places, KernelStates, Socket, States
  <2>7. DescriptorsOwned'
    <3>1. /\ made.fd = INVALID_SOCKET /\ made'.fd = k
          /\ connection.fd # k
      BY <2>2, <2>3, <2>4 DEF IInv, DescriptorsOwned, NewSocket
    <3>2. \A j \in Fds : kernel'[j] # "free" <=> (j = k \/ kernel[j] # "free")
      BY <2>4, <2>5 DEF IInv, TypeOK
    <3>3. \A j \in Fds : kernel[j] # "free" <=> j = connection.fd
      BY <3>1, SocketAssumption DEF IInv, DescriptorsOwned
    <3> QED
      BY <2>2, <3>1, <3>2, <3>3 DEF DescriptorsOwned
  <2>8. MadeInv' /\ ConnectionInv'
    BY <2>2, <2>3, <2>4 DEF MadeInv, ConnectionInv, IsOpen
  <2> QED
    BY <2>6, <2>7, <2>8 DEF IInv
<1>2. CASE r # "ok"
  <2>1. /\ pc = "open" /\ pc' \in {"assign", "assignNull"} /\ made = NewSocket
        /\ made' = [NewSocket EXCEPT !.status = r]
        /\ UNCHANGED <<protocol, connection, kernel, report>>
    BY <1>2 DEF Open, IInv, MadeInv, Opened, Latched, AfterFailure, NewSocket
  <2>2. r \in Errnos /\ r # "Success"
    BY <1>2, SocketAssumption DEF Results
  <2> QED
    BY <2>1, <2>2
       DEF IInv, TypeOK, DescriptorsOwned, MadeInv, ConnectionInv, Places, NewSocket, Socket,
           States, IsOpen
<1> QED
  BY <1>1, <1>2

(* connect(2).                                                             *)
LEMMA ConnectIInv == ASSUME IInv, NEW r \in Results, Connect(r) PROVE IInv'
<1>1. /\ pc = "connect" /\ made \in Socket /\ IsOpen(made) /\ made.status = "Success"
      /\ made.fd \in Fds
      /\ UNCHANGED <<protocol, connection, report>>
  BY DEF Connect, IInv, MadeInv, TypeOK, Socket, IsOpen
<1>2. CASE r = "ok"
  <2>1. /\ made' = [made EXCEPT !.state = "Connected"]
        /\ kernel' = [kernel EXCEPT ![made.fd] = "connected"]
        /\ pc' \in {"assign", "sendMagic"}
    BY <1>2, ProtocolsAssumption DEF Connect, Connected, Mark, IInv, TypeOK
  <2> QED
    BY <1>1, <2>1
       DEF IInv, TypeOK, DescriptorsOwned, MadeInv, ConnectionInv, Made, Places, KernelStates,
           Socket, States, IsOpen, IsConnected
<1>3. CASE r # "ok"
  <2>1. /\ made' = [made EXCEPT !.status = r]
        /\ pc' \in {"assign", "assignNull"}
        /\ UNCHANGED kernel
    BY <1>3 DEF Connect, Connected, Latched, AfterFailure
  <2>2. r \in Errnos /\ r # "Success"
    BY <1>3, SocketAssumption DEF Results
  <2> QED
    BY <1>1, <2>1, <2>2
       DEF IInv, TypeOK, DescriptorsOwned, MadeInv, ConnectionInv, Places, Socket, IsOpen
<1> QED
  BY <1>2, <1>3

(* The hand-shake over UDP.                                                *)
LEMMA MagicIInv ==
    ASSUME IInv, NEW r \in Results, NEW magic \in BOOLEAN, SendMagic(r) \/ ReceiveMagic(r, magic)
    PROVE  IInv'
<1>1. /\ pc \in {"sendMagic", "receiveMagic"} /\ made \in Socket /\ Made(made)
      /\ made' = Latched(made, r)
      /\ UNCHANGED <<protocol, connection, kernel, report>>
      /\ \/ r = "ok" /\ pc' \in {"receiveMagic", "assign", "assignNull"}
         \/ pc' = "assignNull"
  BY DEF SendMagic, ReceiveMagic, IInv, MadeInv, TypeOK
<1>2. /\ made' \in Socket
      /\ made'.fd = made.fd /\ made'.state = made.state
  BY <1>1 DEF Latched, Results, Socket
<1> QED
  BY <1>1, <1>2
     DEF IInv, TypeOK, DescriptorsOwned, MadeInv, ConnectionInv, Made, Places, IsOpen, IsConnected

(* The old connection is destroyed and the new one takes its place.        *)
LEMMA AssignIInv == ASSUME IInv, Assign PROVE IInv'
<1>1. /\ pc = "assign" /\ pc' = "check"
      /\ connection' = made /\ made' = NewSocket
      /\ UNCHANGED <<protocol, report>>
  BY DEF Assign
<1>2. ~IsOpen(NewSocket) /\ NewSocket \in Socket
  BY DEF NewSocket, IsOpen, Socket, States
<1>3. CASE IsOpen(connection)
  <2>1. connection.fd \in Fds /\ kernel' = [kernel EXCEPT ![connection.fd] = "free"]
    BY <1>3 DEF Assign, Without, Mark, IInv, TypeOK, Null, NewSocket, Socket, IsOpen
  <2> QED
    BY <1>1, <1>2, <1>3, <2>1, SocketAssumption
       DEF IInv, TypeOK, DescriptorsOwned, MadeInv, ConnectionInv, Made, Places, KernelStates,
           NewSocket, IsOpen, IsConnected
<1>4. CASE ~IsOpen(connection)
  <2>1. kernel' = kernel
    BY <1>4 DEF Assign, Without
  <2> QED
    BY <1>1, <1>2, <1>4, <2>1, SocketAssumption
       DEF IInv, TypeOK, DescriptorsOwned, MadeInv, ConnectionInv, Made, Places,
           NewSocket, IsOpen, IsConnected
<1> QED
  BY <1>3, <1>4

(* The other uses of the connection change no more than its status.        *)
LEMMA UseIInv ==
    ASSUME IInv, NEW r \in Results, CheckConnected \/ SendMac(r) \/ Explain \/ Use(r)
    PROVE  IInv'
<1>1. /\ UNCHANGED <<protocol, made, kernel>>
      /\ connection' \in {Failed(connection), Latched(connection, r)}
      /\ pc \in {"check", "sendMac", "connectFailed", "useFailed", "use"}
  BY DEF CheckConnected, SendMac, Explain, Use
<1>2. connection' = Null \/ connection' \in Socket
  <2>1. CASE connection \in Socket
    BY <1>1, <2>1 DEF Failed, Latched, Results, Socket
  <2>2. CASE connection = Null
    <3>1. connection' = Failed(Null)
      BY <2>2 DEF CheckConnected, SendMac, Explain, Use, IInv, ConnectionInv, Null, NewSocket,
                  Socket, States
    <3>2. Null = [fd |-> INVALID_SOCKET, state |-> "null", status |-> "Success"]
      BY DEF Null, NewSocket
    <3>3. Failed(Null) = Null
      BY <3>2 DEF Failed
    <3> QED
      BY <3>1, <3>3
  <2> QED
    BY <2>1, <2>2 DEF IInv, TypeOK
<1>3. connection'.fd = connection.fd /\ connection'.state = connection.state
  BY <1>1 DEF Failed, Latched, IInv, TypeOK, Socket, Null, NewSocket
<1>4. TypeOK'
  BY <1>1, <1>2
     DEF CheckConnected, SendMac, Explain, Use, IInv, TypeOK, Places, Socket, Null, NewSocket
<1>5. DescriptorsOwned'
  BY <1>1, <1>3 DEF IInv, DescriptorsOwned, IsOpen
<1>6. MadeInv' /\ pc' \in {"connectFailed", "sendMac", "prompt", "useFailed"}
  BY <1>1 DEF CheckConnected, SendMac, Explain, Use, IInv, MadeInv, IsOpen
<1>7. ConnectionInv'
  <2>1. CASE CheckConnected
    BY <1>1, <1>2, <1>3, <2>1
       DEF CheckConnected, IInv, ConnectionInv, Made, IsOpen, IsConnected, Failed, Socket
  <2>2. CASE SendMac(r)
    BY <1>1, <1>2, <2>2 DEF SendMac, IInv, ConnectionInv, Latched, Results, Socket
  <2>3. CASE Explain \/ Use(r)
    BY <2>3 DEF Explain, Use, ConnectionInv
  <2> QED
    BY <2>1, <2>2, <2>3
<1> QED
  BY <1>4, <1>5, <1>6, <1>7 DEF IInv

(* Every step keeps the invariant.                                         *)
LEMMA NextIInv == IInv /\ [Next]_vars => IInv'
<1> SUFFICES ASSUME IInv, [Next]_vars PROVE IInv'
  OBVIOUS
<1>1. CASE Making
  BY <1>1, CommandIInv, AssignIInv, EndIInv, UseIInv, OpenIInv, ConnectIInv, MagicIInv
     DEF Making, AssignNull, Results
<1>2. CASE Using
  BY <1>2, CommandIInv, UseIInv, EndIInv DEF Using, UseEnds, Quit
<1>3. CASE Explain
  BY <1>3, UseIInv DEF Results
<1>4. CASE UNCHANGED vars
  BY <1>4
     DEF vars, IInv, TypeOK, DescriptorsOwned, MadeInv, ConnectionInv, Made
<1> QED
  BY <1>1, <1>2, <1>3, <1>4 DEF Next

(* The inductive invariant holds.                                          *)
THEOREM ClientInvariant == Spec => []IInv
BY InitIInv, NextIInv, PTL DEF Spec

(* Every variable of the client's sockets keeps its type.                  *)
THEOREM ClientTypeOK == Spec => []TypeOK
<1>1. IInv => TypeOK
  BY DEF IInv
<1> QED
  BY <1>1, ClientInvariant, PTL

(* Every open descriptor is held by exactly one of the client's sockets.   *)
THEOREM ClientDescriptorsOwned == Spec => []DescriptorsOwned
<1>1. IInv => DescriptorsOwned
  BY DEF IInv
<1> QED
  BY <1>1, ClientInvariant, PTL

(* The MAC address is only sent on a connection that was made.             *)
THEOREM ClientConnectedWhenGreeting == Spec => []ConnectedWhenGreeting
<1>1. IInv => ConnectedWhenGreeting
  BY DEF IInv, MadeInv, ConnectionInv, Made, ConnectedWhenGreeting
<1> QED
  BY <1>1, ClientInvariant, PTL

-----------------------------------------------------------------------------
(* Ports.                                                                  *)

(* Quotient and remainder by the number of values of a byte are unique.    *)
LEMMA DivModLemma ==
    ASSUME NEW b \in Nat \ {0}, NEW q \in Nat, NEW r \in 0..(b - 1)
    PROVE  (q * b + r) % b = r /\ (q * b + r) \div b = q
<1> DEFINE x == q * b + r
<1>1. x \in Nat /\ q * b \in Nat
  OBVIOUS
<1> DEFINE d == x \div b
           m == x % b
<1>2. d \in Int /\ m \in 0..(b - 1) /\ x = b * d + m
  BY <1>1
<1> HIDE DEF d, m
<1>3. b * (d - q) = r - m
  BY <1>1, <1>2
<1>4. CASE d - q >= 1
  <2>1. b * (d - q) >= b
    BY <1>2, <1>4
  <2> QED
    BY <1>2, <1>3, <2>1
<1>5. CASE d - q <= -1
  <2>1. b * (d - q) <= -b
    BY <1>2, <1>5
  <2> QED
    BY <1>2, <1>3, <2>1
<1>6. CASE d = q
  BY <1>2, <1>3, <1>6 DEF d, m
<1> QED
  BY <1>2, <1>4, <1>5, <1>6

(* What htons reverses it puts back in order.                              *)
LEMMA HtonsLemma == \A port \in Ports : htons(htons(port)) = port
<1> SUFFICES ASSUME NEW port \in Ports PROVE htons(htons(port)) = port
  OBVIOUS
<1> DEFINE q == port \div Byte
           r == port % Byte
<1>1. Byte \in Nat \ {0} /\ port \in 0..(Byte * Byte - 1)
  BY ClientNetAssumption DEF Ports
<1>2. q \in Int /\ r \in 0..(Byte - 1) /\ port = Byte * q + r
  BY <1>1
<1> HIDE DEF q, r
<1>3. q >= 0
  <2>1. CASE q <= -1
    <3>1. Byte * q <= -Byte
      BY <1>1, <1>2, <2>1
    <3> QED
      BY <1>1, <1>2, <3>1
  <2> QED
    BY <1>2, <2>1
<1>4. q <= Byte - 1
  <2>1. CASE q >= Byte
    <3>1. Byte * q >= Byte * Byte
      BY <1>1, <1>2, <2>1
    <3> QED
      BY <1>1, <1>2, <3>1
  <2> QED
    BY <1>1, <1>2, <2>1
<1>5. htons(port) = r * Byte + q
  BY DEF htons, q, r
<1>6. r \in Nat /\ q \in 0..(Byte - 1)
  BY <1>1, <1>2, <1>3, <1>4
<1>7. (r * Byte + q) % Byte = q /\ (r * Byte + q) \div Byte = r
  BY <1>1, <1>6, DivModLemma
<1>8. htons(r * Byte + q) = q * Byte + r
  BY <1>7 DEF htons
<1> QED
  BY <1>1, <1>2, <1>5, <1>6, <1>8

-----------------------------------------------------------------------------
(* ClientNet implements ClientSockets.                                     *)

(* Every step is one of ClientSockets, or leaves the sockets alone.        *)
LEMMA NetStep == ASSUME [ClientNext]_clientVars PROVE [Next]_vars
<1>1. CASE ConnectTyped
  BY <1>1 DEF ConnectTyped, Next, Making
<1>2. CASE \E r \in Results : OpenFor(r) \/ ConnectTo(r) \/ SendOwnMac(r)
  BY <1>2 DEF OpenFor, ConnectTo, SendOwnMac, Next, Making
<1>3. CASE \E ok \in BOOLEAN : MacSocket(ok) \/ MacList(ok) \/ MacRead(ok)
  BY <1>3 DEF MacSocket, MacList, MacRead
<1>4. CASE MacEnd
  BY <1>4 DEF MacEnd
<1>5. CASE OtherStep
  BY <1>5 DEF OtherStep, Next, Making, Using
<1>6. CASE UNCHANGED clientVars
  BY <1>6 DEF clientVars
<1> QED
  BY <1>1, <1>2, <1>3, <1>4, <1>5, <1>6 DEF ClientNext

(* So what is proved of ClientSockets holds of the whole.                  *)
THEOREM NetImplementsSockets == ClientSpec => Spec
<1>1. NetInit => Init
  BY DEF NetInit
<1>2. [ClientNext]_clientVars => [Next]_vars
  BY NetStep
<1> QED
  BY <1>1, <1>2, PTL DEF ClientSpec, Spec

-----------------------------------------------------------------------------
(* Where connections lead.                                                 *)

LeadsTo(s) == s.fd \in Fds /\ peer[s.fd] = Reached /\ address # Invalid

(* The new socket, and then the connection, leads where the address of     *)
(* this command says from the moment it is connected, unless a failure is  *)
(* latched in it.                                                          *)
NetInv ==
    /\ typed \in [host : Hosts, port : Ports]
    /\ address \in FromDomain(typed.host, typed.port)
    /\ peer = [k \in Fds |-> peer[k]]
    /\ pc = "connect" => address # Invalid
    /\ pc \in {"sendMagic", "receiveMagic"} => LeadsTo(made)
    /\ pc = "assign" /\ made.status = "Success" => LeadsTo(made)
    /\ pc = "check" /\ connection.status = "Success" => LeadsTo(connection)
    /\ pc = "sendMac" => LeadsTo(connection)

NetIInv == IInv /\ NetInv

(* The program starts without a connection.                                *)
LEMMA InitNet == NetInit => NetIInv
<1> SUFFICES ASSUME NetInit PROVE NetIInv
  OBVIOUS
<1>1. 0 \in Ports
  BY ClientNetAssumption, HtonsLemma DEF Ports
<1> QED
  BY <1>1, InitIInv DEF NetInit, NetIInv, NetInv, Init, FromDomain

(* A new command resolves the name that was typed.                         *)
LEMMA ConnectTypedNet == ASSUME NetIInv, ConnectTyped PROVE NetInv'
<1>1. PICK host \in Hosts, port \in Ports :
         /\ typed' = [host |-> host, port |-> port]
         /\ address' \in FromDomain(host, port)
  BY DEF ConnectTyped
<1>2. FromDomain(typed.host, typed.port)' = FromDomain(typed'.host, typed'.port)
  BY DEF FromDomain, Invalid, CopiedMachines, htons
<1>3. pc' = "open" /\ peer' = peer
  BY DEF ConnectTyped, ConnectCmd
<1> QED
  BY <1>1, <1>2, <1>3 DEF NetIInv, NetInv

(* Without a valid address no socket is opened, and the failure latched.   *)
LEMMA OpenForNet == ASSUME NetIInv, NEW r \in Results, OpenFor(r) PROVE NetInv'
<1>1. UNCHANGED <<typed, address, peer>> /\ pc = "open" /\ made = NewSocket
  BY DEF OpenFor, netVars, Open, NetIInv, IInv, MadeInv
<1>2. CASE r = "ok"
  <2>1. pc' = "connect" /\ address # Invalid
    BY <1>2 DEF OpenFor, Open
  <2> QED
    BY <1>1, <2>1 DEF NetIInv, NetInv, FromDomain
<1>3. CASE r # "ok"
  <2>1. pc' \in {"assign", "assignNull"} /\ made' = [NewSocket EXCEPT !.status = r]
    BY <1>1, <1>3 DEF OpenFor, Open, Opened, Latched, AfterFailure, NewSocket
  <2>2. made'.status # "Success"
    BY <1>3, <2>1, SocketAssumption DEF Results, NewSocket
  <2> QED
    BY <1>1, <2>1, <2>2 DEF NetIInv, NetInv
<1> QED
  BY <1>2, <1>3

(* connect(2) leads where the address says.                                *)
LEMMA ConnectToNet == ASSUME NetIInv, NEW r \in Results, ConnectTo(r) PROVE NetInv'
<1>1. /\ UNCHANGED <<typed, address>> /\ pc = "connect" /\ address # Invalid
      /\ made \in Socket /\ made.fd \in Fds
  BY DEF ConnectTo, Connect, NetIInv, NetInv, IInv, MadeInv, TypeOK, Socket, IsOpen
<1>2. Reached' = Reached
  BY <1>1 DEF Reached, htons
<1>3. CASE r = "ok"
  <2>1. /\ made' = [made EXCEPT !.state = "Connected"]
        /\ pc' \in {"assign", "sendMagic"}
        /\ peer' = [peer EXCEPT ![made.fd] = Reached]
    BY <1>3, ProtocolsAssumption
       DEF ConnectTo, Connect, Connected, NetIInv, IInv, TypeOK
  <2>2. made'.fd = made.fd /\ peer'[made.fd] = Reached
    BY <1>1, <2>1 DEF Socket, NetIInv, NetInv
  <2>3. LeadsTo(made)'
    BY <1>1, <1>2, <2>2 DEF LeadsTo
  <2>4. peer' = [k \in Fds |-> peer'[k]]
    BY <2>1 DEF NetIInv, NetInv
  <2> QED
    BY <1>1, <2>1, <2>3, <2>4 DEF NetIInv, NetInv, FromDomain
<1>4. CASE r # "ok"
  <2>1. pc' \in {"assign", "assignNull"} /\ made' = [made EXCEPT !.status = r] /\ peer' = peer
    BY <1>4 DEF ConnectTo, Connect, Connected, Latched, AfterFailure
  <2>2. made'.status # "Success"
    BY <1>1, <1>4, <2>1, SocketAssumption DEF Results, Socket
  <2> QED
    BY <1>1, <2>1, <2>2 DEF NetIInv, NetInv
<1> QED
  BY <1>3, <1>4

(* GetMacAddress has nothing to do with the connection.                    *)
LEMMA ScanNet ==
    ASSUME NetIInv,
           \/ \E ok \in BOOLEAN : MacSocket(ok) \/ MacList(ok) \/ MacRead(ok)
           \/ MacEnd
           \/ UNCHANGED clientVars
    PROVE  NetInv'
<1>1. UNCHANGED <<pc, made, connection, typed, address, peer>>
  BY DEF MacSocket, MacList, MacRead, MacEnd, clientVars, netVars, vars
<1>2. Reached' = Reached /\ Invalid' = Invalid
  BY <1>1 DEF Reached, htons, Invalid
<1> QED
  BY <1>1, <1>2 DEF NetIInv, NetInv, LeadsTo

(* The greeting ends Client::Connect.                                      *)
LEMMA SendOwnMacNet == ASSUME NetIInv, NEW r \in Results, SendOwnMac(r) PROVE NetInv'
<1>1. UNCHANGED <<typed, address, peer>> /\ pc' \in {"prompt", "connectFailed"}
  BY DEF SendOwnMac, SendMac
<1> QED
  BY <1>1 DEF NetIInv, NetInv

(* The other steps: a descriptor that stays connected leads where it did.  *)
LEMMA OtherStepNet == ASSUME NetIInv, IInv', OtherStep PROVE NetInv'
<1>1. UNCHANGED <<typed, address>> /\ peer' = Peers
  BY DEF OtherStep
<1>2. Reached' = Reached
  BY <1>1 DEF Reached, htons
<1>3. \A k \in Fds : kernel'[k] = "connected" => peer'[k] = peer[k]
  BY <1>1 DEF Peers
<1>4. peer' = [k \in Fds |-> peer'[k]]
  BY <1>1 DEF Peers
<1>5. \A s, t : LeadsTo(s) /\ t.fd = s.fd /\ kernel'[t.fd] = "connected"
                 => t.fd \in Fds /\ peer'[t.fd] = Reached' /\ address' # Invalid
  BY <1>1, <1>2, <1>3 DEF LeadsTo
<1>6. CASE Assign
  <2>1. pc = "assign" /\ pc' = "check" /\ connection' = made
    BY <1>6 DEF Assign
  <2>2. ASSUME connection'.status = "Success" PROVE LeadsTo(connection)'
    <3>1. LeadsTo(made)
      BY <2>1, <2>2 DEF NetIInv, NetInv
    <3>2. kernel'[connection'.fd] = "connected"
      BY <2>1, <2>2 DEF IInv, ConnectionInv, Made
    <3> QED
      BY <1>5, <2>1, <3>1, <3>2 DEF LeadsTo
  <2> QED
    BY <1>1, <1>4, <2>1, <2>2 DEF NetIInv, NetInv
<1>7. CASE CheckConnected
  <2>1. pc = "check" /\ pc' \in {"connectFailed", "sendMac"} /\ connection' = Failed(connection)
    BY <1>7 DEF CheckConnected
  <2>2. ASSUME pc' = "sendMac" PROVE LeadsTo(connection)'
    <3>1. LeadsTo(connection)
      BY <1>7, <2>1, <2>2 DEF CheckConnected, NetIInv, NetInv
    <3>2. connection'.fd = connection.fd
      BY <2>1 DEF Failed, NetIInv, IInv, ConnectionInv, Socket
    <3>3. kernel'[connection'.fd] = "connected"
      BY <2>2 DEF IInv, ConnectionInv, Made
    <3> QED
      BY <1>5, <3>1, <3>2, <3>3 DEF LeadsTo
  <2> QED
    BY <1>1, <1>4, <2>1, <2>2 DEF NetIInv, NetInv
<1>8. ASSUME NEW r \in Results, NEW magic \in BOOLEAN, SendMagic(r) \/ ReceiveMagic(r, magic)
      PROVE  NetInv'
  <2>1. /\ pc \in {"sendMagic", "receiveMagic"} /\ made' = Latched(made, r)
        /\ \/ r = "ok" /\ pc' \in {"receiveMagic", "assign", "assignNull"}
           \/ pc' = "assignNull"
    BY <1>8 DEF SendMagic, ReceiveMagic
  <2>2. ASSUME pc' # "assignNull" PROVE LeadsTo(made)'
    <3>1. LeadsTo(made) /\ made' = made /\ UNCHANGED kernel
      BY <1>8, <2>1, <2>2 DEF SendMagic, ReceiveMagic, Latched, NetIInv, NetInv
    <3>2. kernel'[made'.fd] = "connected"
      BY <2>1, <3>1 DEF NetIInv, IInv, MadeInv, Made
    <3> QED
      BY <1>5, <3>1, <3>2 DEF LeadsTo
  <2> QED
    BY <1>1, <1>4, <2>1, <2>2 DEF NetIInv, NetInv
<1>9. CASE AssignNull \/ Explain \/ Using
  <2>1. pc' \in {"ended", "prompt", "use", "useFailed"}
    BY <1>9 DEF AssignNull, Explain, Using, Command, Use, UseEnds, Quit, End
  <2> QED
    BY <1>1, <1>4, <2>1 DEF NetIInv, NetInv
<1> QED
  BY <1>6, <1>7, <1>8, <1>9 DEF OtherStep

(* Every step keeps the invariant.                                         *)
LEMMA NextNet == NetIInv /\ [ClientNext]_clientVars => NetIInv'
<1> SUFFICES ASSUME NetIInv, [ClientNext]_clientVars PROVE NetIInv'
  OBVIOUS
<1>1. IInv'
  BY NetStep, NextIInv DEF NetIInv
<1>2. NetInv'
  BY <1>1, ConnectTypedNet, OpenForNet, ConnectToNet, ScanNet, SendOwnMacNet, OtherStepNet
     DEF ClientNext
<1> QED
  BY <1>1, <1>2 DEF NetIInv

(* What an address that was found says, its port put back in order.        *)
LEMMA NetInvLeads == NetIInv => LeadsWhereTyped
<1> SUFFICES ASSUME NetIInv, pc = "sendMac"
             PROVE  LET p == peer[connection.fd]
                    IN  /\ p.family \in Families
                        /\ p.port = typed.port
                        /\ p.family = "IPv4" =>
                              [family |-> "IPv4", machine |-> p.machine] \in Found[typed.host]
  BY DEF LeadsWhereTyped
<1>1. peer[connection.fd] = Reached /\ address # Invalid
  BY DEF NetIInv, NetInv, LeadsTo
<1>2. PICK a \in Found[typed.host] : \E m \in CopiedMachines(a) :
         address = [family |-> a.family, machine |-> m, port |-> htons(typed.port)]
  BY <1>1 DEF NetIInv, NetInv, FromDomain
<1>3. PICK m \in CopiedMachines(a) :
         address = [family |-> a.family, machine |-> m, port |-> htons(typed.port)]
  BY <1>2
<1>4. Reached = [family |-> a.family, machine |-> m, port |-> htons(htons(typed.port))]
  BY <1>3 DEF Reached
<1>5. htons(htons(typed.port)) = typed.port
  BY HtonsLemma DEF NetIInv, NetInv
<1>6. a \in [family : Families, machine : Machines]
  BY <1>2, ClientNetAssumption DEF NetIInv, NetInv
<1>7. a.family = "IPv4" => m = a.machine /\ a = [family |-> "IPv4", machine |-> m]
  BY <1>3, <1>6 DEF CopiedMachines
<1> QED
  BY <1>1, <1>2, <1>4, <1>5, <1>6, <1>7

(* Only a machine that this connect command named is greeted, at the port  *)
(* it named, never the server of an earlier command.                       *)
THEOREM NetLeadsWhereTyped == ClientSpec => []LeadsWhereTyped
BY InitNet, NextNet, NetInvLeads, PTL DEF ClientSpec

-----------------------------------------------------------------------------
(* Whom the client says it is.                                             *)

Interface == [loopback : BOOLEAN, mac : Macs]
Scan == [at : {"none", "list", "loop", "done"}, sock : BOOLEAN, listed : Seq(Interface),
         i : Nat, unread : SUBSET Nat, mac : Macs]

(* Until it returns, the loop has passed by loopbacks and unread           *)
(* interfaces only.                                                        *)
ScanInv ==
    /\ scan \in Scan
    /\ scan.sock <=> scan.at \in {"list", "loop"}
    /\ scan.at # "done" => scan.mac = ZeroMac
    /\ scan.at \in {"none", "list"} => scan.listed = <<>> /\ scan.i = 1 /\ scan.unread = {}
    /\ scan.at = "loop" =>
          /\ scan.i \in 1..(Len(scan.listed) + 1)
          /\ \A j \in 1..(scan.i - 1) : scan.listed[j].loopback \/ j \in scan.unread
    /\ scan.at = "loop" => scan.unread \subseteq 1..(scan.i - 1)
    /\ GreetsAsItself

(* GetMacAddress has not been called.                                      *)
LEMMA NoScanLemma == ASSUME scan = NoScan PROVE ScanInv
<1>1. scan = [at |-> "none", sock |-> FALSE, listed |-> <<>>, i |-> 1, unread |-> {},
              mac |-> ZeroMac]
  BY DEF NoScan
<1>2. ZeroMac \in Macs
  BY ClientNetAssumption
<1>3. scan \in Scan
  BY <1>1, <1>2 DEF Scan
<1>4. {i \in 1..Len(scan.listed) : ~scan.listed[i].loopback /\ i \notin scan.unread} = {}
  BY <1>1
<1>5. GreetsAsItself
  BY <1>1, <1>4 DEF GreetsAsItself
<1> QED
  BY <1>1, <1>3, <1>5 DEF ScanInv

(* What makes a return from it right.                                      *)
LEMMA ReturnLemma ==
    ASSUME NEW L \in Seq(Interface), NEW n \in Nat, NEW U \in SUBSET Nat, NEW m \in Macs,
           scan' = [at |-> "done", sock |-> FALSE, listed |-> L, i |-> n, unread |-> U, mac |-> m],
           \/ /\ m = ZeroMac
              /\ \A j \in 1..Len(L) : L[j].loopback \/ j \in U
           \/ \E k \in 1..Len(L) :
                 /\ m = L[k].mac /\ ~L[k].loopback /\ k \notin U
                 /\ \A j \in 1..(k - 1) : L[j].loopback \/ j \in U
    PROVE  ScanInv'
<1> DEFINE usable == {i \in 1..Len(L) : ~L[i].loopback /\ i \notin U}
<1>1. scan' \in Scan
  BY DEF Scan
<1>2. IF usable = {} THEN m = ZeroMac
      ELSE \E i \in usable : m = L[i].mac /\ \A j \in usable : i <= j
  <2>1. CASE m = ZeroMac /\ \A j \in 1..Len(L) : L[j].loopback \/ j \in U
    BY <2>1
  <2>2. ASSUME NEW k \in 1..Len(L),
               m = L[k].mac /\ ~L[k].loopback /\ k \notin U,
               \A j \in 1..(k - 1) : L[j].loopback \/ j \in U
        PROVE  IF usable = {} THEN m = ZeroMac
               ELSE \E i \in usable : m = L[i].mac /\ \A j \in usable : i <= j
    <3>1. k \in usable
      BY <2>2
    <3>2. \A j \in usable : k <= j
      BY <2>2
    <3> QED
      BY <2>2, <3>1, <3>2
  <2> QED
    BY <2>1, <2>2
<1>3. GreetsAsItself'
  BY <1>2 DEF GreetsAsItself
<1> QED
  BY <1>1, <1>3 DEF ScanInv

(* A return without a list.                                                *)
LEMMA EarlyReturnLemma ==
    ASSUME scan' = [at |-> "done", sock |-> FALSE, listed |-> <<>>, i |-> 1, unread |-> {},
                    mac |-> ZeroMac]
    PROVE  ScanInv'
<1> DEFINE L == <<>>
<1>1. L \in Seq(Interface) /\ Len(L) = 0 /\ ZeroMac \in Macs
  BY ClientNetAssumption
<1>2. scan' = [at |-> "done", sock |-> FALSE, listed |-> L, i |-> 1, unread |-> {},
               mac |-> ZeroMac]
  OBVIOUS
<1> HIDE DEF L
<1>3. \A j \in 1..Len(L) : L[j].loopback \/ j \in {}
  BY <1>1
<1> QED
  BY <1>1, <1>2, <1>3, ReturnLemma

(* A socket to ask through, or none.                                       *)
LEMMA MacSocketScan == ASSUME ScanInv, NEW ok \in BOOLEAN, MacSocket(ok) PROVE ScanInv'
<1>1. /\ scan.at = "none" /\ scan \in Scan /\ scan.listed = <<>> /\ scan.i = 1
      /\ scan.unread = {} /\ scan.mac = ZeroMac
  BY DEF MacSocket, Scanning, ScanInv
<1>2. CASE ok
  <2>1. scan' = [scan EXCEPT !.at = "list", !.sock = TRUE]
    BY <1>2 DEF MacSocket
  <2> QED
    BY <1>1, <2>1 DEF ScanInv, Scan, GreetsAsItself
<1>3. CASE ~ok
  <2>1. ReturnMac(ZeroMac, {})
    BY <1>3 DEF MacSocket
  <2>2. scan' = [scan EXCEPT !.at = "done", !.sock = FALSE, !.mac = ZeroMac, !.unread = {}]
    BY <2>1 DEF ReturnMac
  <2>3. scan' = [at |-> "done", sock |-> FALSE, listed |-> <<>>, i |-> 1, unread |-> {},
                 mac |-> ZeroMac]
    BY <1>1, <2>2 DEF Scan
  <2> QED
    BY <2>3, EarlyReturnLemma
<1> QED
  BY <1>2, <1>3

(* The list of interfaces, as long as it fits, or none.                    *)
LEMMA MacListScan == ASSUME ScanInv, NEW ok \in BOOLEAN, MacList(ok) PROVE ScanInv'
<1>1. scan.at = "list" /\ scan \in Scan /\ scan.listed = <<>> /\ scan.i = 1
      /\ scan.unread = {} /\ scan.mac = ZeroMac /\ scan.sock
  BY DEF MacList, Scanning, ScanInv
<1>2. CASE ok
  <2>1. PICK all \in Interfaces, n \in Nat :
           /\ n <= Len(all)
           /\ scan' = [scan EXCEPT !.at = "loop", !.listed = SubSeq(all, 1, n)]
    <3>1. PICK all \in Interfaces :
             scan' = [scan EXCEPT !.at = "loop",
                                  !.listed = SubSeq(all, 1, IF Len(all) < Listed THEN Len(all)
                                                                                 ELSE Listed)]
      BY <1>2 DEF MacList
    <3>2. Len(all) \in Nat /\ Listed \in Nat
      BY ClientNetAssumption
    <3> DEFINE n == IF Len(all) < Listed THEN Len(all) ELSE Listed
    <3>3. n \in Nat /\ n <= Len(all)
      BY <3>2
    <3> QED
      BY <3>1, <3>3
  <2>2. all \in Seq(Interface)
    BY ClientNetAssumption DEF Interface
  <2>3. SubSeq(all, 1, n) \in Seq(Interface)
    BY <2>1, <2>2
  <2> DEFINE s == SubSeq(all, 1, n)
  <2> HIDE DEF s
  <2>4. s \in Seq(Interface) /\ scan' = [scan EXCEPT !.at = "loop", !.listed = s]
    BY <2>1, <2>3 DEF s
  <2>5. scan' = [at |-> "loop", sock |-> scan.sock, listed |-> s, i |-> 1, unread |-> {},
                 mac |-> ZeroMac]
    BY <1>1, <2>4 DEF Scan
  <2>6. scan' \in Scan
    BY <1>1, <2>4, <2>5 DEF Scan
  <2> QED
    BY <1>1, <2>4, <2>5, <2>6 DEF ScanInv, GreetsAsItself
<1>3. CASE ~ok
  <2>1. ReturnMac(ZeroMac, {})
    BY <1>3 DEF MacList
  <2>2. scan' = [scan EXCEPT !.at = "done", !.sock = FALSE, !.mac = ZeroMac, !.unread = {}]
    BY <2>1 DEF ReturnMac
  <2>3. scan' = [at |-> "done", sock |-> FALSE, listed |-> <<>>, i |-> 1, unread |-> {},
                 mac |-> ZeroMac]
    BY <1>1, <2>2 DEF Scan
  <2> QED
    BY <2>3, EarlyReturnLemma
<1> QED
  BY <1>2, <1>3

(* An interface is passed by if it cannot be read or is a loopback.        *)
LEMMA SkipScan ==
    ASSUME ScanInv, scan.at = "loop", scan.i \in 1..Len(scan.listed),
           NEW u \in {scan.unread, scan.unread \cup {scan.i}},
           scan.listed[scan.i].loopback \/ scan.i \in u,
           Skip(u)
    PROVE  ScanInv'
<1>1. /\ scan \in Scan /\ scan.mac = ZeroMac /\ scan.sock
      /\ scan.unread \subseteq 1..(scan.i - 1)
      /\ \A j \in 1..(scan.i - 1) : scan.listed[j].loopback \/ j \in scan.unread
  BY DEF ScanInv
<1>2. /\ scan.listed \in Seq(Interface) /\ scan.i \in Nat /\ scan.unread \in SUBSET Nat
      /\ scan.mac \in Macs /\ scan.sock \in BOOLEAN /\ Len(scan.listed) \in Nat
  BY <1>1 DEF Scan
<1>3. scan' = [at |-> "loop", sock |-> scan.sock, listed |-> scan.listed, i |-> scan.i + 1,
               unread |-> u, mac |-> ZeroMac]
  BY <1>1 DEF Skip, Scan
<1>4. scan' \in Scan
  BY <1>1, <1>2, <1>3 DEF Scan
<1>5. u \subseteq 1..scan.i
  BY <1>1, <1>2
<1>6. \A j \in 1..scan.i : scan.listed[j].loopback \/ j \in u
  <2> SUFFICES ASSUME NEW j \in 1..scan.i PROVE scan.listed[j].loopback \/ j \in u
    OBVIOUS
  <2>1. CASE j = scan.i
    BY <2>1
  <2>2. CASE j \in 1..(scan.i - 1)
    BY <1>1, <2>2
  <2> QED
    BY <1>2, <2>1, <2>2
<1>7. scan'.i - 1 = scan.i /\ scan'.i \in 1..(Len(scan'.listed) + 1)
  BY <1>2, <1>3
<1> QED
  BY <1>1, <1>3, <1>4, <1>5, <1>6, <1>7 DEF ScanInv, GreetsAsItself

(* A turn of the loop.                                                     *)
LEMMA MacReadScan == ASSUME ScanInv, NEW ok \in BOOLEAN, MacRead(ok) PROVE ScanInv'
<1> DEFINE interface == scan.listed[scan.i]
<1>1. /\ scan.at = "loop" /\ scan \in Scan /\ scan.i \in 1..Len(scan.listed)
      /\ scan.listed \in Seq(Interface) /\ interface \in Interface
      /\ scan.unread \subseteq 1..(scan.i - 1)
      /\ \A j \in 1..(scan.i - 1) : scan.listed[j].loopback \/ j \in scan.unread
  BY DEF MacRead, Scanning, ScanInv, Scan
<1>2. CASE ~ok
  <2>1. Skip(scan.unread \cup {scan.i})
    BY <1>2 DEF MacRead
  <2> QED
    BY <1>1, <2>1, SkipScan
<1>3. CASE ok /\ interface.loopback
  <2>1. Skip(scan.unread)
    BY <1>3 DEF MacRead
  <2> QED
    BY <1>1, <1>3, <2>1, SkipScan
<1>4. CASE ok /\ ~interface.loopback
  <2>1. ReturnMac(interface.mac, scan.unread)
    BY <1>4 DEF MacRead
  <2>2. scan' = [at |-> "done", sock |-> FALSE, listed |-> scan.listed, i |-> scan.i,
                 unread |-> scan.unread, mac |-> interface.mac]
    BY <1>1, <2>1 DEF ReturnMac, Scan
  <2>3. scan.i \in Nat /\ scan.unread \in SUBSET Nat /\ interface.mac \in Macs
    BY <1>1 DEF Scan, Interface
  <2>4. scan.i \notin scan.unread
    BY <1>1, <2>3
  <2> QED
    BY <1>1, <1>4, <2>2, <2>3, <2>4, ReturnLemma
<1> QED
  BY <1>2, <1>3, <1>4

(* The end of the loop: all were passed by.                                *)
LEMMA MacEndScan == ASSUME ScanInv, MacEnd PROVE ScanInv'
<1>1. /\ scan.at = "loop" /\ scan \in Scan /\ scan.mac = ZeroMac
      /\ scan.i > Len(scan.listed) /\ scan.i \in 1..(Len(scan.listed) + 1)
      /\ \A j \in 1..(scan.i - 1) : scan.listed[j].loopback \/ j \in scan.unread
  BY DEF MacEnd, Scanning, ScanInv
<1>2. /\ scan.listed \in Seq(Interface) /\ scan.i \in Nat /\ scan.unread \in SUBSET Nat
      /\ ZeroMac \in Macs /\ Len(scan.listed) \in Nat
  BY <1>1, ClientNetAssumption DEF Scan
<1>3. scan' = [at |-> "done", sock |-> FALSE, listed |-> scan.listed, i |-> scan.i,
               unread |-> scan.unread, mac |-> ZeroMac]
  BY <1>1 DEF MacEnd, ReturnMac, Scan
<1>4. \A j \in 1..Len(scan.listed) : scan.listed[j].loopback \/ j \in scan.unread
  BY <1>1, <1>2
<1> QED
  BY <1>2, <1>3, <1>4, ReturnLemma

(* The client greets with the address of the first interface it can read   *)
(* that is no loopback, and has closed the socket it asked through.        *)
THEOREM NetGreetsAsItself == ClientSpec => []GreetsAsItself
<1>1. NetInit => ScanInv
  BY NoScanLemma DEF NetInit
<1>2. ScanInv /\ [ClientNext]_clientVars => ScanInv'
  <2> SUFFICES ASSUME ScanInv, [ClientNext]_clientVars PROVE ScanInv'
    OBVIOUS
  <2>1. CASE UNCHANGED scan
    BY <2>1 DEF ScanInv, GreetsAsItself
  <2>2. CASE \E r \in Results : SendOwnMac(r)
    <3>1. scan' = NoScan
      BY <2>2 DEF SendOwnMac
    <3>2. scan' = [at |-> "none", sock |-> FALSE, listed |-> <<>>, i |-> 1, unread |-> {},
                   mac |-> ZeroMac]
      BY <3>1 DEF NoScan
    <3>3. scan' \in Scan
      BY <3>2, ClientNetAssumption DEF Scan
    <3>4. {i \in 1..Len(scan'.listed) : ~scan'.listed[i].loopback /\ i \notin scan'.unread} = {}
      BY <3>2
    <3>5. GreetsAsItself'
      BY <3>2, <3>4 DEF GreetsAsItself
    <3> QED
      BY <3>2, <3>3, <3>5 DEF ScanInv
  <2>3. CASE \E ok \in BOOLEAN : MacSocket(ok) \/ MacList(ok) \/ MacRead(ok)
    BY <2>3, MacSocketScan, MacListScan, MacReadScan
  <2>4. CASE MacEnd
    BY <2>4, MacEndScan
  <2> QED
    BY <2>1, <2>2, <2>3, <2>4
       DEF ClientNext, ConnectTyped, OpenFor, ConnectTo, OtherStep, clientVars, netVars
<1>3. ScanInv => GreetsAsItself
  BY DEF ScanInv
<1> QED
  BY <1>1, <1>2, <1>3, PTL DEF ClientSpec
=============================================================================
