------------------------------ MODULE ClientNet ------------------------------
(***************************************************************************)
(* Where a client's connections lead, and whom it says it is: what         *)
(* ClientSockets leaves out of Client::Connect.  Net::Address::FromDomain  *)
(* (src/src/core/socket.cpp) makes the address to connect to, and          *)
(* Net::GetMacAddress (src/src/core/net.cpp) the MAC address to greet      *)
(* with, one step for each system call.                                    *)
(***************************************************************************)
EXTENDS ClientSockets, Naturals, Sequences

CONSTANTS
    Hosts,       \* the names a user may type
    Found,       \* the addresses that getaddrinfo may put first for each
    Machines,    \* the machines that addresses may lead to
    Byte,        \* the number of values of a byte
    Macs, ZeroMac,
    Interfaces,  \* the lists of interfaces the system may have
    Listed       \* how many of them fit the buffer that lists them

Families == {"IPv4", "IPv6"}
Ports == 0..(Byte * Byte - 1)

ASSUME ClientNetAssumption ==
    /\ Byte \in Nat \ {0}
    /\ Found \in [Hosts -> SUBSET [family : Families, machine : Machines]]
    /\ ZeroMac \in Macs
    /\ Interfaces \subseteq Seq([loopback : BOOLEAN, mac : Macs])
    /\ Listed \in Nat

VARIABLES
    typed,    \* the host and port of the last connect command
    address,  \* Client::Connect: serverAddress
    peer,     \* external: where each connected descriptor leads
    scan      \* GetMacAddress: its locals, and (history) which interfaces it could not read

netVars == <<typed, address, peer, scan>>
clientVars == <<vars, netVars>>

Invalid == [family |-> "Invalid"]
Nowhere == [family |-> "None"]
NoScan == [at |-> "none", sock |-> FALSE, listed |-> <<>>, i |-> 1, unread |-> {}, mac |-> ZeroMac]

NetInit ==
    /\ Init
    /\ typed \in [host : Hosts, port : {0}]
    /\ address = Invalid
    /\ peer = [k \in Fds |-> Nowhere]
    /\ scan = NoScan

-----------------------------------------------------------------------------
(* The address.                                                            *)

(* A port has the order of its two bytes reversed, here and by the kernel. *)
htons(port) == (port % Byte) * Byte + port \div Byte

(* FromDomain: the first address found, and the port put into it.  Of an   *)
(* IPv6 address only the first half is copied, and the rest is not         *)
(* initialised: it may lead anywhere.                                      *)
CopiedMachines(a) == IF a.family = "IPv4" THEN {a.machine} ELSE Machines
FromDomain(host, port) ==
    {Invalid} \cup
    UNION {{[family |-> a.family, machine |-> m, port |-> htons(port)] : m \in CopiedMachines(a)} :
              a \in Found[host]}

(* The kernel connects a socket to what the bytes of the address say.      *)
Reached == [address EXCEPT !.port = htons(@)]

(* A descriptor that is closed leads nowhere.                              *)
Peers == [k \in Fds |-> IF kernel'[k] = "connected" THEN peer[k] ELSE Nowhere]

ConnectTyped ==
    /\ ConnectCmd
    /\ \E host \in Hosts, port \in Ports :
          /\ typed' = [host |-> host, port |-> port]
          /\ address' \in FromDomain(host, port)
    /\ UNCHANGED <<peer, scan>>

(* Nobody asks whether the address is valid: its family is no family.      *)
OpenFor(r) ==
    /\ address = Invalid => r # "ok"
    /\ Open(r)
    /\ UNCHANGED netVars

ConnectTo(r) ==
    /\ Connect(r)
    /\ peer' = IF r = "ok" THEN [peer EXCEPT ![made.fd] = Reached] ELSE peer
    /\ UNCHANGED <<typed, address, scan>>

-----------------------------------------------------------------------------
(* GetMacAddress, before SendMac.                                          *)

Scanning(place) == pc = "sendMac" /\ scan.at = place

(* It returns, and has closed its socket if it has one.                    *)
ReturnMac(mac, unread) ==
    scan' = [scan EXCEPT !.at = "done", !.sock = FALSE, !.mac = mac, !.unread = unread]

MacSocket(opens) ==
    /\ Scanning("none")
    /\ IF opens THEN scan' = [scan EXCEPT !.at = "list", !.sock = TRUE]
                ELSE ReturnMac(ZeroMac, {})
    /\ UNCHANGED <<vars, typed, address, peer>>

MacList(works) ==
    /\ Scanning("list")
    /\ IF works
       THEN \E all \in Interfaces :
               scan' = [scan EXCEPT !.at = "loop",
                                    !.listed = SubSeq(all, 1, IF Len(all) < Listed THEN Len(all)
                                                                                    ELSE Listed)]
       ELSE ReturnMac(ZeroMac, {})
    /\ UNCHANGED <<vars, typed, address, peer>>

(* One turn of the loop.  The flags or the address may not be had; the     *)
(* first interface that is no loopback and tells its address ends it.      *)
Skip(unread) == scan' = [scan EXCEPT !.i = @ + 1, !.unread = unread]

MacReadMutant(reads) ==
    /\ Scanning("loop") /\ scan.i <= Len(scan.listed)
    /\ LET interface == scan.listed[scan.i]
       IN  CASE ~reads -> Skip(scan.unread \cup {scan.i})
             [] reads /\ interface.loopback -> Skip(scan.unread)
             [] OTHER -> scan' = [scan EXCEPT !.i = @ + 1, !.mac = interface.mac]
    /\ UNCHANGED <<vars, typed, address, peer>>
MacRead(reads) ==
    /\ Scanning("loop") /\ scan.i <= Len(scan.listed)
    /\ LET interface == scan.listed[scan.i]
       IN  CASE ~reads -> Skip(scan.unread \cup {scan.i})
             [] reads /\ interface.loopback -> Skip(scan.unread)
             [] OTHER -> ReturnMac(interface.mac, scan.unread)
    /\ UNCHANGED <<vars, typed, address, peer>>

MacEnd ==
    /\ Scanning("loop") /\ scan.i > Len(scan.listed)
    /\ ReturnMac(scan.mac, scan.unread)
    /\ UNCHANGED <<vars, typed, address, peer>>

SendOwnMac(r) ==
    /\ Scanning("done")
    /\ SendMac(r)
    /\ scan' = NoScan
    /\ UNCHANGED <<typed, address, peer>>

-----------------------------------------------------------------------------
(* The steps of ClientSockets that have no more to them.                   *)
OtherStep ==
    /\ \/ Assign \/ AssignNull \/ CheckConnected \/ Explain \/ Using
       \/ \E r \in Results : SendMagic(r)
       \/ \E r \in Results, magic \in BOOLEAN : ReceiveMagic(r, magic)
    /\ peer' = Peers
    /\ UNCHANGED <<typed, address, scan>>

ClientNext ==
    \/ ConnectTyped
    \/ \E r \in Results : OpenFor(r) \/ ConnectTo(r) \/ SendOwnMac(r)
    \/ \E ok \in BOOLEAN : MacSocket(ok) \/ MacList(ok) \/ MacRead(ok)
    \/ MacEnd
    \/ OtherStep

ClientSpec == NetInit /\ [][ClientNext]_clientVars

-----------------------------------------------------------------------------
(* Properties.                                                             *)

(* However often the user connects, to whatever hosts, and whichever of    *)
(* those attempts fail: a client only greets a machine that it was told to *)
(* connect to by this command, at the port of this command, and never the  *)
(* one that an earlier command left it connected to.  Names that are found *)
(* as an IPv6 address are excluded, whose second half is lost.             *)
LeadsWhereTyped ==
    pc = "sendMac" /\ IsOpen(connection) =>
        LET p == peer[connection.fd]
        IN  /\ p.family \in Families
            /\ p.port = typed.port
            /\ p.family = "IPv4" =>
                  [family |-> "IPv4", machine |-> p.machine] \in Found[typed.host]

(* The MAC address it greets with, by which the server knows it again, is  *)
(* that of the first interface in the system's list that is no loopback    *)
(* and can be read, and zero if there is none; and however that went, the  *)
(* socket it took to find out is closed.                                   *)
GreetsAsItself ==
    scan.at \in {"none", "done"} =>
        /\ ~scan.sock
        /\ LET usable == {i \in 1..Len(scan.listed) :
                             ~scan.listed[i].loopback /\ i \notin scan.unread}
           IN  IF usable = {} THEN scan.mac = ZeroMac
               ELSE \E i \in usable :
                       scan.mac = scan.listed[i].mac /\ \A j \in usable : i <= j
=============================================================================
