----------------------------- MODULE SocketClass -----------------------------
(***************************************************************************)
(* class Net::Socket (src/src/core/socket.{h,cpp}) as operators: what each *)
(* method leaves in the object, given what its system call returned.  `r'  *)
(* is "ok" or the errno that the method latches in `status'.  The state    *)
(* and the status are the object's own notes: nothing keeps them in line   *)
(* with the descriptor but these methods.                                  *)
(***************************************************************************)
CONSTANTS
    Fds,     \* the descriptors the process may have open
    Errnos   \* the errors its system calls may report

INVALID_SOCKET == "INVALID_SOCKET"

ASSUME SocketAssumption ==
    /\ INVALID_SOCKET \notin Fds
    /\ {"ok", "Success"} \cap Errnos = {}

States == {"None", "Connected", "Listening"}
Results == {"ok"} \cup Errnos
Socket == [fd : Fds \cup {INVALID_SOCKET}, state : States, status : {"Success"} \cup Errnos]

NewSocket == [fd |-> INVALID_SOCKET, state |-> "None", status |-> "Success"]
IsOpen(s) == s.fd # INVALID_SOCKET
IsConnected(s) == s.state = "Connected"
IsListening(s) == s.state = "Listening"

(* A failed call only latches its errno: Bind, SetOption, Send, Receive,   *)
(* SendTo and ReceiveFrom change nothing else either way.                  *)
LatchedMutant(s, r) == s
LatchedMutant2(s, r) == [s EXCEPT !.status = r]
Latched(s, r) == IF r = "ok" THEN s ELSE [s EXCEPT !.status = r]

(* Open: a descriptor k, or none.                                          *)
Opened(s, r, k) == [Latched(s, r) EXCEPT !.fd = IF r = "ok" THEN k ELSE INVALID_SOCKET]

(* Close, and the destructor: the descriptor is given up whatever close(2) *)
(* says.                                                                   *)
Closed(s, r) ==
    IF IsOpen(s) THEN [Latched(s, r) EXCEPT !.fd = INVALID_SOCKET, !.state = "None"] ELSE s

Connected(s, r) == IF r = "ok" THEN [s EXCEPT !.state = "Connected"] ELSE Latched(s, r)
Listening(s, r) == IF r = "ok" THEN [s EXCEPT !.state = "Listening"] ELSE Latched(s, r)

(* Accept: the socket it returns; the listening one latches the error.     *)
AcceptedSocket(r, k) ==
    IF r = "ok" THEN [NewSocket EXCEPT !.fd = k, !.state = "Connected"] ELSE NewSocket

(* operator=(Socket&&) copies all three members into the target, whatever  *)
(* that held, and leaves the source its state and status.                  *)
MovedFromMutant(s) == s
MovedFrom(s) == [s EXCEPT !.fd = INVALID_SOCKET]

(* Fail: the caller reads the status, and clears it.                       *)
Failed(s) == [s EXCEPT !.status = "Success"]
=============================================================================
