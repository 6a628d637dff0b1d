------------------------------ MODULE ServerMain ------------------------------
(***************************************************************************)
(* The server process from its command line on: ServerArgs, and then       *)
(* ListenServer over the protocol it asked for (main of                    *)
(* src/src/server/main.cpp).                                               *)
(***************************************************************************)
EXTENDS ServerArgs, ListenServer

ASSUME ServerMainAssumption == Protocols = {"TCP", "UDP"}

mainVars == <<argsVars, vars>>

MainInit == ArgsInit /\ Init /\ protocol = config.protocol

(* The Server object is constructed; the command line is not read again.   *)
Construct ==
    /\ step = "start"
    /\ step' = "running"
    /\ protocol' = config.protocol
    /\ argv' = <<>> /\ rest' = <<>>
    /\ UNCHANGED <<config, result, help, path>>
    /\ UNCHANGED <<pc, socket, accepted, handles, kernel, report>>

MainNext ==
    \/ ArgsNext /\ UNCHANGED vars
    \/ Construct
    \/ step = "running" /\ Next /\ UNCHANGED argsVars

MainSpec == MainInit /\ [][MainNext]_mainVars
=============================================================================
