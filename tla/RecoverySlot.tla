---------------------------- MODULE RecoverySlot ----------------------------
(***************************************************************************)
(* What the file server promises about downloads that break off, without   *)
(* its packets, its buffers and its list of clients.  It keeps one slot.   *)
(* A broken-off download fills it, with a position inside a hosted file;   *)
(* the next client to be greeted empties it: if it is its owner the slot   *)
(* is offered first.  No file changes while the slot is taken.             *)
(* FileServer implements this module.                                      *)
(***************************************************************************)
EXTENDS Naturals, Sequences

CONSTANTS
    Macs,        \* who may own a slot
    Names,       \* file names
    Directories  \* what the host directory may hold at the start

VARIABLES
    phase,    \* "waiting" for a client, "serving" one, or "down"
    slot,     \* the stamp of the broken-off download, if any
    offered,  \* the stamp a client is being told of, if any
    hosted    \* the host directory

vars == <<phase, slot, offered, hosted>>

Init ==
    /\ phase = "waiting"
    /\ slot = {}
    /\ offered = {}
    /\ hosted \in Directories

(* The owner of the slot is told of it.                                    *)
Offer ==
    /\ phase = "waiting" /\ slot # {} /\ offered = {}
    /\ offered' = slot
    /\ UNCHANGED <<phase, slot, hosted>>

(* A client has been greeted, or could not be: the slot is free.           *)
Greet ==
    /\ phase = "waiting"
    /\ phase' \in {"waiting", "serving"}
    /\ slot' = {}
    /\ offered' = {}
    /\ UNCHANGED hosted

(* An upload changes one file; it can only find the slot free.             *)
Write ==
    /\ phase = "serving" /\ slot = {}
    /\ phase' \in {"waiting", "serving"}
    /\ \E n \in Names :
          /\ DOMAIN hosted' = Names
          /\ \A m \in Names \ {n} : hosted'[m] = hosted[m]
    /\ UNCHANGED <<slot, offered>>

(* A download breaks off somewhere before the end of its file.             *)
BreakOff ==
    /\ phase = "serving" /\ slot = {}
    /\ phase' = "waiting"
    /\ \E m \in Macs, f \in Names :
          /\ hosted[f].kind = "file"
          /\ \E p \in 0..(Len(hosted[f].data) - 1) :
                slot' = {[mac |-> m, file |-> f, position |-> p]}
    /\ UNCHANGED <<offered, hosted>>

Leave ==
    /\ phase = "serving"
    /\ phase' = "waiting"
    /\ UNCHANGED <<slot, offered, hosted>>

Crash ==
    /\ phase # "down"
    /\ phase' = "down"
    /\ slot' = {}
    /\ offered' = {}
    /\ UNCHANGED hosted

Restart ==
    /\ phase = "down"
    /\ phase' = "waiting"
    /\ UNCHANGED <<slot, offered, hosted>>

Next == Offer \/ Greet \/ Write \/ BreakOff \/ Leave \/ Crash \/ Restart
Spec == Init /\ [][Next]_vars
=============================================================================
