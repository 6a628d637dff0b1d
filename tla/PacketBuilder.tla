---------------------------- MODULE PacketBuilder ----------------------------
(***************************************************************************)
(* Msg::Packet and its builder (src/src/core/packet.h), the requests that  *)
(* class Client builds with it (src/src/client/client.cpp), and how the    *)
(* server reads them (src/src/server/server.cpp).  Data are sequences of   *)
(* bytes; a number in them counts as one.  Sizes are uint16_t.             *)
(***************************************************************************)
EXTENDS Naturals, Sequences

CONSTANTS
    SizeLimit,  \* how many values a uint16_t has
    NUL         \* the byte that ends a string

ASSUME PacketAssumption == SizeLimit \in Nat \ {0}

UInt16(n) == n % SizeLimit

(* BuildProxy: its constructor and the four Append methods.                *)
Build(op) == [opcode |-> op, dataSize |-> 0, data |-> <<>>]
AppendBytes(packet, bytes, size) ==
    [packet EXCEPT !.data = @ \o SubSeq(bytes, 1, UInt16(size))]
AppendObject(packet, object) == [packet EXCEPT !.data = Append(@, object)]
AppendString(packet, string) == AppendBytes(packet, Append(string, NUL), Len(string) + 1)
AppendViewMutant(packet, view) == AppendBytes(packet, view, Len(view))
AppendView(packet, view) == AppendObject(AppendBytes(packet, view, Len(view)), NUL)

Complete(packet) == [packet EXCEPT !.dataSize = UInt16(Len(packet.data))]

(* The requests.  Echo also sends the character that follows the message.  *)
Echo(message, next) ==
    Complete(AppendBytes(Build("Echo"), Append(message, next), Len(message) + 1))
Download(name, position) ==
    Complete(AppendView(AppendObject(Build("Download"), position), name))
Upload(name, size) ==
    Complete(AppendString(AppendObject(Build("Upload"), size), name))
Bare(op) == Complete(Build(op))

(* Sent: the header, and as much data as it announces.                     *)
OnTheWire(packet) ==
    [opcode |-> packet.opcode, dataSize |-> packet.dataSize,
     data |-> SubSeq(packet.data, 1, packet.dataSize)]

(* What the server takes the file name of a request to be: what stands     *)
(* between its number and the first NUL.  Without one (the request was cut *)
(* short) it goes on into whatever the buffer held, here `stale'.          *)
FileNameIn(data, stale) ==
    LET buffer == SubSeq(data, 2, Len(data)) \o stale
        end == CHOOSE i \in 1..Len(buffer) :
                  buffer[i] = NUL /\ \A j \in 1..(i - 1) : buffer[j] # NUL
    IN  SubSeq(buffer, 1, end - 1)
=============================================================================
