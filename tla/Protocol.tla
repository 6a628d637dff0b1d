------------------------------ MODULE Protocol ------------------------------
(***************************************************************************)
(* What the server and the client share: the packets of src/src/core/      *)
(* message.h and packet.h, the two buffers of the same size, the outcomes  *)
(* of Connection::Send and Receive, and files.  A file is a sequence of    *)
(* abstract blocks; of a packet's data only the number (position or        *)
(* fileSize) and the file name are kept.                                   *)
(***************************************************************************)
EXTENDS Naturals, Sequences

CONSTANTS
    Names,       \* file names
    Blocks,      \* what a file is made of
    BufferSize,  \* DEFAULT_BUFFER_SIZE of Server and of Client, in blocks
    Conns,       \* descriptors for connections
    Errors       \* the errno values that Send and Receive can leave

Opcodes == {"None", "Echo", "Time", "Download", "Upload", "Close", "DownloadRecovery"}

(* Receive returns bytes, nothing at the end of the stream, or an error;   *)
(* Send has no end of stream.                                              *)
Received == {"ok", "eof"} \cup Errors
Sent == {"ok"} \cup Errors

ASSUME ProtocolAssumption ==
    /\ Names # {}
    /\ Blocks # {}
    /\ BufferSize \in Nat \ {0}
    /\ {"ok", "eof", "Success"} \cap Errors = {}

(* A name of a directory stands for nothing, a file or a directory.        *)
Entry == [kind : {"none", "file", "dir"}, data : Seq(Blocks)]
NoEntry == [kind |-> "none", data |-> <<>>]
File(s) == [kind |-> "file", data |-> s]
SomeName == CHOOSE n \in Names : TRUE

(* std::min(buffer size, left), and what one Receive into it may return.   *)
ChunkSize(left) == IF left < BufferSize THEN left ELSE BufferSize
Chunks == UNION {[1..n -> Blocks] : n \in 1..BufferSize}
=============================================================================
