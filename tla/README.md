# A verification of net-client-server

The repository holds a file server and an interactive client that talk over TCP or UDP. This
directory models them in TLA+, checks the models with TLC and proves theorems about them with
TLAPS. Paths below are relative to the repository; `PROJECT.json` maps every definition to the
lines it stands for.

## 1. The system

| Component | State | Operations | Modules |
|---|---|---|---|
| **File server**, `src/src/server/` | `clients` (handles: connection, MAC address, buffer), `recoveryStamps` (MAC address to file and position), the host directory | `Listen`, `Handle`, `HandlePacket`, `HandleDownload`, `HandleUpload`, `CheckFail`; `main` calls Listen, then Handle until it returns false, for ever | `FileServer`; abstractly `RecoverySlot` |
| **File client**, `src/src/client/client.cpp`, `clientConsole.cpp` | `connection`, the working directory, the command being run | `connect` (with the offer to go on with a broken-off download), `download`, `upload`, `echo`, `time`, `close`, `disconnect`, `quit` | `FileClient` |
| **TCP**, outside the repository | two byte streams per connection, the accept queue | `send`, `recv`, `connect`, `accept`, `close` | `Tcp` |
| Server, clients and TCP together | | | `FileTransfer` |
| The same over **UDP**, `UdpServer`, `UdpClient` | the server's one socket, a socket per client | the two magic words, then the same dialogue | `UdpTransfer` |
| **class Socket**, `src/src/core/socket.*` | descriptor, state, last status | open, bind, listen, accept, connect, send, receive, move, close, `Fail` | `SocketClass` |
| **Listening sockets**, `src/src/core/server.*` and the start-up in `server/main.cpp` | the listening socket, the connections' sockets | `SocketOpenAndBind`, `TcpServer::Listen`, `UdpServer::Listen` | `ListenServer` |
| **Command line of the server**, `src/src/core/args.*`, `server/main.cpp` | the iterator, `ServerConfig` | `ParseServerArgs`, `RequireArgParameter`, `ParseTo` | `ServerArgs`; with the sockets `ServerMain` |
| **Connecting sockets**, `src/src/core/client.cpp`, `connection.h` | `Client::connection` | `TcpClient::Connect`, `UdpClient::Connect`, `Client::Connect` | `ClientSockets` |
| **Addresses, MAC address**, `socket.cpp`, `src/src/core/net.cpp` | the address being connected to, the scan of the interfaces | `FromDomain`, `GetMacAddress` | `ClientNet` (composed with `ClientSockets`) |
| **Console**, `src/src/client/console.*` | the line, the iterator, the tuple of arguments | `HandleCommand`, `ArgIterator::Next`, `ParseArg`, `Executor::Exec` | `Console` |
| **Packets**, `src/src/core/packet.h`, `message.h` | the packet being built | `Build`, `Append`, `Complete`; a header and data, sent one after the other | `PacketBuilder`; abstractly `Protocol`, `Wire` |
| Log output, build files | | | not modelled |

**How they interact.** The server has one thread and serves one client at a time, to the end of
that client's packets; the others wait in an accept queue of length one (`listen(osSocket, 0)`).
After accepting a client it reads six bytes of MAC address. If a stamp is stored for that address it
sends a DownloadRecovery packet and erases the stamp, otherwise it **clears all stamps** and sends
None. Then it reads packets. A chunk of a download that cannot be sent leaves a stamp and ends the
service. A file of an upload is written as it arrives. The client runs one command at a time. On an
offer to recover it asks its user and requests the file from the size of its local copy on.

**What is hard here.**

- *Order and framing.* Nothing on the stream says whether it is a header, data or file contents;
  both programs rely on never losing step.
- *Broken-off downloads.* The client's copy, the stamp and the hosted file change at different
  times; bytes are in flight when a process dies; another client may upload a new version.
- *Failures.* `CheckFail` removes a handle and returns false, and its callers go on with the
  destroyed connection. `Fail` clears what it reads. Errors without a case leave handles behind.
  SIGPIPE ends either program. The end of the stream looks like "no data yet".
- *Liveness.* One hanging client stops the service for all.
- *Ownership.* Descriptors move between objects whose destructors close them; over UDP all clients
  share one socket and its status.
- *Datagrams.* Over UDP the server takes whatever comes next, from whomever, for its current
  client's; nothing is acknowledged or repeated. No sender waits for its receiver, and an upload
  is sent in a tight loop, so a socket that is full loses chunks at either end.
- *Parsing.* Options that take parameters, parameters that look like options, numbers wider than
  what they are read into, a tokenizer that cuts its own view.

`PROJECT.json` lists every such hazard at its line, with the properties that would catch it.

## 2. What the modules say

### The transfer of files

**`Protocol`** has what both programs share. A file is a sequence of abstract *blocks*, and
`BufferSize` blocks fit the 8192 byte buffer. A packet is an opcode, a number and a file name.
**`Wire`** has the units the programs put on the network.

**`FileServer`** has one action for each blocking `Send` or `Receive`, from one such call to the
next. `pc` names the call the thread is about to make:

| `pc` | code | actions |
|---|---|---|
| `Listen` | `listenServer->Listen()` and the append, `server.cpp:30-36` | `Accept` |
| `RecvMac`, `Greet`, `SendStamp` | the rest of `Listen` | `RecvMac`, `GreetRecovery` and `SendStamp`, or `GreetNone` |
| `RecvHeader`, `RecvData`, `Reply` | `Handle`, `HandlePacket` | the same names |
| `Download`, `SendChunk` | `HandleDownload`, up to its loop and one turn of it | `Download`, `SendChunk` |
| `Upload`, `RecvChunk`, `Discard` | `HandleUpload`, its loop, `ignoreContent` | `Upload`, `RecvChunk`, `Discard` |
| `Dead` | the process has ended | `Die` (by `Kill`, `Sigpipe` or `UseAfterRemove`), `Restart` |

The outcome of a call is a parameter of its action: `"ok"`, `"eof"` or an error. By itself
(`ServerSpec`) the server meets any outcome and any packet. `cur` past the end of `clients` is the
handle that `CheckFail` has destroyed; the next use of it is `UseAfterRemove`. `RecvChunk` has no
step for the end of the stream: that turn of the loop changes nothing.

**`RecoverySlot`** is the server without packets, buffers and handles: one slot for a broken-off
download. Breaking off fills it, with a position inside a hosted file; greeting the next client
empties it, after offering it if that client owns it; a file changes only while it is empty.
`FileServer` implements it under the mapping at its end (`Phase`, `OfferedStamps`; the slot is
`stamps`, the directory `disk`). `KeepsOneSlot` is that statement.

**`FileClient`** has the same form as `FileServer`, one `at[c]` for each client process. `conn[c]`
is `Client::connection` and `local[c]` the working directory, which uploads are read from and
downloads go to (`downloadPath` is never set). When the process dies, the last block its `ofstream`
had not written may be lost. `said[c]` is what the console reported at the end of the last command.

**`Tcp`** defines what `send` and `recv` return and leave on one connection: bounded queues
(`Window` units for each end), end of stream, reset (when an end closes with unread data), and
SIGPIPE for a send after that. It is external, modelled from how `socket.cpp` calls it.

**`FileTransfer`** joins each action that sends or receives with its effect on the connection. A
death closes the process's connections. A program does not look at what a unit is: if it is not
what it expects, it may read anything out of it (`MacsIn`, `OpsIn`, `DataIn`, `ResponsesIn`).
`asked` is a history variable: what the file of the request being served held when the request was
made.

**`UdpTransfer`** puts the same two modules on the server's one socket: `inbox` is what it holds,
with the address each datagram came from, and `mail[k]` what the client's socket at address `k`
holds. `SendTo` loses a datagram when that is full, and sends it nowhere when the socket is gone;
`CliSend` loses one when the server's socket is full, and like `send` on a datagram socket it does
not wait. Two history variables remember to which addresses (`lost`) and from which (`dropped`)
something was lost. No call of the server fails, so no stamp is made; the server does not notice
that a client has gone. When a client was killed, the next one's magic word is what the server reads
as a header, or as a part of a file; and when the server's socket has lost a chunk of an upload, the
client's next headers are what the server takes for the rest of it. So each program may read
anything out of any datagram (`UdpRecvHeader`, `Content`, `UdpDiscard`, `UdpReceive`). The programs
do nothing against any of this, so the module says what their users have to do: take turns, and
leave with `close` (`AtIt`). The properties are then conditional on what was lost: of a client from
which something was, nothing is promised; the others must not suffer for it. The module also
assumes that no upload is refused and that the server lives.

### Sockets, addresses, start-up

**`SocketClass`** has what each method of `Socket` leaves in its members. **`ListenServer`** and
**`ClientSockets`** are a second view of the same two programs, one step for each *system call*,
about what the first view takes as given: which object holds which descriptor, and whose failure a
status tells of. `kernel` is the kernel's view of each descriptor.

**`ClientNet`** adds to `ClientSockets` where a connection leads and what the client calls itself:
`FromDomain` (the first address that a look-up returns, in network byte order, of which 16 bytes are
copied, so that an IPv6 address may lead anywhere) and the loop of `GetMacAddress` over the
interfaces, any of which may fail to answer.

**`ServerArgs`** has one step for each turn of the loop in `ParseServerArgs`, on every command line:
`rest` is what the iterator has not reached. Integers are cut to their widths where the code cuts
them (`ParseUnsigned`, `ParsePort`). **`ServerMain`** goes on with `ListenServer`, over the protocol
that the command line asked for.

### Text

**`Console`** takes a line of characters through the tokenizer, the look-up of the command and the
parsing of its arguments to the request that the handler sends, which **`PacketBuilder`** lays out;
the opposite direction, what the server makes of the bytes, is `FileNameIn`.

## 3. Runs

| Run | Shows | Instance | Distinct states |
|---|---|---|---|
| `MCFileServer` | server alone, any network: `OnePendingStamp`, `StampWithinFile`, `ServedHandleIsLast`, `StampedFileFrozen`, `UploadAllOrNothing`, and that it implements `RecoverySlot` (`KeepsOneSlot`) | 2 connections, 3 MAC addresses, 4 names (a file, a free name, a directory, a refused name), positions 0..3, buffer of 2 | 75,055 |
| `MCRecovery` | `DownloadIntegrity`, `UploadIntegrity`, `StampFitsCopy`, `PromptNamesUnfinished` | 2 clients that may die, 3 connections, versions of 3 blocks, buffer 1, window 1 | 1,012,053 |
| `MCDialogue` | `InStep` | 2 clients, all commands, a refused name, an empty file, opens that fail, window 2 | 2,086,614 |
| `MCQuiet` | `QuietDownloadsSucceed`, and no deadlock | 2 clients, nobody dies, nothing is refused, files of 2 blocks | 89,016 |
| `MCFaults` | `ImplementsServer`; `DownloadEnds`, `UploadEnds` under fairness | 1 client and the server, both may die | 78,534 |
| `MCUdp` | `UdpInStep`, `UdpDownloadIntegrity`, `UdpUploadIntegrity`; `UdpDownloadEnds` under fairness | 2 clients that take turns and may be killed, 2 addresses, 2 datagrams in the server's buffer and 2 in a client's, files of 2 blocks; after a loss toward the server its client only closes | 342,460 |
| `MCServerMain` | `StartsAsAsked`, `HelpOnly`, `DescriptorsOwned`, `ServesBound` | command lines of up to 4 arguments; 8 ports in an unsigned of 16 values and an unsigned long of 32; 3 descriptors, any call may fail with a listed or another error, TCP and UDP | 740,909 |
| `MCClientNet` | `LeadsWhereTyped`, `GreetsAsItself`, `DescriptorsOwned`, `ConnectedWhenGreeting` | 3 descriptors (at most 2 are ever used), 2 errors, TCP and UDP, a host with an IPv4 address and one with both kinds, bytes of 2 values, up to 4 interfaces of which 3 are listed | 130,994 |
| `MCConsole` | `ParsedAsTyped`, `RefusedRightly`, `RequestAsTyped` | every line of up to 5 characters out of 9, and every ending of up to 3 of a connect command; sizes of 2 bits, ports of 6 | 82,684 |

*Why the bounds are enough.* A recovery needs a file of at least three blocks: one saved, one lost
or in flight, one to come; a second client is what clears stamps and changes files; three
connections let both clients hold one while a third is being made or still waits to be closed. A
window of one unit makes every send block and lets every death hit between any two units; the
dialogue needs two to let a request wait behind unread data. Over UDP a client that dies leaves at
most one address behind that the server still writes to, and two datagrams of room let the third be
lost: of an upload's header, data and two chunks, a chunk in the middle or at the end. Without
`S \notin dropped` in it `UdpUploadIntegrity` fails there, for the server hosts the client's next
header as a part of the file; and a later client's upload, with the one before spoiled so, is among
the states. What a client does after something it sent was lost multiplies the states by whatever
the server may read out of it, so in `MCUdp` the user then gives the close command, or the process is
killed (`Persistent` is empty): no property promises that client anything, but what a client that
goes on leaves to the next is not checked, nor proved. Four arguments are two options with their parameters, or one option between others; the
values include a port, a number that is no port, one that is a port once cut to an unsigned, and
one that fits no unsigned long. Lines of five characters hold three words, runs of spaces at either
end and between words, and a number too big for its port. The connections of `MCRecovery` and
`MCDialogue` are symmetric: nothing orders or names them. `CHECK_DEADLOCK FALSE` stands where a
process may die and stay dead, a program may exit, or a hanging dialogue is a reachable outcome; it
is not in `MCQuiet`, where every user can always give another command.

*Runs that find a violation.* Each shows a disagreement between the program and what one of its own
comments or messages says:

| Run | Property | Disagreement |
|---|---|---|
| `MCSubdirectory` | `PromptNamesUnfinished` | a stamp for `sub/f` is offered as `f` (`server.cpp:48`) |
| `MCRefusedUpload` | `UploadedIsHosted` | "File uploaded succefully." while the server discards the file |
| `MCUploadHang` | `ServerLeavesUpload` | a client that ends mid-upload keeps the server in its loop for ever |

More is plain from the models and has no run of its own: `disconnect` only sends a Close packet and
leaves the connection open, although its help text says "Close connection on the client side"
(`clientConsole.cpp:13`); the command after a failed connect sends on a socket that is not
connected, against the assertion at `socket.cpp:364` (compiled out by default); a failed connect is
explained as "Connection failed: Success" (`Explain` in `ClientSockets`); over UDP the next client
inherits the status that a failed download left in the shared socket, and is dropped
(`CheckFailListed` in `ListenServer`); every `-port` and `-dir` option is also reported as unknown
(a missing `else` at `server/main.cpp:54`); of an IPv6 address the second half is lost; at the end
of its input the client's loop turns for ever.

*Fairness.* `Fairness` in `FileTransfer`, and `UdpSpec`, state weak fairness of the server process
and of each client process: the scheduler runs a process whose next call can return. Nothing makes a
user give a command, a process die or a dead server start again. The liveness properties are about
what happens after a command is given, so they need no more. No network fairness is needed: `Tcp`
delivers at once, and over UDP what is not lost is delivered at once.

*Where liveness holds.* `DownloadEnds` and `UploadEnds` are checked where no upload is refused or
empty. After such an upload the server turns to the next client and never closes the connection, and
the client's next command on it waits for ever (hazard at `server.cpp:207`). Such an upload does not
make a download fail, so `QuietDownloadsSucceed` is proved without that restriction; `MCQuiet` keeps
it only because it also checks that nothing deadlocks. `UdpDownloadEnds` excludes downloads whose
client was not sent, or did not get through, a datagram, for nobody sends it again.

## 4. Proofs

TLC checks small instances; the theorems hold for every value of the constants that the named
assumptions of the modules allow.

**`FileServerProofs`**: the properties of `MCFileServer`, for every number of clients, files, names,
descriptors and buffer sizes, and against every network. The inductive invariant is `IInv`, the
conjunction of

- `TypeOK`;
- `HandleInv`: the served handle is the last of `clients`, or has just been removed from there. A
  handle is only appended by `Listen`, served until `main` calls `Listen` again, and only the served
  one is removed;
- `StampInv`: at most one stamp, inside its file, and *none while Handle runs*. This is what makes
  the rest inductive: `SendChunk` adds a stamp to a map that `Listen` has just emptied, and uploads
  only change files when no stamp is pending;
- `DownloadInv`, `UploadInv`: the locals of the loops account for what is sent, written and left.
  Without them one could not tell that a stamp points inside the file, or that a finished upload is
  whole.

`NextIInv` has one lemma for each action. `StampedFileFrozen` and `UploadAllOrNothing` are action
properties and follow from `IInv` for each step.

`ServerKeepsOneSlot` is the refinement of `RecoverySlot`. Initial states map to initial states, and
from `IInv` every step maps to the step of `RecoverySlot` that its lemma names, or to none.

**`FileTransferProofs`**: `TransferImplementsServer`, the second refinement: among any number of
clients over TCP, whatever their users do and whoever is killed when, the server only takes steps of
`FileServer`. So the theorems about `FileServer` hold of the whole system; `TransferKeepsFiles`
draws that conclusion for its two action properties. `TransferTypes` is type correctness. The
invariant, `TransferInv`, is `IInv` and the types of the clients, of the units on their way and of
the queues; what it needs beyond types is `LeftInv`, that a client never has more of a file left to
send than the file holds. `FileServer` must allow any number in a request for this, so the theorems
assume `Numbers = Nat`; the runs take a part of it.

Its second half is `TransferInStep`, that server and clients never lose step, for any number of
clients and connections, whatever their users ask for and whoever is killed when. Nothing on a
connection says what a unit is, so the invariant, `InStepInv`, is about everything under way.
`Doing` is what the server's next call wants or sends, and `Expects(k)` what the server expects of
connection `k`: that, while it serves `k`, and a MAC address before. For each connection the server
attends to, `Talk(k)` says that

- the units queued for the server *lead* it (`Leads`), one after another, from what it expects to
  what its client gives next (`Gives`: the packet its place in the code is about to send, or the
  reply it waits for);
- what waits for the client has the `Shape` of that place (`CommandInv`): nothing while it sends, at
  most the reply it waits for, or a `Response` and no more blocks than it announces.

`OwnersInv` says that no two clients hold one connection, `ServiceInv` that a connection is served
or in the backlog and that the server has not closed it, `LinksInv` that its state is well formed.
That `m` blocks leave `m` fewer to come is part of `Follows`, stated for every stretch of the queue,
so that each step keeps it and no induction over the queue is needed. Each action has its lemma: a client that sends extends the lead at its end (`ClientSends`), a server that
reads shortens it at its start (`ServerReads`), and a reply moves between the two.

**`UploadProofs`**: `TransferUploads`, that a finished upload has left the file its client sent
(`UploadIntegrity`). `InStepInv` says that what the server takes for blocks was sent as blocks;
`UploadsInv` says which ones. For each connection the server attends to, every request to upload
that is under way there is followed by the blocks of its file, in their order, as far as they were
sent (`Arrived`); what is missing at the end, its client has left to send, of the same file
(`Sends`). While the server receives, what it has written is the beginning of the file asked for and
what waits continues it (`UploadingInv`). A request announces as many blocks as its file has
(`Announces`), because a client about to make it has all of the file to send (`WholeInv`): nobody
changes a client's directory under it in the model. A step of one client leaves the others'
connections `Steady`, so only the connection of who moves has a lemma for each action.

**`DownloadProofs`**: `TransferDownloads`, that a download reported as saved has saved the server's
file, resumed or not (`DownloadIntegrity`); `TransferStamps` (`StampFitsCopy`) and `TransferPrompts`
(`PromptNamesUnfinished`), which resuming rests on. The client resumes at the size of its own copy
and the server at the position it is asked for, and nothing compares the two files. So `NotesInv`
follows the name and the position of a download through every place that holds them: the stamp, the
request that waits, the packet being handled, the loop that sends. Of each it says that whoever it
belongs to has the beginning of that file, and no more of it than the position (`Copy`). Four
things are needed for this besides:

- *whose* it is. A stamp belongs to a MAC address, a request to a connection. `NamesInv` says that
  the address that came over a connection is its client's, and that this client is at no other
  connection but one that waits to be accepted;
- when there is a stamp for a client, nothing is being sent to it (`AwayInv`), and a request to
  resume is the first thing it asks for (`EagerInv`);
- what the two have told each other (`DialogueInv`): that the client is asked about a file it has
  the beginning of (`PromptInv`), that it asks for the position where its copy ends (`StartInv`,
  `AskingInv`), that what the server answers is that request (`MatchInv`, `QuietInv`), and that the
  blocks that wait for the client go on where its copy ends (`GetsInv`);
- that a download is only reported as saved at its end (`SaidInv`).

`StampedFileFrozen` is what keeps the hosted file from changing under a pending stamp. For the open
question, `AskedInv` adds that the server waits for the answer and serves nobody else meanwhile.

`TransferQuietDownloads` is the action property `QuietDownloadsSucceed`: a download on a connection
that was made never fails where nobody is killed, every file opens and users ask for files that the
host has (`Quiet`, which `MCQuiet` satisfies). Of all that could fail it, each is excluded by a part
of `CalmInv`: the server does not end, nor has it a status, a stamp or a handle to lose
(`AliveInv`); it closes no connection a client still has (`OpenInv`); the host keeps what users want,
whatever others upload (`HostedInv`), so that every answer is that the file is ready (`FairInv`).
The hard part is `DepartedInv`: a client may leave by `quit` or a new `connect` while the server has
not read all it sent. It leaves at its prompt, having read every reply, and what it had sent leads
the server (`Leads`) to where it waits for a header; so the server meets the end of the stream
there, where it is no error, and never sends to an end that has gone.

The other theorems name three premises besides `Numbers = Nat`, and each is needed. `Distinct`: no two
machines have one MAC address, or the stamp of one is offered to the other, who has no such copy.
`WantedFlat`: users ask for files of the host directory itself; `MCSubdirectory` shows what happens
otherwise. (`TransferQuietDownloads` rests on the same invariant, and so has the two premises as
well.) `TransferPrompts` alone assumes that the server does not die: while its question is open
a restarted server could accept another upload that makes the copy complete. `MCRecovery` satisfies
all three.

**`UdpProofs`**: `UdpStaysInStep` (`UdpInStep`), `UdpUploads` (`UdpUploadIntegrity`), `UdpDownloads`
(`UdpDownloadIntegrity`) and `UdpTypesOK`, for any number of clients and addresses, buffers and files
of any size, and whoever is killed when. Over UDP there is one queue for all clients, and what is in
it when a client dies stays there. So `ChainInv` follows the whole queue: from what the server
expects (`Wants`) each letter leads to what it expects after it (`Follows`), and the last to what the
one client at the server is about to give or waits for (`Ends`, `Gives`, `Attended`). Two ends are
final. `Over`: the last client has sent a Close, and only the magic words of others can follow.
`Lost`: the server reads such a word for a client that is gone, as a header or as part of a file; then
whatever it makes of it, nobody is served until it listens again. `AddressInv` says that a magic word
that waits came from an address at which nothing else is or was, so that nobody's datagrams are taken
for another's; `TurnInv`, that users take turns. As with `Follows` over TCP, that nothing leads away from
a final end is stated for every stretch of the queue (`Leads`), so that no induction is needed.
In the other direction `MailInv` says what waits for each client: of a file, the chunks that follow
what it has (`FlowsOf`), as many as it wants minus what the server has left to send. When the socket
loses one, what flows falls short of what is wanted for good, so a client that has got all it wanted
has lost nothing.

The theorems are about the behaviours in which the server's own socket loses nothing,
`[](dropped = {})`: a loss there breaks the chain, for the letters that are left no longer lead
anywhere. (What the clients' sockets lose is not restricted.) So `UdpUploads` says that nothing but
such a loss can spoil an upload whose client lives to its end. That a loss harms nobody but the
client that sent the datagram is what the properties themselves say, and what `MCUdp` checks; the theorems do not cover it. `NextUdpInv` is the inductive step, for a
step after which nothing has been lost; `Throughout` puts it together.

The theorems also assume `Numbers = Nat` and `NothingRefused`: that nobody offers an
empty file, a name that is refused or is a directory of the host, or a file of a name he also
downloads (which a failed download removes). The server reads no contents of such an upload but the
client sends them all the same, and each of its chunks would be read as the next request. `MCUdp`
checks that its instance satisfies `NothingRefused`; that every file opens is in the model.

**`ServerMainProofs`**: first `DescriptorsOwned` and `ServesBound` of `ListenServer`, for any number of
descriptors and errors. `IInv` adds to the two: `PlaceInv`, what the objects look like at each place
of the code, and `StartInv`, that a failure of the start-up has closed the socket. Then the
properties of the start-up for command lines of *any* length. `ArgsInv` says that `rest` is the end
of `argv`, and that `config`, `result` and `help` are what the usage text makes of the part before
it; each option's lemma extends that part by one or two arguments. `ServerMain` only takes steps of
`ListenServer` once the server is constructed, so the properties of the sockets carry over.

**`ClientNetProofs`**: first the same for `ClientSockets`, with `MadeInv` (the socket that `Connect`
is making) and `ConnectionInv`. Then `NetImplementsSockets`, that `ClientNet` only takes steps of
`ClientSockets`; from it and from `NetInv` and `ScanInv` (what the scan has passed over was a
loopback or could not be read), `LeadsWhereTyped` and `GreetsAsItself` for every size of a byte and
every list of interfaces. `htons` undoes itself by a lemma about quotients and remainders.

The inductive invariants were first put to TLC as invariants of the runs' instances, `UdpInv` on
those in which the server's socket loses nothing.

**`ConsoleProofs`**: `ConsoleParsesAsTyped` (`ParsedAsTyped`), `ConsoleRefusesRightly`
(`RefusedRightly`), `ConsoleRequestsAsTyped` (`RequestAsTyped`) and `ConsoleTypes`, for lines of any
length over any alphabet, any set of commands, and any width of the size field and of a port.
`ArgIterator::Next` remembers nothing but the view it cuts, and the properties speak of the words of
the line; so `CutInv` says where in the line the view begins: at the end of a word, with as many
words before it as have been taken. That `Next` takes the next word, and all of it, is then a fact
about the positions where words begin (`NextLemma`, `NextWordLemma`); `ArgumentsInv` says that each
argument is what its type makes of its word. Where a word ends, and the value that accumulates over
the digits of a port, need an induction over the characters. The library's induction theorems take an
operator and cannot be used; these follow from a least counterexample (`LeastNat`,
`NatSetInduction`). `ConsoleAssumption` holds what is assumed: the commands that build
packets from text take one string, and the byte 0, which ends a string in a packet, is not typed.

*Only model-checked*: `DownloadEnds`, `UploadEnds` and `UdpDownloadEnds`, because liveness under
fairness is out of the prover's reach, and so is the absence of deadlock. So is what the
properties of `UdpTransfer` say once the server's socket has lost a datagram. Every other property of
a passing run is a theorem, and so is type correctness.

## 5. What is not modelled

- Links that fail without a reset, so a receiver that is never told (Tcp has no keep-alive here; such
  a client or server waits for ever). Timeouts: the program sets none, although `CheckFail` has
  cases for them; `FileServer` covers those statuses as `Removable` errors.
- A `send` that takes only part of a chunk.
- Several programs writing to one directory; the time between measuring a file and reading it.
- Over UDP: users who do not take turns, refused uploads and the death of the server. With any of
  them the guarantees of `UdpTransfer` do not hold, and the code does nothing to keep them. Datagrams
  are lost at full buffers only, and arrive in the order in which they were sent.
- Memory: `server.cpp:83` reads as much as a packet's `dataSize` says, up to 65535 bytes, into what
  is left of a buffer of 8192, and `client.cpp:33` and `:67` do the like. The models take a packet's data as a
  whole, whatever its size; what happens beyond the end of the buffer is undefined and not modelled.
- Writes to the disk that fail (`server.cpp:241`, `client.cpp:123`): neither program looks at its
  stream's state, and the models write what was received.
- Two clients with one MAC address are possible in `FileServer` and left out of `FileTransfer`'s
  instances.
- `FromString` and `ConvertToString` of addresses and the `ParseTo` functions that no program calls;
  the registration of commands, which runs before `main` and is a constant of `Console`; lines with
  NUL characters; byte order and padding of packets.
- Bit rates, messages, the Windows variants, the build (`src/src/core/utils.h`, CMake files):
  nothing in the programs' control depends on them. `LIBPOG_ASSERT` is compiled out by default, so
  no guard of a model comes from an assertion.

## 6. What could come next

1. The theorems of `UdpProofs` as strong as the properties, client by client, after a loss toward
   the server. Where something was lost the chain is no invariant; what remains of it is about the
   queue alone (after a magic word that waits come only others; whoever is at the server sent all
   that is before it), and from it the chain must be proved anew when the server listens again.
2. `UdpTransfer` with users who do not take turns, as runs that find what then goes wrong, should
   the documents ever promise more than one client over UDP.
