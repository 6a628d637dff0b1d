----------------------------- MODULE FileClient -----------------------------
(***************************************************************************)
(* The client programs: classes Client and ClientConsole (src/src/client/  *)
(* client.cpp, clientConsole.cpp) under the command loop of main.cpp, one  *)
(* process per client.  A process serves its user: it takes a command and  *)
(* runs it to the end, one Send or Receive after another.  As in           *)
(* FileServer, the outcome of each of them is a parameter `r'.             *)
(*                                                                         *)
(* What a latched status only words (the error a message prints) is left   *)
(* out: nothing in the client's control depends on it.                     *)
(***************************************************************************)
EXTENDS Protocol

CONSTANTS
    Clients,    \* client processes
    LocalDir    \* what each client's directory holds at the start

(* Client::connection: a null pointer until the first connect command, and *)
(* an unconnected socket after one that failed.                            *)
NoSocket == {"null", "unconnected"}

ASSUME ClientAssumption ==
    /\ Conns \cap NoSocket = {}
    /\ LocalDir \in [Clients -> [Names -> Entry]]

VARIABLES
    at,     \* what each process is about to do; "prompt" is the command prompt
    conn,   \* Client::connection
    job,    \* the locals of the command being run
    local,  \* its working directory: downloadPath, which nothing sets, is empty
    said    \* how the last command reported to have ended

clientVars == <<at, conn, job, local, said>>

Idle == [op |-> "None", file |-> SomeName, left |-> 0, start |-> 0]

ClientInit ==
    /\ at = [c \in Clients |-> "prompt"]
    /\ conn = [c \in Clients |-> "null"]
    /\ job = [c \in Clients |-> Idle]
    /\ local = LocalDir
    /\ said = [c \in Clients |-> "nothing"]

(* Client c goes on at place p, or is back at the prompt having said s.    *)
Goto(c, p) == at' = [at EXCEPT ![c] = p]
Return(c, s) ==
    /\ Goto(c, "prompt")
    /\ job' = [job EXCEPT ![c] = Idle]
    /\ said' = [said EXCEPT ![c] = s]

-----------------------------------------------------------------------------
(* ClientConsole::ConnectCmd and Client::Connect.                          *)

(* A TCP connection is made; a previous one is destroyed.                  *)
Connect(c, k) ==
    /\ at[c] = "prompt"
    /\ conn' = [conn EXCEPT ![c] = k]
    /\ Goto(c, "sendMac")
    /\ said' = [said EXCEPT ![c] = "nothing"]
    /\ UNCHANGED <<job, local>>

ConnectFails(c) ==
    /\ at[c] = "prompt"
    /\ conn' = [conn EXCEPT ![c] = "unconnected"]
    /\ Return(c, "failed")
    /\ UNCHANGED local

SendMac(c, r) ==
    /\ at[c] = "sendMac"
    /\ IF r = "ok" THEN Goto(c, "recvGreeting") /\ UNCHANGED <<job, said>>
                   ELSE Return(c, "failed")
    /\ UNCHANGED <<conn, local>>

(* Client::HandleDownloadRecovery: the header, then the data of a stamp.   *)
RecvGreeting(c, r, op) ==
    /\ at[c] = "recvGreeting"
    /\ IF r = "ok" /\ op = "DownloadRecovery"
       THEN Goto(c, "recvStamp") /\ UNCHANGED <<job, said>>
       ELSE Return(c, IF r = "ok" THEN "connected" ELSE "failed")
    /\ UNCHANGED <<conn, local>>

(* The stamp's position is not used.                                       *)
RecvStamp(c, r, name) ==
    /\ at[c] = "recvStamp"
    /\ IF r = "ok"
       THEN /\ Goto(c, "ask")
            /\ job' = [job EXCEPT ![c] = [Idle EXCEPT !.file = name]]
            /\ UNCHANGED said
       ELSE Return(c, "failed")
    /\ UNCHANGED <<conn, local>>

-----------------------------------------------------------------------------
(* Client::Download.                                                       *)

(* The ofstream truncates or creates the local file, or, when the start    *)
(* position is not 0, opens it for appending.  canSave: it opens.          *)
StartDownload(c, name, start, canSave) ==
    /\ IF canSave
       THEN /\ Goto(c, "downloadHeader")
            /\ job' = [job EXCEPT ![c] = [Idle EXCEPT !.op = "Download", !.file = name,
                                                      !.start = start]]
            /\ local' = IF start = 0 THEN [local EXCEPT ![c][name] = File(<<>>)] ELSE local
            /\ said' = [said EXCEPT ![c] = "nothing"]
       ELSE /\ Return(c, "failed")
            /\ UNCHANGED local
    /\ UNCHANGED conn

(* The user's answer to "do you want to continue?": the download goes on   *)
(* from the size of the local file.                                        *)
LocalSizeMutant(c, name) == Len(local[c][name].data) - 1
LocalSize(c, name) == Len(local[c][name].data)

Answer(c, yes, canSave) ==
    /\ at[c] = "ask"
    /\ IF yes
       THEN StartDownload(c, job[c].file, LocalSize(c, job[c].file), canSave)
       ELSE Return(c, "connected") /\ UNCHANGED <<conn, local>>

DownloadCmd(c, name, canSave) ==
    /\ at[c] = "prompt"
    /\ StartDownload(c, name, 0, canSave)

(* Any failure closes the local file and removes it.                       *)
RemoveSaved(c) == [local EXCEPT ![c][job[c].file] = NoEntry]

FailDownload(c) ==
    /\ Return(c, "failed")
    /\ local' = RemoveSaved(c)

(* The request is sent in two parts.                                       *)
SendDownload(c, r) ==
    /\ at[c] \in {"downloadHeader", "downloadData"}
    /\ IF r = "ok"
       THEN /\ Goto(c, IF at[c] = "downloadHeader" THEN "downloadData" ELSE "recvResponse")
            /\ UNCHANGED <<job, local, said>>
       ELSE FailDownload(c)
    /\ UNCHANGED conn

RecvResponse(c, r, ready, total) ==
    /\ at[c] = "recvResponse"
    /\ CASE r = "ok" /\ ready /\ total > 0 ->
               /\ Goto(c, "recvFile")
               /\ job' = [job EXCEPT ![c].left = total]
               /\ UNCHANGED <<local, said>>
         [] r = "ok" /\ ready /\ total = 0 -> Return(c, "saved") /\ UNCHANGED local
         [] OTHER -> FailDownload(c)
    /\ UNCHANGED conn

MoreToReceiveMutant(c, d) == job[c].left > Len(d) + 1
MoreToReceiveMutant2(c, d) == job[c].left >= Len(d)
MoreToReceive(c, d) == job[c].left > Len(d)

(* One turn of the receiving loop: 0 bytes end it, whatever the reason.    *)
RecvFileMutant(c, r, d) ==
    /\ at[c] = "recvFile"
    /\ r = "ok" /\ Len(d) \in 1..ChunkSize(job[c].left)
    /\ local' = [local EXCEPT ![c][job[c].file] = File(@.data \o d)]
    /\ IF MoreToReceive(c, d)
       THEN job' = [job EXCEPT ![c].left = @ - Len(d)] /\ UNCHANGED <<at, said>>
       ELSE Return(c, "saved")
    /\ UNCHANGED conn

RecvFile(c, r, d) ==
    /\ at[c] = "recvFile"
    /\ IF r = "ok"
       THEN /\ Len(d) \in 1..ChunkSize(job[c].left)
            /\ local' = [local EXCEPT ![c][job[c].file] = File(@.data \o d)]
            /\ IF MoreToReceive(c, d)
               THEN /\ job' = [job EXCEPT ![c].left = @ - Len(d)]
                    /\ UNCHANGED <<at, said>>
               ELSE Return(c, "saved")
       ELSE FailDownload(c)
    /\ UNCHANGED conn

-----------------------------------------------------------------------------
(* Client::Upload.                                                         *)

(* UploadCmd wants a regular file, Upload one that opens.                  *)
UploadCmd(c, name) ==
    /\ at[c] = "prompt"
    /\ local[c][name].kind = "file"
    /\ Goto(c, "uploadHeader")
    /\ job' = [job EXCEPT ![c] = [Idle EXCEPT !.op = "Upload", !.file = name,
                                              !.left = Len(local[c][name].data)]]
    /\ said' = [said EXCEPT ![c] = "nothing"]
    /\ UNCHANGED <<conn, local>>

(* The request in two parts, then the file; that is all: no answer.        *)
SendUpload(c, r) ==
    /\ at[c] \in {"uploadHeader", "uploadData"}
    /\ CASE r = "ok" /\ at[c] = "uploadHeader" -> Goto(c, "uploadData") /\ UNCHANGED <<job, said>>
         [] r = "ok" /\ at[c] = "uploadData" /\ job[c].left > 0 ->
               Goto(c, "sendFile") /\ UNCHANGED <<job, said>>
         [] r = "ok" /\ at[c] = "uploadData" /\ job[c].left = 0 -> Return(c, "uploaded")
         [] OTHER -> Return(c, "failed")
    /\ UNCHANGED <<conn, local>>

SendFile(c, r) ==
    /\ at[c] = "sendFile"
    /\ LET left == job[c].left - ChunkSize(job[c].left)
       IN  CASE r = "ok" /\ left > 0 -> /\ job' = [job EXCEPT ![c].left = left]
                                        /\ UNCHANGED <<at, said>>
             [] r = "ok" /\ left = 0 -> Return(c, "uploaded")
             [] OTHER -> Return(c, "failed")
    /\ UNCHANGED <<conn, local>>

-----------------------------------------------------------------------------
(* Client::Echo, Client::Time and Client::Close.                           *)

AskCmd(c, op) ==
    /\ at[c] = "prompt"
    /\ op \in {"Echo", "Time"}
    /\ Goto(c, "askHeader")
    /\ job' = [job EXCEPT ![c] = [Idle EXCEPT !.op = op]]
    /\ said' = [said EXCEPT ![c] = "nothing"]
    /\ UNCHANGED <<conn, local>>

(* Echo has data, Time has none.                                           *)
SendAsk(c, r) ==
    /\ at[c] \in {"askHeader", "askData"}
    /\ IF r = "ok"
       THEN /\ Goto(c, IF at[c] = "askHeader" /\ job[c].op = "Echo" THEN "askData"
                                                                    ELSE "recvAnswer")
            /\ UNCHANGED <<job, said>>
       ELSE Return(c, "failed")
    /\ UNCHANGED <<conn, local>>

RecvAnswer(c, r) ==
    /\ at[c] = "recvAnswer"
    /\ Return(c, IF r = "ok" THEN "answered" ELSE "failed")
    /\ UNCHANGED <<conn, local>>

(* `close' and `disconnect' both only send a Close packet.                 *)
CloseCmd(c) ==
    /\ at[c] = "prompt"
    /\ Goto(c, "sendClose")
    /\ job' = [job EXCEPT ![c] = [Idle EXCEPT !.op = "Close"]]
    /\ said' = [said EXCEPT ![c] = "nothing"]
    /\ UNCHANGED <<conn, local>>

SendClose(c, r) ==
    /\ at[c] = "sendClose"
    /\ Return(c, IF r = "ok" THEN "closed" ELSE "failed")
    /\ UNCHANGED <<conn, local>>

-----------------------------------------------------------------------------
(* The process.                                                            *)

(* The packets of these places are sent through Client::connection.        *)
Sending == {"sendMac", "downloadHeader", "downloadData", "uploadHeader", "uploadData",
            "sendFile", "askHeader", "askData", "sendClose"}

(* It ends.  What an ofstream had not yet written, less than one block, is *)
(* lost with it.                                                           *)
ClientDies(c) ==
    /\ at[c] # "dead"
    /\ Goto(c, "dead")
    /\ conn' = [conn EXCEPT ![c] = "null"]
    /\ job' = [job EXCEPT ![c] = Idle]
    /\ said' = [said EXCEPT ![c] = "nothing"]
    /\ \/ UNCHANGED local
       \/ /\ at[c] = "recvFile"
          /\ LET data == local[c][job[c].file].data
             IN  /\ Len(data) > job[c].start
                 /\ local' = [local EXCEPT ![c][job[c].file] =
                                 File(SubSeq(data, 1, Len(data) - 1))]

(* quit.                                                                   *)
QuitCmd(c) == at[c] = "prompt" /\ ClientDies(c)

(* A command given before a connection was made goes through a null        *)
(* pointer or into a socket that is not connected (SIGPIPE).               *)
SendUnconnected(c) ==
    /\ at[c] \in Sending
    /\ conn[c] \in NoSocket
    /\ ClientDies(c)

StartClient(c) ==
    /\ at[c] = "dead"
    /\ Goto(c, "prompt")
    /\ UNCHANGED <<conn, job, local, said>>
=============================================================================
