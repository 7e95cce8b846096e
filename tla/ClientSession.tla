--------------------------- MODULE ClientSession ---------------------------
(***************************************************************************)
(* A connection of a client to the daemon: the command line or the TUI     *)
(* writes one request, HandleClient reads it and runs its handler, and the *)
(* client reads the answer, in frames that only their order tells apart    *)
(* (cmd/handle_client.go, cmd/handle_upload.go, cmd/handle_download.go).   *)
(*                                                                         *)
(* The handler of a transfer is worker 1 of TransferManager: it registers  *)
(* the transfer after reading the request, then sends the transfer's ID,   *)
(* progress from the goroutines of the operation, and a final status,      *)
(* before completeAndRecordTransfer and the close that its defers make.    *)
(* Other connections pause, resume and cancel the transfer meanwhile.      *)
(*                                                                         *)
(* Opcodes 0x01 and 0x03 (upload through the socket) have a handler but no *)
(* client in the repository and are left out.                              *)
(***************************************************************************)
EXTENDS TransferManager, Sequences, SequencesExt, FiniteSets

CONSTANTS MaxProgress,  \* bound on progress frames
          MaxAccess     \* bound on the recipients of an encrypted upload

ASSUME SessionAssumption == MaxProgress \in Nat /\ MaxAccess \in Nat

W == INSTANCE Wire

VARIABLES op, request,  \* what the client asks for
          up, down,     \* fields under way to the daemon, and to the client
          handler,      \* position of the handler
          asked,        \* the request as the handler read it
          verdict,      \* the handler's result
          frames,       \* progress frames written
          client,       \* position of the client
          told          \* the result as the client read it

sess == <<op, request, up, down, handler, asked, verdict, frames, client, told>>
all == <<vars, sess>>

FileTransfer == {"downloadToFile", "ecdhDownloadToFile", "seedUpload", "seedECDHUpload"}
DirTransfer == {"dirUpload", "ecdhDirUpload", "dirDownload", "ecdhDirDownload"}
Transfer == FileTransfer \cup DirTransfer

\* One opcode stands for all that are alike: "list" for the requests without an
\* argument (status, peers, transfers, uploads, downloads, inbox, LAN scan), "query"
\* for browsing and searching, "action" for what is done to a transfer, file or peer.
Listing == {"list", "query"}
Op == Transfer \cup Listing
      \cup {"download", "ecdhDownload", "getManifest", "resolveAlias", "action", "sendToPeer"}

\* Fields have values of their own, so that taking one for another shows.
Request == {[key |-> "key", path |-> "path", peer |-> "peer", dek |-> "dek",
             ownerPub |-> "ownerPub", ownerEdPub |-> "ownerEdPub", signature |-> "signature", size |-> "size",
             public |-> p, access |-> [i \in 1 .. n |-> <<"recipientPub", "wrappedDEK">>]] :
             p \in BOOLEAN, n \in 0 .. MaxAccess}

Nothing == [key |-> "none"]

SessionTypeOK ==
  /\ op \in Op /\ request \in Request \cup {Nothing}
  /\ handler \in {"read", "dispatch", "serve", "run", "answered", "closed", "garbled"}
  /\ verdict \in {"none", "ok", "error"}
  /\ frames \in 0 .. MaxProgress
  /\ client \in {"start", "tid", "loop", "header", "body", "done", "failed", "garbled", "gone"}
  /\ told \in {"none", "ok", "error"}

SessionInit ==
  /\ Init
  /\ op \in Op /\ request \in Request
  /\ up = <<>> /\ down = <<>>
  /\ handler = "read" /\ asked = Nothing /\ verdict = "none" /\ frames = 0
  /\ client = "start" /\ told = "none"

-----------------------------------------------------------------------------
(* The request.                                                            *)

Written(r) ==
  CASE op = "ecdhDownload" -> W!WriteECDHDownloadRequest(r)
    [] op = "downloadToFile" -> W!WriteDownloadToFileRequest(r)
    [] op = "ecdhDownloadToFile" -> W!WriteECDHDownloadToFileRequest(r)
    [] op = "dirUpload" -> W!WriteDirUploadRequest(r)
    [] op = "dirDownload" -> W!WriteDirDownloadRequest(r)
    [] op = "ecdhDirUpload" -> W!WriteECDHDirUploadRequest(r)
    [] op = "ecdhDirDownload" -> W!WriteECDHDirDownloadRequest(r)
    [] op = "seedUpload" -> W!WriteSeedUploadRequest(r)
    [] op = "seedECDHUpload" -> W!WriteSeedECDHUploadRequest(r)
    [] op = "sendToPeer" -> W!WriteSendToPeerRequest(r)
    [] op = "list" -> <<>>
    [] OTHER -> W!WriteString16Request(r)

\* HandleClient's switch on the opcode, and the reader each handler begins with.
HandleClient ==
  CASE op = "ecdhDownload" -> W!ReadECDHDownloadRequest
    [] op = "downloadToFile" -> W!ReadDownloadToFileRequest
    [] op = "ecdhDownloadToFile" -> W!ReadECDHDownloadToFileRequest
    [] op = "dirUpload" -> W!ReadDirUploadRequest
    [] op = "dirDownload" -> W!ReadDirDownloadRequest
    [] op = "ecdhDirUpload" -> W!ReadECDHDirUploadRequest
    [] op = "ecdhDirDownload" -> W!ReadECDHDirDownloadRequest
    [] op = "seedUpload" -> W!ReadSeedUploadRequest
    [] op = "seedECDHUpload" -> W!ReadSeedECDHUploadRequest
    [] op = "sendToPeer" -> W!ReadSendToPeerRequest
    [] op = "list" -> <<>>
    [] OTHER -> W!ReadString16Request

\* The client then waits for a transfer ID, a header or the whole answer.
Awaits == IF op \in Transfer THEN "tid"
          ELSE IF op \in {"download", "ecdhDownload"} THEN "header" ELSE "loop"

SendRequest ==
  /\ client = "start"
  /\ up' = Written(request)
  /\ client' = Awaits
  /\ UNCHANGED <<vars, op, request, down, handler, asked, verdict, frames, told>>

\* The client is interrupted, perhaps in the middle of the request.
ClientDies ==
  /\ client \in {"start", "tid", "loop", "header", "body"}
  /\ \/ /\ client = "start"
        /\ \E n \in 0 .. Len(Written(request)) - 1 : up' = SubSeq(Written(request), 1, n)
     \/ /\ client # "start"
        /\ UNCHANGED up
  /\ client' = "gone" /\ down' = <<>>
  /\ UNCHANGED <<vars, op, request, handler, asked, verdict, frames, told>>

\* What is sent to a client that is gone is lost, and nobody looks at the error.
Send(fields) == down' = IF client = "gone" THEN <<>> ELSE down \o fields

\* A request cut short is answered with a status, or a download error, and the
\* connection is closed.
ReadRequest ==
  LET r == W!Parse(HandleClient, up) IN
  /\ handler = "read" /\ client # "start"
  /\ r.result = "short" => client = "gone"
  /\ handler' = CASE r.result = "short" -> "closed"
                  [] r.result = "ok" /\ r.rest = <<>> -> "dispatch"
                  [] OTHER -> "garbled"
  /\ asked' = IF handler' = "dispatch" THEN r.value ELSE asked
  /\ up' = <<>>
  /\ UNCHANGED <<vars, op, request, down, verdict, frames, client, told>>

-----------------------------------------------------------------------------
(* Handlers of transfers.                                                  *)

\* Register.  From here on the session depends on the kind of transfer only: one
\* opcode stands for all that behave alike.
Register ==
  /\ handler = "dispatch" /\ op \in Transfer
  /\ handler' = "serve"
  /\ op' = IF op \in FileTransfer THEN "downloadToFile"
           ELSE IF op \in {"dirUpload", "ecdhDirUpload"} THEN "dirUpload" ELSE "dirDownload"
  /\ request' = Nothing /\ asked' = Nothing
  /\ UNCHANGED <<vars, up, down, verdict, frames, client, told>>

AnnounceTransfer ==
  /\ handler = "serve" /\ wpc[1] = "run"
  /\ Send(W!WriteTransferID)
  /\ handler' = "run"
  /\ UNCHANGED <<vars, op, request, up, asked, verdict, frames, client, told>>

\* The progress callback, from any goroutine of the operation: one Write each.
Progress ==
  /\ handler = "run" /\ wpc[1] = "run" /\ frames < MaxProgress
  /\ frames' = frames + 1
  /\ Send(IF op \in FileTransfer THEN W!WriteProgressUpdate ELSE W!WriteDirProgressUpdate)
  /\ UNCHANGED <<vars, op, request, up, handler, asked, verdict, client, told>>

\* The operation has returned.  A directory download with failed files is an
\* error for the client although the operation is none.
FinalStatus ==
  /\ handler = "run" /\ wpc[1] = "get"
  /\ \E v \in {"ok", "error"} :
       /\ v = "ok" => outcome[1] = "ok"
       /\ v = "error" => outcome[1] = "err" \/ op = "dirDownload"
       /\ verdict' = v
       /\ Send(W!WriteStatus(v))
  /\ handler' = "answered"
  /\ UNCHANGED <<vars, op, request, up, asked, frames, client, told>>

\* The defers: completeAndRecordTransfer and cancel, then conn.Close.
HandlerCloses ==
  /\ handler = "answered" /\ wpc[1] = "gone"
  /\ handler' = "closed"
  /\ UNCHANGED <<vars, op, request, up, down, asked, verdict, frames, client, told>>

\* The manager's own steps; worker 1 is the handler of this session.
HandlerStep ==
  \/ handler = "serve" /\ SetActive
  \/ handler = "run" /\ OperationEnds(1)
  \/ handler = "answered" /\ (ReadStatus(1) \/ Complete(1) \/ Record(1) \/ Leave(1))

ManagerStep ==
  /\ \/ HandlerStep
     \/ /\ handler \in {"serve", "run", "answered", "closed"} /\ op \in Transfer
        /\ \/ \E w \in Worker \ {1} : WorkerStep(w)
           \/ \E k \in Clients : ClientApply(k) \/ \E o \in {"pause", "resume", "cancel"} : Lookup(k, o)
  /\ UNCHANGED sess

-----------------------------------------------------------------------------
(* Handlers that answer at once.                                           *)

\* The content goes out as it comes; its length is in the header when it is known.
\* When the stream breaks off, the handler logs it and closes the connection.
Streamed(v) ==
  {W!WriteDownloadResponse(length) \o [i \in 1 .. n |-> W!Raw("content")] :
     length \in {0, 2}, n \in IF v = "ok" THEN {2} ELSE {0, 1}} \cup
  IF v = "error" THEN {W!WriteDownloadError} ELSE {}

Answers(v) ==
  CASE op \in {"download", "ecdhDownload"} -> Streamed(v)
    [] op = "getManifest" /\ v = "ok" ->
         {W!WriteManifestInfoResponse(FALSE, <<>>)} \cup
         {W!WriteManifestInfoResponse(TRUE, r.access) : r \in Request}
    [] op = "resolveAlias" /\ v = "ok" ->
         {W!WriteResolveAliasResponse([i \in 1 .. n |-> <<"fp", "x25519", "ed25519", "addr">>]) :
            n \in 0 .. MaxAccess}
    [] op \in Listing /\ v = "ok" -> {W!WriteJSONResponse}
    [] op = "getManifest" /\ v = "error" -> {W!WriteDownloadError}
    [] OTHER -> {W!WriteStatus(v)}

AnswerAtOnce ==
  /\ handler = "dispatch" /\ op \notin Transfer
  /\ \E v \in {"ok", "error"} :
       /\ verdict' = v
       /\ \E fields \in Answers(v) : Send(fields)
  /\ handler' = "closed"
  /\ UNCHANGED <<vars, op, request, up, asked, frames, client, told>>

-----------------------------------------------------------------------------
(* The client reads.                                                       *)

\* A read of layout that leads to next; it fails when the connection is closed
\* before its last field.
ClientReads(layout, next) ==
  LET r == W!Parse(layout, down) IN
  /\ r.result = "short" => handler = "closed"
  /\ client' = CASE r.result = "ok" -> next
                 [] r.result = "short" -> "failed"
                 [] OTHER -> "garbled"
  /\ down' = r.rest
  /\ told' = IF r.result = "ok" /\ next = "done" THEN r.value.status ELSE told
  /\ UNCHANGED <<vars, op, request, up, handler, asked, verdict, frames>>

ClientReadsTransferID == client = "tid" /\ ClientReads(W!ReadTransferID, "loop")

\* What is read when these are the fields of the answer.
Layout(fields) ==
  CASE op \in FileTransfer -> W!ReadProgressOrStatus(fields)
    [] op \in DirTransfer -> W!ReadDirProgressOrStatus(fields)
    [] op = "getManifest" -> W!ReadManifestInfoResponse(fields)
    [] op = "resolveAlias" -> W!ReadResolveAliasResponse(fields)
    [] op \in Listing -> W!ReadJSONResponse
    [] OTHER -> W!ReadStatus

\* Progress is shown and the loop goes on; any other status ends it.
ClientReadsAnswer ==
  /\ client = "loop"
  /\ ClientReads(Layout(down), IF op \in Transfer /\ W!Starts(down, "progress") THEN "loop" ELSE "done")

\* downloadToStream: the header and, on an error, the message.
ClientReadsHeader ==
  /\ client = "header"
  /\ IF W!Starts(down, "error")
     THEN ClientReads(W!ReadDownloadResponseHeader \o <<<<"raw", "message">>>>, "done")
     ELSE ClientReads(W!ReadDownloadResponseHeader, "body")

\* io.Copy of the content up to its length or the end of the stream: what ends too
\* early is no error.
ClientCopiesBody ==
  /\ client = "body" /\ handler = "closed"
  /\ client' = "done" /\ told' = "ok" /\ down' = <<>>
  /\ UNCHANGED <<vars, op, request, up, handler, asked, verdict, frames>>

ClientStep ==
  \/ SendRequest \/ ClientReadsTransferID \/ ClientReadsAnswer \/ ClientReadsHeader \/ ClientCopiesBody

DaemonStep ==
  \/ ReadRequest \/ Register \/ AnnounceTransfer \/ Progress \/ FinalStatus \/ HandlerCloses
  \/ AnswerAtOnce

SessionNext == ClientStep \/ ClientDies \/ DaemonStep \/ ManagerStep

SessionSpec == SessionInit /\ [][SessionNext]_all

-----------------------------------------------------------------------------
(* Properties.                                                             *)

\* Every handler reads what its client wrote, field by field and to the last one,
\* whatever the number of recipients; a request cut short is never acted on.
RequestUnderstood ==
  /\ handler # "garbled"
  /\ asked # Nothing => /\ DOMAIN asked \subseteq DOMAIN request
                        /\ \A f \in DOMAIN asked : asked[f] = request[f]

\* A client that stays is never out of step with the frames, however many
\* progress frames come between, and ends with the result the handler had, not
\* with a broken connection.  Not so for the content of a streamed download.
AnswerUnderstood ==
  /\ client \notin {"garbled", "failed"}
  /\ client = "done" /\ op \notin {"download", "ecdhDownload"} => told = verdict
=============================================================================
