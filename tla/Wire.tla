-------------------------------- MODULE Wire --------------------------------
(***************************************************************************)
(* The messages between a client and the daemon on the IPC socket, as the  *)
(* sequences of fields that cmd/ipc.go and ipc/wire.go write and read.     *)
(* Nothing in the bytes says what a field is: a reader that expects other  *)
(* fields than the writer wrote takes one for another, and everything      *)
(* after it is out of step.                                                *)
(*                                                                         *)
(* A field is a pair of its encoding and its value: "n1", "n2", "n4", "n8" *)
(* are big-endian numbers of that many bytes, "s16" is a two-byte length   *)
(* and as many bytes (strings, and the DEK of a download), "raw" is bytes  *)
(* whose number the reader knows (the DEK of an upload, text, content).    *)
(* A writer is an operator that gives fields, a reader the sequence of     *)
(* encodings it expects with the name of each; "list" stands for an "n2"   *)
(* that counts entries of that many "s16" fields.                          *)
(***************************************************************************)
EXTENDS Naturals, Sequences, SequencesExt

N1(v) == <<"n1", v>>
N8(v) == <<"n8", v>>
S16(v) == <<"s16", v>>
Raw(v) == <<"raw", v>>
List(entries) == <<<<"n2", Len(entries)>>>> \o [i \in 1 .. Len(FlattenSeq(entries)) |->
                                                    S16(FlattenSeq(entries)[i])]

-----------------------------------------------------------------------------
(* Reading: io.ReadFull of one field after another.                        *)

Reading(fields, value, result) == [rest |-> fields, value |-> value, result |-> result]

\* What has been read, with one more field.
Extend(value, name, v) ==
  [x \in DOMAIN value \cup {name} |-> IF x = name THEN v ELSE value[x]]

ReadList(s, name, width) ==
  LET count == Head(s.rest)[2]
      end == 1 + count * width
      Entry(i) == [j \in 1 .. width |-> s.rest[1 + (i - 1) * width + j][2]]
  IN IF Head(s.rest)[1] # "n2" THEN Reading(s.rest, s.value, "garbled")
     ELSE IF end > Len(s.rest) THEN Reading(<<>>, s.value, "short")
     ELSE IF \E i \in 2 .. end : s.rest[i][1] # "s16" THEN Reading(s.rest, s.value, "garbled")
     ELSE Reading(SubSeq(s.rest, end + 1, Len(s.rest)),
                  Extend(s.value, name, [i \in 1 .. count |-> Entry(i)]), "ok")

ReadField(s, field) ==
  IF s.result # "ok" THEN s
  ELSE IF s.rest = <<>> THEN Reading(<<>>, s.value, "short")
  ELSE IF field[1] = "list" THEN ReadList(s, field[2], field[3])
  ELSE IF Head(s.rest)[1] # field[1] THEN Reading(s.rest, s.value, "garbled")
  ELSE Reading(Tail(s.rest), Extend(s.value, field[2], Head(s.rest)[2]), "ok")

Parse(layout, fields) == FoldLeft(ReadField, Reading(fields, <<>>, "ok"), layout)

\* The conditional readers look at the first field before they go on.
Starts(fields, v) == fields # <<>> /\ Head(fields) = N1(v)

-----------------------------------------------------------------------------
(* Requests, after the opcode.                                             *)

WriteString16Request(r) == <<S16(r.key)>>
ReadString16Request == <<<<"s16", "key">>>>

WriteSendToPeerRequest(r) == <<S16(r.key), S16(r.peer)>>
ReadSendToPeerRequest == <<<<"s16", "key">>, <<"s16", "peer">>>>

WriteECDHDownloadRequest(r) == <<S16(r.key), S16(r.dek)>>
ReadECDHDownloadRequest == <<<<"s16", "key">>, <<"s16", "dek">>>>

WriteDownloadToFileRequest(r) == <<S16(r.key), S16(r.path)>>
ReadDownloadToFileRequest == <<<<"s16", "key">>, <<"s16", "path">>>>

WriteECDHDownloadToFileRequest(r) == <<S16(r.key), S16(r.path), S16(r.dek)>>
ReadECDHDownloadToFileRequest == <<<<"s16", "key">>, <<"s16", "path">>, <<"s16", "dek">>>>

WriteDirUploadRequest(r) == <<S16(r.key), S16(r.path), N1(r.public)>>
ReadDirUploadRequest == <<<<"s16", "key">>, <<"s16", "path">>, <<"n1", "public">>>>

WriteDirDownloadRequest(r) == <<S16(r.key), S16(r.path)>>
ReadDirDownloadRequest == <<<<"s16", "key">>, <<"s16", "path">>>>

WriteECDHDirUploadRequest(r) ==
  <<S16(r.key), S16(r.path), Raw(r.dek), S16(r.ownerPub), S16(r.ownerEdPub)>>
  \o List(r.access) \o <<S16(r.signature), N1(r.public)>>
ReadECDHDirUploadRequest ==
  <<<<"s16", "key">>, <<"s16", "path">>, <<"raw", "dek">>, <<"s16", "ownerPub">>,
    <<"s16", "ownerEdPub">>, <<"list", "access", 2>>, <<"s16", "signature">>, <<"n1", "public">>>>

WriteECDHDirDownloadRequest(r) == <<S16(r.key), S16(r.path), S16(r.dek)>>
ReadECDHDirDownloadRequest == <<<<"s16", "key">>, <<"s16", "path">>, <<"s16", "dek">>>>

WriteSeedUploadRequest(r) == <<S16(r.key), S16(r.path), N8(r.size), N1(r.public)>>
ReadSeedUploadRequest ==
  <<<<"s16", "key">>, <<"s16", "path">>, <<"n8", "size">>, <<"n1", "public">>>>

WriteSeedECDHUploadRequest(r) ==
  <<S16(r.key), S16(r.path), N8(r.size), N1(r.public), Raw(r.dek), S16(r.ownerPub),
    S16(r.ownerEdPub), S16(r.signature)>> \o List(r.access)

\* Owner key, signing key, access list, signature: the order of the directory request.
MutReadSeedECDHUploadRequest ==
  <<<<"s16", "key">>, <<"s16", "path">>, <<"n8", "size">>, <<"n1", "public">>, <<"raw", "dek">>,
    <<"s16", "ownerPub">>, <<"s16", "ownerEdPub">>, <<"list", "access", 2>>, <<"s16", "signature">>>>
ReadSeedECDHUploadRequest ==
  <<<<"s16", "key">>, <<"s16", "path">>, <<"n8", "size">>, <<"n1", "public">>, <<"raw", "dek">>,
    <<"s16", "ownerPub">>, <<"s16", "ownerEdPub">>, <<"s16", "signature">>, <<"list", "access", 2>>>>

-----------------------------------------------------------------------------
(* Answers.                                                                *)

WriteStatus(status) == <<N1(status), <<"n4", "length">>, Raw("message")>>
ReadStatus == <<<<"n1", "status">>, <<"n4", "length">>, <<"raw", "message">>>>

WriteJSONResponse == <<N1("ok"), <<"n4", "length">>, Raw("json")>>
ReadJSONResponse == <<<<"n1", "status">>, <<"n4", "length">>, <<"raw", "json">>>>

WriteTransferID == <<S16("tid")>>
ReadTransferID == <<<<"s16", "tid">>>>

WriteProgressUpdate == <<N1("progress"), <<"n4", "completed">>, <<"n4", "total">>>>
ReadProgressOrStatus(fields) ==
  IF Starts(fields, "progress")
    THEN <<<<"n1", "status">>, <<"n4", "completed">>, <<"n4", "total">>>>
    ELSE ReadStatus

WriteDirProgressUpdate ==
  <<N1("progress"), <<"n4", "fileIdx">>, <<"n4", "fileTotal">>, <<"n4", "chunkIdx">>,
    <<"n4", "chunkTotal">>>>

\* A directory's progress is read as a file's.
MutReadDirProgressOrStatus(fields) == ReadProgressOrStatus(fields)
ReadDirProgressOrStatus(fields) ==
  IF Starts(fields, "progress")
    THEN <<<<"n1", "status">>, <<"n4", "fileIdx">>, <<"n4", "fileTotal">>, <<"n4", "chunkIdx">>,
           <<"n4", "chunkTotal">>>>
    ELSE ReadStatus

WriteDownloadResponse(length) == <<N1("ok"), N8(length)>>
WriteDownloadError == <<N1("error"), N8("length"), Raw("message")>>
ReadDownloadResponseHeader == <<<<"n1", "status">>, <<"n8", "length">>>>

\* The owner's key and the access list follow only when the file is encrypted.
WriteManifestInfoResponse(encrypted, access) ==
  <<N1("ok"), N1(encrypted), N1("isDirectory")>>
  \o IF encrypted THEN <<S16("ownerPub")>> \o List(access) ELSE <<>>

\* An error has eight bytes of length where a success has its two flags: the two
\* already read are put in front of the six that follow.
ReadManifestInfoResponse(fields) ==
  IF Starts(fields, "error") THEN <<<<"n1", "status">>, <<"n8", "length">>, <<"raw", "message">>>>
  ELSE <<<<"n1", "status">>, <<"n1", "encrypted">>, <<"n1", "isDirectory">>>>
       \o IF Len(fields) > 1 /\ fields[2] = N1(TRUE)
            THEN <<<<"s16", "ownerPub">>, <<"list", "access", 2>>>>
            ELSE <<>>

WriteResolveAliasResponse(results) == <<N1("ok")>> \o List(results)
ReadResolveAliasResponse(fields) ==
  IF Starts(fields, "error") THEN ReadStatus
  ELSE <<<<"n1", "status">>, <<"list", "results", 4>>>>
=============================================================================
