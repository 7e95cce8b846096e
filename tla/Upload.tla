------------------------------- MODULE Upload -------------------------------
(***************************************************************************)
(* Server.storeDataInternal with replicateChunk and the pending-upload log *)
(* (Storage/pending): one key, uploaded by a succession of calls that may  *)
(* be cancelled, fail, or die with the daemon.                             *)
(*                                                                         *)
(* A call is a pipeline.  Stage 1 reads the source chunk by chunk and      *)
(* passes the chunks that the log does not name on through procCh.  Main   *)
(* stores each in the local CAS, waits for a slot of the semaphore, spawns *)
(* a goroutine that replicates it, and logs it.  That goroutine sends to   *)
(* every responsible node and returns on a quorum; the sends go on.        *)
(*                                                                         *)
(* Chunk i read in full has its own storage key; `cut' marks a chunk that  *)
(* the source broke off, which has another.  Compression and encryption    *)
(* are functions of the chunk and the key and are left out.                *)
(***************************************************************************)
EXTENDS Naturals, Sequences, FiniteSets

CONSTANTS N,            \* chunks of the source
          Target,       \* remote nodes responsible for the chunks
          MaxInFlight,  \* maxInFlight
          ProcCap,      \* capacity of procCh
          MaxCalls,     \* bound on calls
          MaxCrashes    \* bound on daemon crashes

ASSUME SizeAssumption == N \in Nat \ {0} /\ MaxInFlight \in Nat \ {0} /\ ProcCap \in Nat
ASSUME BoundsAssumption == MaxCalls \in Nat /\ MaxCrashes \in Nat

VARIABLES pc,           \* where main is
          ctxDone,      \* the call's context is cancelled
          reader,       \* next chunk of the source
          stage1,       \* "run", or how stage 1 has ended
          procCh,       \* the channel between the stages
          cur,          \* the chunk main works on
          infos,        \* chunkInfos
          resumed,      \* chunks of the log of an earlier call
          repl,         \* replicateChunk of each chunk
          send,         \* its SendStream to each node
          log,          \* the sidecar: none, torn, or its records
          cas,          \* the local store
          placed,       \* <<node, chunk>>: the node has it or a hint is stored
          manifest, sent,       \* manifests stored here and sent to peers
          calls, crashes,
          stopped       \* a source has broken off before its end

call   == <<ctxDone, reader, stage1, procCh, cur, infos, resumed>>
net    == <<repl, send, placed>>
bounds == <<calls, crashes, stopped>>
vars   == <<pc, call, net, log, cas, manifest, sent, bounds>>

Index == 0 .. N - 1
Chunk == [index : Index, cut : BOOLEAN]

NoChunk == [index |-> N, cut |-> FALSE]
NoLog   == [state |-> "none", recs |-> <<>>]
NoSends == [c \in Chunk |-> [t \in Target |-> "none"]]

Ended == {"ok", "err", "dead"}

TypeOK ==
  /\ pc \in {"idle", "load", "create", "header", "rerecord", "recv", "store", "acquire", "record",
             "wait", "replicate", "manifest", "finalize"} \cup Ended
  /\ ctxDone \in BOOLEAN
  /\ reader \in 0 .. N
  /\ stage1 \in {"run", "end", "error"}
  /\ procCh \in Seq(Chunk) /\ Len(procCh) <= ProcCap
  /\ cur \in Chunk \cup {NoChunk}
  /\ {infos, resumed} \subseteq Seq(Chunk)
  /\ repl \in [Chunk -> {"none", "spawned", "sending", "returned"}]
  /\ send \in [Chunk -> [Target -> {"none", "sending", "ok", "failed"}]]
  /\ log \in [state : {"none", "torn", "good"}, recs : Seq(Chunk)]
  /\ cas \subseteq Chunk
  /\ placed \subseteq Target \X Chunk
  /\ {manifest, sent} \subseteq Seq(Chunk)
  /\ calls \in 0 .. MaxCalls /\ crashes \in 0 .. MaxCrashes /\ stopped \in BOOLEAN

Init ==
  /\ pc = "idle"
  /\ ctxDone = FALSE /\ reader = 0 /\ stage1 = "end" /\ procCh = <<>> /\ cur = NoChunk
  /\ infos = <<>> /\ resumed = <<>>
  /\ repl = [c \in Chunk |-> "none"] /\ send = NoSends
  /\ log = NoLog /\ cas = {} /\ placed = {}
  /\ manifest = <<>> /\ sent = <<>>
  /\ calls = 0 /\ crashes = 0 /\ stopped = FALSE

-----------------------------------------------------------------------------
(* The log of an earlier call.                                             *)

\* The key is uploaded again until a call succeeds.  What replicateChunk of an
\* earlier call still sends goes on.
Start ==
  /\ pc \in {"idle", "err", "dead"}
  /\ calls < MaxCalls
  /\ calls' = calls + 1
  /\ pc' = "load"
  /\ ctxDone' = FALSE /\ reader' = 0 /\ stage1' = "run" /\ procCh' = <<>> /\ cur' = NoChunk
  /\ infos' = <<>> /\ resumed' = <<>>
  /\ UNCHANGED <<net, log, cas, manifest, sent, crashes, stopped>>

\* pending.Load: the records, or nothing when there is no log or no header.
\* The source is not compared with the one that the log was written for.
Load ==
  /\ pc = "load"
  /\ resumed' = log.recs /\ infos' = log.recs
  /\ pc' = "create"
  /\ UNCHANGED <<ctxDone, reader, stage1, procCh, cur, net, log, cas, manifest, sent, bounds>>

\* pending.Create truncates the log ...
CreateLog ==
  /\ pc = "create"
  /\ log' = [state |-> "torn", recs |-> <<>>]
  /\ pc' = "header"
  /\ UNCHANGED <<call, net, cas, manifest, sent, bounds>>

\* ... and writes its header.
WriteHeader ==
  /\ pc = "header"
  /\ log' = [log EXCEPT !.state = "good"]
  /\ pc' = "rerecord"
  /\ UNCHANGED <<call, net, cas, manifest, sent, bounds>>

\* The chunks of the earlier call are recorded again, one by one.
Rerecord ==
  /\ pc = "rerecord"
  /\ \/ /\ Len(log.recs) < Len(resumed)
        /\ log' = [log EXCEPT !.recs = Append(@, resumed[Len(@) + 1])]
        /\ UNCHANGED pc
     \/ /\ Len(log.recs) = Len(resumed)
        /\ pc' = "recv"
        /\ UNCHANGED log
  /\ UNCHANGED <<call, net, cas, manifest, sent, bounds>>

-----------------------------------------------------------------------------
(* Stage 1.  It is started after the log was read.                         *)

Reading == pc \notin Ended \cup {"idle", "load", "create", "header", "rerecord"} /\ stage1 = "run"

Skipped(i) == \E k \in 1 .. Len(resumed) : resumed[k].index = i

\* Every chunk is passed on.
MutReadChunk ==
  /\ Reading /\ reader < N
  /\ Len(procCh) < ProcCap
  /\ procCh' = Append(procCh, [index |-> reader, cut |-> FALSE])
  /\ reader' = reader + 1
  /\ UNCHANGED <<pc, ctxDone, stage1, cur, infos, resumed, net, log, cas, manifest, sent, bounds>>

\* The next chunk is skipped, or passed on when there is room.
ReadChunk ==
  /\ Reading /\ reader < N
  /\ \/ Skipped(reader) /\ UNCHANGED procCh
     \/ /\ ~Skipped(reader) /\ Len(procCh) < ProcCap
        /\ procCh' = Append(procCh, [index |-> reader, cut |-> FALSE])
  /\ reader' = reader + 1
  /\ UNCHANGED <<pc, ctxDone, stage1, cur, infos, resumed, net, log, cas, manifest, sent, bounds>>

\* The source ends.
ReadEnd ==
  /\ Reading /\ reader = N
  /\ stage1' = "end"
  /\ UNCHANGED <<pc, ctxDone, reader, procCh, cur, infos, resumed, net, log, cas, manifest, sent, bounds>>

\* The source breaks off before its end, between two chunks or within one.  A
\* connection that the client closes reads as the end of the file, any other
\* failure as an error; the bytes read so far are a chunk in both cases.
SourceStops ==
  /\ Reading /\ reader < N
  /\ stopped' = TRUE
  /\ \E how \in {"end", "error"} : stage1' = how
  /\ \/ UNCHANGED procCh
     \/ /\ ~Skipped(reader) /\ Len(procCh) < ProcCap
        /\ procCh' = Append(procCh, [index |-> reader, cut |-> TRUE])
  /\ UNCHANGED <<pc, ctxDone, reader, cur, infos, resumed, net, log, cas, manifest, sent, calls, crashes>>

-----------------------------------------------------------------------------
(* Stage 2.                                                                *)

\* A cancelled context is noticed between chunks; stage 1 is left behind.
Receive ==
  /\ pc = "recv"
  /\ \/ /\ procCh # <<>>
        /\ cur' = Head(procCh)
        /\ procCh' = Tail(procCh)
        /\ pc' = IF ctxDone THEN "err" ELSE "store"
     \/ /\ procCh = <<>> /\ stage1 # "run"
        /\ pc' = "wait"
        /\ UNCHANGED <<cur, procCh>>
  /\ UNCHANGED <<ctxDone, reader, stage1, infos, resumed, net, log, cas, manifest, sent, bounds>>

\* The chunk is written unless the store has it.
StoreLocally ==
  /\ pc = "store"
  /\ cas' = cas \cup {cur}
  /\ pc' = "acquire"
  /\ UNCHANGED <<call, net, log, manifest, sent, bounds>>

\* The write, or the metadata write after it, fails.
StoreFails ==
  /\ pc = "store" /\ cur \notin cas
  /\ \E written \in {{}, {cur}} : cas' = cas \cup written
  /\ pc' = "err"
  /\ UNCHANGED <<call, net, log, manifest, sent, bounds>>

\* Goroutines of this call that hold a slot of the semaphore.
Own == {infos[k] : k \in Len(resumed) + 1 .. Len(infos)}
Holding == {c \in Own : repl[c] \in {"spawned", "sending"}}

SlotFree == Cardinality(Holding) < MaxInFlight

Spawn ==
  /\ pc = "acquire" /\ SlotFree
  /\ repl' = [repl EXCEPT ![cur] = "spawned"]
  /\ infos' = Append(infos, cur)
  /\ pc' = "record"
  /\ UNCHANGED <<ctxDone, reader, stage1, procCh, cur, resumed, send, placed, log, cas,
                 manifest, sent, bounds>>

\* sidecar.RecordChunk, while the chunk is being replicated.
RecordChunk ==
  /\ pc = "record"
  /\ log' = [log EXCEPT !.recs = Append(@, cur)]
  /\ cur' = NoChunk
  /\ pc' = "recv"
  /\ UNCHANGED <<ctxDone, reader, stage1, procCh, infos, resumed, net, cas, manifest, sent, bounds>>

\* replWg.Wait, then the error of stage 1.
Join ==
  /\ pc = "wait" /\ Holding = {}
  /\ pc' = IF stage1 = "error" THEN "err" ELSE "replicate"
  /\ UNCHANGED <<call, net, log, cas, manifest, sent, bounds>>

\* BuildManifest takes chunkInfos as they come; replicateManifest sends it
\* before it is stored here.
ReplicateManifest ==
  /\ pc = "replicate"
  /\ sent' = infos
  /\ pc' = "manifest"
  /\ UNCHANGED <<call, net, log, cas, manifest, bounds>>

\* SetManifest and Set, either of which may fail.
StoreManifest ==
  /\ pc = "manifest"
  /\ \/ manifest' = infos /\ pc' \in {"finalize", "err"}
     \/ pc' = "err" /\ UNCHANGED manifest
  /\ UNCHANGED <<call, net, log, cas, sent, bounds>>

Finalize ==
  /\ pc = "finalize"
  /\ log' = NoLog
  /\ pc' = "ok"
  /\ UNCHANGED <<call, net, cas, manifest, sent, bounds>>

-----------------------------------------------------------------------------
(* replicateChunk.                                                         *)

WriteQuorum(n) == IF n <= 2 THEN n ELSE n \div 2 + 1

\* A node that is not connected gets a hint; the others are sent the chunk.
StartSends(c) ==
  /\ repl[c] = "spawned"
  /\ \E connected \in SUBSET Target :
       /\ send' = [send EXCEPT ![c] = [t \in Target |-> IF t \in connected THEN "sending" ELSE "none"]]
       /\ placed' = placed \cup {<<t, c>> : t \in Target \ connected}
  /\ repl' = [repl EXCEPT ![c] = "sending"]
  /\ UNCHANGED <<pc, call, log, cas, manifest, sent, bounds>>

\* A failed send is forgotten.
MutSendEnds(c, t) ==
  /\ send[c][t] = "sending"
  /\ \/ /\ send' = [send EXCEPT ![c][t] = "ok"]
        /\ placed' = placed \cup {<<t, c>>}
     \/ /\ send' = [send EXCEPT ![c][t] = "failed"]
        /\ UNCHANGED placed
  /\ UNCHANGED <<pc, call, repl, log, cas, manifest, sent, bounds>>

\* SendStream ends and the node has the chunk; or it fails, or replicateTimeout
\* passes first, and a hint is stored.  A result that comes after
\* replicateChunk has returned stays unread in the buffered channel.
SendEnds(c, t) ==
  /\ send[c][t] = "sending"
  /\ \E result \in IF repl[c] = "sending" THEN {"ok", "failed"} ELSE {"none"} :
       send' = [send EXCEPT ![c][t] = result]
  /\ placed' = placed \cup {<<t, c>>}
  /\ UNCHANGED <<pc, call, repl, log, cas, manifest, sent, bounds>>

\* Only a quorum lets the goroutine go.
MutSettled(c) ==
  LET needed == {t \in Target : send[c][t] # "none"} IN
  Cardinality({t \in needed : send[c][t] = "ok"}) >= WriteQuorum(Cardinality(needed))

\* A quorum has the chunk, or every result is in.
Settled(c) ==
  LET needed == {t \in Target : send[c][t] # "none"} IN
  \/ Cardinality({t \in needed : send[c][t] = "ok"}) >= WriteQuorum(Cardinality(needed))
  \/ \A t \in needed : send[c][t] # "sending"

\* The goroutine ends and frees its slot; nobody reads later results.
Replicated(c) ==
  /\ repl[c] = "sending" /\ Settled(c)
  /\ repl' = [repl EXCEPT ![c] = "returned"]
  /\ send' = [send EXCEPT ![c] = [t \in Target |-> IF @[t] = "sending" THEN "sending" ELSE "none"]]
  /\ UNCHANGED <<pc, call, placed, log, cas, manifest, sent, bounds>>

-----------------------------------------------------------------------------
(* The environment.                                                        *)

\* A pause or cancel, at any time: only Receive looks at the context.
Cancel ==
  /\ pc = "recv" /\ ~ctxDone
  /\ ctxDone' = TRUE
  /\ UNCHANGED <<pc, reader, stage1, procCh, cur, infos, resumed, net, log, cas, manifest, sent, bounds>>

\* The daemon dies.  Files, hints and what peers hold stay; a record of the log
\* that was being written is cut off, and Load skips it.
Crash ==
  /\ pc # "idle" /\ crashes < MaxCrashes
  /\ crashes' = crashes + 1
  /\ pc' = IF pc = "ok" THEN "ok" ELSE "dead"
  /\ repl' = [c \in Chunk |-> "none"] /\ send' = NoSends
  /\ ctxDone' = FALSE /\ reader' = 0 /\ stage1' = "end" /\ procCh' = <<>> /\ cur' = NoChunk
  /\ infos' = <<>> /\ resumed' = <<>>
  /\ UNCHANGED <<placed, log, cas, manifest, sent, calls, stopped>>

-----------------------------------------------------------------------------

Main ==
  \/ Load \/ CreateLog \/ WriteHeader \/ Rerecord \/ Receive \/ StoreLocally \/ StoreFails
  \/ Spawn \/ RecordChunk \/ Join \/ ReplicateManifest \/ StoreManifest \/ Finalize

Stage1 == ReadChunk \/ ReadEnd \/ SourceStops

Replicate(c) ==
  \/ StartSends(c) \/ Replicated(c)
  \/ \E t \in Target : SendEnds(c, t)

Next == Start \/ Main \/ Stage1 \/ (\E c \in Chunk : Replicate(c)) \/ Cancel \/ Crash

\* Some goroutine that can go on does: the source delivers, and a send that
\* neither ends nor fails runs into its timeout.
Fairness == WF_vars(Main \/ Stage1 \/ \E c \in Chunk : Replicate(c))

Spec == Init /\ [][Next]_vars

FairSpec == Spec /\ Fairness

-----------------------------------------------------------------------------
(* Properties.                                                             *)

\* BuildManifest does not sort: resumed and new chunks are in index order
\* nevertheless, none twice and, if the source did not break off, none missing.
ManifestInOrder ==
  \A m \in {manifest, sent} :
    /\ \A k \in 1 .. Len(m) : m[k].index = k - 1
    /\ m = <<>> \/ stopped \/ Len(m) = N

\* Node t has chunk c or will be hinted it, unless the daemon dies first.
Provided(c, t) == <<t, c>> \in placed \/ repl[c] = "spawned" \/ send[c][t] = "sending"

\* Once its replication has begun no responsible node is forgotten, also after
\* replicateChunk has returned on a quorum and the call on its success.
ReplicatedOrHinted == \A c \in Chunk, t \in Target : repl[c] # "none" => Provided(c, t)

\* A call returns or dies with the daemon, also when every send fails and when
\* it is cancelled.
CallsEnd == pc = "load" ~> pc \in Ended

=============================================================================
