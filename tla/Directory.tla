----------------------------- MODULE Directory -----------------------------
(***************************************************************************)
(* Directories: StoreDirectory on the uploader, and GetDirectory with the  *)
(* downloader's global pool of chunk workers on another node.              *)
(*                                                                         *)
(* The uploader stores one version of the directory after the other; all   *)
(* files change from version to version.  Chunks that arrive are right     *)
(* (see ChunkFetch), so that a file's content is the version of each of    *)
(* its chunks.  Both daemons may die at any step; what was written stays.  *)
(* The worker pool takes tasks from a channel; no property depends on the  *)
(* order, and the queue is a set here.                                     *)
(***************************************************************************)
EXTENDS Integers, FiniteSets, TLC

CONSTANTS
  File,       \* 1 .. n, in the order of the directory manifest
  Chunks,     \* the chunk indexes of each file; none for an empty file
  Resized,    \* files whose size changes from version to version
  Worker,
  Absent,
  MaxVersion, \* bound on versions of the directory
  MaxRetries,
  MaxCalls    \* bound on calls of GetDirectory

ASSUME DirectoryAssumption ==
  /\ MaxVersion \in Nat /\ MaxRetries \in Nat /\ MaxCalls \in Nat
  /\ IsFiniteSet(File) /\ File = 1 .. Cardinality(File) /\ Resized \subseteq File
  /\ DOMAIN Chunks = File /\ \A f \in File : IsFiniteSet(Chunks[f])

VARIABLES
  up,        \* the uploader: version under way, files stored, their collected manifests
  manifest,  \* on the uploader: version of each file's manifest, 0 if none
  dir,       \* on the uploader: version of the directory manifest
  ring,      \* version of each file's manifest at its ring nodes
  cached,    \* on the downloader: version of each manifest, 0 for the directory's
  part, side, final,   \* files on the downloader's disk
  call,      \* the call of GetDirectory
  ctx,       \* its file contexts
  queue, failed, worker,
  ncalls

uploader == <<up, manifest, dir, ring>>
disk == <<part, side, final>>
pool == <<queue, failed, worker>>
vars == <<uploader, cached, disk, call, ctx, pool, ncalls>>

Version == 0 .. MaxVersion
Task == UNION {{f} \X Chunks[f] : f \in File}
Content(f) == [Chunks[f] -> Version]
Sidecar(f) == [version : Version, log : SUBSET Chunks[f]]

ASSUME AbsentAssumption == \A f \in File : Absent \notin Content(f) \cup Sidecar(f)

NoUpload == [version |-> 0, stored |-> {}]
NoCall == [pc |-> "idle", next |-> 1, done |-> {}, round |-> 0, cancelled |-> FALSE,
           failed |-> {}]
\* Out of the worker pool.
Out == [pc |-> "out", task |-> Absent]
Ready == [pc |-> "ready", task |-> Absent]
NoContext == [version |-> 0, remaining |-> 0, error |-> FALSE]

TypeOK ==
  /\ up \in [version : Version, stored : SUBSET File]
  /\ manifest \in [File -> Version] /\ dir \in Version /\ ring \in [File -> Version]
  /\ cached \in [File \cup {0} -> Version]
  /\ \A f \in File : /\ part[f] \in {Absent} \cup Content(f)
                     /\ final[f] \in {Absent} \cup Content(f)
                     /\ side[f] \in {Absent} \cup Sidecar(f)
                     /\ ctx[f].remaining \in Int
  /\ queue \subseteq Task /\ failed \subseteq Task
  /\ ncalls \in 0 .. MaxCalls

Init ==
  /\ up = NoUpload /\ manifest = [f \in File |-> 0] /\ dir = 0 /\ ring = manifest
  /\ cached = [f \in File \cup {0} |-> 0]
  /\ part = [f \in File |-> Absent] /\ side = part /\ final = part
  /\ call = NoCall /\ ctx = [f \in File |-> NoContext]
  /\ queue = {} /\ failed = {} /\ worker = [w \in Worker |-> Out]
  /\ ncalls = 0

-----------------------------------------------------------------------------
(* StoreDirectory.                                                         *)

StoreDirectory ==
  /\ up.version = 0 /\ dir < MaxVersion
  /\ up' = [version |-> dir + 1, stored |-> {}]
  /\ UNCHANGED <<manifest, dir, ring, cached, disk, call, ctx, pool, ncalls>>

\* The file's manifest is written at once.
MutStoreDataCollectMeta(f) ==
  /\ up.version # 0 /\ f \notin up.stored /\ 1 .. f - 1 \subseteq up.stored
  /\ up' = [up EXCEPT !.stored = @ \cup {f}]
  /\ ring' = [ring EXCEPT ![f] = up.version]
  /\ manifest' = [manifest EXCEPT ![f] = up.version]
  /\ UNCHANGED <<dir, cached, disk, call, ctx, pool, ncalls>>

\* A file is uploaded; its manifest is replicated but not yet written here.
StoreDataCollectMeta(f) ==
  /\ up.version # 0 /\ f \notin up.stored /\ 1 .. f - 1 \subseteq up.stored
  /\ up' = [up EXCEPT !.stored = @ \cup {f}]
  /\ ring' = [ring EXCEPT ![f] = up.version]
  /\ UNCHANGED <<manifest, dir, cached, disk, call, ctx, pool, ncalls>>

\* A file fails, the upload is cancelled, or the daemon dies.
StoreFails ==
  /\ up.version # 0
  /\ up' = NoUpload
  /\ UNCHANGED <<manifest, dir, ring, cached, disk, call, ctx, pool, ncalls>>

\* All metadata in one transaction.
WithBatch ==
  /\ up.version # 0 /\ up.stored = File
  /\ manifest' = [f \in File |-> up.version]
  /\ dir' = up.version
  /\ up' = NoUpload
  /\ UNCHANGED <<ring, cached, disk, call, ctx, pool, ncalls>>

-----------------------------------------------------------------------------
(* prepareDirectoryDownload.                                               *)

\* GetDirectoryManifest: a manifest that was fetched once is never fetched again.
GetDirectory ==
  /\ call.pc \in {"idle", "report"} /\ ncalls < MaxCalls
  /\ cached[0] # 0 \/ dir # 0
  /\ cached' = [cached EXCEPT ![0] = IF @ # 0 THEN @ ELSE dir]
  /\ call' = [NoCall EXCEPT !.pc = "prepare"]
  /\ ctx' = [f \in File |-> NoContext]
  /\ ncalls' = ncalls + 1
  /\ UNCHANGED <<uploader, disk, pool>>

\* The versions of the manifest that EnsureManifest may get.
EnsureManifest(f) ==
  IF cached[f] # 0 THEN {cached[f]} ELSE {manifest[f], ring[f]} \ {0}

\* The size of the file at path f is that of version v.
SizeMatches(f, v) ==
  final[f] # Absent /\ (f \in Resized => \A i \in Chunks[f] : final[f][i] = v)

At(f) == call.pc = "prepare" /\ call.next = f

Prepared(f, done) ==
  call' = [call EXCEPT !.next = f + 1, !.done = IF done THEN @ \cup {f} ELSE @]

\* A file of the right size counts as complete.
FileOnDisk(f) ==
  /\ At(f) /\ ~call.cancelled /\ SizeMatches(f, cached[0])
  /\ Prepared(f, TRUE)
  /\ IF part[f] # Absent
       THEN part' = [part EXCEPT ![f] = Absent] /\ side' = [side EXCEPT ![f] = Absent]
       ELSE UNCHANGED <<part, side>>
  /\ UNCHANGED <<uploader, cached, final, ctx, pool, ncalls>>

\* No manifest, or no sidecar or .part file could be made: the file is left out, and
\* counts neither as done nor as failed.
SkipFile(f) ==
  /\ At(f) /\ ~call.cancelled /\ ~SizeMatches(f, cached[0])
  /\ Prepared(f, FALSE)
  /\ UNCHANGED <<uploader, cached, disk, ctx, pool, ncalls>>

\* fastVerifyChunks: claimed chunks whose bytes are right; none unless Matches.
SkipSet(f, v) ==
  IF side[f] # Absent /\ side[f].version = v /\ part[f] # Absent
    THEN {i \in side[f].log : part[f][i] = v} ELSE {}

\* Without chunks to fetch, the .part is renamed; the error when there is none, as for
\* an empty file, is ignored.
FinalizeAtOnce(f, v) ==
  /\ At(f) /\ ~call.cancelled /\ ~SizeMatches(f, cached[0])
  /\ v \in EnsureManifest(f) /\ SkipSet(f, v) = Chunks[f]
  /\ cached' = [cached EXCEPT ![f] = v]
  /\ side' = [side EXCEPT ![f] = Absent]
  /\ final' = [final EXCEPT ![f] = part[f]]
  /\ part' = [part EXCEPT ![f] = Absent]
  /\ Prepared(f, TRUE)
  /\ UNCHANGED <<uploader, ctx, pool, ncalls>>

\* A sidecar of another version goes, with its .part; what is in a .part without a
\* sidecar stays.
OpenContext(f, v) ==
  LET stale == side[f] # Absent /\ side[f].version # v IN
  /\ At(f) /\ ~call.cancelled /\ ~SizeMatches(f, cached[0])
  /\ v \in EnsureManifest(f) /\ SkipSet(f, v) # Chunks[f]
  /\ cached' = [cached EXCEPT ![f] = v]
  /\ side' = [side EXCEPT ![f] =
       IF @ = Absent \/ stale THEN [version |-> v, log |-> {}] ELSE @]
  /\ part' = [part EXCEPT ![f] =
       IF @ = Absent \/ stale THEN [i \in Chunks[f] |-> 0] ELSE @]
  /\ ctx' = [ctx EXCEPT ![f] = [version |-> v, error |-> FALSE,
                                remaining |-> Cardinality(Chunks[f] \ SkipSet(f, v))]]
  /\ queue' = queue \cup ({f} \X (Chunks[f] \ SkipSet(f, v)))
  /\ Prepared(f, FALSE)
  /\ UNCHANGED <<uploader, final, failed, worker, ncalls>>

\* A cancelled call returns with an error.
PrepareCancelled ==
  /\ call.pc = "prepare" /\ call.cancelled /\ call.next \in File
  /\ call' = NoCall /\ queue' = {}
  /\ UNCHANGED <<uploader, cached, disk, ctx, failed, worker, ncalls>>

-----------------------------------------------------------------------------
(* DownloadDirectory.                                                      *)

MoreRounds(tasks, round) == tasks # {} /\ ~call.cancelled /\ round <= MaxRetries

Contexts == {f \in File : ctx[f].version # 0}

\* Files none of whose tasks is left over have succeeded.
MutUnfinished(tasks) == {t[1] : t \in tasks}

\* Files that are reported as failed.
Unfinished(tasks) == {f \in Contexts : ctx[f].remaining > 0 \/ ctx[f].error}

\* A round begins, or the result is collected.
BeginRound(tasks, round) ==
  IF MoreRounds(tasks, round)
    THEN /\ call' = [call EXCEPT !.pc = "pool", !.round = round]
         /\ queue' = tasks /\ failed' = {}
         /\ worker' = [w \in Worker |-> Ready]
    ELSE /\ call' = [call EXCEPT !.pc = "report", !.failed = Unfinished(tasks),
                                 !.done = @ \cup (Contexts \ Unfinished(tasks))]
         /\ queue' = {} /\ failed' = {}
         /\ UNCHANGED worker

DownloadDirectory ==
  /\ call.pc = "prepare" /\ call.next \notin File
  /\ BeginRound(queue, 0)
  /\ UNCHANGED <<uploader, cached, disk, ctx, ncalls>>

Step(w, pc) == worker' = [worker EXCEPT ![w].pc = pc]
Works(w, pc) == worker[w].pc = pc
F(w) == worker[w].task[1]
I(w) == worker[w].task[2]

\* A worker that returns early is not counted as done.
MutTakeTask(w, t) ==
  /\ Works(w, "ready") /\ t \in queue
  /\ queue' = queue \ {t}
  /\ worker' = [worker EXCEPT ![w] =
       IF call.cancelled THEN [Out EXCEPT !.pc = "returned"] ELSE [pc |-> "fetch", task |-> t]]
  /\ UNCHANGED <<uploader, cached, disk, call, ctx, failed, ncalls>>

\* A cancelled worker drops the task that it took.
TakeTask(w, t) ==
  /\ Works(w, "ready") /\ t \in queue
  /\ queue' = queue \ {t}
  /\ worker' = [worker EXCEPT ![w] = IF call.cancelled THEN Out ELSE [pc |-> "fetch", task |-> t]]
  /\ UNCHANGED <<uploader, cached, disk, call, ctx, failed, ncalls>>

NoTask(w) ==
  /\ Works(w, "ready") /\ queue = {}
  /\ worker' = [worker EXCEPT ![w] = Out]
  /\ UNCHANGED <<uploader, cached, disk, call, ctx, queue, failed, ncalls>>

FetchOk(w) ==
  /\ Works(w, "fetch") /\ Step(w, "write")
  /\ UNCHANGED <<uploader, cached, disk, call, ctx, queue, failed, ncalls>>

\* Every attempt is counted.
MutTaskFails(w) ==
  /\ Works(w, "fetch") \/ Works(w, "write")
  /\ failed' = failed \cup {worker[w].task}
  /\ ctx' = [ctx EXCEPT ![F(w)].remaining = @ - 1]
  /\ Step(w, IF ctx[F(w)].remaining = 1 THEN "cleanup" ELSE "ready")
  /\ UNCHANGED <<uploader, cached, disk, call, queue, ncalls>>

\* The fetch or the write fails.
TaskFails(w) ==
  /\ Works(w, "fetch") \/ Works(w, "write")
  /\ failed' = failed \cup {worker[w].task}
  /\ worker' = [worker EXCEPT ![w] = Ready]
  /\ UNCHANGED <<uploader, cached, disk, call, ctx, queue, ncalls>>

WriteAt(w) ==
  /\ Works(w, "write") /\ Step(w, "record")
  /\ part' = [part EXCEPT ![F(w)][I(w)] = ctx[F(w)].version]
  /\ UNCHANGED <<uploader, cached, side, final, call, ctx, queue, failed, ncalls>>

RecordChunk(w) ==
  /\ Works(w, "record") /\ Step(w, "count")
  /\ side' = [side EXCEPT ![F(w)].log = @ \cup {I(w)}]
  /\ UNCHANGED <<uploader, cached, part, final, call, ctx, queue, failed, ncalls>>

\* The worker that brings the counter to zero finalizes the file.
CountDown(w) ==
  /\ Works(w, "count")
  /\ ctx' = [ctx EXCEPT ![F(w)].remaining = @ - 1]
  /\ worker' = [worker EXCEPT ![w] =
                  IF ctx'[F(w)].remaining = 0 THEN [@ EXCEPT !.pc = "cleanup"] ELSE Ready]
  /\ UNCHANGED <<uploader, cached, disk, call, queue, failed, ncalls>>

CleanupSidecar(w) ==
  /\ Works(w, "cleanup") /\ Step(w, "remove")
  /\ side' = [side EXCEPT ![F(w)] = Absent]
  /\ UNCHANGED <<uploader, cached, part, final, call, ctx, queue, failed, ncalls>>

RemoveOld(w) ==
  /\ Works(w, "remove") /\ Step(w, "rename")
  /\ final' = [final EXCEPT ![F(w)] = Absent]
  /\ UNCHANGED <<uploader, cached, part, side, call, ctx, queue, failed, ncalls>>

Rename(w) ==
  /\ Works(w, "rename")
  /\ final' = [final EXCEPT ![F(w)] = part[F(w)]]
  /\ part' = [part EXCEPT ![F(w)] = Absent]
  /\ worker' = [worker EXCEPT ![w] = Ready]
  /\ UNCHANGED <<uploader, cached, side, call, ctx, queue, failed, ncalls>>

FinalizeFails(w) ==
  /\ Works(w, "remove") \/ Works(w, "rename")
  /\ ctx' = [ctx EXCEPT ![F(w)].error = TRUE]
  /\ worker' = [worker EXCEPT ![w] = Ready]
  /\ UNCHANGED <<uploader, cached, disk, call, queue, failed, ncalls>>

EndRound ==
  /\ call.pc = "pool" /\ \A w \in Worker : Works(w, "out")
  /\ BeginRound(failed, call.round + 1)
  /\ UNCHANGED <<uploader, cached, disk, ctx, ncalls>>

-----------------------------------------------------------------------------
Cancel ==
  /\ call.pc \in {"prepare", "pool"} /\ ~call.cancelled
  /\ call' = [call EXCEPT !.cancelled = TRUE]
  /\ UNCHANGED <<uploader, cached, disk, ctx, pool, ncalls>>

Crash ==
  /\ call.pc \in {"prepare", "pool"}
  /\ call' = NoCall /\ ctx' = [f \in File |-> NoContext]
  /\ queue' = {} /\ failed' = {} /\ worker' = [w \in Worker |-> Out]
  /\ UNCHANGED <<uploader, cached, disk, ncalls>>

Upload ==
  \/ StoreDirectory \/ StoreFails \/ WithBatch
  \/ \E f \in File : StoreDataCollectMeta(f)

Prepare ==
  \/ \E f \in File : \/ FileOnDisk(f) \/ SkipFile(f)
                     \/ \E v \in 1 .. MaxVersion : FinalizeAtOnce(f, v) \/ OpenContext(f, v)
  \/ PrepareCancelled \/ DownloadDirectory

WorkerStep(w) ==
  \/ NoTask(w) \/ FetchOk(w) \/ TaskFails(w) \/ WriteAt(w) \/ RecordChunk(w) \/ CountDown(w)
  \/ CleanupSidecar(w) \/ RemoveOld(w) \/ Rename(w) \/ FinalizeFails(w)
  \/ \E t \in queue : TakeTask(w, t)

Next ==
  \/ Upload \/ GetDirectory \/ Prepare \/ EndRound \/ Cancel \/ Crash
  \/ \E w \in Worker : WorkerStep(w)

\* Goroutines run, and every fetch ends.
Fairness ==
  /\ WF_vars(Prepare) /\ WF_vars(EndRound)
  /\ \A w \in Worker : WF_vars(WorkerStep(w))

Spec == Init /\ [][Next]_vars /\ Fairness

-----------------------------------------------------------------------------
(* Properties.                                                             *)

\* "Single WithBatch call writes all metadata atomically": on the uploader the
\* directory manifest and the manifests of its files are of one version, whichever
\* later upload of the directory failed, was cancelled or died half-way.
ManifestsTogether == \A f \in File : manifest[f] = dir

\* What is at the final path of a file is a whole file of one version: the worker that
\* renames a .part does so when no chunk of the file is missing or still to be written,
\* over retries, cancels, crashes and resumptions with another version.
FinalWhole ==
  \A f \in File :
    final[f] # Absent => \E v \in 1 .. MaxVersion : \A i \in Chunks[f] : final[f][i] = v

\* Every file that a call reports as succeeded is at its final path, also after a
\* cancel dropped tasks.  (Not so for an empty file, which is never created, see
\* FinalizeAtOnce; and files that were left out are in no report.)
SucceededOnDisk ==
  call.pc = "report" =>
    \A f \in call.done : Chunks[f] # {} => final[f] # Absent

\* Every call returns, whatever fails.
CallsEnd == call.pc \in {"prepare", "pool"} ~> call.pc \in {"idle", "report"}
=============================================================================
