-------------------------- MODULE ResumableDownload --------------------------
(***************************************************************************)
(* Server.GetDataToFile with Manager.DownloadToFileResumable and the       *)
(* resume sidecar: one output path, downloaded by a succession of calls    *)
(* that may crash or be cancelled (paused), one at a time.                 *)
(*                                                                         *)
(* The file system is three directory entries, <path>, <path>.part and     *)
(* <path>.part.resume, each naming an inode or nothing.  A call creates at *)
(* most one .part and one sidecar inode, so inodes carry the number of the *)
(* call that created them.  A chunk of a .part inode holds a hole or the   *)
(* chunk of some version of the manifest (the file stored under a key can  *)
(* be replaced between two calls).                                         *)
(*                                                                         *)
(* fetchAndVerifyChunk is one step: verified plaintext or an error.        *)
(***************************************************************************)
EXTENDS Naturals, FiniteSets

CONSTANTS N,            \* chunks in the manifest (at least one)
          Versions,     \* manifests the key has over time
          MaxParallel,  \* m.cfg.MaxParallel
          MaxCalls,     \* bound on calls of GetDataToFile
          MaxCrashes    \* bound on daemon crashes

None == 0               \* no inode, no version, a hole

ASSUME NAssumption == N \in Nat \ {0}
ASSUME VersionsAssumption == Versions \subseteq Nat \ {0}
ASSUME BoundsAssumption == MaxParallel \in Nat \ {0} /\ MaxCalls \in Nat /\ MaxCrashes \in Nat

VARIABLES
  pc,         \* where each call is
  frame,      \* each call's local variables, gone when it ends
  finalAt, partAt, sideAt, \* the three directory entries
  blocks,     \* .part inode -> chunk -> content
  log,        \* sidecar inode -> header version, claimed chunks
  crashes,
  cutShort    \* history: a cancelled call has put the file at the final path there

disk == <<finalAt, partAt, sideAt, blocks, log>>
vars == <<pc, frame, disk, crashes, cutShort>>

Call  == 1 .. MaxCalls
Chunk == 0 .. N - 1
Inode == Call
Ended == {"ok", "err", "dead"}

Running == {c \in Call : pc[c] \notin Ended \cup {"idle"}}

WorkerState == {"none", "fetching", "fetched", "written", "exited"}

\* sideFd and partFd are the inodes of the call's open files.
Frame == [ver : Versions \cup {None}, ctxDone : BOOLEAN, claimed : SUBSET Chunk,
          skip : SUBSET Chunk, next : 0 .. N, worker : [Chunk -> WorkerState],
          errs : SUBSET Chunk, sideFd : Inode \cup {None}, partFd : Inode \cup {None}]

NoFrame == [ver |-> None, ctxDone |-> FALSE, claimed |-> {}, skip |-> {}, next |-> 0,
            worker |-> [i \in Chunk |-> "none"], errs |-> {}, sideFd |-> None, partFd |-> None]

TypeOK ==
  /\ pc \in [Call -> {"idle", "open", "verify", "stale", "create", "header", "part", "loop",
                      "acquire", "wait", "cleanup", "remove", "rename"} \cup Ended]
  /\ frame \in [Call -> Frame]
  /\ {finalAt, partAt, sideAt} \subseteq Inode \cup {None}
  /\ blocks \in [Inode -> [Chunk -> Versions \cup {None}]]
  /\ log \in [Inode -> [hdr : Versions \cup {None}, claims : SUBSET Chunk]]
  /\ crashes \in 0 .. MaxCrashes /\ cutShort \in BOOLEAN

Init ==
  /\ pc = [c \in Call |-> "idle"]
  /\ frame = [c \in Call |-> NoFrame]
  /\ finalAt = None /\ partAt = None /\ sideAt = None
  /\ blocks = [n \in Inode |-> [i \in Chunk |-> None]]
  /\ log = [n \in Inode |-> [hdr |-> None, claims |-> {}]]
  /\ crashes = 0 /\ cutShort = FALSE

\* Call c goes on to l, or ends there: the frame of a call that returned is gone.
Goto(c, l) == pc' = [pc EXCEPT ![c] = l]

Return(c, l) == Goto(c, l) /\ frame' = [frame EXCEPT ![c] = NoFrame]

\* Unlinking the last name of an inode that no call has open frees it.
FreePart(n) == blocks' = IF n = None THEN blocks ELSE [blocks EXCEPT ![n] = [i \in Chunk |-> None]]

FreeSidecar ==
  /\ sideAt' = None
  /\ log' = IF sideAt = None THEN log ELSE [log EXCEPT ![sideAt] = [hdr |-> None, claims |-> {}]]

-----------------------------------------------------------------------------
(* Resume boot.                                                            *)

\* EnsureManifest returns the manifest the key has now.
Start(c) ==
  /\ pc[c] = "idle"
  /\ \A d \in Call : d < c => pc[d] # "idle"
  /\ Running = {}
  /\ \E v \in Versions : frame' = [frame EXCEPT ![c].ver = v]
  /\ Goto(c, "open")
  /\ UNCHANGED <<disk, crashes, cutShort>>

\* resume.Open and the decision taken on its result: no sidecar; a corrupt one
\* (no header) is removed; a matching one is kept, open for appending; one for
\* another manifest is removed.
OpenSidecar(c) ==
  /\ pc[c] = "open"
  /\ \/ /\ sideAt = None
        /\ Goto(c, "create")
        /\ UNCHANGED <<frame, sideAt, log>>
     \/ /\ sideAt # None /\ log[sideAt].hdr = None
        /\ FreeSidecar
        /\ Goto(c, "create")
        /\ UNCHANGED frame
     \/ /\ sideAt # None /\ log[sideAt].hdr = frame[c].ver
        /\ frame' = [frame EXCEPT ![c].claimed = log[sideAt].claims, ![c].sideFd = sideAt]
        /\ Goto(c, "verify")
        /\ UNCHANGED <<sideAt, log>>
     \/ /\ sideAt # None /\ log[sideAt].hdr \notin {None, frame[c].ver}
        /\ FreeSidecar
        /\ Goto(c, "stale")
        /\ UNCHANGED frame
  /\ UNCHANGED <<finalAt, partAt, blocks, crashes, cutShort>>

\* The .part file of the other manifest is removed after its sidecar.
RemoveStalePart(c) ==
  /\ pc[c] = "stale"
  /\ partAt' = None /\ FreePart(partAt)
  /\ Goto(c, "create")
  /\ UNCHANGED <<frame, finalAt, sideAt, log, crashes, cutShort>>

\* The sidecar is believed without looking at the .part file.
MutVerified(c) == frame[c].claimed

\* fastVerifyChunks: claimed chunks whose bytes in the .part file hash right.
Verified(c) == {i \in frame[c].claimed : partAt # None /\ blocks[partAt][i] = frame[c].ver}

FastVerify(c) ==
  /\ pc[c] = "verify"
  /\ frame' = [frame EXCEPT ![c].skip = Verified(c)]
  /\ Goto(c, "part")
  /\ UNCHANGED <<disk, crashes, cutShort>>

\* resume.Create opens with O_CREATE|O_TRUNC ...
CreateSidecar(c) ==
  LET n == IF sideAt = None THEN c ELSE sideAt IN
  /\ pc[c] = "create"
  /\ sideAt' = n
  /\ log' = [log EXCEPT ![n] = [hdr |-> None, claims |-> {}]]
  /\ frame' = [frame EXCEPT ![c].sideFd = n]
  /\ Goto(c, "header")
  /\ UNCHANGED <<finalAt, partAt, blocks, crashes, cutShort>>

\* ... and then writes the header line.
WriteHeader(c) ==
  /\ pc[c] = "header"
  /\ log' = [log EXCEPT ![frame[c].sideFd].hdr = frame[c].ver]
  /\ Goto(c, "part")
  /\ UNCHANGED <<frame, finalAt, partAt, sideAt, blocks, crashes, cutShort>>

\* os.OpenFile(partPath, O_CREATE|O_RDWR) and Truncate.  With nothing left to
\* fetch, only the manifest is checked.
OpenPart(c) ==
  LET n == IF partAt = None THEN c ELSE partAt IN
  /\ pc[c] = "part"
  /\ partAt' = n
  /\ frame' = [frame EXCEPT ![c].partFd = n]
  /\ Goto(c, IF frame[c].skip = Chunk THEN "cleanup" ELSE "loop")
  /\ UNCHANGED <<finalAt, sideAt, blocks, log, crashes, cutShort>>

-----------------------------------------------------------------------------
(* DownloadToFileResumable.                                                *)

\* Goroutines of call c that hold a semaphore slot.
Active(c) == {i \in Chunk : frame[c].worker[i] \in {"fetching", "fetched", "written"}}

\* One iteration of the dispatch loop: the range ends or the context is done,
\* the chunk is skipped, or the caller goes on to take a slot.
LoopTest(c) ==
  LET i == frame[c].next IN
  /\ pc[c] = "loop"
  /\ \/ /\ i = N \/ frame[c].ctxDone
        /\ Goto(c, "wait")
        /\ UNCHANGED frame
     \/ /\ i < N /\ ~frame[c].ctxDone /\ i \in frame[c].skip
        /\ frame' = [frame EXCEPT ![c].next = i + 1]
        /\ UNCHANGED pc
     \/ /\ i < N /\ ~frame[c].ctxDone /\ i \notin frame[c].skip
        /\ Goto(c, "acquire")
        /\ UNCHANGED frame
  /\ UNCHANGED <<disk, crashes, cutShort>>

\* sem <- struct{}{} (without looking at the context), then go func.
Spawn(c) ==
  LET i == frame[c].next IN
  /\ pc[c] = "acquire"
  /\ Cardinality(Active(c)) < MaxParallel
  /\ frame' = [frame EXCEPT ![c].worker[i] = "fetching", ![c].next = i + 1]
  /\ Goto(c, "loop")
  /\ UNCHANGED <<disk, crashes, cutShort>>

FetchOk(c, i) ==
  /\ frame[c].worker[i] = "fetching"
  /\ frame' = [frame EXCEPT ![c].worker[i] = "fetched"]
  /\ UNCHANGED <<pc, disk, crashes, cutShort>>

\* The fetch (all candidates failed, or the context is done) or the WriteAt
\* fails: errs[idx] is set and the slot released.
ChunkFails(c, i) ==
  /\ frame[c].worker[i] \in {"fetching", "fetched"}
  /\ frame' = [frame EXCEPT ![c].worker[i] = "exited", ![c].errs = @ \cup {i}]
  /\ UNCHANGED <<pc, disk, crashes, cutShort>>

\* dst.WriteAt at the chunk's own offset.
WriteAt(c, i) ==
  /\ frame[c].worker[i] = "fetched"
  /\ blocks' = [blocks EXCEPT ![frame[c].partFd][i] = frame[c].ver]
  /\ frame' = [frame EXCEPT ![c].worker[i] = "written"]
  /\ UNCHANGED <<pc, finalAt, partAt, sideAt, log, crashes, cutShort>>

\* A goroutine that never signals its end.
MutRecordChunk(c, i) ==
  /\ frame[c].worker[i] = "written"
  /\ log' = [log EXCEPT ![frame[c].sideFd].claims = @ \cup {i}]
  /\ UNCHANGED <<pc, frame, finalAt, partAt, sideAt, blocks, crashes, cutShort>>

\* onChunkDone appends the index to the sidecar; a failed append is only logged.
RecordChunk(c, i) ==
  /\ frame[c].worker[i] = "written"
  /\ \/ log' = [log EXCEPT ![frame[c].sideFd].claims = @ \cup {i}]
     \/ UNCHANGED log
  /\ frame' = [frame EXCEPT ![c].worker[i] = "exited"]
  /\ UNCHANGED <<pc, finalAt, partAt, sideAt, blocks, crashes, cutShort>>

\* The sidecar is cleaned up on the error path too.
MutJoinCleansUp(c) ==
  /\ pc[c] = "wait"
  /\ Active(c) = {}
  /\ \/ frame[c].errs # {} /\ Return(c, "err") /\ sideAt' = None
     \/ frame[c].errs = {} /\ Goto(c, "cleanup") /\ UNCHANGED <<frame, sideAt>>
  /\ UNCHANGED <<finalAt, partAt, blocks, log, crashes, cutShort>>

\* wg.Wait; any error fails the call.  Otherwise the manifest's own root is
\* recomputed, which says nothing about the file.
Join(c) ==
  /\ pc[c] = "wait"
  /\ Active(c) = {}
  /\ \/ frame[c].errs # {} /\ Return(c, "err")
     \/ frame[c].errs = {} /\ Goto(c, "cleanup") /\ UNCHANGED frame
  /\ UNCHANGED <<disk, crashes, cutShort>>

-----------------------------------------------------------------------------
(* Success: remove the sidecar, then SafeRename .part to the final path.   *)

Cleanup(c) ==
  /\ pc[c] = "cleanup"
  /\ FreeSidecar
  /\ Goto(c, "remove")
  /\ UNCHANGED <<frame, finalAt, partAt, blocks, crashes, cutShort>>

\* SafeRename removes an existing destination first ...
RemoveOld(c) ==
  /\ pc[c] = "remove"
  /\ finalAt' = None /\ FreePart(finalAt) /\ cutShort' = FALSE
  /\ Goto(c, "rename")
  /\ UNCHANGED <<frame, partAt, sideAt, log, crashes>>

\* ... and then renames.  When that fails the old file and the sidecar are gone
\* and .part is left alone.
Rename(c) ==
  /\ pc[c] = "rename"
  /\ \/ /\ finalAt' = partAt /\ cutShort' = frame[c].ctxDone
        /\ partAt' = None
        /\ Return(c, "ok")
     \/ /\ Return(c, "err")
        /\ UNCHANGED <<finalAt, partAt, cutShort>>
  /\ UNCHANGED <<sideAt, blocks, log, crashes>>

-----------------------------------------------------------------------------
(* The environment.                                                        *)

\* transfer.Manager Pause and Cancel cancel the call's context.
Cancel(c) ==
  /\ c \in Running /\ ~frame[c].ctxDone
  /\ frame' = [frame EXCEPT ![c].ctxDone = TRUE]
  /\ UNCHANGED <<pc, disk, crashes, cutShort>>

\* The daemon or the machine stops anywhere: nothing syncs the .part file, so
\* chunks of it may be gone when it comes back.
Crash ==
  /\ crashes < MaxCrashes
  /\ Running # {}
  /\ crashes' = crashes + 1
  /\ pc' = [c \in Call |-> IF c \in Running THEN "dead" ELSE pc[c]]
  /\ frame' = [c \in Call |-> NoFrame]
  /\ \E lost \in SUBSET Chunk :
       /\ lost # {} => partAt # None
       /\ blocks' = [n \in Inode |-> [i \in Chunk |->
                       IF n = partAt /\ i \in lost THEN None ELSE blocks[n][i]]]
  /\ UNCHANGED <<finalAt, partAt, sideAt, log, cutShort>>

\* No call runs and the bound on calls is reached.
Exhausted == /\ \A c \in Call : pc[c] \in Ended
             /\ UNCHANGED vars

Step(c) ==
  \/ OpenSidecar(c) \/ RemoveStalePart(c) \/ FastVerify(c) \/ CreateSidecar(c)
  \/ WriteHeader(c) \/ OpenPart(c) \/ LoopTest(c) \/ Spawn(c) \/ Join(c)
  \/ Cleanup(c) \/ RemoveOld(c) \/ Rename(c)

Fetcher(c, i) == FetchOk(c, i) \/ ChunkFails(c, i) \/ WriteAt(c, i) \/ RecordChunk(c, i)

Next ==
  \/ \E c \in Call : Start(c) \/ Step(c) \/ Cancel(c)
  \/ \E c \in Call, i \in Chunk : Fetcher(c, i)
  \/ Crash
  \/ Exhausted

\* Some goroutine that can go on does, and a fetch ends (each attempt has
\* ChunkTimeout).
Fairness == WF_vars(\E c \in Call : Step(c) \/ \E i \in Chunk : Fetcher(c, i))

Spec == Init /\ [][Next]_vars

FairSpec == Spec /\ Fairness

-----------------------------------------------------------------------------
(* Properties.                                                             *)

\* The inode holds every chunk of version v.
Complete(n, v) == \A i \in Chunk : blocks[n][i] = v

\* The final path never shows a partial file, nor one mixed from two
\* manifests, whatever crashed, was paused and was resumed before.  (A call that
\* is cancelled between two turns of its dispatch loop takes what it has for
\* the whole: cutShort.)
FinalComplete ==
  ~cutShort /\ finalAt # None => \E v \in Versions : Complete(finalAt, v)

\* A call that fails or is paused leaves the sidecar behind with every chunk that
\* it found verified and every one it has logged since: they are not fetched again.
FailureKeepsProgress ==
  [][\A c \in Call :
       pc[c] = "wait" /\ pc'[c] = "err" =>
         /\ sideAt' = frame[c].sideFd
         /\ log'[sideAt'].hdr = frame[c].ver
         /\ log[frame[c].sideFd].claims \cup frame[c].skip \subseteq log'[sideAt'].claims]_vars

\* A started call returns or dies with the daemon.
CallsEnd == []<>(Running = {})
=============================================================================
