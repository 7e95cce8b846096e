-------------------------- MODULE Retrieval_proofs --------------------------
(***************************************************************************)
(* Proofs about how files are found and fetched: Directory, for any files, *)
(* chunks, workers, versions, retries and calls, and Lookup, for any       *)
(* network, calls and lost messages.                                       *)
(*                                                                         *)
(* Directory: the counter of a file context says when the .part is whole.  *)
(* It is not the number of tasks that are left, since a cancelled worker   *)
(* drops what it took: it is at least the number of chunks that are        *)
(* missing from the .part or that somebody still works on.  So at zero     *)
(* there are none.                                                         *)
(*                                                                         *)
(* Lookup: nobody answers a call twice, so a channel never holds more      *)
(* answers than there are nodes that were asked and have no message under  *)
(* way; and each peer of the searcher is still to get the request or has   *)
(* sent what it shares.                                                    *)
(***************************************************************************)
EXTENDS Directory, Lookup, FiniteSetTheorems, TLAPS

-----------------------------------------------------------------------------
(* Directory. *)

Busy == {"fetch", "write", "record", "count"}
Finishing == {"cleanup", "remove", "rename"}

CallType ==
  [pc : {"idle", "prepare", "pool", "report"}, next : Int, done : SUBSET File, round : Int,
   cancelled : BOOLEAN, failed : SUBSET File]
ContextType == [version : Version, remaining : Int, error : BOOLEAN]
WorkerType == [pc : {"out", "ready"} \cup Busy \cup Finishing, task : Task \cup {Absent}]

UploaderType ==
  /\ up \in [version : Version, stored : SUBSET File]
  /\ manifest \in [File -> Version] /\ dir \in Version /\ ring \in [File -> Version]
CachedType == cached \in [File \cup {0} -> Version]
DiskType ==
  /\ part = [f \in File |-> part[f]] /\ side = [f \in File |-> side[f]] /\ final = [f \in File |-> final[f]]
  /\ \A f \in File : /\ part[f] \in {Absent} \cup Content(f)
                     /\ final[f] \in {Absent} \cup Content(f)
                     /\ side[f] \in {Absent} \cup Sidecar(f)
PoolType == queue \subseteq Task /\ failed \subseteq Task /\ worker \in [Worker -> WorkerType]

\* TypeOK, and the types of the call, its contexts and its workers.
TypeInv ==
  /\ UploaderType /\ CachedType /\ DiskType /\ PoolType
  /\ call \in CallType /\ ctx \in [File -> ContextType] /\ ncalls \in 0 .. MaxCalls

\* Who can have tasks.
PhaseInv ==
  /\ call.pc # "pool" => failed = {} /\ \A w \in Worker : Works(w, "out")
  /\ call.pc \in {"idle", "report"} => queue = {}
  /\ call.pc = "prepare" => \A f \in File : f >= call.next => ctx[f].version = 0 /\ f \notin call.done

\* Every task is in one place, and belongs to a file that is being fetched.
TaskInv ==
  /\ queue \cap failed = {}
  /\ \A t \in queue \cup failed : ctx[t[1]].version # 0
  /\ \A w \in Worker : worker[w].pc \in Busy =>
       /\ worker[w].task \in Task /\ worker[w].task \notin queue \cup failed
       /\ ctx[F(w)].version # 0
       /\ worker[w].pc \in {"record", "count"} => part[F(w)][I(w)] = ctx[F(w)].version
  /\ \A v, w \in Worker :
       v # w /\ worker[v].pc \in Busy /\ worker[w].pc \in Busy => worker[v].task # worker[w].task

\* A file is finalized by one worker, when nothing of it is left to do.
FinishInv ==
  /\ \A w \in Worker : worker[w].pc \in Finishing =>
       /\ worker[w].task \in Task
       /\ ctx[F(w)].version # 0 /\ ctx[F(w)].remaining = 0 /\ part[F(w)] # Absent
  /\ \A v, w \in Worker :
       v # w /\ worker[v].pc \in Finishing /\ worker[w].pc \in Finishing => F(v) # F(w)

Missing(f) == {i \in Chunks[f] : part[f] # Absent /\ part[f][i] # ctx[f].version}

Assigned(f) ==
  {i \in Chunks[f] : \/ <<f, i>> \in queue \cup failed
                     \/ \E w \in Worker : worker[w].pc \in Busy /\ worker[w].task = <<f, i>>}

Left(f) == Missing(f) \cup Assigned(f)

Finishes(f) == \E w \in Worker : worker[w].pc \in Finishing /\ F(w) = f

\* The counter of a file is at least what is left to do.
CountInv ==
  \A f \in File : ctx[f].version # 0 =>
    /\ Cardinality(Left(f)) <= ctx[f].remaining
    /\ ctx[f].remaining > 0 => part[f] # Absent /\ side[f] # Absent
    /\ ctx[f].remaining = 0 /\ ~ctx[f].error => final[f] # Absent \/ Finishes(f)

\* Files that count as done stay where they are.
DoneInv ==
  /\ \A f \in call.done : Chunks[f] # {} => final[f] # Absent
  /\ call.pc \in {"prepare", "pool"} => \A f \in call.done : ctx[f].version = 0

IInv == TypeInv /\ PhaseInv /\ TaskInv /\ FinishInv /\ CountInv /\ DoneInv /\ FinalWhole

USE DirectoryAssumption, AbsentAssumption

-----------------------------------------------------------------------------
(* Files and tasks.                                                        *)

LEMMA FileFact == File \subseteq Int /\ 0 \notin File
<1>1. Cardinality(File) \in Nat
  BY FS_CardinalityType
<1> QED
  BY <1>1

LEMMA TaskFact ==
  ASSUME NEW t \in Task
  PROVE  t[1] \in File /\ t[2] \in Chunks[t[1]] /\ t = <<t[1], t[2]>>
  BY DEF Task

LEMMA TaskPair ==
  ASSUME NEW f \in File, NEW i \in Chunks[f]
  PROVE  <<f, i>> \in Task
  BY DEF Task

-----------------------------------------------------------------------------
(* Types.                                                                  *)

LEMMA TypeInvTypeOK == TypeInv => TypeOK
  BY DEF TypeInv, TypeOK, UploaderType, CachedType, DiskType, PoolType, ContextType

LEMMA InitType == Init => TypeInv
<1> SUFFICES ASSUME Init
             PROVE  TypeInv
  OBVIOUS
<1>1. UploaderType
  BY DEF Init, UploaderType, NoUpload, Version
<1>2. CachedType /\ ncalls \in 0 .. MaxCalls
  BY DEF Init, CachedType, Version
<1>3. DiskType
  BY DEF Init, DiskType
<1>4. PoolType
  BY DEF Init, PoolType, WorkerType, Out
<1>5. call \in CallType
  BY DEF Init, NoCall, CallType
<1>6. ctx \in [File -> ContextType]
  BY DEF Init, NoContext, ContextType, Version
<1> QED
  BY <1>1, <1>2, <1>3, <1>4, <1>5, <1>6 DEF TypeInv

LEMMA UploadType ==
  ASSUME TypeInv, Upload
  PROVE  TypeInv'
<1>1. UNCHANGED <<cached, disk, call, ctx, pool, ncalls>>
  BY DEF Upload, StoreDirectory, StoreFails, WithBatch, StoreDataCollectMeta
<1>2. UploaderType'
  <2>0. UploaderType
    BY DEF TypeInv
  <2>1. CASE StoreDirectory
    BY <2>0, <2>1 DEF StoreDirectory, UploaderType, Version
  <2>2. CASE StoreFails
    BY <2>0, <2>2 DEF StoreFails, UploaderType, Version, NoUpload
  <2>3. CASE WithBatch
    BY <2>0, <2>3 DEF WithBatch, UploaderType, Version, NoUpload
  <2>4. ASSUME NEW f \in File, StoreDataCollectMeta(f)
        PROVE  UploaderType'
    BY <2>0, <2>4 DEF StoreDataCollectMeta, UploaderType
  <2> QED
    BY <2>1, <2>2, <2>3, <2>4 DEF Upload
<1> QED
  BY <1>1, <1>2 DEF TypeInv, CachedType, DiskType, PoolType, disk, pool

\* The record of the call is changed field by field.
LEMMA CallRecord ==
  ASSUME NEW p \in {"idle", "prepare", "pool", "report"}, NEW n \in Int, NEW d \in SUBSET File,
         NEW r \in Int, NEW c \in BOOLEAN, NEW x \in SUBSET File
  PROVE  [pc |-> p, next |-> n, done |-> d, round |-> r, cancelled |-> c, failed |-> x] \in CallType
  BY DEF CallType

LEMMA CallFields ==
  ASSUME call \in CallType
  PROVE  /\ call.pc \in {"idle", "prepare", "pool", "report"} /\ call.next \in Int
         /\ call.done \in SUBSET File /\ call.round \in Int /\ call.cancelled \in BOOLEAN
         /\ call.failed \in SUBSET File
  BY DEF CallType

LEMMA PreparedFact ==
  ASSUME call \in CallType, NEW f \in File, NEW done \in BOOLEAN, Prepared(f, done)
  PROVE  /\ call' \in CallType /\ call'.next = f + 1
         /\ call'.pc = call.pc /\ call'.round = call.round /\ call'.cancelled = call.cancelled
         /\ call'.done = IF done THEN call.done \cup {f} ELSE call.done
<1>1. f + 1 \in Int
  BY FileFact
<1>2. call' = [pc |-> call.pc, next |-> f + 1, done |-> IF done THEN call.done \cup {f} ELSE call.done,
               round |-> call.round, cancelled |-> call.cancelled, failed |-> call.failed]
  BY DEF Prepared, CallType
<1>3. (IF done THEN call.done \cup {f} ELSE call.done) \in SUBSET File
  BY CallFields
<1> DEFINE d == IF done THEN call.done \cup {f} ELSE call.done
<1>4. d \in SUBSET File /\ call'.done = d
  BY <1>2, <1>3
<1>5. call' = [pc |-> call.pc, next |-> f + 1, done |-> d, round |-> call.round,
               cancelled |-> call.cancelled, failed |-> call.failed]
  BY <1>2
<1> HIDE DEF d
<1>6. call' \in CallType
  <2>1. /\ call.pc \in {"idle", "prepare", "pool", "report"} /\ call.round \in Int
        /\ call.cancelled \in BOOLEAN /\ call.failed \in SUBSET File
    BY CallFields
  <2>2. [pc |-> call.pc, next |-> f + 1, done |-> d, round |-> call.round,
         cancelled |-> call.cancelled, failed |-> call.failed] \in CallType
    BY <1>1, <1>4, <2>1 DEF CallType
  <2> QED
    BY <1>5, <2>2
<1> QED
  BY <1>4, <1>5, <1>6 DEF d

\* What BeginRound does to the call and the pool.
LEMMA BeginRoundFact ==
  ASSUME TypeInv, NEW tasks \in SUBSET Task, NEW round \in Int, BeginRound(tasks, round)
  PROVE  /\ call' \in CallType /\ PoolType' /\ call'.next = call.next /\ failed' = {}
         /\ \/ /\ call'.pc = "pool" /\ call'.done = call.done
               /\ queue' = tasks /\ worker' = [w \in Worker |-> Ready]
            \/ /\ call'.pc = "report" /\ call'.done = call.done \cup (Contexts \ Unfinished(tasks))
               /\ queue' = {} /\ worker' = worker
<1>0. call \in CallType /\ PoolType
  BY DEF TypeInv
<1>1. CASE MoreRounds(tasks, round)
  <2>1. /\ call' = [call EXCEPT !.pc = "pool", !.round = round]
        /\ queue' = tasks /\ failed' = {} /\ worker' = [w \in Worker |-> Ready]
    BY <1>1 DEF BeginRound
  <2>2. call' = [pc |-> "pool", next |-> call.next, done |-> call.done, round |-> round,
                 cancelled |-> call.cancelled, failed |-> call.failed]
    BY <1>0, <2>1 DEF CallType
  <2>3. call' \in CallType
    BY <1>0, <2>2, CallFields, CallRecord
  <2>4. Ready \in WorkerType
    BY DEF Ready, WorkerType
  <2>5. PoolType'
    BY <2>1, <2>4 DEF PoolType
  <2> QED
    BY <2>1, <2>2, <2>3, <2>5
<1>2. CASE ~MoreRounds(tasks, round)
  <2>1. /\ call' = [call EXCEPT !.pc = "report", !.failed = Unfinished(tasks),
                                 !.done = @ \cup (Contexts \ Unfinished(tasks))]
        /\ queue' = {} /\ failed' = {} /\ UNCHANGED worker
    BY <1>2 DEF BeginRound
  <2>2. call' = [pc |-> "report", next |-> call.next, done |-> call.done \cup (Contexts \ Unfinished(tasks)),
                 round |-> call.round, cancelled |-> call.cancelled, failed |-> Unfinished(tasks)]
    BY <1>0, <2>1 DEF CallType
  <2>3. Unfinished(tasks) \in SUBSET File /\ Contexts \in SUBSET File
    BY DEF Unfinished, Contexts
  <2>4. call.done \cup (Contexts \ Unfinished(tasks)) \in SUBSET File
    BY <1>0, <2>3, CallFields
  <2>5. call' \in CallType
    BY <1>0, <2>2, <2>3, <2>4, CallFields, CallRecord
  <2>6. PoolType'
    BY <1>0, <2>1 DEF PoolType
  <2> QED
    BY <2>1, <2>2, <2>5, <2>6
<1> QED
  BY <1>1, <1>2

LEMMA NoCallType ==
  /\ NoCall \in CallType /\ [NoCall EXCEPT !.pc = "prepare"] \in CallType
  /\ NoCall.done = {} /\ NoCall.next = 1 /\ NoCall.pc = "idle"
  /\ [NoCall EXCEPT !.pc = "prepare"].done = {} /\ [NoCall EXCEPT !.pc = "prepare"].next = 1
  /\ [NoCall EXCEPT !.pc = "prepare"].pc = "prepare"
<1>1. "idle" \in {"idle", "prepare", "pool", "report"} /\ 1 \in Int /\ 0 \in Int /\ {} \in SUBSET File
  OBVIOUS
<1>2. FALSE \in BOOLEAN
  OBVIOUS
<1>3. NoCall \in CallType
  BY <1>1, <1>2, CallRecord, Zenon DEF NoCall
<1>4. NoCall.done = {} /\ NoCall.next = 1 /\ NoCall.pc = "idle"
  BY DEF NoCall
<1> HIDE DEF NoCall
<1>5. [NoCall EXCEPT !.pc = "prepare"] \in CallType
  BY <1>3 DEF CallType
<1> QED
  BY <1>3, <1>4, <1>5 DEF CallType

LEMMA NoContextType == NoContext \in ContextType
  BY DEF NoContext, ContextType, Version

LEMMA CallStepType ==
  ASSUME TypeInv, GetDirectory \/ PrepareCancelled \/ DownloadDirectory \/ EndRound \/ Cancel \/ Crash
  PROVE  TypeInv'
<1>0. /\ UploaderType /\ CachedType /\ DiskType /\ PoolType /\ call \in CallType
      /\ ctx \in [File -> ContextType] /\ ncalls \in 0 .. MaxCalls
  BY DEF TypeInv
<1>1. UploaderType' /\ DiskType'
  BY <1>0 DEF GetDirectory, PrepareCancelled, DownloadDirectory, EndRound, Cancel, Crash, uploader, disk,
              UploaderType, DiskType
<1>2. CachedType' /\ ncalls' \in 0 .. MaxCalls
  <2>1. CASE GetDirectory
    <3>1. cached' \in [File \cup {0} -> Version]
      BY <1>0, <2>1 DEF GetDirectory, CachedType, UploaderType
    <3>2. ncalls' \in 0 .. MaxCalls
      BY <1>0, <2>1 DEF GetDirectory
    <3> QED
      BY <3>1, <3>2 DEF CachedType
  <2>2. CASE UNCHANGED <<cached, ncalls>>
    BY <1>0, <2>2 DEF CachedType
  <2> QED
    BY <2>1, <2>2 DEF PrepareCancelled, DownloadDirectory, EndRound, Cancel, Crash
<1>3. ctx' \in [File -> ContextType]
  BY <1>0, NoContextType DEF GetDirectory, PrepareCancelled, DownloadDirectory, EndRound, Cancel, Crash
<1>4. call' \in CallType /\ PoolType'
  <2>1. CASE GetDirectory \/ PrepareCancelled \/ Crash
    <3>1. Out \in WorkerType
      BY DEF Out, WorkerType
    <3>2. PoolType'
      BY <1>0, <2>1, <3>1 DEF GetDirectory, PrepareCancelled, Crash, PoolType, pool
    <3>3. call' \in CallType
      BY <2>1, NoCallType DEF GetDirectory, PrepareCancelled, Crash
    <3> QED
      BY <3>2, <3>3
  <2>2. CASE DownloadDirectory
    <3>1. BeginRound(queue, 0) /\ queue \in SUBSET Task /\ 0 \in Int
      BY <1>0, <2>2 DEF DownloadDirectory, PoolType
    <3> QED
      BY <3>1, BeginRoundFact
  <2>3. CASE EndRound
    <3>1. BeginRound(failed, call.round + 1) /\ failed \in SUBSET Task /\ call.round + 1 \in Int
      BY <1>0, <2>3, CallFields DEF EndRound, PoolType
    <3> QED
      BY <3>1, BeginRoundFact
  <2>4. CASE Cancel
    <3>1. PoolType'
      BY <1>0, <2>4 DEF Cancel, PoolType, pool
    <3>2. call' = [pc |-> call.pc, next |-> call.next, done |-> call.done, round |-> call.round,
                   cancelled |-> TRUE, failed |-> call.failed]
      BY <1>0, <2>4 DEF Cancel, CallType
    <3> QED
      BY <1>0, <3>1, <3>2, CallFields, CallRecord
  <2> QED
    BY <2>1, <2>2, <2>3, <2>4
<1> QED
  BY <1>1, <1>2, <1>3, <1>4 DEF TypeInv

LEMMA SkipSetFact ==
  ASSUME DiskType, NEW f \in File, NEW v \in Version
  PROVE  SkipSet(f, v) \subseteq Chunks[f]
<1>1. side[f] # Absent => side[f].log \subseteq Chunks[f]
  BY DEF DiskType, Sidecar
<1> QED
  BY <1>1 DEF SkipSet

LEMMA PrepareType ==
  ASSUME TypeInv, NEW f \in File, NEW v \in Version,
         FileOnDisk(f) \/ SkipFile(f) \/ FinalizeAtOnce(f, v) \/ OpenContext(f, v)
  PROVE  TypeInv'
<1>0. /\ UploaderType /\ CachedType /\ DiskType /\ PoolType /\ call \in CallType
      /\ ctx \in [File -> ContextType] /\ ncalls \in 0 .. MaxCalls
  BY DEF TypeInv
<1>1. UploaderType' /\ ncalls' \in 0 .. MaxCalls
  BY <1>0 DEF FileOnDisk, SkipFile, FinalizeAtOnce, OpenContext, uploader, UploaderType
<1>2. call' \in CallType
  <2>1. Prepared(f, TRUE) \/ Prepared(f, FALSE)
    BY DEF FileOnDisk, SkipFile, FinalizeAtOnce, OpenContext
  <2> QED
    BY <1>0, <2>1, PreparedFact
<1>3. CachedType'
  <2>1. cached' = cached \/ cached' = [cached EXCEPT ![f] = v]
    BY DEF FileOnDisk, SkipFile, FinalizeAtOnce, OpenContext
  <2> QED
    BY <1>0, <2>1 DEF CachedType
<1>4. DiskType'
  <2>1. CASE FileOnDisk(f)
    <3>1. final' = final /\ (part' = part \/ part' = [part EXCEPT ![f] = Absent])
          /\ (side' = side \/ side' = [side EXCEPT ![f] = Absent])
      BY <2>1 DEF FileOnDisk
    <3> QED
      BY <1>0, <3>1 DEF DiskType
  <2>2. CASE SkipFile(f)
    BY <1>0, <2>2 DEF SkipFile, disk, DiskType
  <2>3. CASE FinalizeAtOnce(f, v)
    BY <1>0, <2>3 DEF FinalizeAtOnce, DiskType
  <2>4. CASE OpenContext(f, v)
    <3>1. /\ final' = final
          /\ \E x \in {side[f], [version |-> v, log |-> {}]} : side' = [side EXCEPT ![f] = x]
          /\ \E y \in {part[f], [i \in Chunks[f] |-> 0]} : part' = [part EXCEPT ![f] = y]
      BY <2>4 DEF OpenContext
    <3>2. [version |-> v, log |-> {}] \in Sidecar(f) /\ [i \in Chunks[f] |-> 0] \in Content(f)
      BY <1>0 DEF Sidecar, Content, Version
    <3>3. side' = [g \in File |-> side'[g]] /\ \A g \in File : side'[g] \in {Absent} \cup Sidecar(g)
      BY <1>0, <3>1, <3>2 DEF DiskType
    <3>4. part' = [g \in File |-> part'[g]] /\ \A g \in File : part'[g] \in {Absent} \cup Content(g)
      BY <1>0, <3>1, <3>2 DEF DiskType
    <3> QED
      BY <1>0, <3>1, <3>3, <3>4 DEF DiskType
  <2> QED
    BY <2>1, <2>2, <2>3, <2>4
<1>5. PoolType' /\ ctx' \in [File -> ContextType]
  <2>1. CASE UNCHANGED <<pool, ctx>>
    BY <1>0, <2>1 DEF pool, PoolType
  <2>2. CASE OpenContext(f, v)
    <3>1. {f} \X (Chunks[f] \ SkipSet(f, v)) \subseteq Task
      BY DEF Task
    <3>2. PoolType'
      BY <1>0, <2>2, <3>1 DEF OpenContext, PoolType
    <3> DEFINE r == Cardinality(Chunks[f] \ SkipSet(f, v))
    <3>3. r \in Int
      BY FS_Subset, FS_CardinalityType
    <3>4. ctx' = [ctx EXCEPT ![f] = [version |-> v, error |-> FALSE, remaining |-> r]]
      BY <2>2 DEF OpenContext
    <3> HIDE DEF r
    <3>5. [version |-> v, error |-> FALSE, remaining |-> r] \in ContextType
      BY <1>0, <3>3 DEF ContextType
    <3>6. ctx' \in [File -> ContextType]
      BY <1>0, <3>4, <3>5
    <3> QED
      BY <3>2, <3>6
  <2> QED
    BY <2>1, <2>2 DEF FileOnDisk, SkipFile, FinalizeAtOnce
<1> QED
  BY <1>1, <1>2, <1>3, <1>4, <1>5 DEF TypeInv

-----------------------------------------------------------------------------
(* What is left of a file.                                                 *)

LEMMA LeftFinite ==
  ASSUME NEW f \in File, NEW S \in SUBSET Chunks[f]
  PROVE  IsFiniteSet(S) /\ Cardinality(S) \in Nat /\ (Cardinality(S) = 0 <=> S = {})
<1>1. IsFiniteSet(S)
  BY FS_Subset
<1> QED
  BY <1>1, FS_CardinalityType, FS_EmptySet

LEMMA LeftSubset ==
  ASSUME NEW f \in File, NEW T \in SUBSET Chunks[f], NEW S \in SUBSET T
  PROVE  Cardinality(S) <= Cardinality(T)
  BY LeftFinite, FS_Subset

LEMMA LeftWithout ==
  ASSUME NEW f \in File, NEW T \in SUBSET Chunks[f], NEW i \in T, NEW S \in SUBSET (T \ {i})
  PROVE  Cardinality(S) <= Cardinality(T) - 1
<1>1. IsFiniteSet(T)
  BY LeftFinite
<1>2. IsFiniteSet(T \ {i}) /\ Cardinality(T \ {i}) = Cardinality(T) - 1
  BY <1>1, FS_RemoveElement
<1> QED
  BY <1>2, FS_Subset

LEMMA LeftChunks == \A f \in File : Left(f) \in SUBSET Chunks[f]
  BY DEF Left, Missing, Assigned

\* The file of a task that is under way is still counted, and on disk.
LEMMA BusyCounts ==
  ASSUME IInv, NEW w \in Worker, worker[w].pc \in Busy
  PROVE  /\ F(w) \in File /\ I(w) \in Chunks[F(w)] /\ worker[w].task = <<F(w), I(w)>>
         /\ I(w) \in Left(F(w)) /\ ctx[F(w)].version # 0 /\ ctx[F(w)].remaining >= 1
         /\ part[F(w)] \in Content(F(w)) /\ side[F(w)] \in Sidecar(F(w))
<1>1. worker[w].task \in Task /\ ctx[F(w)].version # 0
  BY DEF IInv, TaskInv
<1>2. F(w) \in File /\ I(w) \in Chunks[F(w)] /\ worker[w].task = <<F(w), I(w)>>
  BY <1>1, TaskFact DEF F, I
<1>3. I(w) \in Left(F(w))
  BY <1>2 DEF Left, Assigned
<1>4. Cardinality(Left(F(w))) \in Nat /\ Cardinality(Left(F(w))) # 0
  BY <1>2, <1>3, LeftChunks, LeftFinite
<1>5. Cardinality(Left(F(w))) <= ctx[F(w)].remaining /\ ctx[F(w)].remaining \in Int
  BY <1>1, <1>2 DEF IInv, CountInv, TypeInv, ContextType
<1>6. ctx[F(w)].remaining >= 1
  BY <1>4, <1>5
<1>7. part[F(w)] # Absent /\ side[F(w)] # Absent
  BY <1>1, <1>2, <1>5, <1>6 DEF IInv, CountInv
<1>8. part[F(w)] \in Content(F(w)) /\ side[F(w)] \in Sidecar(F(w))
  BY <1>2, <1>7 DEF IInv, TypeInv, DiskType
<1> QED
  BY <1>1, <1>2, <1>3, <1>6, <1>8

\* The .part that a worker finalizes is whole.
LEMMA FinishingWhole ==
  ASSUME IInv, NEW w \in Worker, worker[w].pc \in Finishing
  PROVE  /\ F(w) \in File /\ ctx[F(w)].version \in 1 .. MaxVersion /\ ctx[F(w)].remaining = 0
         /\ part[F(w)] \in Content(F(w))
         /\ \A i \in Chunks[F(w)] : part[F(w)][i] = ctx[F(w)].version
         /\ Left(F(w)) = {}
<1>1. /\ worker[w].task \in Task /\ ctx[F(w)].version # 0 /\ ctx[F(w)].remaining = 0
      /\ part[F(w)] # Absent
  BY DEF IInv, FinishInv
<1>2. F(w) \in File
  BY <1>1, TaskFact DEF F
<1>3. ctx[F(w)].version \in 1 .. MaxVersion /\ part[F(w)] \in Content(F(w))
  BY <1>1, <1>2 DEF IInv, TypeInv, ContextType, Version, DiskType
<1>4. Cardinality(Left(F(w))) <= 0
  BY <1>1, <1>2 DEF IInv, CountInv
<1>5. Left(F(w)) = {}
  <2>1. Cardinality(Left(F(w))) \in Nat /\ (Cardinality(Left(F(w))) = 0 <=> Left(F(w)) = {})
    BY <1>2, LeftChunks, LeftFinite
  <2> QED
    BY <1>4, <2>1
<1>6. \A i \in Chunks[F(w)] : part[F(w)][i] = ctx[F(w)].version
  BY <1>1, <1>5 DEF Left, Missing
<1> QED
  BY <1>1, <1>2, <1>3, <1>5, <1>6

-----------------------------------------------------------------------------
(* Steps of a worker.                                                      *)

\* Worker w goes on, with the task that it has or with one that it took.
Moved(w) ==
  /\ worker[w].pc # "out" /\ UNCHANGED call
  /\ \A v \in Worker \ {w} : worker'[v] = worker[v]
  /\ queue' \cup failed' \subseteq queue \cup failed \cup (IF worker[w].pc \in Busy THEN {worker[w].task} ELSE {})
  /\ worker'[w].pc \in Busy => \/ worker[w].pc \in Busy /\ worker'[w].task = worker[w].task
                               \/ worker'[w].task \in queue
  /\ \A f \in File : ctx'[f].version = ctx[f].version

LEMMA MovedPhase ==
  ASSUME IInv, NEW w \in Worker, Moved(w),
         \A f \in File : ctx[f].version = 0 => final'[f] = final[f]
  PROVE  PhaseInv' /\ DoneInv'
<1>1. call.pc = "pool"
  BY DEF Moved, IInv, PhaseInv, Works
<1>2. call.done \subseteq File
  BY CallFields DEF IInv, TypeInv
<1>3. PhaseInv'
  BY <1>1 DEF PhaseInv, Moved
<1>4. DoneInv'
  BY <1>1, <1>2 DEF IInv, DoneInv, Moved
<1> QED
  BY <1>3, <1>4

LEMMA MovedTasks ==
  ASSUME IInv, NEW w \in Worker, Moved(w), queue' \cap failed' = {},
         worker'[w].pc \in Busy =>
           /\ worker'[w].task \notin queue' \cup failed'
           /\ worker'[w].pc \in {"record", "count"} => part'[F(w)'][I(w)'] = ctx'[F(w)'].version,
         \A v \in Worker \ {w} : worker[v].pc \in {"record", "count"} =>
           part'[F(v)][I(v)] = ctx[F(v)].version
  PROVE  TaskInv'
<1>0. TaskInv /\ queue \subseteq Task /\ failed \subseteq Task
  BY DEF IInv, TypeInv, PoolType
<1>1. \A t \in queue' \cup failed' : t \in Task /\ ctx[t[1]].version # 0 /\ ctx'[t[1]].version # 0
  <2>1. \A t \in queue' \cup failed' : t \in Task /\ ctx[t[1]].version # 0
    BY <1>0 DEF Moved, TaskInv, F
  <2> QED
    BY <2>1, TaskFact DEF Moved
<1>2. ASSUME NEW v \in Worker, worker'[v].pc \in Busy
      PROVE  /\ worker'[v].task \in Task /\ worker'[v].task \notin queue' \cup failed'
             /\ ctx'[F(v)'].version # 0
             /\ worker'[v].pc \in {"record", "count"} => part'[F(v)'][I(v)'] = ctx'[F(v)'].version
  <2>1. CASE v = w
    <3>1. worker'[w].task \in Task /\ ctx[worker'[w].task[1]].version # 0
      BY <1>0, <1>2, <2>1 DEF Moved, TaskInv, F
    <3>2. ctx'[worker'[w].task[1]].version # 0
      BY <3>1, TaskFact DEF Moved
    <3> QED
      BY <1>2, <2>1, <3>1, <3>2 DEF F
  <2>2. CASE v # w
    <3>1. worker'[v] = worker[v] /\ worker[v].pc \in Busy
      BY <1>2, <2>2 DEF Moved
    <3>2. /\ worker[v].task \in Task /\ worker[v].task \notin queue \cup failed /\ ctx[F(v)].version # 0
      BY <1>0, <3>1 DEF TaskInv
    <3>3. worker[v].task \notin queue' \cup failed'
      BY <1>0, <2>2, <3>1, <3>2 DEF TaskInv, Moved
    <3>4. F(v) \in File /\ F(v)' = F(v) /\ I(v)' = I(v)
      BY <3>1, <3>2, TaskFact DEF F, I
    <3>5. ctx'[F(v)].version = ctx[F(v)].version
      BY <3>4 DEF Moved
    <3> QED
      BY <2>2, <3>1, <3>2, <3>3, <3>4, <3>5
  <2> QED
    BY <2>1, <2>2
<1>3. ASSUME NEW v \in Worker, NEW u \in Worker, v # u, worker'[v].pc \in Busy, worker'[u].pc \in Busy
      PROVE  worker'[v].task # worker'[u].task
  <2>1. \A x \in Worker \ {w} : worker[x].pc \in Busy /\ worker'[w].pc \in Busy => worker[x].task # worker'[w].task
    BY <1>0 DEF Moved, TaskInv
  <2> QED
    BY <1>0, <1>3, <2>1 DEF Moved, TaskInv
<1> QED
  BY <1>1, <1>2, <1>3 DEF TaskInv

LEMMA MovedAssigned ==
  ASSUME IInv, NEW w \in Worker, Moved(w), NEW f \in File
  PROVE  Assigned(f)' \subseteq Assigned(f)
<1>1. ASSUME NEW i \in Chunks[f], i \in Assigned(f)'
      PROVE  i \in Assigned(f)
  <2>1. CASE <<f, i>> \in queue' \cup failed'
    BY <2>1 DEF Moved, Assigned
  <2>2. ASSUME NEW v \in Worker, worker'[v].pc \in Busy, worker'[v].task = <<f, i>>
        PROVE  i \in Assigned(f)
    BY <2>2 DEF Moved, Assigned
  <2> QED
    BY <1>1, <2>1, <2>2 DEF Assigned
<1> QED
  BY <1>1 DEF Assigned

LEMMA CountKept ==
  ASSUME IInv, NEW f \in File, Left(f)' \subseteq Left(f), ctx[f].version # 0,
         ctx'[f].remaining = ctx[f].remaining
  PROVE  Cardinality(Left(f)') <= ctx'[f].remaining
<1>1. Left(f) \in SUBSET Chunks[f] /\ Left(f)' \in SUBSET Left(f)
  BY LeftChunks
<1>2. /\ Cardinality(Left(f)') <= Cardinality(Left(f)) /\ Cardinality(Left(f)) \in Nat
      /\ Cardinality(Left(f)') \in Nat
  BY <1>1, LeftSubset, LeftFinite
<1>3. Cardinality(Left(f)) <= ctx[f].remaining /\ ctx[f].remaining \in Int
  BY DEF IInv, CountInv, TypeInv, ContextType
<1> QED
  BY <1>2, <1>3

\* Steps that change neither the disk nor the contexts.
LEMMA MovedQuietly ==
  ASSUME IInv, NEW w \in Worker, Moved(w), UNCHANGED <<disk, ctx>>,
         queue' \cap failed' = {}, worker'[w].pc \in Busy => worker'[w].task \notin queue' \cup failed',
         worker[w].pc \notin Finishing, worker'[w].pc \in {"out", "ready", "fetch", "write"},
         TypeInv'
  PROVE  IInv'
<1>1. PhaseInv' /\ DoneInv' /\ FinalWhole'
  BY MovedPhase DEF disk, IInv, FinalWhole
<1>2. TaskInv'
  <2>1. \A v \in Worker \ {w} : worker[v].pc \in {"record", "count"} => part'[F(v)][I(v)] = ctx[F(v)].version
    BY DEF IInv, TaskInv, Busy, disk
  <2> QED
    BY <2>1, MovedTasks
<1>3. FinishInv'
  BY DEF IInv, FinishInv, Finishing, Moved, F, disk
<1>4. CountInv'
  <2> SUFFICES ASSUME NEW f \in File, ctx[f].version # 0
               PROVE  /\ Cardinality(Left(f)') <= ctx[f].remaining
                      /\ ctx[f].remaining > 0 => part[f] # Absent /\ side[f] # Absent
                      /\ ctx[f].remaining = 0 /\ ~ctx[f].error => final[f] # Absent \/ Finishes(f)'
    BY DEF CountInv, disk
  <2>1. Left(f)' \subseteq Left(f)
    BY MovedAssigned DEF Left, Missing, disk
  <2>2. Cardinality(Left(f)') <= ctx[f].remaining
    BY <2>1, CountKept
  <2>3. Finishes(f) => Finishes(f)'
    BY DEF Finishes, Moved, F
  <2> QED
    BY <2>2, <2>3 DEF IInv, CountInv
<1> QED
  BY <1>1, <1>2, <1>3, <1>4 DEF IInv

LEMMA WorkerFact ==
  ASSUME PoolType, NEW w \in Worker
  PROVE  /\ worker[w].pc \in {"out", "ready"} \cup Busy \cup Finishing
         /\ worker[w].task \in Task \cup {Absent}
  BY DEF PoolType, WorkerType

\* The record of a worker after a step.
LEMMA WorkerGoes ==
  ASSUME PoolType, NEW w \in Worker, NEW l \in {"out", "ready"} \cup Busy \cup Finishing,
         NEW t \in Task \cup {Absent}, worker' = [worker EXCEPT ![w] = [pc |-> l, task |-> t]]
  PROVE  /\ worker' \in [Worker -> WorkerType] /\ worker'[w].pc = l /\ worker'[w].task = t
         /\ \A v \in Worker \ {w} : worker'[v] = worker[v]
<1>1. [pc |-> l, task |-> t] \in WorkerType
  BY DEF WorkerType
<1> QED
  BY <1>1 DEF PoolType

LEMMA StepFact ==
  ASSUME PoolType, NEW w \in Worker, NEW l \in {"out", "ready"} \cup Busy \cup Finishing, Step(w, l)
  PROVE  /\ worker' \in [Worker -> WorkerType] /\ worker'[w].pc = l /\ worker'[w].task = worker[w].task
         /\ \A v \in Worker \ {w} : worker'[v] = worker[v]
<1>1. worker' = [worker EXCEPT ![w] = [pc |-> l, task |-> worker[w].task]]
  <2>1. worker[w] \in WorkerType /\ worker' = [worker EXCEPT ![w] = [worker[w] EXCEPT !.pc = l]]
    BY DEF Step, PoolType
  <2>2. [worker[w] EXCEPT !.pc = l] = [pc |-> l, task |-> worker[w].task]
    BY <2>1 DEF WorkerType
  <2> QED
    BY <2>1, <2>2
<1> QED
  BY <1>1, WorkerGoes, WorkerFact

\* A worker takes a task, finds none, or has fetched its chunk or failed to.
LEMMA QuietStep ==
  ASSUME IInv, NEW w \in Worker,
         NoTask(w) \/ FetchOk(w) \/ TaskFails(w) \/ \E t \in queue : TakeTask(w, t)
  PROVE  IInv'
<1>0. TypeInv /\ PoolType /\ TaskInv
  BY DEF IInv, TypeInv
<1>1. UNCHANGED <<uploader, cached, disk, call, ctx, ncalls>>
  BY DEF NoTask, FetchOk, TaskFails, TakeTask
<1>2. ASSUME PoolType'
      PROVE  TypeInv'
  BY <1>0, <1>1, <1>2 DEF TypeInv, UploaderType, CachedType, DiskType, uploader, disk
<1>3. CASE NoTask(w)
  <2>1. worker[w].pc = "ready" /\ UNCHANGED <<queue, failed>> /\ worker' = [worker EXCEPT ![w] = Out]
    BY <1>3 DEF NoTask, Works
  <2>2. /\ worker' \in [Worker -> WorkerType] /\ worker'[w].pc = "out"
        /\ \A v \in Worker \ {w} : worker'[v] = worker[v]
    BY <1>0, <2>1, WorkerGoes DEF Out
  <2>3. PoolType'
    BY <1>0, <2>1, <2>2 DEF PoolType
  <2>4. Moved(w)
    BY <1>1, <2>1, <2>2 DEF Moved, Busy
  <2> QED
    BY <1>0, <1>1, <1>2, <2>1, <2>2, <2>3, <2>4, MovedQuietly DEF Busy, Finishing, TaskInv
<1>4. CASE FetchOk(w)
  <2>1. worker[w].pc = "fetch" /\ UNCHANGED <<queue, failed>> /\ Step(w, "write")
    BY <1>4 DEF FetchOk, Works
  <2>2. /\ worker' \in [Worker -> WorkerType] /\ worker'[w].pc = "write" /\ worker'[w].task = worker[w].task
        /\ \A v \in Worker \ {w} : worker'[v] = worker[v]
    BY <1>0, <2>1, StepFact DEF Busy
  <2>3. PoolType'
    BY <1>0, <2>1, <2>2 DEF PoolType
  <2>4. Moved(w)
    BY <1>1, <2>1, <2>2 DEF Moved, Busy
  <2>5. worker[w].task \notin queue \cup failed /\ queue \cap failed = {}
    BY <1>0, <2>1 DEF TaskInv, Busy
  <2> QED
    BY <1>1, <1>2, <2>1, <2>2, <2>3, <2>4, <2>5, MovedQuietly DEF Finishing
<1>5. CASE TaskFails(w)
  <2>1. /\ worker[w].pc \in {"fetch", "write"} /\ queue' = queue /\ failed' = failed \cup {worker[w].task}
        /\ worker' = [worker EXCEPT ![w] = Ready]
    BY <1>5 DEF TaskFails, Works
  <2>2. /\ worker' \in [Worker -> WorkerType] /\ worker'[w].pc = "ready"
        /\ \A v \in Worker \ {w} : worker'[v] = worker[v]
    BY <1>0, <2>1, WorkerGoes DEF Ready
  <2>3. worker[w].task \in Task /\ worker[w].task \notin queue \cup failed /\ queue \cap failed = {}
    BY <1>0, <2>1 DEF TaskInv, Busy
  <2>4. PoolType'
    BY <1>0, <2>1, <2>2, <2>3 DEF PoolType
  <2>5. Moved(w)
    BY <1>1, <2>1, <2>2 DEF Moved, Busy
  <2> QED
    BY <1>1, <1>2, <2>1, <2>2, <2>3, <2>4, <2>5, MovedQuietly DEF Busy, Finishing
<1>6. ASSUME NEW t \in queue, TakeTask(w, t)
      PROVE  IInv'
  <2>1. /\ worker[w].pc = "ready" /\ queue' = queue \ {t} /\ failed' = failed
        /\ worker' = [worker EXCEPT ![w] = IF call.cancelled THEN Out ELSE [pc |-> "fetch", task |-> t]]
    BY <1>6 DEF TakeTask, Works
  <2>2. t \in Task /\ t \notin failed /\ queue \cap failed = {}
    BY <1>0 DEF PoolType, TaskInv
  <2>3. /\ worker' \in [Worker -> WorkerType] /\ worker'[w].pc \in {"out", "fetch"}
        /\ worker'[w].pc = "fetch" => worker'[w].task = t
        /\ \A v \in Worker \ {w} : worker'[v] = worker[v]
    <3>1. CASE call.cancelled
      <4>1. worker' = [worker EXCEPT ![w] = [pc |-> "out", task |-> Absent]]
        BY <2>1, <3>1 DEF Out
      <4> QED
        BY <1>0, <4>1, WorkerGoes
    <3>2. CASE ~call.cancelled
      <4>1. worker' = [worker EXCEPT ![w] = [pc |-> "fetch", task |-> t]]
        BY <2>1, <3>2
      <4> QED
        BY <1>0, <2>2, <4>1, WorkerGoes DEF Busy
    <3> QED
      BY <3>1, <3>2
  <2>4. PoolType'
    BY <1>0, <2>1, <2>3 DEF PoolType
  <2>5. Moved(w)
    BY <1>1, <2>1, <2>3 DEF Moved, Busy
  <2> QED
    BY <1>1, <1>2, <2>1, <2>2, <2>3, <2>4, <2>5, MovedQuietly DEF Busy, Finishing
<1> QED
  BY <1>3, <1>4, <1>5, <1>6

\* A chunk is written: it is not missing any more.
LEMMA WriteAtStep ==
  ASSUME IInv, NEW w \in Worker, WriteAt(w)
  PROVE  IInv'
<1>0. TypeInv /\ PoolType /\ TaskInv /\ DiskType /\ FinishInv
  BY DEF IInv, TypeInv
<1>1. /\ UNCHANGED <<uploader, cached, side, final, call, ctx, queue, failed, ncalls>>
      /\ worker[w].pc = "write" /\ Step(w, "record")
      /\ part' = [part EXCEPT ![F(w)][I(w)] = ctx[F(w)].version]
  BY DEF WriteAt, Works
<1>2. /\ worker' \in [Worker -> WorkerType] /\ worker'[w].pc = "record" /\ worker'[w].task = worker[w].task
      /\ \A v \in Worker \ {w} : worker'[v] = worker[v]
  BY <1>0, <1>1, StepFact DEF Busy
<1>3. /\ F(w) \in File /\ I(w) \in Chunks[F(w)] /\ part[F(w)] \in Content(F(w))
      /\ ctx[F(w)].version \in Version
  BY <1>0, <1>1, BusyCounts DEF Busy, TypeInv, ContextType
<1>4. /\ part'[F(w)] \in Content(F(w)) /\ part' = [f \in File |-> part'[f]]
      /\ \A f \in File \ {F(w)} : part'[f] = part[f]
      /\ \A i \in Chunks[F(w)] : part'[F(w)][i] = IF i = I(w) THEN ctx[F(w)].version ELSE part[F(w)][i]
  BY <1>0, <1>1, <1>3 DEF DiskType, Content
<1>5. part'[F(w)] # Absent /\ part[F(w)] # Absent
  BY <1>3, <1>4
<1>6. TypeInv'
  <2>1. DiskType'
    BY <1>0, <1>1, <1>3, <1>4 DEF DiskType
  <2>2. PoolType'
    BY <1>0, <1>1, <1>2 DEF PoolType
  <2> QED
    BY <1>0, <1>1, <2>1, <2>2 DEF TypeInv, UploaderType, CachedType, uploader
<1>7. Moved(w)
  BY <1>1, <1>2 DEF Moved, Busy
<1>8. PhaseInv' /\ DoneInv' /\ FinalWhole'
  BY <1>1, <1>7, MovedPhase DEF IInv, FinalWhole
<1>9. TaskInv'
  <2>1. worker[w].task \notin queue \cup failed /\ queue \cap failed = {}
    BY <1>0, <1>1 DEF TaskInv, Busy
  <2>2. part'[F(w)'][I(w)'] = ctx'[F(w)'].version
    <3>1. F(w)' = F(w) /\ I(w)' = I(w) /\ ctx' = ctx
      BY <1>1, <1>2 DEF F, I
    <3>2. part'[F(w)][I(w)] = ctx[F(w)].version
      BY <1>3, <1>4
    <3> QED
      BY <3>1, <3>2
  <2>3. ASSUME NEW v \in Worker \ {w}, worker[v].pc \in {"record", "count"}
        PROVE  part'[F(v)][I(v)] = ctx[F(v)].version
    <3>1. worker[v].task \in Task /\ part[F(v)][I(v)] = ctx[F(v)].version
      BY <1>0, <2>3 DEF TaskInv, Busy
    <3>2. F(v) \in File /\ I(v) \in Chunks[F(v)]
      BY <3>1, TaskFact DEF F, I
    <3> QED
      BY <1>4, <3>1, <3>2
  <2> QED
    BY <1>1, <1>2, <1>7, <2>1, <2>2, <2>3, MovedTasks
<1>10. FinishInv'
  <2>1. ASSUME NEW v \in Worker, worker'[v].pc \in Finishing
        PROVE  /\ v # w /\ worker'[v] = worker[v] /\ worker[v].pc \in Finishing
               /\ F(v)' = F(v) /\ part'[F(v)] # Absent
    <3>1. v # w /\ worker'[v] = worker[v] /\ worker[v].pc \in Finishing /\ F(v)' = F(v)
      BY <1>2, <2>1 DEF Finishing, F
    <3>2. F(v) \in File /\ part[F(v)] # Absent
      BY <1>0, <3>1, TaskFact DEF FinishInv, F
    <3> QED
      BY <1>4, <1>5, <3>1, <3>2
  <2> QED
    BY <1>0, <1>1, <2>1 DEF FinishInv
<1>11. CountInv'
  <2> SUFFICES ASSUME NEW f \in File, ctx[f].version # 0
               PROVE  /\ Cardinality(Left(f)') <= ctx[f].remaining
                      /\ ctx[f].remaining > 0 => part'[f] # Absent /\ side[f] # Absent
                      /\ ctx[f].remaining = 0 /\ ~ctx[f].error => final[f] # Absent \/ Finishes(f)'
    BY <1>1 DEF CountInv
  <2>1. Missing(f)' \subseteq Missing(f)
    BY <1>1, <1>4, <1>5 DEF Missing
  <2>2. Left(f)' \subseteq Left(f)
    BY <1>7, <2>1, MovedAssigned DEF Left
  <2>3. Cardinality(Left(f)') <= ctx[f].remaining
    BY <1>1, <2>2, CountKept
  <2>4. Finishes(f) => Finishes(f)'
    BY <1>1, <1>2 DEF Finishes, Finishing, F
  <2> QED
    BY <1>4, <1>5, <2>3, <2>4 DEF IInv, CountInv
<1> QED
  BY <1>6, <1>8, <1>9, <1>10, <1>11 DEF IInv

LEMMA RecordChunkStep ==
  ASSUME IInv, NEW w \in Worker, RecordChunk(w)
  PROVE  IInv'
<1>0. TypeInv /\ PoolType /\ TaskInv /\ DiskType /\ FinishInv
  BY DEF IInv, TypeInv
<1>1. /\ UNCHANGED <<uploader, cached, part, final, call, ctx, queue, failed, ncalls>>
      /\ worker[w].pc = "record" /\ Step(w, "count")
      /\ side' = [side EXCEPT ![F(w)].log = @ \cup {I(w)}]
  BY DEF RecordChunk, Works
<1>2. /\ worker' \in [Worker -> WorkerType] /\ worker'[w].pc = "count" /\ worker'[w].task = worker[w].task
      /\ \A v \in Worker \ {w} : worker'[v] = worker[v]
  BY <1>0, <1>1, StepFact DEF Busy
<1>3. F(w) \in File /\ I(w) \in Chunks[F(w)] /\ side[F(w)] \in Sidecar(F(w))
  BY <1>0, <1>1, BusyCounts DEF Busy
<1>4. /\ side'[F(w)] \in Sidecar(F(w)) /\ side' = [f \in File |-> side'[f]]
      /\ \A f \in File \ {F(w)} : side'[f] = side[f]
  BY <1>0, <1>1, <1>3 DEF DiskType, Sidecar
<1>5. \A f \in File : side[f] # Absent => side'[f] # Absent
  BY <1>3, <1>4
<1>6. TypeInv'
  <2>1. DiskType'
    BY <1>0, <1>1, <1>3, <1>4 DEF DiskType
  <2>2. PoolType'
    BY <1>0, <1>1, <1>2 DEF PoolType
  <2> QED
    BY <1>0, <1>1, <2>1, <2>2 DEF TypeInv, UploaderType, CachedType, uploader
<1>7. Moved(w)
  BY <1>1, <1>2 DEF Moved, Busy
<1>8. PhaseInv' /\ DoneInv' /\ FinalWhole'
  BY <1>1, <1>7, MovedPhase DEF IInv, FinalWhole
<1>9. TaskInv'
  <2>1. /\ worker[w].task \notin queue \cup failed /\ queue \cap failed = {}
        /\ part[F(w)][I(w)] = ctx[F(w)].version
        /\ \A v \in Worker : worker[v].pc \in {"record", "count"} => part[F(v)][I(v)] = ctx[F(v)].version
    BY <1>0, <1>1 DEF TaskInv, Busy
  <2>2. part'[F(w)'][I(w)'] = ctx'[F(w)'].version
    BY <1>1, <1>2, <2>1 DEF F, I
  <2> QED
    BY <1>1, <1>2, <1>7, <2>1, <2>2, MovedTasks
<1>10. FinishInv'
  BY <1>0, <1>1, <1>2 DEF FinishInv, Finishing, F
<1>11. CountInv'
  <2> SUFFICES ASSUME NEW f \in File, ctx[f].version # 0
               PROVE  /\ Cardinality(Left(f)') <= ctx[f].remaining
                      /\ ctx[f].remaining > 0 => part[f] # Absent /\ side'[f] # Absent
                      /\ ctx[f].remaining = 0 /\ ~ctx[f].error => final[f] # Absent \/ Finishes(f)'
    BY <1>1 DEF CountInv
  <2>1. Left(f)' \subseteq Left(f)
    BY <1>1, <1>7, MovedAssigned DEF Left, Missing
  <2>2. Cardinality(Left(f)') <= ctx[f].remaining
    BY <1>1, <2>1, CountKept
  <2>3. Finishes(f) => Finishes(f)'
    BY <1>1, <1>2 DEF Finishes, Finishing, F
  <2> QED
    BY <1>5, <2>2, <2>3 DEF IInv, CountInv
<1> QED
  BY <1>6, <1>8, <1>9, <1>10, <1>11 DEF IInv

\* A chunk is done.  At zero nothing is left, and the worker finalizes the file.
LEMMA CountDownStep ==
  ASSUME IInv, NEW w \in Worker, CountDown(w)
  PROVE  IInv'
<1>0. TypeInv /\ PoolType /\ TaskInv /\ DiskType /\ FinishInv /\ ctx \in [File -> ContextType]
  BY DEF IInv, TypeInv
<1> DEFINE n == ctx[F(w)].remaining - 1
<1>1. /\ UNCHANGED <<uploader, cached, part, side, final, call, queue, failed, ncalls>>
      /\ worker[w].pc = "count" /\ ctx' = [ctx EXCEPT ![F(w)].remaining = @ - 1]
      /\ worker' = [worker EXCEPT ![w] = IF ctx'[F(w)].remaining = 0 THEN [@ EXCEPT !.pc = "cleanup"] ELSE Ready]
  BY DEF CountDown, Works, disk
<1>2. /\ F(w) \in File /\ I(w) \in Chunks[F(w)] /\ worker[w].task = <<F(w), I(w)>> /\ worker[w].task \in Task
      /\ I(w) \in Left(F(w)) /\ ctx[F(w)].version # 0 /\ ctx[F(w)].remaining >= 1
      /\ part[F(w)] \in Content(F(w)) /\ ctx[F(w)].remaining \in Int
  <2>1. worker[w].pc \in Busy
    BY <1>1 DEF Busy
  <2>2. ctx[F(w)] \in ContextType
    BY <1>0, <2>1, BusyCounts
  <2>3. worker[w].task \in Task
    BY <1>0, <2>1 DEF TaskInv
  <2> QED
    BY <2>1, <2>2, <2>3, BusyCounts DEF ContextType
<1>3. /\ ctx'[F(w)].remaining = n /\ ctx'[F(w)].version = ctx[F(w)].version
      /\ ctx' \in [File -> ContextType] /\ \A f \in File \ {F(w)} : ctx'[f] = ctx[f]
  <2>1. ctx[F(w)] \in ContextType /\ n \in Int
    BY <1>0, <1>2
  <2>2. ctx' = [ctx EXCEPT ![F(w)] = [ctx[F(w)] EXCEPT !.remaining = n]]
    BY <1>1
  <2> HIDE DEF n
  <2> DEFINE c == [ctx[F(w)] EXCEPT !.remaining = n]
  <2>3. c \in ContextType /\ c.remaining = n /\ c.version = ctx[F(w)].version
    BY <2>1 DEF ContextType
  <2>4. ctx' = [ctx EXCEPT ![F(w)] = c]
    BY <2>2
  <2> HIDE DEF c
  <2> QED
    BY <1>0, <1>2, <2>3, <2>4
<1>4. n \in Nat
  BY <1>2
<1> HIDE DEF n
<1>5. /\ worker' \in [Worker -> WorkerType] /\ \A v \in Worker \ {w} : worker'[v] = worker[v]
      /\ IF n = 0 THEN worker'[w].pc = "cleanup" /\ worker'[w].task = worker[w].task ELSE worker'[w].pc = "ready"
  <2>1. CASE n = 0
    <3>1. Step(w, "cleanup")
      BY <1>1, <1>3, <2>1 DEF Step
    <3> QED
      BY <1>0, <2>1, <3>1, StepFact DEF Finishing
  <2>2. CASE n # 0
    <3>1. worker' = [worker EXCEPT ![w] = [pc |-> "ready", task |-> Absent]]
      BY <1>1, <1>3, <2>2 DEF Ready
    <3> QED
      BY <1>0, <2>2, <3>1, WorkerGoes
  <2> QED
    BY <2>1, <2>2
<1>6. TypeInv'
  <2>1. DiskType' /\ PoolType'
    BY <1>0, <1>1, <1>5 DEF DiskType, PoolType
  <2> QED
    BY <1>0, <1>1, <1>3, <2>1 DEF TypeInv, UploaderType, CachedType, uploader
<1>7. Moved(w) /\ worker'[w].pc \notin Busy
  BY <1>1, <1>3, <1>5 DEF Moved, Busy
<1>8. PhaseInv' /\ DoneInv' /\ FinalWhole'
  BY <1>1, <1>7, MovedPhase DEF IInv, FinalWhole
<1>9. /\ worker[w].task \notin queue \cup failed /\ queue \cap failed = {}
      /\ part[F(w)][I(w)] = ctx[F(w)].version
      /\ \A v \in Worker : worker[v].pc \in {"record", "count"} => part[F(v)][I(v)] = ctx[F(v)].version
      /\ \A v \in Worker \ {w} : worker[v].pc \in Busy => worker[v].task # worker[w].task
  BY <1>0, <1>1 DEF TaskInv, Busy
<1>10. TaskInv'
  BY <1>1, <1>7, <1>9, MovedTasks
<1>11. FinishInv'
  <2>1. ASSUME NEW v \in Worker \ {w}, worker[v].pc \in Finishing
        PROVE  F(v) \in File /\ F(v) # F(w) /\ ctx'[F(v)] = ctx[F(v)]
    <3>1. worker[v].task \in Task /\ ctx[F(v)].remaining = 0
      BY <1>0, <2>1 DEF FinishInv
    <3>2. F(v) \in File /\ F(v) # F(w)
      BY <1>2, <3>1, TaskFact DEF F
    <3> QED
      BY <1>3, <3>2
  <2>2. part[F(w)] # Absent
    BY <1>2
  <2>3. worker'[w].pc \in Finishing => n = 0 /\ worker'[w].task = worker[w].task
    BY <1>5 DEF Finishing
  <2>4. ASSUME NEW v \in Worker, worker'[v].pc \in Finishing
        PROVE  /\ worker'[v].task \in Task
               /\ ctx'[F(v)'].version # 0 /\ ctx'[F(v)'].remaining = 0 /\ part'[F(v)'] # Absent
    <3>1. CASE v = w
      BY <1>1, <1>2, <1>3, <2>2, <2>3, <2>4, <3>1 DEF F
    <3>2. CASE v # w
      <4>1. worker'[v] = worker[v] /\ F(v)' = F(v) /\ worker[v].pc \in Finishing
        BY <1>5, <2>4, <3>2 DEF F
      <4> QED
        BY <1>0, <1>1, <2>1, <3>2, <4>1 DEF FinishInv
    <3> QED
      BY <3>1, <3>2
  <2>5. ASSUME NEW v \in Worker, NEW u \in Worker, v # u, worker'[v].pc \in Finishing, worker'[u].pc \in Finishing
        PROVE  F(v)' # F(u)'
    BY <1>0, <1>5, <2>1, <2>3, <2>5 DEF FinishInv, F
  <2> QED
    BY <2>4, <2>5 DEF FinishInv
<1>12. CountInv'
  <2>1. ASSUME NEW f \in File, ctx'[f].version # 0, f # F(w)
        PROVE  /\ Cardinality(Left(f)') <= ctx'[f].remaining
               /\ ctx'[f].remaining > 0 => part'[f] # Absent /\ side'[f] # Absent
               /\ ctx'[f].remaining = 0 /\ ~ctx'[f].error => final'[f] # Absent \/ Finishes(f)'
    <3>1. ctx'[f] = ctx[f]
      BY <1>3, <2>1
    <3>2. Left(f)' \subseteq Left(f)
      BY <1>1, <1>7, <3>1, MovedAssigned DEF Left, Missing
    <3>3. Cardinality(Left(f)') <= ctx'[f].remaining
      BY <2>1, <3>1, <3>2, CountKept
    <3>4. Finishes(f) => Finishes(f)'
      BY <1>1, <1>5 DEF Finishes, Finishing, F
    <3> QED
      BY <1>1, <2>1, <3>1, <3>3, <3>4 DEF IInv, CountInv
  <2>2. ASSUME NEW f \in File, ctx'[f].version # 0, f = F(w)
        PROVE  /\ Cardinality(Left(f)') <= ctx'[f].remaining
               /\ ctx'[f].remaining > 0 => part'[f] # Absent /\ side'[f] # Absent
               /\ ctx'[f].remaining = 0 /\ ~ctx'[f].error => final'[f] # Absent \/ Finishes(f)'
    <3>0. PICK i \in Chunks[f] : i = I(w) /\ worker[w].task = <<f, i>> /\ i \in Left(f)
      BY <1>2, <2>2
    <3>1. part[f] # Absent /\ part[f][i] = ctx[f].version /\ ctx'[f].version = ctx[f].version
      BY <1>2, <1>3, <1>9, <2>2, <3>0
    <3>2. n = 0 => Finishes(f)'
      BY <1>2, <1>5, <2>2 DEF Finishes, Finishing, F
    <3>3. i \notin Missing(f)' /\ Missing(f)' \subseteq Missing(f)
      BY <1>1, <3>1 DEF Missing
    <3>4. i \notin Assigned(f)'
      <4>1. \A v \in Worker : worker'[v].pc \in Busy => worker'[v].task # <<f, i>>
        BY <1>5, <1>7, <1>9, <3>0
      <4> QED
        BY <1>1, <1>9, <3>0, <4>1 DEF Assigned
    <3>5. Left(f)' \in SUBSET (Left(f) \ {i})
      BY <1>7, <3>3, <3>4, MovedAssigned DEF Left
    <3>6. /\ Cardinality(Left(f)') <= Cardinality(Left(f)) - 1
          /\ Cardinality(Left(f)) \in Nat /\ Cardinality(Left(f)') \in Nat
      BY <3>0, <3>5, LeftChunks, LeftWithout, LeftFinite
    <3>7. Cardinality(Left(f)) <= ctx[f].remaining /\ ctx[f].remaining \in Int /\ n = ctx[f].remaining - 1
      BY <1>2, <2>2 DEF IInv, CountInv, n
    <3>8. Cardinality(Left(f)') <= n
      BY <3>6, <3>7
    <3>9. part[f] # Absent /\ side[f] # Absent
      BY <1>2, <2>2 DEF IInv, CountInv
    <3> QED
      BY <1>1, <1>3, <2>2, <3>2, <3>8, <3>9
  <2> QED
    BY <2>1, <2>2 DEF CountInv
<1> QED
  BY <1>6, <1>8, <1>10, <1>11, <1>12 DEF IInv

\* What CleanupSidecar, RemoveOld, Rename and FinalizeFails have in common.
LEMMA FinishStep ==
  ASSUME IInv, TypeInv', NEW w \in Worker, worker[w].pc \in Finishing, NEW g \in File, g = F(w),
         UNCHANGED <<call, queue, failed>>,
         \A v \in Worker \ {w} : worker'[v] = worker[v],
         \/ worker'[w].pc \in Finishing /\ worker'[w].task = worker[w].task /\ part'[g] = part[g]
         \/ worker'[w].pc = "ready" /\ part'[g] \in {part[g], Absent} /\ (final'[g] # Absent \/ ctx'[g].error),
         \A f \in File : ctx'[f].version = ctx[f].version /\ ctx'[f].remaining = ctx[f].remaining,
         \A f \in File \ {g} : /\ part'[f] = part[f] /\ side'[f] = side[f] /\ final'[f] = final[f]
                               /\ ctx'[f] = ctx[f],
         final'[g] \in {final[g], part[g], Absent}
  PROVE  IInv'
<1>0. TypeInv /\ PoolType /\ TaskInv /\ DiskType /\ FinishInv /\ FinalWhole
  BY DEF IInv, TypeInv
<1>1. /\ ctx[g].version \in 1 .. MaxVersion /\ ctx[g].remaining = 0 /\ Left(g) = {}
      /\ part[g] \in Content(g) /\ \A i \in Chunks[g] : part[g][i] = ctx[g].version
  BY FinishingWhole
<1>2. ctx[g].version # 0 /\ part[g] # Absent
  BY <1>1
<1>3. Moved(w)
  BY DEF Moved, Busy, Finishing
<1>4. PhaseInv' /\ DoneInv'
  BY <1>2, <1>3, MovedPhase
<1>5. FinalWhole'
  BY <1>0, <1>1 DEF FinalWhole
<1>6. TaskInv'
  <2>1. ASSUME NEW v \in Worker, worker[v].pc \in Busy
        PROVE  F(v) \in File /\ F(v) # g
    BY <1>1, <2>1, BusyCounts
  <2>2. ASSUME NEW v \in Worker \ {w}, worker[v].pc \in {"record", "count"}
        PROVE  part'[F(v)][I(v)] = ctx[F(v)].version
    BY <1>0, <2>1, <2>2 DEF TaskInv, Busy
  <2>3. worker'[w].pc \notin Busy /\ queue \cap failed = {}
    BY <1>0 DEF Busy, Finishing, TaskInv
  <2> QED
    BY <1>3, <2>2, <2>3, MovedTasks
<1>7. \A v \in Worker \ {w} : worker[v].pc \in Finishing => F(v) \in File /\ F(v) # g
  BY <1>0, TaskFact DEF FinishInv, F
<1>8. FinishInv'
  <2>1. ASSUME NEW v \in Worker, worker'[v].pc \in Finishing
        PROVE  worker[v].pc \in Finishing /\ worker'[v].task = worker[v].task /\ F(v)' = F(v)
               /\ F(v) \in File /\ part'[F(v)] # Absent
    <3>1. CASE v = w
      BY <1>2, <2>1, <3>1 DEF F, Finishing
    <3>2. CASE v # w
      <4>1. worker'[v] = worker[v]
        BY <3>2
      <4>2. part[F(v)] # Absent /\ F(v) \in File /\ F(v) # g
        BY <1>0, <1>7, <2>1, <3>2, <4>1 DEF FinishInv
      <4> QED
        BY <2>1, <4>1, <4>2 DEF F
    <3> QED
      BY <3>1, <3>2
  <2> QED
    BY <1>0, <2>1 DEF FinishInv
<1>9. CountInv'
  <2>1. ASSUME NEW f \in File, ctx'[f].version # 0
        PROVE  /\ Cardinality(Left(f)') <= ctx'[f].remaining
               /\ ctx'[f].remaining > 0 => part'[f] # Absent /\ side'[f] # Absent
               /\ ctx'[f].remaining = 0 /\ ~ctx'[f].error => final'[f] # Absent \/ Finishes(f)'
    <3>1. Missing(f)' \subseteq Missing(f)
      BY DEF Missing
    <3>2. Left(f)' \subseteq Left(f)
      BY <1>3, <3>1, MovedAssigned DEF Left
    <3>3. Cardinality(Left(f)') <= ctx'[f].remaining
      BY <2>1, <3>2, CountKept
    <3>4. CASE f = g
      <4>1. worker'[w].pc \in Finishing => worker'[w].task = worker[w].task
        BY DEF Finishing
      <4>2. worker'[w].pc \in Finishing => Finishes(f)'
        BY <3>4, <4>1 DEF Finishes, F
      <4>3. worker'[w].pc \notin Finishing => final'[g] # Absent \/ ctx'[g].error
        OBVIOUS
      <4> QED
        BY <1>1, <3>3, <3>4, <4>2, <4>3
    <3>5. CASE f # g
      <4>1. Finishes(f) => Finishes(f)'
        BY <3>5 DEF Finishes, F
      <4> QED
        BY <2>1, <3>3, <3>5, <4>1 DEF IInv, CountInv
    <3> QED
      BY <3>4, <3>5
  <2> QED
    BY <2>1 DEF CountInv
<1> QED
  BY <1>4, <1>5, <1>6, <1>8, <1>9 DEF IInv

LEMMA FinalizeSteps ==
  ASSUME IInv, NEW w \in Worker, CleanupSidecar(w) \/ RemoveOld(w) \/ Rename(w) \/ FinalizeFails(w)
  PROVE  IInv'
<1>0. TypeInv /\ PoolType /\ DiskType /\ ctx \in [File -> ContextType]
  BY DEF IInv, TypeInv
<1>1. /\ UNCHANGED <<uploader, cached, call, queue, failed, ncalls>> /\ worker[w].pc \in Finishing
  BY DEF CleanupSidecar, RemoveOld, Rename, FinalizeFails, Works, Finishing
<1>2. PICK g \in File : g = F(w) /\ part[g] \in Content(g)
  BY <1>1, FinishingWhole
<1>3. ASSUME DiskType', worker' \in [Worker -> WorkerType], ctx' \in [File -> ContextType]
      PROVE  TypeInv'
  BY <1>0, <1>1, <1>3 DEF TypeInv, UploaderType, CachedType, PoolType, uploader
<1>4. ASSUME Step(w, "remove") \/ Step(w, "rename")
      PROVE  /\ worker' \in [Worker -> WorkerType] /\ worker'[w].pc \in Finishing
             /\ worker'[w].task = worker[w].task /\ \A v \in Worker \ {w} : worker'[v] = worker[v]
  BY <1>0, <1>4, StepFact DEF Finishing
<1>5. ASSUME worker' = [worker EXCEPT ![w] = Ready]
      PROVE  /\ worker' \in [Worker -> WorkerType] /\ worker'[w].pc = "ready"
             /\ \A v \in Worker \ {w} : worker'[v] = worker[v]
  BY <1>0, <1>5, WorkerGoes DEF Ready
<1>6. CASE CleanupSidecar(w)
  <2>1. Step(w, "remove") /\ side' = [side EXCEPT ![g] = Absent] /\ UNCHANGED <<part, final, ctx>>
    BY <1>2, <1>6 DEF CleanupSidecar
  <2>2. DiskType' /\ \A f \in File \ {g} : side'[f] = side[f]
    BY <1>0, <2>1 DEF DiskType
  <2>3. TypeInv'
    BY <1>0, <1>3, <1>4, <2>1, <2>2
  <2> QED
    BY <1>1, <1>2, <1>4, <2>1, <2>2, <2>3, FinishStep
<1>7. CASE RemoveOld(w)
  <2>1. Step(w, "rename") /\ final' = [final EXCEPT ![g] = Absent] /\ UNCHANGED <<part, side, ctx>>
    BY <1>2, <1>7 DEF RemoveOld
  <2>2. DiskType' /\ final'[g] = Absent /\ \A f \in File \ {g} : final'[f] = final[f]
    BY <1>0, <2>1 DEF DiskType
  <2>3. TypeInv'
    BY <1>0, <1>3, <1>4, <2>1, <2>2
  <2> QED
    BY <1>1, <1>2, <1>4, <2>1, <2>2, <2>3, FinishStep
<1>8. CASE Rename(w)
  <2>1. /\ worker' = [worker EXCEPT ![w] = Ready] /\ final' = [final EXCEPT ![g] = part[g]]
        /\ part' = [part EXCEPT ![g] = Absent] /\ UNCHANGED <<side, ctx>>
    BY <1>2, <1>8 DEF Rename
  <2>2. /\ DiskType' /\ final'[g] = part[g] /\ part'[g] = Absent
        /\ \A f \in File \ {g} : final'[f] = final[f] /\ part'[f] = part[f]
    BY <1>0, <1>2, <2>1 DEF DiskType
  <2>3. TypeInv'
    BY <1>0, <1>3, <1>5, <2>1, <2>2
  <2>4. final'[g] # Absent
    BY <1>2, <2>2
  <2> QED
    BY <1>1, <1>2, <1>5, <2>1, <2>2, <2>3, <2>4, FinishStep
<1>9. CASE FinalizeFails(w)
  <2>1. /\ worker' = [worker EXCEPT ![w] = Ready] /\ ctx' = [ctx EXCEPT ![g].error = TRUE]
        /\ UNCHANGED <<part, side, final>>
    BY <1>2, <1>9 DEF FinalizeFails, disk
  <2>2. /\ ctx' \in [File -> ContextType] /\ ctx'[g].error /\ \A f \in File \ {g} : ctx'[f] = ctx[f]
        /\ \A f \in File : ctx'[f].version = ctx[f].version /\ ctx'[f].remaining = ctx[f].remaining
    <3> DEFINE c == [ctx[g] EXCEPT !.error = TRUE]
    <3>1. ctx[g] \in ContextType
      BY <1>0
    <3>2. c.version = ctx[g].version /\ c.remaining = ctx[g].remaining /\ c.error
      BY <3>1 DEF ContextType
    <3>3. c \in ContextType
      BY <3>1 DEF ContextType
    <3>4. ctx' = [ctx EXCEPT ![g] = c]
      BY <2>1
    <3> HIDE DEF c
    <3> QED
      BY <1>0, <3>2, <3>3, <3>4
  <2>3. DiskType'
    BY <1>0, <2>1 DEF DiskType
  <2>4. TypeInv'
    BY <1>3, <1>5, <2>1, <2>2, <2>3
  <2> QED
    BY <1>1, <1>2, <1>5, <2>1, <2>2, <2>4, FinishStep
<1> QED
  BY <1>6, <1>7, <1>8, <1>9

LEMMA WorkerSteps ==
  ASSUME IInv, NEW w \in Worker, WorkerStep(w)
  PROVE  IInv'
  BY QuietStep, WriteAtStep, RecordChunkStep, CountDownStep, FinalizeSteps DEF WorkerStep

-----------------------------------------------------------------------------
(* Steps of the call.  No worker runs before and after them.               *)

\* Nobody has a task in hand.
Resting == \A w \in Worker : worker[w].pc \notin Busy \cup Finishing

LEMMA RestingPhase ==
  ASSUME IInv, call.pc # "pool" \/ EndRound
  PROVE  Resting /\ \A w \in Worker : Works(w, "out")
<1>1. \A w \in Worker : Works(w, "out")
  BY DEF IInv, PhaseInv, EndRound
<1> QED
  BY <1>1 DEF Resting, Works, Busy, Finishing

\* Tasks are dropped, or handed out again.
LEMMA Regrouped ==
  ASSUME IInv, Resting, Resting', UNCHANGED <<disk, ctx>>,
         failed' = {}, queue' \subseteq queue \cup failed
  PROVE  TaskInv' /\ FinishInv' /\ CountInv' /\ FinalWhole'
<1>1. TaskInv'
  BY DEF IInv, TaskInv, Resting
<1>2. FinishInv'
  BY DEF FinishInv, Resting
<1>3. FinalWhole'
  BY DEF IInv, FinalWhole, disk
<1>4. CountInv'
  <2> SUFFICES ASSUME NEW f \in File, ctx[f].version # 0
               PROVE  /\ Cardinality(Left(f)') <= ctx[f].remaining
                      /\ ctx[f].remaining > 0 => part[f] # Absent /\ side[f] # Absent
                      /\ ctx[f].remaining = 0 /\ ~ctx[f].error => final[f] # Absent \/ Finishes(f)'
    BY DEF CountInv, disk
  <2>1. Assigned(f)' \subseteq Assigned(f)
    BY DEF Assigned, Resting
  <2>2. Left(f)' \subseteq Left(f)
    BY <2>1 DEF Left, Missing, disk
  <2>3. Cardinality(Left(f)') <= ctx[f].remaining
    BY <2>2, CountKept
  <2>4. ~Finishes(f)
    BY DEF Finishes, Resting
  <2> QED
    BY <2>3, <2>4 DEF IInv, CountInv
<1> QED
  BY <1>1, <1>2, <1>3, <1>4

\* A round begins, or the result is collected: a file without an error whose counter is
\* zero is at its final path.
LEMMA BeginRoundStep ==
  ASSUME IInv, DownloadDirectory \/ EndRound
  PROVE  IInv'
<1>0. TypeInv /\ TypeInv' /\ PoolType /\ call \in CallType /\ PhaseInv /\ DoneInv /\ CountInv
  BY CallStepType DEF IInv, TypeInv
<1>1. PICK tasks \in SUBSET Task, round \in Int :
        BeginRound(tasks, round) /\ tasks \subseteq queue \cup failed
  BY <1>0, CallFields DEF DownloadDirectory, EndRound, PoolType
<1>2. UNCHANGED <<disk, ctx>> /\ call.pc \in {"prepare", "pool"}
  BY DEF DownloadDirectory, EndRound
<1>3. Resting /\ \A w \in Worker : worker[w].pc = "out"
  BY RestingPhase DEF DownloadDirectory, Works
<1>4. /\ failed' = {}
      /\ \/ /\ call'.pc = "pool" /\ call'.done = call.done
            /\ queue' = tasks /\ worker' = [w \in Worker |-> Ready]
         \/ /\ call'.pc = "report" /\ call'.done = call.done \cup (Contexts \ Unfinished(tasks))
            /\ queue' = {} /\ worker' = worker
  BY <1>0, <1>1, BeginRoundFact
<1>5. Resting'
  BY <1>3, <1>4 DEF Resting, Ready, Busy, Finishing
<1>6. TaskInv' /\ FinishInv' /\ CountInv' /\ FinalWhole'
  BY <1>1, <1>2, <1>3, <1>4, <1>5, Regrouped
<1>7. PhaseInv'
  BY <1>3, <1>4 DEF PhaseInv, Works
<1>8. DoneInv'
  <2>1. ASSUME NEW f \in Contexts \ Unfinished(tasks)
        PROVE  final[f] # Absent
    <3>1. f \in File /\ ctx[f].version # 0 /\ ~(ctx[f].remaining > 0) /\ ~ctx[f].error
      BY DEF Contexts, Unfinished
    <3>2. ctx[f].remaining \in Int /\ Cardinality(Left(f)) <= ctx[f].remaining
      BY <1>0, <3>1 DEF TypeInv, ContextType, CountInv
    <3>3. Cardinality(Left(f)) \in Nat
      BY <3>1, LeftChunks, LeftFinite
    <3>4. ctx[f].remaining = 0
      BY <3>1, <3>2, <3>3
    <3>5. ~Finishes(f)
      BY <1>3 DEF Finishes, Resting
    <3> QED
      BY <1>0, <3>1, <3>4, <3>5 DEF CountInv
  <2> QED
    BY <1>0, <1>2, <1>4, <2>1 DEF DoneInv, disk
<1> QED
  BY <1>0, <1>6, <1>7, <1>8 DEF IInv

LEMMA PrepareCancelledStep ==
  ASSUME IInv, PrepareCancelled
  PROVE  IInv'
<1>0. TypeInv' /\ PhaseInv
  BY CallStepType DEF IInv
<1>1. /\ call.pc = "prepare" /\ call' = NoCall /\ queue' = {}
      /\ UNCHANGED <<disk, ctx, failed, worker>>
  BY DEF PrepareCancelled
<1>2. Resting /\ failed = {} /\ \A w \in Worker : Works(w, "out")
  BY <1>0, <1>1, RestingPhase DEF PhaseInv
<1>3. TaskInv' /\ FinishInv' /\ CountInv' /\ FinalWhole'
  <2>1. Resting'
    BY <1>1, <1>2 DEF Resting
  <2> QED
    BY <1>1, <1>2, <2>1, Regrouped
<1>4. PhaseInv' /\ DoneInv'
  BY <1>1, <1>2, NoCallType DEF PhaseInv, DoneInv, Works
<1> QED
  BY <1>0, <1>3, <1>4 DEF IInv

\* The contexts are cleared, by a new call or by a crash.
LEMMA ClearedStep ==
  ASSUME IInv, GetDirectory \/ Crash
  PROVE  IInv'
<1>0. TypeInv' /\ PhaseInv
  BY CallStepType DEF IInv
<1>1. /\ UNCHANGED disk /\ ctx' = [f \in File |-> NoContext] /\ queue' = {} /\ failed' = {}
      /\ \A w \in Worker : worker'[w].pc = "out"
  <2>1. CASE GetDirectory
    BY <1>0, <2>1 DEF GetDirectory, PhaseInv, Works, pool
  <2>2. CASE Crash
    BY <2>2 DEF Crash, Out
  <2> QED
    BY <2>1, <2>2
<1>2. call'.done = {} /\ call'.pc # "pool"
  BY NoCallType DEF GetDirectory, Crash
<1>3. \A f \in File : ctx'[f].version = 0
  BY <1>1 DEF NoContext
<1>4. PhaseInv' /\ DoneInv'
  BY <1>1, <1>2, <1>3 DEF PhaseInv, DoneInv, Works
<1>5. TaskInv' /\ FinishInv'
  BY <1>1 DEF TaskInv, FinishInv, Busy, Finishing
<1>6. CountInv' /\ FinalWhole'
  BY <1>1, <1>3 DEF CountInv, IInv, FinalWhole, disk
<1> QED
  BY <1>0, <1>4, <1>5, <1>6 DEF IInv

\* Steps of the uploader and the cancelling of the call.
LEMMA ElsewhereStep ==
  ASSUME IInv, TypeInv', UNCHANGED <<disk, ctx, pool>>, call'.pc = call.pc,
         call'.next = call.next, call'.done = call.done
  PROVE  IInv'
<1>1. PhaseInv' /\ DoneInv'
  BY DEF IInv, PhaseInv, DoneInv, Works, disk, pool
<1>2. TaskInv' /\ FinishInv'
  BY DEF IInv, TaskInv, FinishInv, F, I, disk, pool
<1>3. CountInv' /\ FinalWhole'
  <2>1. \A f \in File : Left(f)' = Left(f) /\ Finishes(f)' = Finishes(f)
    BY DEF Left, Missing, Assigned, Finishes, F, disk, pool
  <2> QED
    BY <2>1 DEF IInv, CountInv, FinalWhole, disk
<1> QED
  BY <1>1, <1>2, <1>3 DEF IInv

-----------------------------------------------------------------------------
(* A file is prepared.                                                     *)

\* Before it is prepared, a file has no context and no tasks.
LEMMA AtFact ==
  ASSUME IInv, NEW f \in File, At(f)
  PROVE  /\ call.pc = "prepare" /\ ctx[f].version = 0 /\ f \notin call.done /\ Resting /\ failed = {}
         /\ \A t \in queue : t[1] # f
<1>1. call.pc = "prepare" /\ call.next = f /\ f >= call.next
  BY FileFact DEF At
<1>2. ctx[f].version = 0 /\ f \notin call.done /\ failed = {}
  BY <1>1 DEF IInv, PhaseInv
<1>3. Resting
  BY <1>1, RestingPhase
<1>4. \A t \in queue : t[1] # f
  BY <1>2 DEF IInv, TaskInv
<1> QED
  BY <1>1, <1>2, <1>3, <1>4

\* The other files, and the place in the list.
LEMMA PreparedOthers ==
  ASSUME IInv, NEW f \in File, At(f), NEW done \in BOOLEAN, Prepared(f, done),
         UNCHANGED <<failed, worker>>, queue \subseteq queue',
         \A t \in queue' : t[1] # f => t \in queue,
         \A g \in File \ {f} : /\ part'[g] = part[g] /\ side'[g] = side[g] /\ final'[g] = final[g]
                               /\ ctx'[g] = ctx[g]
  PROVE  /\ PhaseInv' /\ FinishInv'
         /\ \A g \in File \ {f} : ctx'[g].version # 0 =>
              /\ Cardinality(Left(g)') <= ctx'[g].remaining
              /\ ctx'[g].remaining > 0 => part'[g] # Absent /\ side'[g] # Absent
              /\ ctx'[g].remaining = 0 /\ ~ctx'[g].error => final'[g] # Absent \/ Finishes(g)'
<1>1. /\ call' \in CallType /\ call'.next = f + 1 /\ call'.pc = "prepare" /\ call.next = f
      /\ call'.done = IF done THEN call.done \cup {f} ELSE call.done
  BY PreparedFact DEF IInv, TypeInv, At
<1>2. Resting /\ failed = {} /\ \A w \in Worker : Works(w, "out")
  BY AtFact, RestingPhase DEF At
<1>3. PhaseInv'
  <2>1. ASSUME NEW g \in File, g >= f + 1
        PROVE  ctx'[g].version = 0 /\ g \notin call'.done
    <3>0. f \in Int /\ g \in Int
      BY FileFact
    <3>1. g # f /\ g >= call.next
      BY <1>1, <2>1, <3>0
    <3> QED
      BY <1>1, <3>1 DEF IInv, PhaseInv, At
  <2> QED
    BY <1>1, <1>2, <2>1 DEF PhaseInv, Works
<1>4. FinishInv'
  BY <1>2 DEF FinishInv, Resting
<1>5. ASSUME NEW g \in File \ {f}, ctx'[g].version # 0
      PROVE  /\ Cardinality(Left(g)') <= ctx'[g].remaining
             /\ ctx'[g].remaining > 0 => part'[g] # Absent /\ side'[g] # Absent
             /\ ctx'[g].remaining = 0 /\ ~ctx'[g].error => final'[g] # Absent \/ Finishes(g)'
  <2>1. Assigned(g)' \subseteq Assigned(g)
    BY DEF Assigned
  <2>2. Left(g)' \subseteq Left(g)
    BY <2>1 DEF Left, Missing
  <2>3. Cardinality(Left(g)') <= ctx'[g].remaining
    BY <1>5, <2>2, CountKept
  <2>4. Finishes(g)' <=> Finishes(g)
    BY DEF Finishes, F
  <2> QED
    BY <1>5, <2>3, <2>4 DEF IInv, CountInv
<1> QED
  BY <1>3, <1>4, <1>5

\* The file is complete already, is renamed at once, or is left out.
LEMMA NoContextStep ==
  ASSUME IInv, NEW f \in File, NEW v \in Version,
         FileOnDisk(f) \/ SkipFile(f) \/ (v # 0 /\ FinalizeAtOnce(f, v))
  PROVE  IInv'
<1>0. TypeInv /\ TypeInv' /\ DiskType /\ call \in CallType /\ DoneInv /\ FinalWhole /\ TaskInv
  BY PrepareType DEF IInv, TypeInv
<1>1. At(f) /\ UNCHANGED <<ctx, queue, failed, worker>>
  BY DEF FileOnDisk, SkipFile, FinalizeAtOnce, pool
<1>2. PICK done \in BOOLEAN : Prepared(f, done) /\ (done <=> ~SkipFile(f) \/ FileOnDisk(f))
  <2>1. FileOnDisk(f) => Prepared(f, TRUE)
    BY DEF FileOnDisk
  <2>2. SkipFile(f) => Prepared(f, FALSE) /\ ~FileOnDisk(f)
    BY DEF SkipFile, FileOnDisk
  <2>3. FinalizeAtOnce(f, v) => Prepared(f, TRUE)
    BY DEF FinalizeAtOnce
  <2> QED
    BY <2>1, <2>2, <2>3
<1>3. \A g \in File \ {f} : part'[g] = part[g] /\ side'[g] = side[g] /\ final'[g] = final[g]
  BY <1>0 DEF FileOnDisk, SkipFile, FinalizeAtOnce, disk, DiskType
<1>4. /\ call.pc = "prepare" /\ ctx[f].version = 0 /\ f \notin call.done /\ Resting
      /\ call'.pc = "prepare" /\ call'.done \subseteq call.done \cup {f} /\ (f \in call'.done => done)
  BY <1>0, <1>1, <1>2, AtFact, PreparedFact
<1>5. PhaseInv' /\ FinishInv' /\ CountInv'
  BY <1>1, <1>2, <1>3, <1>4, PreparedOthers DEF CountInv
<1>6. TaskInv'
  BY <1>0, <1>1, <1>4 DEF TaskInv, Resting
<1>7. /\ done /\ Chunks[f] # {} => final'[f] # Absent
      /\ final'[f] # Absent => \E u \in 1 .. MaxVersion : \A i \in Chunks[f] : final'[f][i] = u
  <2>1. CASE FileOnDisk(f)
    BY <1>0, <2>1 DEF FileOnDisk, SizeMatches, FinalWhole
  <2>2. CASE SkipFile(f)
    <3>1. ~done /\ final' = final
      BY <1>2, <2>2 DEF SkipFile, FileOnDisk, disk
    <3> QED
      BY <1>0, <3>1 DEF FinalWhole
  <2>3. CASE v # 0 /\ FinalizeAtOnce(f, v)
    <3>1. SkipSet(f, v) = Chunks[f] /\ final'[f] = part[f] /\ v \in 1 .. MaxVersion
      BY <1>0, <2>3 DEF FinalizeAtOnce, DiskType, Version
    <3>2. Chunks[f] # {} => part[f] # Absent
      BY <3>1 DEF SkipSet
    <3>3. \A i \in Chunks[f] : part[f][i] = v
      BY <3>1 DEF SkipSet
    <3> QED
      BY <3>1, <3>2, <3>3
  <2> QED
    BY <2>1, <2>2, <2>3
<1>8. DoneInv' /\ FinalWhole'
  <2>1. call.done \subseteq File
    BY <1>0, CallFields
  <2>2. FinalWhole'
    BY <1>0, <1>3, <1>7 DEF FinalWhole
  <2>3. DoneInv'
    BY <1>0, <1>1, <1>3, <1>4, <1>7, <2>1 DEF DoneInv
  <2> QED
    BY <2>2, <2>3
<1> QED
  BY <1>0, <1>5, <1>6, <1>8 DEF IInv

\* A context is opened: every chunk but those that are right already is a task.
LEMMA OpenContextStep ==
  ASSUME IInv, NEW f \in File, NEW v \in 1 .. MaxVersion, OpenContext(f, v)
  PROVE  IInv'
<1> v \in Version
  BY DEF Version
<1>0. TypeInv /\ TypeInv' /\ DiskType /\ DoneInv /\ FinalWhole /\ TaskInv
      /\ call \in CallType /\ ctx \in [File -> ContextType]
  BY PrepareType DEF IInv, TypeInv
<1>1. PICK T \in SUBSET Chunks[f] : T = Chunks[f] \ SkipSet(f, v)
  OBVIOUS
<1>2. /\ At(f) /\ Prepared(f, FALSE) /\ UNCHANGED <<final, failed, worker>> /\ SkipSet(f, v) # Chunks[f]
      /\ queue' = queue \cup ({f} \X T)
      /\ ctx' = [ctx EXCEPT ![f] = [version |-> v, error |-> FALSE, remaining |-> Cardinality(T)]]
  BY <1>1 DEF OpenContext
<1>3. /\ ctx'[f].version = v /\ ctx'[f].remaining = Cardinality(T) /\ \A g \in File \ {f} : ctx'[g] = ctx[g]
  BY <1>0, <1>2
<1>4. Cardinality(T) \in Nat /\ Cardinality(T) # 0
  <2>1. T # {}
    BY <1>0, <1>1, <1>2, SkipSetFact
  <2> QED
    BY <2>1, LeftFinite
<1>5. /\ part'[f] # Absent /\ side'[f] # Absent
      /\ \A g \in File \ {f} : part'[g] = part[g] /\ side'[g] = side[g]
      /\ \A i \in SkipSet(f, v) : part'[f][i] = v
  <2>1. [i \in Chunks[f] |-> 0] # Absent
    <3>1. [i \in Chunks[f] |-> 0] \in Content(f)
      BY DEF Content, Version
    <3> QED
      BY <3>1
  <2>2. [version |-> v, log |-> {}] # Absent
    <3>1. [version |-> v, log |-> {}] \in Sidecar(f)
      BY <1>0 DEF Sidecar
    <3> QED
      BY <3>1
  <2>3. /\ side' = [side EXCEPT ![f] = IF side[f] = Absent \/ side[f].version # v
                                         THEN [version |-> v, log |-> {}] ELSE side[f]]
        /\ part' = [part EXCEPT ![f] = IF part[f] = Absent \/ (side[f] # Absent /\ side[f].version # v)
                                         THEN [i \in Chunks[f] |-> 0] ELSE part[f]]
    BY DEF OpenContext
  <2>4. part'[f] # Absent /\ \A g \in File \ {f} : part'[g] = part[g]
    BY <1>0, <2>1, <2>3 DEF DiskType
  <2>5. side'[f] # Absent /\ \A g \in File \ {f} : side'[g] = side[g]
    BY <1>0, <2>2, <2>3 DEF DiskType
  <2>6. ASSUME NEW i \in SkipSet(f, v)
        PROVE  part'[f][i] = v
    <3>1. side[f] # Absent /\ side[f].version = v /\ part[f] # Absent /\ part[f][i] = v
      BY DEF SkipSet
    <3>2. part'[f] = part[f]
      BY <1>0, <2>3, <3>1 DEF DiskType
    <3> QED
      BY <3>1, <3>2
  <2> QED
    BY <2>4, <2>5, <2>6
<1>6. /\ call.pc = "prepare" /\ ctx[f].version = 0 /\ f \notin call.done /\ Resting /\ failed = {}
      /\ \A t \in queue : t[1] # f
      /\ call'.pc = "prepare" /\ call'.done = call.done
  BY <1>0, <1>2, AtFact, PreparedFact
<1>7. /\ PhaseInv' /\ FinishInv'
      /\ \A g \in File \ {f} : ctx'[g].version # 0 =>
           /\ Cardinality(Left(g)') <= ctx'[g].remaining
           /\ ctx'[g].remaining > 0 => part'[g] # Absent /\ side'[g] # Absent
           /\ ctx'[g].remaining = 0 /\ ~ctx'[g].error => final'[g] # Absent \/ Finishes(g)'
  <2>1. queue \subseteq queue' /\ \A t \in queue' : t[1] # f => t \in queue
    BY <1>2
  <2> QED
    BY <1>2, <1>3, <1>5, <2>1, PreparedOthers
<1>8. CountInv'
  <2>1. Missing(f)' \subseteq T
    BY <1>1, <1>3, <1>5 DEF Missing
  <2>2. Assigned(f)' \subseteq T
    BY <1>2, <1>6 DEF Assigned, Resting
  <2>3. Left(f)' \in SUBSET T
    BY <2>1, <2>2 DEF Left
  <2>4. Cardinality(Left(f)') <= ctx'[f].remaining
    BY <1>3, <2>3, LeftSubset
  <2>5. ctx'[f].remaining # 0
    BY <1>3, <1>4
  <2> QED
    BY <1>5, <1>7, <2>4, <2>5 DEF CountInv
<1>9. TaskInv'
  <2>1. \A t \in queue' : ctx'[t[1]].version # 0
    <3>1. ASSUME NEW t \in queue
          PROVE  ctx'[t[1]].version # 0
      <4>1. t \in Task
        BY <1>0 DEF TypeInv, PoolType
      <4>2. t[1] \in File \ {f}
        BY <1>6, <4>1, TaskFact
      <4> QED
        BY <1>0, <1>3, <4>2 DEF TaskInv
    <3> QED
      BY <1>2, <1>3, <3>1
  <2> QED
    BY <1>2, <1>6, <2>1 DEF TaskInv, Resting
<1>10. DoneInv' /\ FinalWhole'
  <2>1. call.done \subseteq File \ {f}
    BY <1>0, <1>6, CallFields
  <2> QED
    BY <1>0, <1>2, <1>3, <1>6, <2>1 DEF DoneInv, FinalWhole
<1> QED
  BY <1>0, <1>7, <1>8, <1>9, <1>10 DEF IInv

-----------------------------------------------------------------------------
LEMMA InitIInv == Init => IInv
<1> SUFFICES ASSUME Init
             PROVE  IInv
  OBVIOUS
<1>1. TypeInv
  BY InitType
<1>2. /\ call.pc = "idle" /\ call.done = {} /\ queue = {} /\ failed = {}
      /\ \A w \in Worker : worker[w].pc = "out"
      /\ \A f \in File : ctx[f].version = 0 /\ final[f] = Absent
  BY NoCallType DEF Init, Out, NoContext
<1>3. PhaseInv /\ TaskInv /\ FinishInv
  BY <1>2 DEF PhaseInv, TaskInv, FinishInv, Works, Busy, Finishing
<1>4. CountInv /\ DoneInv /\ FinalWhole
  BY <1>2 DEF CountInv, DoneInv, FinalWhole
<1> QED
  BY <1>1, <1>3, <1>4 DEF IInv

LEMMA NextIInv == IInv /\ [Next]_vars => IInv'
<1> SUFFICES ASSUME IInv, [Next]_vars
             PROVE  IInv'
  OBVIOUS
<1>1. CASE Upload
  <2>1. UNCHANGED <<disk, call, ctx, pool>>
    BY <1>1 DEF Upload, StoreDirectory, StoreFails, WithBatch, StoreDataCollectMeta
  <2>2. TypeInv'
    BY <1>1, UploadType DEF IInv
  <2> QED
    BY <2>1, <2>2, ElsewhereStep
<1>2. CASE GetDirectory \/ Crash
  BY <1>2, ClearedStep
<1>3. CASE Prepare
  <2>1. ASSUME NEW f \in File, FileOnDisk(f) \/ SkipFile(f)
        PROVE  IInv'
    <3>1. 0 \in Version
      BY DEF Version
    <3> QED
      BY <2>1, <3>1, NoContextStep
  <2>2. ASSUME NEW f \in File, NEW v \in 1 .. MaxVersion, FinalizeAtOnce(f, v) \/ OpenContext(f, v)
        PROVE  IInv'
    <3>1. v \in Version /\ v # 0
      BY DEF Version
    <3> QED
      BY <2>2, <3>1, NoContextStep, OpenContextStep
  <2> QED
    BY <1>3, <2>1, <2>2, PrepareCancelledStep, BeginRoundStep DEF Prepare
<1>4. CASE EndRound
  BY <1>4, BeginRoundStep
<1>5. CASE Cancel
  <2>1. UNCHANGED <<disk, ctx, pool>> /\ call' = [call EXCEPT !.cancelled = TRUE]
    BY <1>5 DEF Cancel
  <2>2. call'.pc = call.pc /\ call'.next = call.next /\ call'.done = call.done
    BY <2>1 DEF IInv, TypeInv, CallType
  <2>3. TypeInv'
    BY <1>5, CallStepType DEF IInv
  <2> QED
    BY <2>1, <2>2, <2>3, ElsewhereStep
<1>6. ASSUME NEW w \in Worker, WorkerStep(w)
      PROVE  IInv'
  BY <1>6, WorkerSteps
<1>7. CASE UNCHANGED vars
  <2>1. TypeInv'
    BY <1>7 DEF IInv, TypeInv, UploaderType, CachedType, DiskType, PoolType, vars, uploader, disk, pool
  <2> QED
    BY <1>7, <2>1, ElsewhereStep DEF vars
<1> QED
  BY <1>1, <1>2, <1>3, <1>4, <1>5, <1>6, <1>7 DEF Next

LEMMA Invariance == Spec => []IInv
  BY InitIInv, NextIInv, PTL DEF Spec

-----------------------------------------------------------------------------
(* The theorems.                                                           *)

\* Every variable keeps its type, over any uploads, calls, cancels and crashes.
THEOREM TypeCorrect == Spec => []TypeOK
<1>1. IInv => TypeOK
  BY TypeInvTypeOK DEF IInv
<1> QED
  BY <1>1, Invariance, PTL

\* Whatever upload of a directory fails, is cancelled or dies half-way, the directory
\* manifest and the manifests of its files are of one version: StoreDataCollectMeta
\* writes none of them, and WithBatch writes all.
THEOREM TogetherOnUploader == Spec => []ManifestsTogether
<1>1. Init => ManifestsTogether
  BY DEF Init, ManifestsTogether
<1>2. ManifestsTogether /\ [Next]_vars => ManifestsTogether'
  <2> SUFFICES ASSUME ManifestsTogether, [Next]_vars
               PROVE  ManifestsTogether'
    OBVIOUS
  <2>1. CASE WithBatch
    BY <2>1 DEF WithBatch, ManifestsTogether
  <2>2. CASE UNCHANGED <<manifest, dir>>
    BY <2>2 DEF ManifestsTogether
  <2>3. WithBatch \/ UNCHANGED <<manifest, dir>>
    <3>1. Upload => WithBatch \/ UNCHANGED <<manifest, dir>>
      BY DEF Upload, StoreDirectory, StoreFails, StoreDataCollectMeta
    <3>2. GetDirectory \/ Prepare \/ EndRound \/ Cancel \/ Crash => UNCHANGED uploader
      BY DEF GetDirectory, Prepare, FileOnDisk, SkipFile, FinalizeAtOnce, OpenContext, PrepareCancelled,
             DownloadDirectory, EndRound, Cancel, Crash
    <3>3. \A w \in Worker : WorkerStep(w) => UNCHANGED uploader
      BY DEF WorkerStep, NoTask, FetchOk, TaskFails, WriteAt, RecordChunk, CountDown, CleanupSidecar,
             RemoveOld, Rename, FinalizeFails, TakeTask
    <3> QED
      BY <3>1, <3>2, <3>3 DEF Next, vars, uploader
  <2> QED
    BY <2>1, <2>2, <2>3
<1> QED
  BY <1>1, <1>2, PTL DEF Spec

\* A file at its final path is whole and of one version, whichever workers of whichever
\* calls wrote its chunks: the counter that lets a worker rename the .part never runs
\* ahead of the chunks that are missing or under way (CountInv).
THEOREM WholeAtFinalPath == Spec => []FinalWhole
<1>1. IInv => FinalWhole
  BY DEF IInv
<1> QED
  BY <1>1, Invariance, PTL

\* What a call reports as succeeded is at its final path, although a cancelled worker
\* drops its task and finalizing may fail.
THEOREM ReportedOnDisk == Spec => []SucceededOnDisk
<1>1. IInv => SucceededOnDisk
  BY DEF IInv, DoneInv, SucceededOnDisk
<1> QED
  BY <1>1, Invariance, PTL

-----------------------------------------------------------------------------
(* Lookup. *)

\* The keys of a call: a search has its own.
KeysOf(c) == {ManifestKey, ProvidersKey, SearchKey(c)} \cup {CatalogKey(p) : p \in Node}

\* The types, and the nodes that provider records come from.
LookupTypes ==
  /\ LookupTypeOK
  /\ \A x \in msgs : x.type = "register" => x.from \in Seeder

\* A call that was not made has left no trace.
NotMade(c) ==
  /\ chan[c] = << >> /\ results[c] = {}
  /\ \A n \in Node : c \notin seen[n]
  /\ \A x \in msgs : x.type # "register" => x.call # c

\* Messages carry the key of their call, and a channel is under the key of its call.
KeyInv ==
  /\ \A c \in Call : IF calls[c].pc = "idle" THEN NotMade(c) ELSE calls[c].key \in KeysOf(c)
  /\ \A k \in Key : pending[k] # None =>
       calls[pending[k]].pc # "idle" /\ calls[pending[k]].key = k
  /\ \A c \in Call : calls[c].pc # "idle" /\ calls[c].key = SearchKey(c) => c \in seen[Origin]
  /\ \A x \in msgs :
       /\ x.type \in {"get", "answer"} => x.key = calls[x.call].key
       /\ x.type = "get" => x.key # SearchKey(x.call)
       /\ x.type = "search" => calls[x.call].key = SearchKey(x.call)
       /\ x.type = "answer" => x.to = Origin
  /\ blocked # None => calls[blocked[1]].pc # "idle"

\* The nodes that can answer a request with this key.
Responders(k) ==
  IF k[1] = "search" THEN Peers(Origin) ELSE IF k[1] = "catalog" THEN {k[2]} ELSE Target

Collected(c) == {chan[c][i] : i \in 1 .. Len(chan[c])}

\* Nobody answers a call twice.
OnceInv(c) ==
  LET k == calls[c].key IN
  calls[c].pc # "idle" =>
    /\ \A i, j \in 1 .. Len(chan[c]) : chan[c][i] = chan[c][j] => i = j
    /\ Collected(c) \subseteq Responders(k)
    /\ \A x \in msgs : x.type = "get" /\ x.call = c =>
         /\ x.from = Origin /\ x.to \in Responders(k) /\ x.to \notin Collected(c)
         /\ Answer(x.to, c, k) \notin msgs
    /\ \A x \in msgs : x.type = "answer" /\ x.call = c =>
         x.to = Origin /\ x.from \in Responders(k) /\ x.from \notin Collected(c)
    /\ k = SearchKey(c) =>
         /\ \A n \in Collected(c) : c \in seen[n]
         /\ \A x \in msgs : x.type = "answer" /\ x.call = c => c \in seen[x.from]

RoomInv == ~mixed => blocked = None /\ \A c \in Call : OnceInv(c)

Answered(c, p) ==
  Answer(p, c, SearchKey(c)) \in msgs \/ blocked = <<c, p>> \/ p \in Collected(c) \/ p \in results[c]

\* A search that still collects has its channel in the table; each peer is still to get
\* the request or has answered if it had something to say.
SearchInv ==
  \A c \in Call : calls[c].pc = "wait" /\ calls[c].key = SearchKey(c) =>
    /\ pending[SearchKey(c)] = c
    /\ lost = 0 => \A p \in Peers(Origin) :
         IF c \in seen[p] THEN p \in Sharing => Answered(c, p)
         ELSE \E x \in msgs : x.type = "search" /\ x.call = c /\ x.to = p

LookupIInv == LookupTypes /\ KeyInv /\ RoomInv /\ SearchInv

-----------------------------------------------------------------------------
(* Keys, and the room for their answers.                                   *)

LEMMA KeyFacts ==
  /\ \A c \in Call : KeysOf(c) \subseteq Key
  /\ \A c, d \in Call : SearchKey(d) \in KeysOf(c) => c = d
  /\ \A c \in Call : ManifestKey # SearchKey(c) /\ ProvidersKey # SearchKey(c)
  /\ \A c \in Call, p \in Node : CatalogKey(p) # SearchKey(c)
  /\ \A c, d \in Call : SearchKey(c) = SearchKey(d) => c = d
  BY DEF KeysOf, Key, SearchKey, ManifestKey, ProvidersKey, CatalogKey

LEMMA RespondersAre ==
  /\ \A c \in Call : Responders(SearchKey(c)) = Peers(Origin)
  /\ \A p \in Node : Responders(CatalogKey(p)) = {p}
  /\ Responders(ManifestKey) = Target /\ Responders(ProvidersKey) = Target
  BY DEF Responders, SearchKey, ManifestKey, ProvidersKey, CatalogKey

LEMMA PeersAreNodes ==
  /\ \A n \in Node : Peers(n) \subseteq Node
  /\ \A m, n \in Node : m \in Peers(n) <=> n \in Peers(m)
<1>1. \A m, n \in Node : {m, n} = {n, m}
  OBVIOUS
<1> QED BY <1>1 DEF Peers

LEMMA RespondersAreNodes == \A k \in Key : Responders(k) \subseteq Node
  BY LookupAssumption, RespondersAre, PeersAreNodes DEF Key

\* The buffer is as large as the number of nodes that can answer.
LEMMA RoomForAll ==
  ASSUME NEW k \in Key
  PROVE  /\ IsFiniteSet(Responders(k)) /\ Cardinality(Responders(k)) \in Nat
         /\ Capacity(k) \in Nat /\ Cardinality(Responders(k)) <= Capacity(k)
<1>1. Responders(k) \subseteq Node /\ IsFiniteSet(Node)
  BY RespondersAreNodes, LookupAssumption
<1>2. IsFiniteSet(Responders(k)) /\ Cardinality(Responders(k)) \in Nat
  BY <1>1, FS_Subset, FS_CardinalityType
<1>3. CASE \E c \in Call : k = SearchKey(c)
  <2>1. Capacity(k) = SearchCap /\ Responders(k) = Peers(Origin)
    BY <1>3, RespondersAre DEF Capacity, SearchKey
  <2> DEFINE near == {n \in Node : {n, Origin} \in Link}
  <2>2. Peers(Origin) \subseteq near /\ near \subseteq Node
    BY DEF Peers
  <2>3. IsFiniteSet(near) /\ Cardinality(near) \in Nat
    BY <2>2, <1>1, FS_Subset, FS_CardinalityType
  <2>4. Cardinality(Peers(Origin)) <= Cardinality(near)
    BY <2>2, <2>3, FS_Subset
  <2>5. SearchCap \in Nat /\ SearchCap >= Cardinality(near)
    BY LookupAssumption
  <2> HIDE DEF near
  <2> QED BY <2>1, <2>3, <2>4, <2>5, <1>2
<1>4. CASE \E p \in Node : k = CatalogKey(p)
  <2>1. Capacity(k) = 1
    BY <1>4 DEF Capacity, CatalogKey
  <2>2. PICK p \in Node : Responders(k) = {p}
    BY <1>4, RespondersAre
  <2> QED BY <2>1, <2>2, <1>2, FS_Singleton
<1>5. CASE k \in {ManifestKey, ProvidersKey}
  <2>1. Capacity(k) = Cardinality(Target)
    BY <1>5 DEF Capacity, ManifestKey, ProvidersKey
  <2>2. Responders(k) = Target
    BY <1>5, RespondersAre
  <2> QED BY <2>1, <2>2, <1>2
<1> QED BY <1>3, <1>4, <1>5 DEF Key

\* A sequence without repetitions that misses a member of a finite set is shorter.
LEMMA Shorter ==
  ASSUME NEW S, NEW s \in Seq(S), NEW R, IsFiniteSet(R), NEW y \in R,
         \A i, j \in 1 .. Len(s) : s[i] = s[j] => i = j,
         \A i \in 1 .. Len(s) : s[i] \in R /\ s[i] # y
  PROVE  Len(s) < Cardinality(R)
<1> DEFINE f == [i \in 1 .. Len(s) |-> s[i]]
           T == R \ {y}
<1>1. Len(s) \in Nat
  OBVIOUS
<1>2. f \in Injection(1 .. Len(s), T)
  BY DEF Injection, IsInjective
<1>3. IsFiniteSet(T) /\ Cardinality(T) = Cardinality(R) - 1 /\ Cardinality(R) \in Nat
  BY FS_RemoveElement, FS_CardinalityType
<1>4. Cardinality(1 .. Len(s)) <= Cardinality(T)
  BY <1>2, <1>3, FS_Injection
<1>5. Cardinality(1 .. Len(s)) = Len(s)
  <2> DEFINE n == Len(s)
  <2>1. 1 \in Int /\ n \in Int
    BY <1>1
  <2>2. Cardinality(1 .. n) = IF 1 > n THEN 0 ELSE n - 1 + 1
    <3> HIDE DEF n
    <3> QED BY <2>1, FS_Interval
  <2> QED BY <1>1, <2>2
<1> QED BY <1>1, <1>3, <1>4, <1>5

-----------------------------------------------------------------------------
(* Types.                                                                  *)

LookupRecord == [pc : {"idle", "wait", "leave", "done"}, key : Key \cup {None}]

LEMMA MessageTypes ==
  ASSUME NEW x \in Message
  PROVE  /\ x.type \in {"get", "answer", "search", "register"}
         /\ x.type \in {"get", "answer"} =>
              /\ x \in [type : {"get", "answer"}, call : Call, key : Key, from : Node, to : Node]
              /\ x.call \in Call /\ x.key \in Key /\ x.from \in Node /\ x.to \in Node
         /\ x.type = "search" =>
              /\ x \in [type : {"search"}, call : Call, from : Node, to : Node, ttl : 1 .. TTL]
              /\ x.call \in Call /\ x.from \in Node /\ x.to \in Node /\ x.ttl \in 1 .. TTL
         /\ x.type = "register" => x.from \in Node /\ x.to \in Node
  BY DEF Message

LEMMA SentAreMessages ==
  /\ \A c \in Call, k \in Key, to \in SUBSET Node : Get(c, k, to) \subseteq Message
  /\ \A n \in Node, c \in Call, k \in Key : Answer(n, c, k) \in Message
  /\ \A n \in Node, c \in Call, to \in SUBSET Node, ttl \in 1 .. TTL :
       Search(c, n, to, ttl) \subseteq Message
  /\ \A n \in Node : Registration(n) \subseteq Message
<1>1. Origin \in Node /\ Target \subseteq Node
  BY LookupAssumption
<1>2. \A c \in Call, k \in Key, to \in SUBSET Node : Get(c, k, to) \subseteq Message
  BY <1>1 DEF Get, Message
<1>3. \A n \in Node, c \in Call, k \in Key : Answer(n, c, k) \in Message
  BY <1>1 DEF Answer, Message
<1>4. \A n \in Node, c \in Call, to \in SUBSET Node, ttl \in 1 .. TTL :
        Search(c, n, to, ttl) \subseteq Message
  BY DEF Search, Message
<1>5. \A n \in Node : Registration(n) \subseteq Message
  BY <1>1 DEF Registration, Message
<1> QED BY <1>2, <1>3, <1>4, <1>5

\* What is sent, by type.
LEMMA SentTypes ==
  /\ \A c, k, to : \A x \in Get(c, k, to) :
       x.type = "get" /\ x.call = c /\ x.key = k /\ x.from = Origin /\ x.to \in to
  /\ \A n, c, k : LET x == Answer(n, c, k) IN
       x.type = "answer" /\ x.call = c /\ x.key = k /\ x.from = n /\ x.to = Origin
  /\ \A c, n, to, ttl : \A x \in Search(c, n, to, ttl) :
       x.type = "search" /\ x.call = c /\ x.to \in to
  /\ \A n : \A x \in Registration(n) : x.type = "register" /\ x.from = n
  BY DEF Get, Answer, Search, Registration

LEMMA AskTypes ==
  ASSUME LookupTypes, NEW c \in Call, NEW k \in Key, NEW requests \in SUBSET Message,
         \A x \in requests : x.type # "register", Ask(c, k, requests), seen' \in [Node -> SUBSET Call]
  PROVE  LookupTypes'
<1>1. calls' \in [Call -> LookupRecord]
  BY DEF LookupTypes, LookupTypeOK, Ask, LookupRecord
<1>2. pending' \in [Key -> Call \cup {None}] /\ msgs' \subseteq Message
  BY DEF LookupTypes, LookupTypeOK, Ask
<1> QED BY <1>1, <1>2 DEF LookupTypes, LookupTypeOK, Ask, seeding, LookupRecord

\* Each way to start a call asks responders, or floods.
LEMMA StartAsks ==
  ASSUME LookupTypes, NEW c \in Call, Start(c)
  PROVE  \/ /\ UNCHANGED seen
            /\ \E k \in KeysOf(c), to \in SUBSET Node :
                 k # SearchKey(c) /\ to \subseteq Responders(k) /\ Ask(c, k, Get(c, k, to))
         \/ SearchFiles(c)
<1>1. Origin \in Node /\ Target \subseteq Node /\ Peers(Origin) \subseteq Node
  BY LookupAssumption, PeersAreNodes
<1>2. CASE FetchMetadataFromPeers(c)
  BY <1>1, <1>2, KeyFacts, RespondersAre DEF FetchMetadataFromPeers, KeysOf
<1>3. CASE GetProviders(c)
  BY <1>1, <1>3, KeyFacts, RespondersAre DEF GetProviders, KeysOf
<1>4. ASSUME NEW p \in Node, GetPublicCatalog(c, p)
      PROVE  \E k \in KeysOf(c), to \in SUBSET Node :
               k # SearchKey(c) /\ to \subseteq Responders(k) /\ Ask(c, k, Get(c, k, to))
  <2>1. CatalogKey(p) \in KeysOf(c) /\ CatalogKey(p) # SearchKey(c) /\ {p} \subseteq Responders(CatalogKey(p))
    BY KeyFacts, RespondersAre DEF KeysOf
  <2>2. {p} \in SUBSET Node /\ Ask(c, CatalogKey(p), Get(c, CatalogKey(p), {p}))
    BY <1>4 DEF GetPublicCatalog
  <2> QED BY <2>1, <2>2
<1>5. ASSUME NEW p \in Node, GetPublicCatalog(c, p) PROVE UNCHANGED seen
  BY <1>5 DEF GetPublicCatalog
<1> QED BY <1>2, <1>3, <1>4, <1>5 DEF Start

LEMMA StartTypes ==
  ASSUME LookupTypes, NEW c \in Call, Start(c) PROVE LookupTypes'
<1>1. \A k \in Key, to \in SUBSET Node :
        Get(c, k, to) \subseteq Message /\ \A x \in Get(c, k, to) : x.type # "register"
  BY SentAreMessages, SentTypes
<1>2. KeysOf(c) \subseteq Key /\ SearchKey(c) \in Key
  BY KeyFacts DEF KeysOf
<1>3. seen \in [Node -> SUBSET Call]
  BY DEF LookupTypes, LookupTypeOK
<1>4. CASE SearchFiles(c)
  <2>1. TTL \in 1 .. TTL /\ Origin \in Node /\ Peers(Origin) \in SUBSET Node
    BY LookupAssumption, PeersAreNodes
  <2>2. Search(c, Origin, Peers(Origin), TTL) \subseteq Message
    BY <2>1, SentAreMessages
  <2>3. \A x \in Search(c, Origin, Peers(Origin), TTL) : x.type # "register"
    BY SentTypes
  <2>4. seen' \in [Node -> SUBSET Call]
    BY <1>3, <1>4 DEF SearchFiles
  <2> QED BY <1>2, <1>4, <2>2, <2>3, <2>4, AskTypes DEF SearchFiles
<1>5. CASE ~SearchFiles(c)
  <2>1. PICK k \in KeysOf(c), to \in SUBSET Node : Ask(c, k, Get(c, k, to))
    BY <1>5, StartAsks
  <2>2. UNCHANGED seen
    BY <1>5, StartAsks
  <2> QED BY <1>1, <1>2, <1>3, <2>1, <2>2, AskTypes
<1> QED BY <1>4, <1>5

LEMMA CallTypes ==
  ASSUME LookupTypes, NEW c \in Call, TakeAnswer(c) \/ Timeout(c) \/ Leave(c)
  PROVE  LookupTypes'
<1>1. calls' \in [Call -> LookupRecord]
  BY DEF LookupTypes, LookupTypeOK, TakeAnswer, Timeout, Leave, LookupRecord
<1>2. chan' \in [Call -> Seq(Node)] /\ results' \in [Call -> SUBSET Node]
  <2>1. CASE TakeAnswer(c)
    <3>1. chan[c] \in Seq(Node) /\ chan[c] # << >>
      BY <2>1 DEF LookupTypes, LookupTypeOK, TakeAnswer
    <3>2. Head(chan[c]) \in Node /\ Tail(chan[c]) \in Seq(Node)
      BY <3>1
    <3>3. chan' = [chan EXCEPT ![c] = Tail(@)]
          /\ results' = [results EXCEPT ![c] = @ \cup {Head(chan[c])}]
      BY <2>1 DEF TakeAnswer
    <3> QED BY <3>2, <3>3 DEF LookupTypes, LookupTypeOK
  <2>2. CASE Timeout(c) \/ Leave(c)
    BY <2>2 DEF LookupTypes, LookupTypeOK, Timeout, Leave
  <2> QED BY <2>1, <2>2
<1>3. pending' \in [Key -> Call \cup {None}]
  BY DEF LookupTypes, LookupTypeOK, TakeAnswer, Timeout, Leave
<1> QED BY <1>1, <1>2, <1>3
        DEF LookupTypes, LookupTypeOK, TakeAnswer, Timeout, Leave, seeding, LookupRecord

LEMMA GetTypes ==
  ASSUME LookupTypes, NEW x \in msgs, HandleGet(x) PROVE LookupTypes'
<1>1. x \in Message /\ x.type = "get"
  BY DEF LookupTypes, LookupTypeOK, HandleGet, Receive
<1>2. x.call \in Call /\ x.key \in Key /\ x.to \in Node
  BY <1>1, MessageTypes
<1>3. Answer(x.to, x.call, x.key) \in Message /\ Answer(x.to, x.call, x.key).type # "register"
  BY <1>2, SentAreMessages, SentTypes
<1>4. msgs' \subseteq Message /\ \A y \in msgs' : y.type = "register" => y.from \in Seeder
  BY <1>3 DEF LookupTypes, LookupTypeOK, HandleGet
<1> QED BY <1>4 DEF LookupTypes, LookupTypeOK, HandleGet, asking, seeding

LEMMA AnswerTypes ==
  ASSUME LookupTypes, NEW x \in msgs, HandleAnswer(x) PROVE LookupTypes'
<1>1. x \in Message /\ x.type = "answer"
  BY DEF LookupTypes, LookupTypeOK, HandleAnswer, Receive
<1>2. x.call \in Call /\ x.key \in Key /\ x.from \in Node
  BY <1>1, MessageTypes
<1>3. pending[x.key] \in Call \cup {None}
  BY <1>2 DEF LookupTypes, LookupTypeOK
<1> DEFINE c == pending[x.key]
<1>4. /\ chan' \in [Call -> Seq(Node)] /\ mixed' \in BOOLEAN
      /\ blocked' = None \/ blocked' \in Call \X Node
  <2>0. chan \in [Call -> Seq(Node)] /\ mixed \in BOOLEAN /\ (blocked = None \/ blocked \in Call \X Node)
    BY DEF LookupTypes, LookupTypeOK
  <2>1. CASE UNCHANGED <<chan, blocked, mixed>>
    BY <2>0, <2>1
  <2>2. CASE c \in Call
    <3>1. chan' = [chan EXCEPT ![c] = Append(@, x.from)] \/ UNCHANGED chan
      BY DEF HandleAnswer
    <3>2. chan[c] \in Seq(Node) /\ Append(chan[c], x.from) \in Seq(Node)
      BY <1>2, <2>0, <2>2
    <3>3. chan' \in [Call -> Seq(Node)]
      BY <3>1, <3>2, <2>0
    <3>4. UNCHANGED blocked \/ blocked' = None \/ blocked' = <<c, x.from>>
      BY DEF HandleAnswer
    <3>5. mixed' \in BOOLEAN
      BY <2>0 DEF HandleAnswer
    <3> QED BY <1>2, <2>0, <2>2, <3>3, <3>4, <3>5
  <2> QED BY <1>3, <2>1, <2>2 DEF HandleAnswer
<1> QED BY <1>4 DEF LookupTypes, LookupTypeOK, HandleAnswer, seeding

LEMMA SearchTypes ==
  ASSUME LookupTypes, NEW x \in msgs, HandleSearchRequest(x) PROVE LookupTypes'
<1>1. x \in Message /\ x.type = "search"
  BY DEF LookupTypes, LookupTypeOK, HandleSearchRequest, Receive
<1>2. x.call \in Call /\ x.to \in Node /\ x.ttl \in 1 .. TTL /\ SearchKey(x.call) \in Key
  BY <1>1, MessageTypes, KeyFacts DEF Key
<1> DEFINE n == x.to
           answer == Answer(n, x.call, SearchKey(x.call))
           onward == Search(x.call, n, Peers(n) \ {x.from}, x.ttl - 1)
<1>3. answer \in Message /\ answer.type # "register"
  BY <1>2, SentAreMessages, SentTypes
<1>4. x.ttl > 1 => onward \subseteq Message
  <2> SUFFICES ASSUME x.ttl > 1 PROVE onward \subseteq Message
    OBVIOUS
  <2>1. x.ttl - 1 \in 1 .. TTL
    BY <1>2, LookupAssumption
  <2>2. Peers(n) \ {x.from} \in SUBSET Node
    BY <1>2, PeersAreNodes
  <2> QED BY <1>2, <2>1, <2>2, SentAreMessages
<1>5. \A y \in onward : y.type # "register"
  BY SentTypes
<1>6. msgs' \subseteq msgs \cup {answer} \cup (IF x.ttl > 1 THEN onward ELSE {})
  BY DEF HandleSearchRequest
<1> HIDE DEF answer, onward
<1>7. msgs' \subseteq Message /\ \A y \in msgs' : y.type = "register" => y.from \in Seeder
  BY <1>3, <1>4, <1>5, <1>6 DEF LookupTypes, LookupTypeOK
<1>8. seen' \in [Node -> SUBSET Call]
  BY <1>2 DEF LookupTypes, LookupTypeOK, HandleSearchRequest, SeenOrAdd
<1> QED BY <1>7, <1>8 DEF LookupTypes, LookupTypeOK, HandleSearchRequest, asking, seeding

LEMMA RegisterTypes ==
  ASSUME LookupTypes, NEW x \in msgs, HandleRegisterProvider(x) PROVE LookupTypes'
<1>1. x \in Message /\ x.type = "register" /\ x.from \in Seeder
  BY DEF LookupTypes, LookupTypeOK, HandleRegisterProvider, Receive
<1>2. providers' \in [Node -> SUBSET Seeder]
  BY <1>1 DEF LookupTypes, LookupTypeOK, HandleRegisterProvider, AddProvider
<1> QED BY <1>2 DEF LookupTypes, LookupTypeOK, HandleRegisterProvider, asking

LEMMA SeedTypes ==
  ASSUME LookupTypes, NEW n \in Seeder,
         Seed(n) \/ Reregister(n) \/ FileDisappears(n) \/ ServeFails(n)
  PROVE  LookupTypes'
<1>1. n \in Node
  BY LookupAssumption
<1>2. Registration(n) \subseteq Message /\ \A x \in Registration(n) : x.type = "register" /\ x.from = n
  BY <1>1, SentAreMessages, SentTypes
<1>3. CASE Seed(n) \/ Reregister(n)
  <2>1. msgs' \subseteq Message /\ \A y \in msgs' : y.type = "register" => y.from \in Seeder
    BY <1>2, <1>3 DEF LookupTypes, LookupTypeOK, Seed, Reregister, RegisterProvider
  <2>2. providers' \in [Node -> SUBSET Seeder]
    BY <1>3 DEF LookupTypes, LookupTypeOK, Seed, Reregister, RegisterProvider, AddProvider
  <2> QED BY <1>3, <2>1, <2>2 DEF LookupTypes, LookupTypeOK, Seed, Reregister, asking
<1>4. CASE FileDisappears(n) \/ ServeFails(n)
  <2>1. providers' \in [Node -> SUBSET Seeder]
    BY <1>4 DEF LookupTypes, LookupTypeOK, FileDisappears, ServeFails, DeregisterProvider
  <2> QED BY <1>4, <2>1 DEF LookupTypes, LookupTypeOK, FileDisappears, ServeFails, asking
<1> QED BY <1>3, <1>4

LEMMA OtherTypes ==
  ASSUME LookupTypes, Unblock \/ (\E x \in msgs : Lose(x)) \/ UNCHANGED lookupVars
  PROVE  LookupTypes'
<1>1. CASE Unblock
  <2>1. blocked \in Call \X Node
    BY <1>1 DEF LookupTypes, LookupTypeOK, Unblock
  <2>2. chan' \in [Call -> Seq(Node)]
    BY <1>1, <2>1 DEF LookupTypes, LookupTypeOK, Unblock
  <2> QED BY <1>1, <2>2 DEF LookupTypes, LookupTypeOK, Unblock, seeding
<1>2. CASE \E x \in msgs : Lose(x)
  BY <1>2, LookupAssumption DEF LookupTypes, LookupTypeOK, Lose, asking, seeding
<1>3. CASE UNCHANGED lookupVars
  BY <1>3 DEF LookupTypes, LookupTypeOK, lookupVars, asking, seeding
<1> QED BY <1>1, <1>2, <1>3

-----------------------------------------------------------------------------
(* Keys of calls, messages and channels.                                   *)

\* What a call asks for when it starts.
Requests(c, k, requests) ==
  /\ k \in KeysOf(c) /\ requests \subseteq Message
  /\ \A x \in requests :
       /\ x.call = c
       /\ \/ x.type = "get" /\ x.key = k /\ k # SearchKey(c) /\ x.from = Origin /\ x.to \in Responders(k)
          \/ x.type = "search" /\ k = SearchKey(c)

SeenBy(c, k) ==
  /\ \A n \in Node : seen[n] \subseteq seen'[n] /\ seen'[n] \subseteq seen[n] \cup {c}
  /\ k = SearchKey(c) =>
       c \in seen'[Origin] /\ \A n \in Node \ {Origin} : seen'[n] = seen[n]

LEMMA StartIs ==
  ASSUME LookupTypes, NEW c \in Call, Start(c)
  PROVE  \E k, requests :
           /\ Ask(c, k, requests) /\ Requests(c, k, requests) /\ SeenBy(c, k)
           /\ k = SearchKey(c) => requests = Search(c, Origin, Peers(Origin), TTL)
<1>0. Origin \in Node /\ seen \in [Node -> SUBSET Call]
  BY LookupAssumption DEF LookupTypes, LookupTypeOK
<1>1. CASE SearchFiles(c)
  <2> DEFINE requests == Search(c, Origin, Peers(Origin), TTL)
  <2>1. requests \subseteq Message /\ \A x \in requests : x.type = "search" /\ x.call = c
    <3>1. TTL \in 1 .. TTL /\ Peers(Origin) \in SUBSET Node
      BY <1>0, LookupAssumption, PeersAreNodes
    <3> QED BY <1>0, <3>1, SentAreMessages, SentTypes
  <2>2. SearchKey(c) \in KeysOf(c)
    BY DEF KeysOf
  <2>3. Requests(c, SearchKey(c), requests)
    BY <2>1, <2>2 DEF Requests
  <2>4. SeenBy(c, SearchKey(c))
    BY <1>0, <1>1 DEF SeenBy, SearchFiles
  <2>5. Ask(c, SearchKey(c), requests)
    BY <1>1 DEF SearchFiles
  <2> QED BY <2>3, <2>4, <2>5
<1>2. CASE ~SearchFiles(c)
  <2>1. PICK k \in KeysOf(c), to \in SUBSET Node :
          k # SearchKey(c) /\ to \subseteq Responders(k) /\ Ask(c, k, Get(c, k, to))
    BY <1>2, StartAsks
  <2>2. UNCHANGED seen
    BY <1>2, StartAsks
  <2>3. Get(c, k, to) \subseteq Message
    BY <2>1, KeyFacts, SentAreMessages
  <2>4. Requests(c, k, Get(c, k, to))
    BY <2>1, <2>3, SentTypes DEF Requests
  <2>5. SeenBy(c, k)
    BY <2>1, <2>2 DEF SeenBy
  <2> QED BY <2>1, <2>4, <2>5
<1> QED BY <1>1, <1>2

LEMMA AskedNow ==
  ASSUME LookupTypes, NEW c \in Call, NEW k, NEW requests, Ask(c, k, requests), k \in KeysOf(c)
  PROVE  /\ k \in Key /\ calls[c].pc = "idle" /\ calls'[c].pc \in {"wait", "leave"} /\ calls'[c].key = k
         /\ calls'[c].pc = "wait" <=> requests # {}
         /\ \A d \in Call : d # c => calls'[d] = calls[d]
         /\ pending'[k] = c /\ \A j \in Key : j # k => pending'[j] = pending[j]
         /\ msgs' = msgs \cup requests
         /\ UNCHANGED <<chan, results, mixed, blocked, lost>>
  BY KeyFacts DEF LookupTypes, LookupTypeOK, Ask

LEMMA StartKeys ==
  ASSUME LookupTypes, KeyInv, NEW c \in Call, NEW k, NEW requests,
         Ask(c, k, requests), Requests(c, k, requests), SeenBy(c, k)
  PROVE  KeyInv'
<1>1. blocked' # None => calls'[blocked'[1]].pc # "idle"
  <2>1. UNCHANGED blocked
    BY AskedNow DEF Requests
  <2>2. blocked # None => blocked[1] \in Call /\ calls[blocked[1]].pc # "idle"
    BY DEF LookupTypes, LookupTypeOK, KeyInv
  <2> QED BY <2>1, <2>2, AskedNow DEF Requests
<1>2. /\ k \in KeysOf(c) /\ k \in Key
      /\ calls[c].pc = "idle" /\ calls'[c].pc # "idle" /\ calls'[c].key = k
      /\ \A d \in Call : d # c => calls'[d] = calls[d]
      /\ pending'[k] = c /\ \A j \in Key : j # k => pending'[j] = pending[j]
      /\ msgs' = msgs \cup requests
      /\ UNCHANGED <<chan, results>>
  BY AskedNow DEF Requests
<1>3. NotMade(c) /\ \A d \in Call \ {c} : IF calls[d].pc = "idle" THEN NotMade(d) ELSE calls[d].key \in KeysOf(d)
  BY <1>2 DEF KeyInv
<1>4. \A d \in Call : IF calls'[d].pc = "idle" THEN NotMade(d)' ELSE calls'[d].key \in KeysOf(d)
  <2> SUFFICES ASSUME NEW d \in Call
               PROVE IF calls'[d].pc = "idle" THEN NotMade(d)' ELSE calls'[d].key \in KeysOf(d)
    OBVIOUS
  <2>1. CASE d = c
    BY <1>2, <2>1
  <2>2. CASE d # c
    <3>1. calls'[d] = calls[d]
      BY <1>2, <2>2
    <3>2. CASE calls[d].pc = "idle"
      <4>1. NotMade(d)
        BY <1>3, <2>2, <3>2
      <4>2. NotMade(d)'
        BY <1>2, <2>2, <4>1 DEF NotMade, Requests, SeenBy
      <4> QED BY <3>1, <3>2, <4>2
    <3>3. CASE calls[d].pc # "idle"
      BY <1>3, <2>2, <3>1, <3>3
    <3> QED BY <3>2, <3>3
  <2> QED BY <2>1, <2>2
<1>5. ASSUME NEW j \in Key, pending'[j] # None
      PROVE calls'[pending'[j]].pc # "idle" /\ calls'[pending'[j]].key = j
  <2>1. CASE j = k
    BY <1>2, <2>1
  <2>2. CASE j # k
    <3>1. pending'[j] = pending[j] /\ pending[j] \in Call
      BY <1>2, <1>5, <2>2 DEF LookupTypes, LookupTypeOK
    <3>2. calls[pending[j]].pc # "idle" /\ calls[pending[j]].key = j
      BY <1>5, <3>1 DEF KeyInv
    <3>3. pending[j] # c
      BY <1>2, <3>2
    <3> QED BY <1>2, <3>1, <3>2, <3>3
  <2> QED BY <2>1, <2>2
<1>6. ASSUME NEW d \in Call, calls'[d].pc # "idle", calls'[d].key = SearchKey(d)
      PROVE d \in seen'[Origin]
  <2>1. Origin \in Node
    BY LookupAssumption
  <2> QED BY <1>2, <1>6, <2>1 DEF KeyInv, SeenBy
<1>7. ASSUME NEW x \in msgs'
      PROVE /\ x.type \in {"get", "answer"} => x.key = calls'[x.call].key
            /\ x.type = "get" => x.key # SearchKey(x.call)
            /\ x.type = "search" => calls'[x.call].key = SearchKey(x.call)
            /\ x.type = "answer" => x.to = Origin
  <2>1. CASE x \in requests
    BY <1>2, <2>1 DEF Requests
  <2>2. CASE x \in msgs
    <3>1. x \in Message
      BY <2>2 DEF LookupTypes, LookupTypeOK
    <3>2. CASE x.type = "register"
      BY <3>2
    <3>3. CASE x.type # "register"
      <4>1. x.call \in Call /\ x.call # c
        BY <1>3, <2>2, <3>1, <3>3, MessageTypes DEF NotMade
      <4>2. calls'[x.call] = calls[x.call]
        BY <1>2, <4>1
      <4> QED BY <2>2, <4>2 DEF KeyInv
    <3> QED BY <3>2, <3>3
  <2> QED BY <1>2, <2>1, <2>2
<1> QED BY <1>1, <1>4, <1>5, <1>6, <1>7 DEF KeyInv

LEMMA TakeKeys ==
  ASSUME LookupTypes, KeyInv, NEW c \in Call, TakeAnswer(c) \/ Timeout(c) \/ Leave(c)
  PROVE  KeyInv'
<1>1. /\ calls[c].pc # "idle" /\ calls'[c].pc # "idle" /\ calls'[c].key = calls[c].key
      /\ \A d \in Call : d # c => calls'[d] = calls[d]
      /\ UNCHANGED <<msgs, seen>>
  BY DEF LookupTypes, LookupTypeOK, TakeAnswer, Timeout, Leave
<1>2. \A d \in Call : calls'[d].key = calls[d].key /\ (calls'[d].pc = "idle" <=> calls[d].pc = "idle")
  BY <1>1
<1>3. \A d \in Call : d # c => chan'[d] = chan[d] /\ results'[d] = results[d]
  BY DEF LookupTypes, LookupTypeOK, TakeAnswer, Timeout, Leave
<1>4. \A k \in Key : pending'[k] = pending[k] \/ pending'[k] = None
  BY DEF LookupTypes, LookupTypeOK, TakeAnswer, Timeout, Leave
<1>5. \A d \in Call : IF calls'[d].pc = "idle" THEN NotMade(d)' ELSE calls'[d].key \in KeysOf(d)
  BY <1>1, <1>2, <1>3 DEF KeyInv, NotMade
<1>6. \A k \in Key : pending'[k] # None => pending[k] \in Call /\ pending'[k] = pending[k]
  BY <1>4 DEF LookupTypes, LookupTypeOK
<1>7. \A k \in Key : pending'[k] # None =>
        calls'[pending'[k]].pc # "idle" /\ calls'[pending'[k]].key = k
  BY <1>2, <1>6 DEF KeyInv
<1>8. \A x \in msgs : x.type # "register" => x.call \in Call
  BY MessageTypes DEF LookupTypes, LookupTypeOK
<1>9. \A x \in msgs' :
        /\ x.type \in {"get", "answer"} => x.key = calls'[x.call].key
        /\ x.type = "get" => x.key # SearchKey(x.call)
        /\ x.type = "search" => calls'[x.call].key = SearchKey(x.call)
        /\ x.type = "answer" => x.to = Origin
  BY <1>1, <1>2, <1>8 DEF KeyInv
<1>10. UNCHANGED blocked /\ (blocked # None => blocked[1] \in Call)
  BY DEF LookupTypes, LookupTypeOK, TakeAnswer, Timeout, Leave
<1>11. blocked' # None => calls'[blocked'[1]].pc # "idle"
  BY <1>2, <1>10 DEF KeyInv
<1> QED BY <1>1, <1>2, <1>5, <1>7, <1>9, <1>11 DEF KeyInv

\* Steps that leave the calls and the table alone.
LEMMA MessageKeys ==
  ASSUME LookupTypes, KeyInv, UNCHANGED <<calls, pending, results>>,
         \A c \in Call : chan'[c] # chan[c] => calls[c].pc # "idle",
         blocked' \notin {blocked, None} => calls[blocked'[1]].pc # "idle",
         \A n \in Node : seen[n] \subseteq seen'[n]
           /\ \A c \in Call : c \in seen'[n] \ seen[n] => calls[c].pc # "idle",
         \A x \in msgs' : x \in msgs \/ x.type = "register" \/
           /\ x.call \in Call /\ calls[x.call].pc # "idle"
           /\ x.type \in {"get", "answer"} => x.key = calls[x.call].key
           /\ x.type = "get" => x.key # SearchKey(x.call)
           /\ x.type = "search" => calls[x.call].key = SearchKey(x.call)
           /\ x.type = "answer" => x.to = Origin
  PROVE  KeyInv'
<1>1. ASSUME NEW c \in Call, calls[c].pc = "idle" PROVE NotMade(c)'
  <2>1. NotMade(c)
    BY <1>1 DEF KeyInv
  <2> QED BY <1>1, <2>1 DEF NotMade
<1>2. \A c \in Call : IF calls'[c].pc = "idle" THEN NotMade(c)' ELSE calls'[c].key \in KeysOf(c)
  BY <1>1 DEF KeyInv
<1>3. Origin \in Node
  BY LookupAssumption
<1>4. \A x \in msgs' :
        /\ x.type \in {"get", "answer"} => x.key = calls'[x.call].key
        /\ x.type = "get" => x.key # SearchKey(x.call)
        /\ x.type = "search" => calls'[x.call].key = SearchKey(x.call)
        /\ x.type = "answer" => x.to = Origin
  BY DEF KeyInv
<1>5. \A c \in Call : calls'[c].pc # "idle" /\ calls'[c].key = SearchKey(c) => c \in seen'[Origin]
  BY <1>3 DEF KeyInv
<1>6. \A k \in Key : pending'[k] # None => calls'[pending'[k]].pc # "idle" /\ calls'[pending'[k]].key = k
  BY DEF KeyInv
<1>7. blocked' # None => calls'[blocked'[1]].pc # "idle"
  BY DEF KeyInv
<1> QED BY <1>2, <1>4, <1>5, <1>6, <1>7 DEF KeyInv

\* The call that a message under way belongs to was made.
LEMMA MadeBefore ==
  ASSUME LookupTypes, KeyInv, NEW x \in msgs, x.type # "register"
  PROVE  x.call \in Call /\ calls[x.call].pc # "idle" /\ calls[x.call].key \in KeysOf(x.call)
<1>1. x.call \in Call
  BY MessageTypes DEF LookupTypes, LookupTypeOK
<1> QED BY <1>1 DEF KeyInv, NotMade

LEMMA GetKeys ==
  ASSUME LookupTypes, KeyInv, NEW x \in msgs, HandleGet(x) PROVE KeyInv'
<1>1. x.type = "get" /\ x.call \in Call /\ calls[x.call].pc # "idle" /\ x.key = calls[x.call].key
  BY MadeBefore DEF HandleGet, Receive, KeyInv
<1>2. LET y == Answer(x.to, x.call, x.key) IN y.type = "answer" /\ y.call = x.call /\ y.key = x.key /\ y.to = Origin
  BY SentTypes
<1>3. msgs' = (msgs \ {x}) \cup {Answer(x.to, x.call, x.key)} /\ UNCHANGED <<calls, pending, results, chan, seen, blocked>>
  BY DEF HandleGet, asking
<1> QED BY <1>1, <1>2, <1>3, MessageKeys

LEMMA AnswerKeys ==
  ASSUME LookupTypes, KeyInv, NEW x \in msgs, HandleAnswer(x) PROVE KeyInv'
<1>1. x.key \in Key
  BY MessageTypes DEF HandleAnswer, Receive, LookupTypes, LookupTypeOK
<1>2. \A c \in Call : chan'[c] # chan[c] => c = pending[x.key] /\ c # None
  BY DEF HandleAnswer, LookupTypes, LookupTypeOK
<1>3. \A c \in Call : chan'[c] # chan[c] => calls[c].pc # "idle"
  BY <1>1, <1>2 DEF KeyInv
<1>4. UNCHANGED <<calls, pending, results, seen>> /\ msgs' = msgs \ {x}
  BY DEF HandleAnswer
<1>5. blocked' \in {blocked, None} \/ (blocked' = <<pending[x.key], x.from>> /\ pending[x.key] # None)
  BY DEF HandleAnswer
<1>6. blocked' \notin {blocked, None} => calls[blocked'[1]].pc # "idle"
  BY <1>1, <1>5 DEF KeyInv
<1> QED BY <1>3, <1>4, <1>6, MessageKeys

LEMMA SearchKeys ==
  ASSUME LookupTypes, KeyInv, NEW x \in msgs, HandleSearchRequest(x) PROVE KeyInv'
<1>1. /\ x.type = "search" /\ x.call \in Call /\ calls[x.call].pc # "idle" /\ x.to \in Node
      /\ calls[x.call].key = SearchKey(x.call)
  BY MadeBefore, MessageTypes DEF HandleSearchRequest, Receive, KeyInv, LookupTypes, LookupTypeOK
<1> DEFINE onward == Search(x.call, x.to, Peers(x.to) \ {x.from}, x.ttl - 1)
           answer == Answer(x.to, x.call, SearchKey(x.call))
<1>2. answer.type = "answer" /\ answer.call = x.call /\ answer.key = SearchKey(x.call) /\ answer.to = Origin
  BY SentTypes
<1>3. \A y \in onward : y.type = "search" /\ y.call = x.call
  BY SentTypes
<1>4. msgs' \subseteq msgs \cup {answer} \cup onward
  BY DEF HandleSearchRequest
<1>5. UNCHANGED <<calls, pending, results, chan, blocked>> /\ seen' = [seen EXCEPT ![x.to] = @ \cup {x.call}]
  BY DEF HandleSearchRequest, SeenOrAdd, asking
<1> HIDE DEF onward, answer
<1>6. \A n \in Node : seen[n] \subseteq seen'[n]
           /\ \A c \in Call : c \in seen'[n] \ seen[n] => calls[c].pc # "idle"
  BY <1>1, <1>5 DEF LookupTypes, LookupTypeOK
<1> QED BY <1>1, <1>2, <1>3, <1>4, <1>5, <1>6, MessageKeys

LEMMA OtherKeys ==
  ASSUME LookupTypes, KeyInv,
         \/ Unblock \/ UNCHANGED lookupVars
         \/ \E x \in msgs : Lose(x) \/ HandleRegisterProvider(x)
         \/ \E n \in Seeder : Seed(n) \/ Reregister(n) \/ FileDisappears(n) \/ ServeFails(n)
  PROVE  KeyInv'
<1>1. \A n : \A y \in Registration(n) : y.type = "register"
  BY SentTypes
<1>2. ASSUME ~Unblock
      PROVE /\ UNCHANGED <<calls, pending, results, chan, seen, blocked>>
            /\ \A y \in msgs' : y \in msgs \/ y.type = "register"
  <2>1. CASE UNCHANGED lookupVars
    BY <2>1 DEF lookupVars, asking
  <2>2. CASE \E x \in msgs : Lose(x) \/ HandleRegisterProvider(x)
    BY <2>2 DEF Lose, HandleRegisterProvider, asking
  <2>3. CASE \E n \in Seeder : Seed(n) \/ Reregister(n) \/ FileDisappears(n) \/ ServeFails(n)
    BY <1>1, <2>3 DEF Seed, Reregister, FileDisappears, ServeFails, RegisterProvider, asking
  <2> QED BY <1>2, <2>1, <2>2, <2>3
<1>3. CASE Unblock
  <2>1. blocked[1] \in Call /\ calls[blocked[1]].pc # "idle"
    BY <1>3 DEF Unblock, KeyInv, LookupTypes, LookupTypeOK
  <2>2. \A c \in Call : chan'[c] # chan[c] => calls[c].pc # "idle"
    BY <1>3, <2>1 DEF Unblock, LookupTypes, LookupTypeOK
  <2>3. UNCHANGED <<calls, pending, results, msgs, seen>> /\ blocked' = None
    BY <1>3 DEF Unblock
  <2> QED BY <2>2, <2>3, MessageKeys
<1> QED BY <1>2, <1>3, MessageKeys

-----------------------------------------------------------------------------
(* Nobody answers a call twice, so that there is room for every answer.    *)

LEMMA AnswerIs ==
  ASSUME NEW x \in Message, x.type = "answer", x.to = Origin
  PROVE  x = Answer(x.from, x.call, x.key)
<1>1. x \in [type : {"get", "answer"}, call : Call, key : Key, from : Node, to : Node]
  BY MessageTypes
<1> QED BY <1>1 DEF Answer

LEMMA SameMessage ==
  ASSUME NEW x \in Message, x.type \in {"get", "answer"},
         NEW y \in Message, y.type = x.type, y.call = x.call, y.key = x.key,
         y.from = x.from, y.to = x.to
  PROVE  y = x
<1> DEFINE Fields(z) == [type |-> z.type, call |-> z.call, key |-> z.key, from |-> z.from, to |-> z.to]
<1>1. /\ x \in [type : {"get", "answer"}, call : Call, key : Key, from : Node, to : Node]
      /\ y \in [type : {"get", "answer"}, call : Call, key : Key, from : Node, to : Node]
  BY MessageTypes
<1>2. x = Fields(x) /\ y = Fields(y)
  BY <1>1
<1>3. Fields(x) = Fields(y)
  OBVIOUS
<1> HIDE DEF Fields
<1> QED BY <1>2, <1>3

LEMMA CollectedNodes ==
  ASSUME LookupTypes, NEW c \in Call
  PROVE  Collected(c) \subseteq Node /\ chan[c] \in Seq(Node) /\ Len(chan[c]) \in Nat
  BY DEF Collected, LookupTypes, LookupTypeOK

\* A step that sends nothing for the call, and takes at most something from its channel.
LEMMA OnceKept ==
  ASSUME LookupTypes, NEW c \in Call, OnceInv(c), calls'[c].key = calls[c].key,
         calls'[c].pc # "idle" => calls[c].pc # "idle",
         \A i, j \in 1 .. Len(chan'[c]) : chan'[c][i] = chan'[c][j] => i = j,
         Collected(c)' \subseteq Collected(c),
         \A x \in msgs' : x \in msgs \/ x.type \in {"register", "search"} \/ x.call # c,
         \A n \in Node : seen[n] \subseteq seen'[n]
  PROVE  OnceInv(c)'
<1> DEFINE k == calls[c].key
<1> SUFFICES ASSUME calls'[c].pc # "idle"
             PROVE  /\ Collected(c)' \subseteq Responders(k)
                    /\ \A x \in msgs' : x.type = "get" /\ x.call = c =>
                         /\ x.from = Origin /\ x.to \in Responders(k) /\ x.to \notin Collected(c)'
                         /\ Answer(x.to, c, k) \notin msgs'
                    /\ \A x \in msgs' : x.type = "answer" /\ x.call = c =>
                         x.to = Origin /\ x.from \in Responders(k) /\ x.from \notin Collected(c)'
                    /\ k = SearchKey(c) =>
                         /\ \A n \in Collected(c)' : c \in seen'[n]
                         /\ \A x \in msgs' : x.type = "answer" /\ x.call = c => c \in seen'[x.from]
  BY DEF OnceInv
<1>1. \A x \in msgs' : x.type \in {"get", "answer"} /\ x.call = c => x \in msgs
  OBVIOUS
<1>2. \A n : Answer(n, c, k).type = "answer" /\ Answer(n, c, k).call = c
  BY SentTypes
<1>3. \A x \in msgs : x.type = "answer" => x.from \in Node
  BY MessageTypes DEF LookupTypes, LookupTypeOK
<1>4. Collected(c) \subseteq Node
  BY CollectedNodes
<1>5. Collected(c)' \subseteq Responders(k)
  BY DEF OnceInv
<1>6. \A x \in msgs' : x.type = "get" /\ x.call = c =>
        /\ x.from = Origin /\ x.to \in Responders(k) /\ x.to \notin Collected(c)'
        /\ Answer(x.to, c, k) \notin msgs'
  BY <1>1, <1>2 DEF OnceInv
<1>7. \A x \in msgs' : x.type = "answer" /\ x.call = c =>
        x.to = Origin /\ x.from \in Responders(k) /\ x.from \notin Collected(c)'
  BY <1>1 DEF OnceInv
<1>8. k = SearchKey(c) =>
        /\ \A n \in Collected(c)' : c \in seen'[n]
        /\ \A x \in msgs' : x.type = "answer" /\ x.call = c => c \in seen'[x.from]
  BY <1>1, <1>3, <1>4 DEF OnceInv
<1> QED BY <1>5, <1>6, <1>7, <1>8

\* The same for a step that leaves the channel as it is.
LEMMA OnceSame ==
  ASSUME LookupTypes, NEW c \in Call, OnceInv(c), calls'[c].key = calls[c].key,
         calls'[c].pc # "idle" => calls[c].pc # "idle",
         chan'[c] = chan[c],
         \A x \in msgs' : x \in msgs \/ x.type \in {"register", "search"} \/ x.call # c,
         \A n \in Node : seen[n] \subseteq seen'[n]
  PROVE  OnceInv(c)'
<1>1. CASE calls'[c].pc = "idle"
  BY <1>1 DEF OnceInv
<1>2. CASE calls'[c].pc # "idle"
  <2>1. \A i, j \in 1 .. Len(chan'[c]) : chan'[c][i] = chan'[c][j] => i = j
    BY <1>2 DEF OnceInv
  <2>2. Collected(c)' \subseteq Collected(c)
    BY DEF Collected
  <2> QED BY <2>1, <2>2, OnceKept
<1> QED BY <1>1, <1>2

LEMMA StartRoom ==
  ASSUME LookupTypes, KeyInv, RoomInv, NEW c \in Call, NEW k, NEW requests,
         Ask(c, k, requests), Requests(c, k, requests), SeenBy(c, k)
  PROVE  RoomInv'
<1>1. /\ k \in Key /\ calls[c].pc = "idle" /\ calls'[c].key = k
      /\ \A d \in Call : d # c => calls'[d] = calls[d]
      /\ msgs' = msgs \cup requests
      /\ UNCHANGED <<chan, mixed, blocked>>
  BY AskedNow DEF Requests
<1>2. NotMade(c)
  BY <1>1 DEF KeyInv
<1> SUFFICES ASSUME ~mixed, NEW d \in Call PROVE OnceInv(d)'
  BY <1>1 DEF RoomInv
<1>3. CASE d = c
  <2>1. chan'[c] = << >> /\ Collected(c)' = {}
    BY <1>1, <1>2 DEF NotMade, Collected
  <2>2. \A x \in msgs' : x.type \in {"get", "answer"} /\ x.call = c => x \in requests
    BY <1>1, <1>2 DEF NotMade
  <2>3. \A x \in requests : x.type # "answer" /\ (x.type = "get" => x.from = Origin /\ x.to \in Responders(k))
    BY DEF Requests
  <2>4. \A n : Answer(n, c, k).type = "answer" /\ Answer(n, c, k).call = c
    BY SentTypes
  <2> QED BY <1>1, <1>3, <2>1, <2>2, <2>3, <2>4 DEF OnceInv
<1>4. CASE d # c
  <2>1. OnceInv(d)
    BY DEF RoomInv
  <2>2. \A x \in msgs' : x \in msgs \/ x.call # d
    BY <1>1, <1>4 DEF Requests
  <2> QED BY <1>1, <1>4, <2>1, <2>2, OnceSame DEF SeenBy
<1> QED BY <1>3, <1>4

LEMMA TakeRoom ==
  ASSUME LookupTypes, RoomInv, NEW c \in Call, TakeAnswer(c) \/ Timeout(c) \/ Leave(c)
  PROVE  RoomInv'
<1>1. /\ \A d \in Call : /\ calls'[d].key = calls[d].key
                         /\ calls'[d].pc # "idle" => calls[d].pc # "idle"
      /\ UNCHANGED <<msgs, seen, mixed, blocked>>
  BY DEF LookupTypes, LookupTypeOK, TakeAnswer, Timeout, Leave
<1> SUFFICES ASSUME ~mixed, NEW d \in Call PROVE OnceInv(d)'
  BY <1>1 DEF RoomInv
<1>2. OnceInv(d)
  BY DEF RoomInv
<1>3. CASE d = c /\ TakeAnswer(c)
  <2>1. chan[c] \in Seq(Node) /\ chan[c] # << >> /\ chan'[c] = Tail(chan[c]) /\ calls[c].pc = "wait"
    BY <1>3 DEF LookupTypes, LookupTypeOK, TakeAnswer
  <2>2. \A i, j \in 1 .. Len(chan[c]) : chan[c][i] = chan[c][j] => i = j
    BY <1>2, <1>3, <2>1 DEF OnceInv
  <2>3. /\ Len(chan'[c]) = Len(chan[c]) - 1 /\ Len(chan[c]) \in Nat
        /\ \A i \in 1 .. Len(chan'[c]) : chan'[c][i] = chan[c][i + 1]
    BY <2>1
  <2>4. \A i, j \in 1 .. Len(chan'[c]) : chan'[c][i] = chan'[c][j] => i = j
    BY <2>2, <2>3
  <2>5. Collected(c)' \subseteq Collected(c)
    BY <2>3 DEF Collected
  <2> QED BY <1>1, <1>2, <1>3, <2>4, <2>5, OnceKept
<1>4. CASE ~(d = c /\ TakeAnswer(c))
  <2>1. chan'[d] = chan[d]
    BY <1>4 DEF LookupTypes, LookupTypeOK, TakeAnswer, Timeout, Leave
  <2> QED BY <1>1, <1>2, <2>1, OnceSame
<1> QED BY <1>3, <1>4

LEMMA GetRoom ==
  ASSUME LookupTypes, KeyInv, RoomInv, NEW x \in msgs, HandleGet(x) PROVE RoomInv'
<1> DEFINE c == x.call
           k == calls[c].key
           y == Answer(x.to, c, k)
<1>1. /\ x.type = "get" /\ c \in Call /\ calls[c].pc # "idle" /\ x.key = k /\ k # SearchKey(c)
      /\ x \in Message
  BY MadeBefore DEF HandleGet, Receive, KeyInv, LookupTypes, LookupTypeOK
<1>2. msgs' = (msgs \ {x}) \cup {y} /\ UNCHANGED <<calls, chan, mixed, blocked, seen>>
  BY <1>1 DEF HandleGet, asking
<1>3. y.type = "answer" /\ y.call = c /\ y.key = k /\ y.from = x.to /\ y.to = Origin
  BY SentTypes
<1> SUFFICES ASSUME ~mixed, NEW d \in Call PROVE OnceInv(d)'
  BY <1>2 DEF RoomInv
<1>4. OnceInv(d) /\ OnceInv(c)
  BY <1>1 DEF RoomInv
<1>5. CASE d = c
  <2>1. x.from = Origin /\ x.to \in Responders(k) /\ x.to \notin Collected(c)
    BY <1>1, <1>4 DEF OnceInv
  <2>2. Collected(c)' = Collected(c)
    BY <1>2 DEF Collected
  <2>3. ASSUME NEW z \in msgs', z.type = "get", z.call = c
        PROVE  /\ z.from = Origin /\ z.to \in Responders(k) /\ z.to \notin Collected(c)
               /\ Answer(z.to, c, k) \notin msgs'
    <3>1. z \in msgs /\ z # x /\ z \in Message
      BY <1>2, <1>3, <2>3 DEF LookupTypes, LookupTypeOK
    <3>2. z.from = Origin /\ z.to \in Responders(k) /\ z.to \notin Collected(c) /\ Answer(z.to, c, k) \notin msgs
      BY <1>1, <1>4, <2>3, <3>1 DEF OnceInv
    <3>3. z.key = k
      BY <2>3, <3>1 DEF KeyInv
    <3>4. z.to # x.to
      BY <1>1, <2>1, <2>3, <3>1, <3>2, <3>3, SameMessage
    <3>5. Answer(z.to, c, k) # y
      BY <1>3, <3>4, SentTypes
    <3> QED BY <1>2, <3>2, <3>5
  <2>4. \A z \in msgs' : z.type = "answer" /\ z.call = c =>
          z.to = Origin /\ z.from \in Responders(k) /\ z.from \notin Collected(c)
    BY <1>1, <1>2, <1>3, <1>4, <2>1 DEF OnceInv
  <2> QED BY <1>1, <1>2, <1>4, <1>5, <2>2, <2>3, <2>4 DEF OnceInv
<1>6. CASE d # c
  <2>1. \A z \in msgs' : z \in msgs \/ z.call # d
    BY <1>2, <1>3, <1>6
  <2> QED BY <1>2, <1>4, <2>1, OnceSame
<1> QED BY <1>5, <1>6

LEMMA AnswerRoom ==
  ASSUME LookupTypes, KeyInv, RoomInv, NEW x \in msgs, HandleAnswer(x) PROVE RoomInv'
<1> DEFINE c == x.call
           k == calls[c].key
<1>1. /\ x.type = "answer" /\ c \in Call /\ calls[c].pc # "idle" /\ x.key = k /\ k \in Key
      /\ x \in Message /\ x.from \in Node
  BY MadeBefore, MessageTypes DEF HandleAnswer, Receive, KeyInv, LookupTypes, LookupTypeOK
<1>2. msgs' = msgs \ {x} /\ UNCHANGED <<calls, seen>>
  BY DEF HandleAnswer
<1> SUFFICES ASSUME ~mixed' PROVE blocked' = None /\ \A d \in Call : OnceInv(d)'
  BY DEF RoomInv
<1>3. CASE UNCHANGED <<chan, blocked, mixed>>
  <2>1. ~mixed /\ blocked = None /\ \A d \in Call : OnceInv(d)
    BY <1>3 DEF RoomInv
  <2> QED BY <1>2, <1>3, <2>1, OnceSame
<1>4. CASE ~UNCHANGED <<chan, blocked, mixed>>
  <2>1. pending[k] = c /\ ~mixed
    BY <1>1, <1>4 DEF HandleAnswer
  <2>2. blocked = None /\ \A d \in Call : OnceInv(d)
    BY <2>1 DEF RoomInv
  <2>3. OnceInv(c)
    BY <1>1, <2>2
  <2>4. x.to = Origin /\ x.from \in Responders(k) /\ x.from \notin Collected(c)
    BY <1>1, <2>3 DEF OnceInv
  <2>5. /\ \A i, j \in 1 .. Len(chan[c]) : chan[c][i] = chan[c][j] => i = j
        /\ Collected(c) \subseteq Responders(k)
    BY <1>1, <2>3 DEF OnceInv
  <2>6. chan[c] \in Seq(Node) /\ Len(chan[c]) \in Nat
    BY <1>1, CollectedNodes
  <2>7. Len(chan[c]) < Capacity(k)
    <3>1. \A i \in 1 .. Len(chan[c]) : chan[c][i] \in Responders(k) /\ chan[c][i] # x.from
      BY <2>4, <2>5 DEF Collected
    <3>2. IsFiniteSet(Responders(k)) /\ Cardinality(Responders(k)) \in Nat /\ Capacity(k) \in Nat
          /\ Cardinality(Responders(k)) <= Capacity(k)
      BY <1>1, RoomForAll
    <3>3. Len(chan[c]) < Cardinality(Responders(k))
      BY <2>4, <2>5, <2>6, <3>1, <3>2, Shorter
    <3> QED BY <2>6, <3>2, <3>3
  <2>8. chan' = [chan EXCEPT ![c] = Append(@, x.from)] /\ UNCHANGED blocked
    BY <1>1, <1>4, <2>1, <2>7 DEF HandleAnswer
  <2>9. /\ chan'[c] = Append(chan[c], x.from)
        /\ \A d \in Call : d # c => chan'[d] = chan[d]
    BY <1>1, <2>8 DEF LookupTypes, LookupTypeOK
  <2>10. /\ Len(chan'[c]) = Len(chan[c]) + 1 /\ chan'[c][Len(chan[c]) + 1] = x.from
         /\ \A i \in 1 .. Len(chan[c]) : chan'[c][i] = chan[c][i]
    BY <2>6, <2>9, <1>1
  <2>11. Collected(c)' = Collected(c) \cup {x.from}
    <3>1. 1 .. Len(chan'[c]) = (1 .. Len(chan[c])) \cup {Len(chan[c]) + 1}
      BY <2>6, <2>10
    <3>2. Collected(c)' = {chan'[c][i] : i \in 1 .. Len(chan'[c])}
      BY DEF Collected
    <3>3. Collected(c)' = {chan'[c][i] : i \in 1 .. Len(chan[c])} \cup {chan'[c][Len(chan[c]) + 1]}
      BY <3>1, <3>2
    <3>4. {chan'[c][i] : i \in 1 .. Len(chan[c])} = Collected(c)
      BY <2>10 DEF Collected
    <3> QED BY <2>10, <3>3, <3>4
  <2>12. \A i, j \in 1 .. Len(chan'[c]) : chan'[c][i] = chan'[c][j] => i = j
    <3>1. \A i \in 1 .. Len(chan[c]) : chan[c][i] # x.from
      BY <2>4 DEF Collected
    <3>2. \A i \in 1 .. Len(chan'[c]) : i \in 1 .. Len(chan[c]) \/ i = Len(chan[c]) + 1
      BY <2>6, <2>10
    <3> QED BY <2>5, <2>10, <3>1, <3>2
  <2>13. x = Answer(x.from, c, k)
    BY <1>1, <2>4, AnswerIs
  <2>14. \A z \in msgs' : z.type = "get" /\ z.call = c =>
           /\ z.from = Origin /\ z.to \in Responders(k) /\ z.to \notin Collected(c)'
           /\ Answer(z.to, c, k) \notin msgs'
    BY <1>1, <1>2, <2>3, <2>11, <2>13 DEF OnceInv
  <2>15. ASSUME NEW z \in msgs', z.type = "answer", z.call = c
         PROVE  z.to = Origin /\ z.from \in Responders(k) /\ z.from \notin Collected(c)'
    <3>1. z \in msgs /\ z # x /\ z \in Message /\ z.key = k
      BY <1>2, <2>15 DEF LookupTypes, LookupTypeOK, KeyInv
    <3>2. z.to = Origin /\ z.from \in Responders(k) /\ z.from \notin Collected(c)
      BY <1>1, <2>3, <2>15, <3>1 DEF OnceInv
    <3>3. z.from # x.from
      BY <1>1, <2>4, <2>15, <3>1, <3>2, SameMessage
    <3> QED BY <2>11, <3>2, <3>3
  <2>16. k = SearchKey(c) =>
           /\ \A n \in Collected(c)' : c \in seen'[n]
           /\ \A z \in msgs' : z.type = "answer" /\ z.call = c => c \in seen'[z.from]
    BY <1>1, <1>2, <2>3, <2>11 DEF OnceInv
  <2>17. OnceInv(c)'
    BY <1>2, <2>5, <2>4, <2>11, <2>12, <2>14, <2>15, <2>16 DEF OnceInv
  <2>18. \A d \in Call : d # c => OnceInv(d)'
    BY <1>2, <2>2, <2>9, OnceSame
  <2> QED BY <2>2, <2>8, <2>17, <2>18
<1> QED BY <1>3, <1>4

LEMMA SearchRoom ==
  ASSUME LookupTypes, KeyInv, RoomInv, NEW x \in msgs, HandleSearchRequest(x) PROVE RoomInv'
<1> DEFINE c == x.call
           n == x.to
           y == Answer(n, c, SearchKey(c))
           onward == Search(c, n, Peers(n) \ {x.from}, x.ttl - 1)
<1>1. /\ x.type = "search" /\ c \in Call /\ calls[c].pc # "idle" /\ n \in Node
      /\ calls[c].key = SearchKey(c)
  BY MadeBefore, MessageTypes DEF HandleSearchRequest, Receive, KeyInv, LookupTypes, LookupTypeOK
<1>2. UNCHANGED <<calls, chan, mixed, blocked>> /\ seen' = [seen EXCEPT ![n] = @ \cup {c}]
  BY DEF HandleSearchRequest, SeenOrAdd, asking
<1>3. /\ msgs' \subseteq msgs \cup {y} \cup onward
      /\ y \in msgs' => y \in msgs \/ y \in onward \/ (c \notin seen[n] /\ Origin \in Peers(n))
  BY DEF HandleSearchRequest
<1>4. /\ y.type = "answer" /\ y.call = c /\ y.from = n /\ y.to = Origin
      /\ \A z \in onward : z.type = "search" /\ z.call = c
  BY SentTypes
<1> HIDE DEF y, onward
<1>5. /\ \A m \in Node : seen[m] \subseteq seen'[m]
      /\ c \in seen'[n]
  BY <1>1, <1>2 DEF LookupTypes, LookupTypeOK
<1> SUFFICES ASSUME ~mixed, NEW d \in Call PROVE OnceInv(d)'
  BY <1>2 DEF RoomInv
<1>6. OnceInv(d) /\ OnceInv(c)
  BY <1>1 DEF RoomInv
<1>7. CASE d # c \/ y \notin msgs' \/ y \in msgs
  <2>1. \A z \in msgs' : z \in msgs \/ z.type \in {"register", "search"} \/ z.call # d
    BY <1>3, <1>4, <1>7
  <2> QED BY <1>2, <1>5, <1>6, <2>1, OnceSame
<1>8. CASE d = c /\ y \in msgs' /\ y \notin msgs
  <2>1. c \notin seen[n] /\ Origin \in Peers(n)
    BY <1>3, <1>4, <1>8
  <2>2. n \in Responders(SearchKey(c)) /\ n \notin Collected(c)
    BY <1>1, <1>6, <2>1, PeersAreNodes, RespondersAre, LookupAssumption DEF OnceInv
  <2>3. Collected(c)' = Collected(c) /\ Collected(c) \subseteq Node
    BY <1>1, <1>2, CollectedNodes DEF Collected
  <2>4. \A z \in msgs : z.type = "get" => z.call # c
    BY <1>1 DEF KeyInv
  <2>5. \A z \in msgs' : z.type = "get" => z.call # c
    BY <1>3, <1>4, <2>4
  <2>6. \A z \in msgs' : z.type = "answer" /\ z.call = c => z = y \/ z \in msgs
    BY <1>3, <1>4
  <2>7. \A z \in msgs' : z.type = "answer" /\ z.call = c =>
          z.to = Origin /\ z.from \in Responders(SearchKey(c)) /\ z.from \notin Collected(c)
    BY <1>1, <1>4, <1>6, <2>2, <2>6 DEF OnceInv
  <2>8. \A z \in msgs : z.type = "answer" => z.from \in Node
    BY MessageTypes DEF LookupTypes, LookupTypeOK
  <2>9. /\ \A m \in Collected(c) : c \in seen'[m]
        /\ \A z \in msgs' : z.type = "answer" /\ z.call = c => c \in seen'[z.from]
    BY <1>1, <1>4, <1>5, <1>6, <2>3, <2>6, <2>8 DEF OnceInv
  <2> QED BY <1>1, <1>2, <1>6, <1>8, <2>3, <2>5, <2>7, <2>9 DEF OnceInv
<1> QED BY <1>7, <1>8

LEMMA OtherRoom ==
  ASSUME LookupTypes, RoomInv,
         \/ Unblock \/ UNCHANGED lookupVars
         \/ \E x \in msgs : Lose(x) \/ HandleRegisterProvider(x)
         \/ \E n \in Seeder : Seed(n) \/ Reregister(n) \/ FileDisappears(n) \/ ServeFails(n)
  PROVE  RoomInv'
<1>1. \A n : \A y \in Registration(n) : y.type = "register"
  BY SentTypes
<1>2. CASE Unblock
  BY <1>2 DEF RoomInv, Unblock
<1>3. CASE ~Unblock
  <2>1. UNCHANGED <<asking, seen, blocked>> /\ \A y \in msgs' : y \in msgs \/ y.type = "register"
    <3>1. CASE UNCHANGED lookupVars
      BY <3>1 DEF lookupVars
    <3>2. CASE \E x \in msgs : Lose(x) \/ HandleRegisterProvider(x)
      BY <3>2 DEF Lose, HandleRegisterProvider
    <3>3. CASE \E n \in Seeder : Seed(n) \/ Reregister(n) \/ FileDisappears(n) \/ ServeFails(n)
      BY <1>1, <3>3 DEF Seed, Reregister, FileDisappears, ServeFails, RegisterProvider
    <3> QED BY <1>3, <3>1, <3>2, <3>3
  <2>2. \A d \in Call : OnceInv(d) => OnceInv(d)'
    BY <2>1, OnceSame DEF asking
  <2> QED BY <2>1, <2>2 DEF RoomInv, asking
<1> QED BY <1>2, <1>3

-----------------------------------------------------------------------------
(* What a flood brings back.                                               *)

\* A call's channel stays in the table, what was answered stays answered, and what
\* is under way stays so, or reaches the peer.
LEMMA SearchKept ==
  ASSUME LookupTypes, SearchInv, NEW c \in Call,
         calls'[c].pc = "wait" /\ calls'[c].key = SearchKey(c) =>
           /\ calls[c].pc = "wait" /\ calls[c].key = SearchKey(c)
           /\ pending'[SearchKey(c)] = pending[SearchKey(c)],
         lost' = 0 => lost = 0,
         lost' = 0 => \A p \in Peers(Origin) :
           /\ c \in seen[p] => c \in seen'[p]
           /\ Answered(c, p) => Answered(c, p)'
           /\ c \notin seen[p] /\ c \in seen'[p] => (p \in Sharing => Answered(c, p)')
           /\ c \notin seen'[p] =>
                \A x \in msgs : x.type = "search" /\ x.call = c /\ x.to = p => x \in msgs',
         calls'[c].pc = "wait", calls'[c].key = SearchKey(c)
  PROVE  /\ pending'[SearchKey(c)] = c
         /\ lost' = 0 => \A p \in Peers(Origin) :
              IF c \in seen'[p] THEN p \in Sharing => Answered(c, p)'
              ELSE \E x \in msgs' : x.type = "search" /\ x.call = c /\ x.to = p
<1>1. /\ pending[SearchKey(c)] = c
      /\ lost = 0 => \A p \in Peers(Origin) :
           IF c \in seen[p] THEN p \in Sharing => Answered(c, p)
           ELSE \E x \in msgs : x.type = "search" /\ x.call = c /\ x.to = p
  BY DEF SearchInv
<1>2. ASSUME lost' = 0, NEW p \in Peers(Origin)
      PROVE IF c \in seen'[p] THEN p \in Sharing => Answered(c, p)'
            ELSE \E x \in msgs' : x.type = "search" /\ x.call = c /\ x.to = p
  BY <1>1, <1>2
<1> QED BY <1>1, <1>2

LEMMA StartSearch ==
  ASSUME LookupTypes, KeyInv, SearchInv, NEW c \in Call, NEW k, NEW requests,
         Ask(c, k, requests), Requests(c, k, requests), SeenBy(c, k),
         k = SearchKey(c) => requests = Search(c, Origin, Peers(Origin), TTL)
  PROVE  SearchInv'
<1>1. /\ k \in Key /\ k \in KeysOf(c) /\ calls[c].pc = "idle" /\ calls'[c].key = k
      /\ \A d \in Call : d # c => calls'[d] = calls[d]
      /\ pending'[k] = c /\ \A j \in Key : j # k => pending'[j] = pending[j]
      /\ msgs' = msgs \cup requests
      /\ UNCHANGED <<chan, results, blocked, lost>>
  BY AskedNow DEF Requests
<1>2. NotMade(c)
  BY <1>1 DEF KeyInv
<1>3. Peers(Origin) \subseteq Node \ {Origin} /\ Origin \in Node
  BY LookupAssumption DEF Peers
<1> SUFFICES ASSUME NEW d \in Call, calls'[d].pc = "wait", calls'[d].key = SearchKey(d)
             PROVE  /\ pending'[SearchKey(d)] = d
                    /\ lost' = 0 => \A p \in Peers(Origin) :
                         IF d \in seen'[p] THEN p \in Sharing => Answered(d, p)'
                         ELSE \E x \in msgs' : x.type = "search" /\ x.call = d /\ x.to = p
  BY DEF SearchInv
<1>4. CASE d = c
  <2>1. k = SearchKey(c)
    BY <1>1, <1>4
  <2>2. \A p \in Peers(Origin) : c \notin seen'[p]
    BY <1>2, <1>3, <2>1 DEF SeenBy, NotMade
  <2>3. ASSUME NEW p \in Peers(Origin)
        PROVE  \E x \in msgs' : x.type = "search" /\ x.call = c /\ x.to = p
    <3> DEFINE x == [type |-> "search", call |-> c, from |-> Origin, to |-> p, ttl |-> TTL]
    <3>1. x \in requests
      BY <2>1, <2>3 DEF Search
    <3> QED BY <1>1, <3>1
  <2> QED BY <1>1, <1>4, <2>1, <2>2, <2>3
<1>5. CASE d # c
  <2>1. SearchKey(d) # k /\ SearchKey(d) \in Key
    BY <1>1, <1>5, KeyFacts DEF Key
  <2>2. \A p \in Peers(Origin) : d \in seen'[p] <=> d \in seen[p]
    BY <1>3, <1>5 DEF SeenBy
  <2>3. \A p : Answered(d, p) => Answered(d, p)'
    BY <1>1 DEF Answered, Collected
  <2> QED BY <1>1, <1>5, <2>1, <2>2, <2>3, SearchKept
<1> QED BY <1>4, <1>5

LEMMA TakeSearch ==
  ASSUME LookupTypes, KeyInv, SearchInv, NEW c \in Call, TakeAnswer(c) \/ Timeout(c) \/ Leave(c)
  PROVE  SearchInv'
<1> SUFFICES ASSUME NEW d \in Call, calls'[d].pc = "wait", calls'[d].key = SearchKey(d)
             PROVE  /\ pending'[SearchKey(d)] = d
                    /\ lost' = 0 => \A p \in Peers(Origin) :
                         IF d \in seen'[p] THEN p \in Sharing => Answered(d, p)'
                         ELSE \E x \in msgs' : x.type = "search" /\ x.call = d /\ x.to = p
  BY DEF SearchInv
<1>1. /\ calls[d].pc = "wait" /\ calls[d].key = SearchKey(d)
      /\ UNCHANGED <<msgs, seen, lost, blocked>>
  BY DEF LookupTypes, LookupTypeOK, TakeAnswer, Timeout, Leave
<1>2. SearchKey(d) \in Key
  BY DEF Key
<1>3. pending'[SearchKey(d)] = pending[SearchKey(d)]
  <2>1. CASE TakeAnswer(c) \/ Timeout(c)
    BY <2>1 DEF TakeAnswer, Timeout
  <2>2. CASE Leave(c)
    <3>1. calls[c].pc = "leave" /\ c # d
      BY <1>1, <2>2 DEF Leave
    <3>2. calls[c].key \in KeysOf(c)
      BY <3>1 DEF KeyInv
    <3>3. calls[c].key # SearchKey(d)
      BY <3>1, <3>2, KeyFacts
    <3> QED BY <1>2, <2>2, <3>3 DEF Leave, LookupTypes, LookupTypeOK
  <2> QED BY <2>1, <2>2
<1>4. ASSUME NEW p, Answered(d, p) PROVE Answered(d, p)'
  <2>1. CASE ~(TakeAnswer(c) /\ c = d)
    <3>1. chan'[d] = chan[d] /\ results'[d] = results[d]
      BY <2>1 DEF LookupTypes, LookupTypeOK, TakeAnswer, Timeout, Leave
    <3> QED BY <1>1, <1>4, <3>1 DEF Answered, Collected
  <2>2. CASE TakeAnswer(c) /\ c = d
    <3>1. chan[d] \in Seq(Node) /\ chan[d] # << >> /\ chan'[d] = Tail(chan[d])
          /\ results'[d] = results[d] \cup {Head(chan[d])}
      BY <2>2 DEF LookupTypes, LookupTypeOK, TakeAnswer
    <3>2. /\ Len(chan'[d]) = Len(chan[d]) - 1 /\ Len(chan[d]) \in Nat /\ Head(chan[d]) = chan[d][1]
          /\ \A i \in 1 .. Len(chan'[d]) : chan'[d][i] = chan[d][i + 1]
      BY <3>1
    <3>3. ASSUME p \in Collected(d) PROVE p \in results'[d] \/ p \in Collected(d)'
      <4>1. PICK i \in 1 .. Len(chan[d]) : p = chan[d][i]
        BY <3>3 DEF Collected
      <4>2. CASE i = 1
        BY <3>1, <3>2, <4>1, <4>2
      <4>3. CASE i # 1
        <5>1. i - 1 \in 1 .. Len(chan'[d]) /\ chan'[d][i - 1] = p
          BY <3>2, <4>1, <4>3
        <5> QED BY <5>1 DEF Collected
      <4> QED BY <4>2, <4>3
    <3> QED BY <1>1, <1>4, <3>1, <3>3 DEF Answered
  <2> QED BY <2>1, <2>2
<1> QED BY <1>1, <1>3, <1>4, SearchKept

LEMMA GetSearch ==
  ASSUME LookupTypes, SearchInv, NEW x \in msgs, HandleGet(x) PROVE SearchInv'
<1>1. x.type = "get" /\ msgs \ {x} \subseteq msgs' /\ UNCHANGED <<calls, pending, chan, results, blocked, seen, lost>>
  BY DEF HandleGet, Receive, asking
<1>2. \A n, c, k : Answer(n, c, k).type = "answer"
  BY SentTypes
<1>3. \A c, p : Answered(c, p) => Answered(c, p)'
  BY <1>1, <1>2 DEF Answered, Collected
<1>4. \A y \in msgs : y.type = "search" => y \in msgs'
  BY <1>1
<1> QED BY <1>1, <1>3, <1>4, SearchKept DEF SearchInv

LEMMA AnswerSearch ==
  ASSUME LookupTypes, KeyInv, SearchInv, NEW x \in msgs, HandleAnswer(x) PROVE SearchInv'
<1>1. /\ x.type = "answer" /\ x \in Message /\ x.call \in Call /\ x.key = calls[x.call].key /\ x.key \in Key
      /\ msgs' = msgs \ {x} /\ UNCHANGED <<calls, pending, results, seen, lost>>
  BY MadeBefore, MessageTypes DEF HandleAnswer, Receive, KeyInv, LookupTypes, LookupTypeOK
<1> SUFFICES ASSUME NEW c \in Call, calls'[c].pc = "wait", calls'[c].key = SearchKey(c)
             PROVE  /\ pending'[SearchKey(c)] = c
                    /\ lost' = 0 => \A p \in Peers(Origin) :
                         IF c \in seen'[p] THEN p \in Sharing => Answered(c, p)'
                         ELSE \E y \in msgs' : y.type = "search" /\ y.call = c /\ y.to = p
  BY DEF SearchInv
<1>2. pending[SearchKey(c)] = c /\ c # None
  BY <1>1, LookupAssumption DEF SearchInv
<1>3. ASSUME NEW p \in Peers(Origin), Answered(c, p) PROVE Answered(c, p)'
  <2>1. CASE p \in results[c]
    BY <1>1, <2>1 DEF Answered
  <2>2. CASE p \in Collected(c)
    <3>1. CASE chan'[c] = chan[c]
      BY <2>2, <3>1 DEF Answered, Collected
    <3>2. CASE chan'[c] # chan[c]
      <4>1. chan'[c] = Append(chan[c], x.from) /\ chan[c] \in Seq(Node) /\ Len(chan[c]) \in Nat
        BY <3>2, CollectedNodes DEF HandleAnswer, LookupTypes, LookupTypeOK
      <4>2. PICK i \in 1 .. Len(chan[c]) : p = chan[c][i]
        BY <2>2 DEF Collected
      <4>3. i \in 1 .. Len(chan'[c]) /\ chan'[c][i] = p
        BY <4>1, <4>2
      <4> QED BY <4>3 DEF Answered, Collected
    <3> QED BY <3>1, <3>2
  <2>3. CASE blocked = <<c, p>> /\ blocked' = blocked
    BY <2>3 DEF Answered
  <2>4. CASE blocked = <<c, p>> /\ blocked' # blocked
    <3>1. x.to = Origin => blocked = None
      BY DEF HandleAnswer, Receive
    <3>2. x.to = Origin
      BY <1>1 DEF KeyInv
    <3>3. p \in Node
      BY PeersAreNodes, LookupAssumption
    <3> QED BY <2>4, <3>1, <3>2, <3>3, LookupAssumption
  <2>5. CASE Answer(p, c, SearchKey(c)) \in msgs \ {x}
    BY <1>1, <2>5 DEF Answered
  <2>6. CASE x = Answer(p, c, SearchKey(c))
    <3>1. x.call = c /\ x.key = SearchKey(c) /\ x.from = p
      BY <2>6, SentTypes
    <3>2. ~Empty(x) /\ x.key # ProvidersKey
      BY <3>1, KeyFacts DEF Empty
    <3>3. CASE Len(chan[c]) < Capacity(x.key)
      <4>1. chan' = [chan EXCEPT ![c] = Append(@, p)]
        BY <1>2, <3>1, <3>2, <3>3 DEF HandleAnswer
      <4>2. chan'[c] = Append(chan[c], p) /\ chan[c] \in Seq(Node) /\ Len(chan[c]) \in Nat
        BY <4>1, CollectedNodes DEF LookupTypes, LookupTypeOK
      <4>3. Len(chan[c]) + 1 \in 1 .. Len(chan'[c]) /\ chan'[c][Len(chan[c]) + 1] = p
        BY <4>2
      <4> QED BY <4>3 DEF Answered, Collected
    <3>4. CASE ~(Len(chan[c]) < Capacity(x.key))
      <4>1. blocked' = <<c, p>>
        BY <1>2, <3>1, <3>2, <3>4 DEF HandleAnswer
      <4> QED BY <4>1 DEF Answered
    <3> QED BY <3>3, <3>4
  <2> QED BY <1>3, <2>1, <2>2, <2>3, <2>4, <2>5, <2>6 DEF Answered
<1>4. \A y \in msgs : y.type = "search" => y \in msgs'
  BY <1>1
<1> QED BY <1>1, <1>3, <1>4, SearchKept

LEMMA FloodSearch ==
  ASSUME LookupTypes, SearchInv, NEW x \in msgs, HandleSearchRequest(x) PROVE SearchInv'
<1> DEFINE n == x.to
           y == Answer(n, x.call, SearchKey(x.call))
<1>1. /\ x.type = "search" /\ x.call \in Call /\ n \in Node
      /\ msgs \ {x} \subseteq msgs'
      /\ x.call \notin seen[n] /\ n \in Sharing /\ Origin \in Peers(n) => y \in msgs'
      /\ seen' = [seen EXCEPT ![n] = @ \cup {x.call}]
      /\ UNCHANGED <<calls, pending, chan, results, blocked, lost>>
  BY MessageTypes DEF HandleSearchRequest, Receive, SeenOrAdd, LookupTypes, LookupTypeOK, asking
<1>2. \A m, c, k : Answer(m, c, k).type = "answer"
  BY SentTypes
<1>3. \A c, p : Answered(c, p) => Answered(c, p)'
  BY <1>1, <1>2 DEF Answered, Collected
<1>4. Peers(Origin) \subseteq Node /\ (n \in Peers(Origin) => Origin \in Peers(n))
  BY <1>1, PeersAreNodes, LookupAssumption
<1>5. \A p \in Node, c \in Call : c \in seen'[p] <=> c \in seen[p] \/ (p = n /\ c = x.call)
  BY <1>1 DEF LookupTypes, LookupTypeOK
<1>6. ASSUME NEW c \in Call, NEW p \in Peers(Origin), c \notin seen[p], c \in seen'[p], p \in Sharing
      PROVE  Answered(c, p)'
  <2>1. p = n /\ c = x.call
    BY <1>4, <1>5, <1>6
  <2>2. y \in msgs'
    BY <1>1, <1>4, <1>6, <2>1
  <2> QED BY <2>1, <2>2 DEF Answered
<1>7. \A c \in Call, p \in Peers(Origin) : c \notin seen'[p] =>
        \A z \in msgs : z.type = "search" /\ z.call = c /\ z.to = p => z \in msgs'
  BY <1>1, <1>4, <1>5
<1> HIDE DEF n, y
<1>8. \A c \in Call, p \in Peers(Origin) : c \in seen[p] => c \in seen'[p]
  BY <1>4, <1>5
<1> SUFFICES ASSUME NEW c \in Call, calls'[c].pc = "wait", calls'[c].key = SearchKey(c)
             PROVE  /\ pending'[SearchKey(c)] = c
                    /\ lost' = 0 => \A p \in Peers(Origin) :
                         IF c \in seen'[p] THEN p \in Sharing => Answered(c, p)'
                         ELSE \E z \in msgs' : z.type = "search" /\ z.call = c /\ z.to = p
  BY DEF SearchInv
<1> QED BY <1>1, <1>3, <1>6, <1>7, <1>8, SearchKept

LEMMA OtherSearch ==
  ASSUME LookupTypes, SearchInv,
         \/ Unblock \/ UNCHANGED lookupVars
         \/ \E x \in msgs : Lose(x) \/ HandleRegisterProvider(x)
         \/ \E n \in Seeder : Seed(n) \/ Reregister(n) \/ FileDisappears(n) \/ ServeFails(n)
  PROVE  SearchInv'
<1>1. UNCHANGED <<calls, pending, results, seen>> /\ (lost' = 0 => lost = 0)
  <2>1. CASE \E x \in msgs : Lose(x)
    BY <2>1 DEF Lose, asking, LookupTypes, LookupTypeOK
  <2>2. CASE ~\E x \in msgs : Lose(x)
    BY <2>2 DEF Unblock, lookupVars, asking, seeding, HandleRegisterProvider, Seed, Reregister, FileDisappears, ServeFails
  <2> QED BY <2>1, <2>2
<1>2. ASSUME lost' = 0, NEW y \in msgs, y.type # "register" PROVE y \in msgs'
  <2>1. ~\E x \in msgs : Lose(x)
    BY <1>2, LookupAssumption DEF Lose, LookupTypes, LookupTypeOK
  <2> QED BY <1>2, <2>1 DEF Unblock, lookupVars, HandleRegisterProvider, Receive, Seed, Reregister,
       RegisterProvider, FileDisappears, ServeFails
<1>3. \A n, c, k : Answer(n, c, k).type = "answer"
  BY SentTypes
<1>4. ASSUME lost' = 0, NEW c \in Call, NEW p, Answered(c, p) PROVE Answered(c, p)'
  <2>1. CASE ~Unblock
    <3>1. UNCHANGED <<chan, blocked>>
      BY <2>1 DEF lookupVars, asking, HandleRegisterProvider, Lose, Seed, Reregister, FileDisappears, ServeFails
    <3> QED BY <1>1, <1>2, <1>3, <1>4, <3>1 DEF Answered, Collected
  <2>2. CASE Unblock
    <3> DEFINE b == blocked[1]
    <3>1. b \in Call /\ blocked[2] \in Node /\ chan[b] \in Seq(Node) /\ Len(chan[b]) \in Nat
      BY <2>2, CollectedNodes DEF Unblock, LookupTypes, LookupTypeOK
    <3>2. chan' = [chan EXCEPT ![b] = Append(@, blocked[2])] /\ msgs' = msgs
      BY <2>2 DEF Unblock
    <3>3. CASE c # b
      <4>1. chan'[c] = chan[c] /\ blocked # <<c, p>>
        BY <3>2, <3>3 DEF LookupTypes, LookupTypeOK
      <4> QED BY <1>1, <1>4, <3>2, <4>1 DEF Answered, Collected
    <3>4. CASE c = b
      <4>1. chan'[c] = Append(chan[c], blocked[2])
        BY <3>1, <3>2, <3>4 DEF LookupTypes, LookupTypeOK
      <4>2. /\ Len(chan'[c]) = Len(chan[c]) + 1 /\ chan'[c][Len(chan[c]) + 1] = blocked[2]
            /\ \A i \in 1 .. Len(chan[c]) : chan'[c][i] = chan[c][i]
        BY <3>1, <3>4, <4>1
      <4>3. Len(chan[c]) + 1 \in 1 .. Len(chan'[c]) /\ 1 .. Len(chan[c]) \subseteq 1 .. Len(chan'[c])
        BY <3>1, <3>4, <4>2
      <4>4. Collected(c) \subseteq Collected(c)' /\ blocked[2] \in Collected(c)'
        BY <4>2, <4>3 DEF Collected
      <4> QED BY <1>1, <1>4, <3>2, <4>4 DEF Answered
    <3> QED BY <3>3, <3>4
  <2> QED BY <2>1, <2>2
<1> SUFFICES ASSUME NEW c \in Call, calls'[c].pc = "wait", calls'[c].key = SearchKey(c)
             PROVE  /\ pending'[SearchKey(c)] = c
                    /\ lost' = 0 => \A p \in Peers(Origin) :
                         IF c \in seen'[p] THEN p \in Sharing => Answered(c, p)'
                         ELSE \E z \in msgs' : z.type = "search" /\ z.call = c /\ z.to = p
  BY DEF SearchInv
<1> QED BY <1>1, <1>2, <1>4, SearchKept

-----------------------------------------------------------------------------
(* The invariant and what follows from it.                                 *)

LEMMA LookupInitially == LookupInit => LookupIInv
<1> SUFFICES ASSUME LookupInit PROVE LookupIInv
  OBVIOUS
<1>1. LookupTypes
  <2>1. calls \in [Call -> LookupRecord] /\ pending \in [Key -> Call \cup {None}]
    BY DEF LookupInit, LookupRecord
  <2>2. << >> \in Seq(Node) /\ chan \in [Call -> Seq(Node)]
    BY DEF LookupInit
  <2>3. lost \in 0 .. MaxLosses
    BY LookupAssumption DEF LookupInit
  <2> QED BY <2>1, <2>2, <2>3 DEF LookupInit, LookupTypes, LookupTypeOK, LookupRecord
<1>2. KeyInv
  BY LookupAssumption DEF LookupInit, KeyInv, NotMade
<1>3. RoomInv
  BY DEF LookupInit, RoomInv, OnceInv
<1>4. SearchInv
  BY DEF LookupInit, SearchInv
<1> QED BY <1>1, <1>2, <1>3, <1>4 DEF LookupIInv

LEMMA LookupStep ==
  ASSUME LookupIInv, [LookupNext]_lookupVars PROVE LookupIInv'
<1> USE DEF LookupIInv
<1>1. ASSUME NEW c \in Call, Start(c) PROVE LookupIInv'
  <2>1. PICK k, requests :
           /\ Ask(c, k, requests) /\ Requests(c, k, requests) /\ SeenBy(c, k)
           /\ k = SearchKey(c) => requests = Search(c, Origin, Peers(Origin), TTL)
    BY <1>1, StartIs
  <2> QED BY <1>1, <2>1, StartTypes, StartKeys, StartRoom, StartSearch
<1>2. ASSUME NEW c \in Call, TakeAnswer(c) \/ Timeout(c) \/ Leave(c) PROVE LookupIInv'
  BY <1>2, CallTypes, TakeKeys, TakeRoom, TakeSearch
<1>3. ASSUME NEW x \in msgs, HandleGet(x) PROVE LookupIInv'
  BY <1>3, GetTypes, GetKeys, GetRoom, GetSearch
<1>4. ASSUME NEW x \in msgs, HandleAnswer(x) PROVE LookupIInv'
  BY <1>4, AnswerTypes, AnswerKeys, AnswerRoom, AnswerSearch
<1>5. ASSUME NEW x \in msgs, HandleSearchRequest(x) PROVE LookupIInv'
  BY <1>5, SearchTypes, SearchKeys, SearchRoom, FloodSearch
<1>6. ASSUME NEW x \in msgs, HandleRegisterProvider(x) PROVE LookupIInv'
  BY <1>6, RegisterTypes, OtherKeys, OtherRoom, OtherSearch
<1>7. ASSUME Unblock \/ (\E x \in msgs : Lose(x)) \/ UNCHANGED lookupVars PROVE LookupIInv'
  BY <1>7, OtherTypes, OtherKeys, OtherRoom, OtherSearch
<1>8. ASSUME NEW n \in Seeder, Seed(n) \/ Reregister(n) \/ FileDisappears(n) \/ ServeFails(n)
      PROVE LookupIInv'
  BY <1>8, SeedTypes, OtherKeys, OtherRoom, OtherSearch
<1> QED BY <1>1, <1>2, <1>3, <1>4, <1>5, <1>6, <1>7, <1>8 DEF LookupNext, Deliver

\* What the lookups rely on: the types, whose key a channel is under, that nobody
\* answers a call twice, and where the answers to a search are (FetchMetadataFromPeers,
\* GetProviders, SearchFiles and the control loop).
THEOREM LookupInvariant == LookupSpec => []LookupIInv
<1>1. LookupInit => LookupIInv
  BY LookupInitially
<1>2. LookupIInv /\ [LookupNext]_lookupVars => LookupIInv'
  BY LookupStep
<1> QED BY <1>1, <1>2, PTL DEF LookupSpec

\* The control loop never waits in HandleAnswer while no answer has come to another
\* call of its key, for any network and any number of calls and lost messages.
THEOREM LoopDoesNotWait == LookupSpec => []LoopNeverWaits
<1>1. LookupIInv => LoopNeverWaits
  BY DEF LookupIInv, RoomInv, LoopNeverWaits
<1> QED BY <1>1, LookupInvariant, PTL

\* A search whose flood is over has what its peers share, whatever the network, the
\* time to live and the order in which requests and answers arrive.
THEOREM SearchFindsAll == LookupSpec => []SearchFinds
<1>1. ASSUME LookupIInv PROVE SearchFinds
  <2> SUFFICES ASSUME NEW c \in Call, calls[c].pc = "wait", calls[c].key = SearchKey(c),
                      SearchOver(c), lost = 0, blocked = None,
                      NEW p \in Sharing \cap Peers(Origin)
               PROVE  p \in results[c] \cup {chan[c][i] : i \in DOMAIN chan[c]}
    BY DEF SearchFinds
  <2>1. \A x \in msgs : x.type = "register" \/ x.call # c
    BY DEF SearchOver
  <2>2. Answered(c, p)
    BY <1>1, <2>1 DEF LookupIInv, SearchInv
  <2>3. Answer(p, c, SearchKey(c)) \notin msgs
    BY <2>1, SentTypes
  <2>4. p \in Node
    BY PeersAreNodes, LookupAssumption
  <2>5. blocked # <<c, p>>
    BY <2>4, LookupAssumption
  <2>6. DOMAIN chan[c] = 1 .. Len(chan[c])
    BY <1>1, CollectedNodes DEF LookupIInv
  <2> QED BY <2>2, <2>3, <2>5, <2>6 DEF Answered, Collected
<1> QED BY <1>1, LookupInvariant, PTL

=============================================================================
