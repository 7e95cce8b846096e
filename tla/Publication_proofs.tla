------------------------- MODULE Publication_proofs -------------------------
(***************************************************************************)
(* Proofs about how files are published and shared: Upload, for any number *)
(* of chunks, responsible nodes, calls and crashes, and any capacities,    *)
(* and Sharing, for any nodes, files and handlers.                         *)
(*                                                                         *)
(* Upload: chunkInfos is in index order because the whole pipeline is:     *)
(* what has been logged, what main is working on, what waits in procCh and *)
(* what stage 1 reads next are consecutive, with the chunks of the earlier *)
(* call as a prefix.  The log is in order too, since it is what the next   *)
(* call starts from.                                                       *)
(*                                                                         *)
(* Sharing: a handler that is about to write an access list back is alone  *)
(* with its file and holds the current list.                               *)
(***************************************************************************)
EXTENDS Upload, Sharing, SequenceTheorems, TLAPS


Setup == {"load", "create", "header", "rerecord"}
Piping == {"recv", "store", "acquire", "record"}
Joined == {"wait", "replicate", "manifest"}

\* Main has a chunk in its hands.
CurInv == pc \in {"store", "acquire", "record"} => cur \in Chunk

TypeInv == TypeOK /\ CurInv

InOrder(m) == \A k \in 1 .. Len(m) : m[k].index = k - 1

OrderInv == InOrder(log.recs) /\ InOrder(infos) /\ InOrder(resumed)

\* The log follows chunkInfos, one chunk behind.
LogInv ==
  /\ pc \in Setup => stage1 = "run" /\ reader = 0 /\ procCh = <<>>
  /\ pc \in {"create", "header", "rerecord"} => infos = resumed
  /\ pc \in {"header", "rerecord"} => Len(log.recs) <= Len(resumed)
  /\ pc \in {"recv", "store", "acquire"} => Len(log.recs) = Len(infos)
  /\ pc \in {"store", "acquire"} => cur.index = Len(infos)
  /\ pc = "record" => Len(infos) = Len(log.recs) + 1 /\ cur.index = Len(log.recs)

\* Chunks that have left procCh.
Taken == Len(infos) + IF pc \in {"store", "acquire"} THEN 1 ELSE 0

\* procCh goes on where main is, and stage 1 where procCh ends, once it is past the
\* chunks of the earlier call.
PipeInv ==
  /\ pc \in Piping \cup Joined =>
       /\ \A k \in 1 .. Len(procCh) : procCh[k].index = Taken + k - 1
       /\ stage1 = "run" =>
            Taken + Len(procCh) = IF reader < Len(resumed) THEN Len(resumed) ELSE reader
       /\ stage1 = "end" => stopped \/ Taken + Len(procCh) = N
  /\ pc \in Joined => procCh = <<>> /\ stage1 # "run"
  /\ pc \in {"replicate", "manifest"} => stage1 = "end"

IInv == TypeInv /\ OrderInv /\ LogInv /\ PipeInv /\ ManifestInOrder

USE SizeAssumption, BoundsAssumption

-----------------------------------------------------------------------------
(* Sequences in index order.                                               *)

LEMMA AppendInOrder ==
  ASSUME NEW m \in Seq(Chunk), NEW x \in Chunk, InOrder(m), x.index = Len(m)
  PROVE  InOrder(Append(m, x))
<1>1. /\ Len(m) \in Nat /\ Len(Append(m, x)) = Len(m) + 1 /\ Append(m, x)[Len(m) + 1] = x
      /\ \A k \in 1 .. Len(m) : Append(m, x)[k] = m[k]
  BY AppendProperties, LenProperties
<1> QED
  BY <1>1 DEF InOrder

LEMMA EmptyInOrder == <<>> \in Seq(Chunk) /\ Len(<<>>) = 0 /\ InOrder(<<>>)
  BY EmptySeq DEF InOrder

\* It has at most N elements.
LEMMA InOrderBound ==
  ASSUME NEW m \in Seq(Chunk), InOrder(m)
  PROVE  Len(m) \in 0 .. N
<1>1. Len(m) \in Nat /\ \A k \in 1 .. Len(m) : m[k] \in Chunk
  BY LenProperties, ElementOfSeq
<1>2. CASE Len(m) = 0
  BY <1>2
<1>3. CASE Len(m) # 0
  <2>1. Len(m) \in 1 .. Len(m)
    BY <1>1, <1>3
  <2>2. m[Len(m)].index = Len(m) - 1 /\ m[Len(m)].index \in Index
    BY <1>1, <2>1 DEF InOrder, Chunk
  <2> QED
    BY <1>1, <2>2 DEF Index
<1> QED
  BY <1>2, <1>3

-----------------------------------------------------------------------------
(* Types.                                                                  *)

Labels == {"idle", "load", "create", "header", "rerecord", "recv", "store", "acquire", "record",
           "wait", "replicate", "manifest", "finalize"} \cup Ended

LogType == [state : {"none", "torn", "good"}, recs : Seq(Chunk)]

LEMMA LogRecord ==
  ASSUME NEW st \in {"none", "torn", "good"}, NEW r \in Seq(Chunk)
  PROVE  [state |-> st, recs |-> r] \in LogType
  BY DEF LogType

LEMMA InitType == Init => TypeInv
<1> SUFFICES ASSUME Init
             PROVE  TypeInv
  OBVIOUS
<1>1. <<>> \in Seq(Chunk) /\ Len(<<>>) = 0
  BY EmptyInOrder
<1>2. log \in LogType
  BY <1>1, LogRecord DEF Init, NoLog
<1>3. send \in [Chunk -> [Target -> {"none", "sending", "ok", "failed"}]]
  BY DEF Init, NoSends
<1>4. procCh \in Seq(Chunk) /\ Len(procCh) <= ProcCap
  BY <1>1 DEF Init
<1>5. {infos, resumed} \subseteq Seq(Chunk) /\ {manifest, sent} \subseteq Seq(Chunk)
  BY <1>1 DEF Init
<1>6. /\ repl \in [Chunk -> {"none", "spawned", "sending", "returned"}] /\ reader \in 0 .. N
      /\ calls \in 0 .. MaxCalls /\ crashes \in 0 .. MaxCrashes
  BY DEF Init
<1>7. ctxDone \in BOOLEAN /\ stopped \in BOOLEAN
  BY DEF Init
<1>8. TypeOK
  BY <1>2, <1>3, <1>4, <1>5, <1>6, <1>7 DEF Init, TypeOK, LogType
<1> QED
  BY <1>8 DEF Init, TypeInv, CurInv

LEMMA SetupType ==
  ASSUME TypeInv, Start \/ Load \/ CreateLog \/ WriteHeader \/ Rerecord
  PROVE  TypeInv'
<1> USE DEF TypeInv, CurInv
<1>0. <<>> \in Seq(Chunk) /\ Len(<<>>) = 0
  BY EmptyInOrder
<1>1. CASE Start
  <2>1. /\ procCh' \in Seq(Chunk) /\ Len(procCh') <= ProcCap /\ {infos', resumed'} \subseteq Seq(Chunk)
        /\ reader' \in 0 .. N /\ calls' \in 0 .. MaxCalls
    BY <1>0, <1>1 DEF Start, TypeOK
  <2> QED
    BY <1>1, <2>1 DEF Start, net, TypeOK
<1>2. CASE Load
  BY <1>2 DEF Load, net, bounds, TypeOK
<1>3. CASE CreateLog
  <2>1. log' \in LogType
    BY <1>0, <1>3, LogRecord DEF CreateLog
  <2> QED
    BY <1>3, <2>1 DEF CreateLog, call, net, bounds, TypeOK, LogType
<1>4. CASE WriteHeader
  <2>1. log' \in LogType
    BY <1>4 DEF WriteHeader, TypeOK, LogType
  <2> QED
    BY <1>4, <2>1 DEF WriteHeader, call, net, bounds, TypeOK, LogType
<1>5. CASE Rerecord
  <2>1. pc' \in {"rerecord", "recv"} /\ UNCHANGED <<call, net, cas, manifest, sent, bounds>>
    BY <1>5 DEF Rerecord
  <2>2. log' \in LogType
    <3>1. CASE log' = log
      BY <3>1 DEF TypeOK, LogType
    <3>2. CASE /\ Len(log.recs) < Len(resumed)
               /\ log' = [log EXCEPT !.recs = Append(@, resumed[Len(@) + 1])]
      <4>1. log.recs \in Seq(Chunk) /\ resumed \in Seq(Chunk) /\ log.state \in {"none", "torn", "good"}
        BY DEF TypeOK
      <4>2. resumed[Len(log.recs) + 1] \in Chunk
        BY <3>2, <4>1, LenProperties, ElementOfSeq
      <4>3. Append(log.recs, resumed[Len(log.recs) + 1]) \in Seq(Chunk)
        BY <4>1, <4>2, AppendProperties
      <4>4. log' = [state |-> log.state, recs |-> Append(log.recs, resumed[Len(log.recs) + 1])]
        BY <3>2 DEF TypeOK
      <4> QED
        BY <4>1, <4>3, <4>4, LogRecord
    <3> QED
      BY <1>5, <3>1, <3>2 DEF Rerecord
  <2> QED
    BY <2>1, <2>2 DEF call, net, bounds, TypeOK, LogType
<1> QED
  BY <1>1, <1>2, <1>3, <1>4, <1>5

LEMMA Stage1Type ==
  ASSUME TypeInv, Stage1
  PROVE  TypeInv'
<1> USE DEF TypeInv, CurInv
<1>1. ASSUME NEW b \in BOOLEAN, reader < N
      PROVE  LET x == [index |-> reader, cut |-> b] IN
             Len(procCh) < ProcCap =>
               Append(procCh, x) \in Seq(Chunk) /\ Len(Append(procCh, x)) <= ProcCap
  <2>1. [index |-> reader, cut |-> b] \in Chunk
    BY <1>1 DEF Chunk, Index, TypeOK
  <2>2. procCh \in Seq(Chunk) /\ Len(procCh) \in Nat
    BY LenProperties DEF TypeOK
  <2> QED
    BY <2>1, <2>2, AppendProperties
<1>2. CASE ReadChunk
  <2>1. procCh' \in Seq(Chunk) /\ Len(procCh') <= ProcCap
    BY <1>1, <1>2 DEF ReadChunk, TypeOK
  <2>2. reader' \in 0 .. N
    BY <1>2 DEF ReadChunk, TypeOK
  <2> QED
    BY <1>2, <2>1, <2>2 DEF ReadChunk, net, bounds, TypeOK
<1>3. CASE ReadEnd
  BY <1>3 DEF ReadEnd, net, bounds, TypeOK
<1>4. CASE SourceStops
  <2>1. procCh' \in Seq(Chunk) /\ Len(procCh') <= ProcCap
    BY <1>1, <1>4 DEF SourceStops, TypeOK
  <2> QED
    BY <1>4, <2>1 DEF SourceStops, net, TypeOK
<1> QED
  BY <1>2, <1>3, <1>4 DEF Stage1

LEMMA MainType ==
  ASSUME TypeInv,
         \/ Receive \/ StoreLocally \/ StoreFails \/ Spawn \/ RecordChunk \/ Join
         \/ ReplicateManifest \/ StoreManifest \/ Finalize
  PROVE  TypeInv'
<1> USE DEF TypeInv, CurInv
<1>1. CASE Receive
  <2>1. /\ procCh' \in Seq(Chunk) /\ Len(procCh') <= ProcCap /\ cur' \in Chunk \cup {NoChunk}
        /\ pc' \in {"store", "err", "wait"} /\ (pc' = "store" => cur' \in Chunk)
    <3>1. procCh \in Seq(Chunk) /\ Len(procCh) \in Nat /\ Len(procCh) <= ProcCap
      BY LenProperties DEF TypeOK
    <3>2. procCh # <<>> => /\ Head(procCh) \in Chunk /\ Tail(procCh) \in Seq(Chunk)
                           /\ Len(Tail(procCh)) = Len(procCh) - 1
      BY <3>1, HeadTailProperties
    <3>3. CASE procCh # <<>>
      BY <1>1, <3>1, <3>2, <3>3 DEF Receive
    <3>4. CASE procCh = <<>>
      <4>1. pc' = "wait" /\ procCh' = procCh /\ cur' = cur
        BY <1>1, <3>4 DEF Receive
      <4> QED
        BY <3>1, <4>1 DEF TypeOK
    <3> QED
      BY <3>3, <3>4
  <2> QED
    BY <1>1, <2>1 DEF Receive, net, bounds, TypeOK, Ended
<1>2. CASE StoreLocally
  BY <1>2 DEF StoreLocally, call, net, bounds, TypeOK
<1>3. CASE StoreFails
  BY <1>3 DEF StoreFails, call, net, bounds, TypeOK, Ended
<1>4. CASE Spawn
  <2>1. infos' \in Seq(Chunk)
    BY <1>4, AppendProperties DEF Spawn, TypeOK
  <2>2. repl' \in [Chunk -> {"none", "spawned", "sending", "returned"}]
    BY <1>4 DEF Spawn, TypeOK
  <2> QED
    BY <1>4, <2>1, <2>2 DEF Spawn, bounds, TypeOK
<1>5. CASE RecordChunk
  <2>1. log' \in LogType
    <3>1. Append(log.recs, cur) \in Seq(Chunk) /\ log.state \in {"none", "torn", "good"}
      BY <1>5, AppendProperties DEF RecordChunk, TypeOK
    <3>2. log' = [state |-> log.state, recs |-> Append(log.recs, cur)]
      BY <1>5 DEF RecordChunk, TypeOK
    <3> QED
      BY <3>1, <3>2, LogRecord
  <2> QED
    BY <1>5, <2>1 DEF RecordChunk, net, bounds, TypeOK, LogType
<1>6. CASE Join
  BY <1>6 DEF Join, call, net, bounds, TypeOK, Ended
<1>7. CASE ReplicateManifest
  BY <1>7 DEF ReplicateManifest, call, net, bounds, TypeOK
<1>8. CASE StoreManifest
  BY <1>8 DEF StoreManifest, call, net, bounds, TypeOK, Ended
<1>9. CASE Finalize
  <2>1. log' \in LogType
    BY <1>9, EmptyInOrder, LogRecord DEF Finalize, NoLog
  <2> QED
    BY <1>9, <2>1 DEF Finalize, call, net, bounds, TypeOK, LogType, Ended
<1> QED
  BY <1>1, <1>2, <1>3, <1>4, <1>5, <1>6, <1>7, <1>8, <1>9

LEMMA ReplicateType ==
  ASSUME TypeInv, NEW c \in Chunk, Replicate(c)
  PROVE  TypeInv'
<1> USE DEF TypeInv, CurInv
<1> DEFINE Repl == [Chunk -> {"none", "spawned", "sending", "returned"}]
           Send == [Chunk -> [Target -> {"none", "sending", "ok", "failed"}]]
<1>1. CASE StartSends(c)
  <2>1. PICK connected \in SUBSET Target :
          /\ send' = [send EXCEPT ![c] = [t \in Target |-> IF t \in connected THEN "sending" ELSE "none"]]
          /\ placed' = placed \cup {<<t, c>> : t \in Target \ connected}
    BY <1>1 DEF StartSends
  <2>2. repl' \in Repl /\ send' \in Send /\ placed' \subseteq Target \X Chunk
    BY <1>1, <2>1 DEF StartSends, TypeOK
  <2> QED
    BY <1>1, <2>2 DEF StartSends, call, bounds, TypeOK
<1>2. CASE Replicated(c)
  <2>1. repl' \in Repl
    BY <1>2 DEF Replicated, TypeOK
  <2>2. send' \in Send
    BY <1>2 DEF Replicated, TypeOK
  <2> QED
    BY <1>2, <2>1, <2>2 DEF Replicated, call, bounds, TypeOK
<1>3. ASSUME NEW t \in Target, SendEnds(c, t)
      PROVE  TypeInv'
  <2>1. PICK result \in {"ok", "failed", "none"} : send' = [send EXCEPT ![c][t] = result]
    BY <1>3 DEF SendEnds
  <2>2. send' \in Send /\ placed' \subseteq Target \X Chunk
    BY <1>3, <2>1 DEF SendEnds, TypeOK
  <2> QED
    BY <1>3, <2>2 DEF SendEnds, call, bounds, TypeOK
<1> QED
  BY <1>1, <1>2, <1>3 DEF Replicate

LEMMA EnvironmentType ==
  ASSUME TypeInv, Cancel \/ Crash \/ UNCHANGED vars
  PROVE  TypeInv'
<1> USE DEF TypeInv, CurInv
<1>1. CASE Cancel
  BY <1>1 DEF Cancel, net, bounds, TypeOK
<1>2. CASE Crash
  <2>1. /\ repl' \in [Chunk -> {"none", "spawned", "sending", "returned"}]
        /\ send' \in [Chunk -> [Target -> {"none", "sending", "ok", "failed"}]]
    BY <1>2 DEF Crash, NoSends
  <2>2. procCh' \in Seq(Chunk) /\ Len(procCh') <= ProcCap /\ {infos', resumed'} \subseteq Seq(Chunk)
    BY <1>2, EmptyInOrder DEF Crash
  <2>3. pc' \in {"ok", "dead"} /\ crashes' \in 0 .. MaxCrashes /\ reader' \in 0 .. N
    BY <1>2 DEF Crash, TypeOK
  <2> QED
    BY <1>2, <2>1, <2>2, <2>3 DEF Crash, TypeOK, Ended
<1>3. CASE UNCHANGED vars
  BY <1>3 DEF vars, call, net, bounds, TypeOK
<1> QED
  BY <1>1, <1>2, <1>3

LEMMA NextType == TypeInv /\ [Next]_vars => TypeInv'
  BY SetupType, Stage1Type, MainType, ReplicateType, EnvironmentType DEF Next, Main

-----------------------------------------------------------------------------
(* The pipeline is in order.                                               *)

LEMMA Lengths ==
  ASSUME TypeInv
  PROVE  /\ Len(infos) \in Nat /\ Len(resumed) \in Nat /\ Len(procCh) \in Nat
         /\ Len(log.recs) \in Nat /\ log.recs \in Seq(Chunk)
         /\ infos \in Seq(Chunk) /\ resumed \in Seq(Chunk) /\ procCh \in Seq(Chunk)
         /\ reader \in 0 .. N
<1>1. /\ infos \in Seq(Chunk) /\ resumed \in Seq(Chunk) /\ procCh \in Seq(Chunk)
      /\ log.recs \in Seq(Chunk) /\ reader \in 0 .. N
  BY DEF TypeInv, TypeOK
<1> QED
  BY <1>1, LenProperties

\* Stage 1 skips a prefix of the source.
LEMMA SkippedPrefix ==
  ASSUME TypeInv, OrderInv
  PROVE  Skipped(reader) <=> reader < Len(resumed)
<1>1. Len(resumed) \in Nat /\ reader \in 0 .. N
  BY Lengths
<1>2. \A k \in 1 .. Len(resumed) : resumed[k].index = k - 1
  BY DEF OrderInv, InOrder
<1>3. ASSUME reader < Len(resumed)
      PROVE  Skipped(reader)
  <2>1. reader + 1 \in 1 .. Len(resumed) /\ resumed[reader + 1].index = reader
    BY <1>1, <1>2, <1>3
  <2> QED
    BY <2>1 DEF Skipped
<1>4. ASSUME Skipped(reader)
      PROVE  reader < Len(resumed)
  BY <1>1, <1>2, <1>4 DEF Skipped
<1> QED
  BY <1>3, <1>4

\* Steps of the goroutines that replicate, and stuttering steps.
LEMMA AsideInv ==
  ASSUME IInv, TypeInv',
         UNCHANGED <<pc, reader, stage1, procCh, cur, infos, resumed, log, manifest, sent, stopped>>
  PROVE  IInv'
  BY DEF IInv, OrderInv, InOrder, LogInv, PipeInv, Taken, ManifestInOrder

LEMMA SetupInv ==
  ASSUME IInv, TypeInv', Start \/ Load \/ CreateLog \/ WriteHeader \/ Rerecord
  PROVE  IInv'
<1> USE DEF IInv
<1>0. ManifestInOrder'
  BY DEF ManifestInOrder, Start, Load, CreateLog, WriteHeader, Rerecord, bounds
<1>1. CASE Start
  <2>1. OrderInv'
    BY <1>1, EmptyInOrder DEF Start, OrderInv, InOrder
  <2>2. LogInv' /\ PipeInv'
    BY <1>1 DEF Start, LogInv, PipeInv, Setup, Piping, Joined
  <2> QED
    BY <1>0, <2>1, <2>2
<1>2. CASE Load
  <2>1. OrderInv'
    BY <1>2 DEF Load, OrderInv, InOrder
  <2>2. LogInv' /\ PipeInv'
    BY <1>2 DEF Load, LogInv, PipeInv, Setup, Piping, Joined
  <2> QED
    BY <1>0, <2>1, <2>2
<1>3. CASE CreateLog \/ WriteHeader
  <2>1. /\ log'.recs = <<>> \/ (pc = "header" /\ log'.recs = log.recs)
        /\ UNCHANGED call /\ pc \in {"create", "header"} /\ pc' \in {"header", "rerecord"}
    <3>1. CASE CreateLog
      BY <3>1 DEF CreateLog
    <3>2. CASE WriteHeader
      <4>1. log'.recs = log.recs
        BY <3>2 DEF WriteHeader, TypeInv, TypeOK
      <4> QED
        BY <3>2, <4>1 DEF WriteHeader
    <3> QED
      BY <1>3, <3>1, <3>2
  <2>2. OrderInv'
    BY <2>1, EmptyInOrder DEF OrderInv, InOrder, call
  <2>3. Len(resumed) \in Nat
    BY Lengths
  <2>4. LogInv'
    BY <2>1, <2>3, EmptyInOrder DEF LogInv, Setup, call
  <2>5. PipeInv'
    BY <2>1 DEF PipeInv, Piping, Joined
  <2> QED
    BY <1>0, <2>2, <2>4, <2>5
<1>4. CASE Rerecord
  <2>1. UNCHANGED call /\ pc = "rerecord"
    BY <1>4 DEF Rerecord
  <2>2. Len(log.recs) \in Nat /\ Len(resumed) \in Nat /\ log.recs \in Seq(Chunk) /\ resumed \in Seq(Chunk)
    BY Lengths
  <2>3. CASE /\ Len(log.recs) < Len(resumed)
             /\ log' = [log EXCEPT !.recs = Append(@, resumed[Len(@) + 1])]
             /\ UNCHANGED pc
    <3> DEFINE x == resumed[Len(log.recs) + 1]
    <3>1. Len(log.recs) + 1 \in 1 .. Len(resumed)
      BY <2>2, <2>3
    <3>2. x \in Chunk /\ x.index = Len(log.recs)
      BY <2>2, <3>1, ElementOfSeq DEF OrderInv, InOrder
    <3>3. log'.recs = Append(log.recs, x)
      BY <2>3 DEF TypeInv, TypeOK
    <3> HIDE DEF x
    <3>4. InOrder(log'.recs) /\ Len(log'.recs) = Len(log.recs) + 1
      BY <2>2, <3>2, <3>3, AppendInOrder, AppendProperties DEF OrderInv
    <3>5. OrderInv'
      BY <2>1, <3>4 DEF OrderInv, InOrder, call
    <3>6. LogInv'
      BY <2>1, <2>2, <2>3, <3>4 DEF LogInv, Setup, call
    <3>7. PipeInv'
      BY <2>1, <2>3 DEF PipeInv, Piping, Joined
    <3> QED
      BY <1>0, <3>5, <3>6, <3>7
  <2>4. CASE Len(log.recs) = Len(resumed) /\ pc' = "recv" /\ UNCHANGED log
    <3>1. OrderInv'
      BY <2>1, <2>4 DEF OrderInv, InOrder, call
    <3>2. LogInv'
      BY <2>1, <2>4 DEF LogInv, Setup, call
    <3>3. PipeInv'
      BY <2>1, <2>2, <2>4, EmptyInOrder DEF LogInv, PipeInv, Taken, Setup, Piping, Joined, call
    <3> QED
      BY <1>0, <3>1, <3>2, <3>3
  <2> QED
    BY <1>4, <2>3, <2>4 DEF Rerecord
<1> QED
  BY <1>1, <1>2, <1>3, <1>4

LEMMA ReadingPipes ==
  ASSUME IInv, Reading
  PROVE  pc \in Piping \cup {"finalize"} /\ stage1 = "run"
  BY DEF Reading, IInv, TypeInv, TypeOK, PipeInv, Piping, Joined, Ended

\* What stage 1 appends to procCh comes next.
LEMMA PassedOn ==
  ASSUME IInv, Reading, reader < N, ~Skipped(reader), NEW b \in BOOLEAN
  PROVE  LET q == Append(procCh, [index |-> reader, cut |-> b]) IN
         /\ Len(q) = Len(procCh) + 1
         /\ pc \in Piping => /\ Taken + Len(procCh) = reader
                             /\ \A k \in 1 .. Len(q) : q[k].index = Taken + k - 1
<1> DEFINE x == [index |-> reader, cut |-> b]
           q == Append(procCh, x)
<1>1. /\ Len(procCh) \in Nat /\ procCh \in Seq(Chunk) /\ reader \in 0 .. N /\ Len(resumed) \in Nat
      /\ Len(infos) \in Nat
  BY Lengths DEF IInv
<1>2. x \in Chunk /\ x.index = reader
  BY <1>1 DEF Chunk, Index
<1> HIDE DEF x
<1>3. /\ Len(q) = Len(procCh) + 1 /\ q[Len(procCh) + 1] = x
      /\ \A k \in 1 .. Len(procCh) : q[k] = procCh[k]
  BY <1>1, <1>2, AppendProperties
<1> HIDE DEF q
<1>4. ~(reader < Len(resumed))
  BY SkippedPrefix DEF IInv
<1>5. ASSUME pc \in Piping
      PROVE  /\ Taken + Len(procCh) = reader
             /\ \A k \in 1 .. Len(q) : q[k].index = Taken + k - 1
  <2>1. Taken \in Nat
    BY <1>1 DEF Taken
  <2>2. Taken + Len(procCh) = reader
    BY <1>4, <1>5, ReadingPipes DEF IInv, PipeInv
  <2>3. \A k \in 1 .. Len(procCh) : procCh[k].index = Taken + k - 1
    BY <1>5 DEF IInv, PipeInv
  <2>4. ASSUME NEW k \in 1 .. Len(q)
        PROVE  q[k].index = Taken + k - 1
    <3>1. CASE k = Len(procCh) + 1
      <4>1. q[k].index = reader
        BY <1>2, <1>3, <3>1
      <4> QED
        BY <1>1, <2>1, <2>2, <3>1, <4>1
    <3>2. CASE k \in 1 .. Len(procCh)
      BY <1>3, <2>3, <3>2
    <3> QED
      BY <1>1, <1>3, <2>4, <3>1, <3>2
  <2> QED
    BY <2>2, <2>4
<1> QED
  BY <1>3, <1>5 DEF q, x

LEMMA Stage1Inv ==
  ASSUME IInv, TypeInv', Stage1
  PROVE  IInv'
<1> USE DEF IInv
<1>1. /\ Reading /\ UNCHANGED <<pc, cur, infos, resumed, log, manifest, sent>>
      /\ stopped' = stopped \/ stopped'
  BY DEF Stage1, ReadChunk, ReadEnd, SourceStops, bounds
<1>2. /\ pc \in Piping \cup {"finalize"} /\ stage1 = "run" /\ Len(procCh) \in Nat
      /\ reader \in 0 .. N /\ Len(resumed) \in Nat /\ Len(infos) \in Nat
  BY <1>1, ReadingPipes, Lengths
<1>3. OrderInv' /\ LogInv' /\ ManifestInOrder'
  BY <1>1, <1>2 DEF OrderInv, InOrder, LogInv, ManifestInOrder, Setup, Piping
<1>4. Taken' = Taken /\ Taken \in Nat
  BY <1>1, <1>2 DEF Taken
<1>5. CASE pc = "finalize"
  BY <1>1, <1>3, <1>5 DEF PipeInv, Piping, Joined
<1>6. CASE pc \in Piping
  <2>0. /\ \A k \in 1 .. Len(procCh) : procCh[k].index = Taken + k - 1
        /\ Taken + Len(procCh) = IF reader < Len(resumed) THEN Len(resumed) ELSE reader
    BY <1>2, <1>6 DEF PipeInv
  <2>1. CASE ReadChunk
    <3>1. CASE Skipped(reader) /\ procCh' = procCh
      <4>1. reader < Len(resumed) /\ reader' = reader + 1 /\ stage1' = "run"
        BY <1>2, <2>1, <3>1, SkippedPrefix DEF ReadChunk
      <4>2. Taken + Len(procCh) = IF reader' < Len(resumed) THEN Len(resumed) ELSE reader'
        BY <1>2, <2>0, <4>1
      <4> QED
        BY <1>1, <1>3, <1>4, <1>6, <2>0, <3>1, <4>1, <4>2 DEF PipeInv, Piping, Joined
    <3>2. CASE ~Skipped(reader) /\ procCh' = Append(procCh, [index |-> reader, cut |-> FALSE])
      <4>1. reader < N /\ reader' = reader + 1 /\ stage1' = "run"
        BY <1>2, <2>1 DEF ReadChunk
      <4>2. /\ Taken + Len(procCh) = reader /\ Len(procCh') = Len(procCh) + 1
            /\ \A k \in 1 .. Len(procCh') : procCh'[k].index = Taken + k - 1
        BY <1>1, <1>6, <3>2, <4>1, PassedOn
      <4>3. ~(reader < Len(resumed))
        BY <3>2, SkippedPrefix
      <4>4. Taken + Len(procCh') = IF reader' < Len(resumed) THEN Len(resumed) ELSE reader'
        BY <1>2, <1>4, <4>1, <4>2, <4>3
      <4> QED
        BY <1>1, <1>3, <1>4, <1>6, <4>1, <4>2, <4>4 DEF PipeInv, Piping, Joined
    <3> QED
      BY <2>1, <3>1, <3>2 DEF ReadChunk
  <2>2. CASE ReadEnd
    <3>1. reader = N /\ stage1' = "end" /\ procCh' = procCh
      BY <2>2 DEF ReadEnd
    <3>2. Taken + Len(procCh) = N
      <4>1. Len(resumed) \in 0 .. N
        BY Lengths, InOrderBound DEF OrderInv
      <4> QED
        BY <2>0, <3>1, <4>1
    <3> QED
      BY <1>1, <1>3, <1>4, <1>6, <2>0, <3>1, <3>2 DEF PipeInv, Piping, Joined
  <2>3. CASE SourceStops
    <3>1. stopped' /\ stage1' # "run" /\ reader < N
      BY <2>3 DEF SourceStops
    <3>2. \A k \in 1 .. Len(procCh') : procCh'[k].index = Taken + k - 1
      <4>1. CASE procCh' = procCh
        BY <2>0, <4>1
      <4>2. CASE ~Skipped(reader) /\ procCh' = Append(procCh, [index |-> reader, cut |-> TRUE])
        BY <1>1, <1>6, <3>1, <4>2, PassedOn
      <4> QED
        BY <2>3, <4>1, <4>2 DEF SourceStops
    <3> QED
      BY <1>1, <1>3, <1>4, <1>6, <3>1, <3>2 DEF PipeInv, Piping, Joined
  <2> QED
    BY <2>1, <2>2, <2>3 DEF Stage1
<1> QED
  BY <1>2, <1>5, <1>6

LEMMA ReceiveInv ==
  ASSUME IInv, TypeInv', Receive
  PROVE  IInv'
<1> USE DEF IInv
<1>1. /\ pc = "recv" /\ UNCHANGED <<reader, stage1, infos, resumed, log, manifest, sent, stopped>>
  BY DEF Receive, bounds
<1>2. /\ Len(procCh) \in Nat /\ procCh \in Seq(Chunk) /\ Len(infos) \in Nat
      /\ Len(resumed) \in Nat /\ reader \in 0 .. N
  BY Lengths
<1>3. /\ Taken = Len(infos) /\ Len(log.recs) = Len(infos)
      /\ \A k \in 1 .. Len(procCh) : procCh[k].index = Len(infos) + k - 1
      /\ stage1 = "run" => Len(infos) + Len(procCh) = IF reader < Len(resumed) THEN Len(resumed) ELSE reader
      /\ stage1 = "end" => stopped \/ Len(infos) + Len(procCh) = N
  BY <1>1, <1>2 DEF LogInv, PipeInv, Piping, Taken
<1>4. OrderInv' /\ ManifestInOrder'
  BY <1>1 DEF OrderInv, InOrder, ManifestInOrder
<1>5. CASE pc' = "err"
  BY <1>4, <1>5 DEF LogInv, PipeInv, Setup, Piping, Joined
<1>6. CASE /\ procCh # <<>> /\ cur' = Head(procCh) /\ procCh' = Tail(procCh) /\ pc' = "store"
  <2>1. /\ Len(procCh') = Len(procCh) - 1 /\ Len(procCh) # 0
        /\ \A k \in 1 .. Len(procCh') : procCh'[k] = procCh[k + 1]
    BY <1>2, <1>6, HeadTailProperties, EmptySeq
  <2>2. cur' = procCh[1]
    BY <1>2, <1>6
  <2>3. cur'.index = Len(infos)
    BY <1>2, <1>3, <2>1, <2>2
  <2>4. Taken' = Len(infos) + 1
    BY <1>1, <1>6 DEF Taken
  <2>5. LogInv'
    BY <1>1, <1>3, <1>6, <2>3 DEF LogInv, Setup
  <2>6. /\ \A k \in 1 .. Len(procCh') : procCh'[k].index = Taken' + k - 1
        /\ Taken' + Len(procCh') = Len(infos) + Len(procCh)
    BY <1>2, <1>3, <2>1, <2>4
  <2>7. PipeInv'
    BY <1>1, <1>3, <1>6, <2>6 DEF PipeInv, Piping, Joined
  <2> QED
    BY <1>4, <2>5, <2>7
<1>7. CASE procCh = <<>> /\ stage1 # "run" /\ pc' = "wait" /\ UNCHANGED <<cur, procCh>>
  <2>1. LogInv'
    BY <1>7 DEF LogInv, Setup
  <2>2. PipeInv'
    BY <1>1, <1>3, <1>7 DEF PipeInv, Taken, Piping, Joined
  <2> QED
    BY <1>4, <2>1, <2>2
<1> QED
  BY <1>5, <1>6, <1>7 DEF Receive

\* Main stores the chunk, spawns its replication and logs it.
LEMMA ChunkInv ==
  ASSUME IInv, TypeInv', StoreLocally \/ Spawn \/ RecordChunk
  PROVE  IInv'
<1> USE DEF IInv
<1>1. UNCHANGED <<reader, stage1, procCh, resumed, manifest, sent, stopped>>
  BY DEF StoreLocally, Spawn, RecordChunk, call, bounds
<1>2. ManifestInOrder'
  BY <1>1 DEF ManifestInOrder
<1>3. /\ Len(infos) \in Nat /\ infos \in Seq(Chunk) /\ Len(log.recs) \in Nat /\ log.recs \in Seq(Chunk)
      /\ Len(procCh) \in Nat
  BY Lengths
<1>4. CASE StoreLocally
  <2>1. pc = "store" /\ pc' = "acquire" /\ UNCHANGED <<infos, cur, log>>
    BY <1>4 DEF StoreLocally, call
  <2>2. OrderInv'
    BY <1>1, <2>1 DEF OrderInv, InOrder
  <2>3. LogInv'
    BY <1>1, <2>1 DEF LogInv, Setup
  <2>4. Taken' = Taken
    BY <2>1 DEF Taken
  <2>5. PipeInv'
    BY <1>1, <2>1, <2>4 DEF PipeInv, Piping, Joined
  <2> QED
    BY <1>2, <2>2, <2>3, <2>5
<1>5. CASE Spawn
  <2>1. pc = "acquire" /\ pc' = "record" /\ infos' = Append(infos, cur) /\ UNCHANGED <<cur, log>>
    BY <1>5 DEF Spawn
  <2>2. cur \in Chunk /\ cur.index = Len(infos) /\ Len(log.recs) = Len(infos)
    BY <2>1 DEF TypeInv, CurInv, LogInv
  <2>3. InOrder(infos') /\ Len(infos') = Len(infos) + 1
    BY <1>3, <2>1, <2>2, AppendInOrder, AppendProperties DEF OrderInv
  <2>4. OrderInv'
    BY <1>1, <2>1, <2>3 DEF OrderInv, InOrder
  <2>5. LogInv'
    BY <1>3, <2>1, <2>2, <2>3 DEF LogInv, Setup
  <2>6. Taken' = Taken
    BY <1>3, <2>1, <2>3 DEF Taken
  <2>7. PipeInv'
    BY <1>1, <2>1, <2>6 DEF PipeInv, Piping, Joined
  <2> QED
    BY <1>2, <2>4, <2>5, <2>7
<1>6. CASE RecordChunk
  <2>1. pc = "record" /\ pc' = "recv" /\ UNCHANGED infos
    BY <1>6 DEF RecordChunk
  <2>2. log'.recs = Append(log.recs, cur)
    BY <1>6 DEF RecordChunk, TypeInv, TypeOK
  <2>3. cur \in Chunk /\ cur.index = Len(log.recs) /\ Len(infos) = Len(log.recs) + 1
    BY <2>1 DEF TypeInv, CurInv, LogInv
  <2>4. InOrder(log'.recs) /\ Len(log'.recs) = Len(log.recs) + 1
    BY <1>3, <2>2, <2>3, AppendInOrder, AppendProperties DEF OrderInv
  <2>5. OrderInv'
    BY <1>1, <2>1, <2>4 DEF OrderInv, InOrder
  <2>6. LogInv'
    BY <2>1, <2>3, <2>4 DEF LogInv, Setup
  <2>7. Taken' = Taken
    BY <2>1 DEF Taken
  <2>8. PipeInv'
    BY <1>1, <2>1, <2>7 DEF PipeInv, Piping, Joined
  <2> QED
    BY <1>2, <2>5, <2>6, <2>8
<1> QED
  BY <1>4, <1>5, <1>6

\* The manifest of chunkInfos, once stage 1 has ended without an error.
LEMMA ListedInOrder ==
  ASSUME IInv, pc \in {"replicate", "manifest"}
  PROVE  InOrder(infos) /\ (stopped \/ Len(infos) = N)
<1>1. Len(infos) \in Nat /\ InOrder(infos)
  BY Lengths DEF IInv, OrderInv
<1>2. procCh = <<>> /\ stage1 = "end" /\ Taken = Len(infos)
  BY <1>1 DEF IInv, PipeInv, Joined, Taken
<1>3. stopped \/ Taken + Len(procCh) = N
  BY <1>2 DEF IInv, PipeInv, Joined
<1> QED
  BY <1>1, <1>2, <1>3, EmptyInOrder

LEMMA FinishInv ==
  ASSUME IInv, TypeInv', StoreFails \/ Join \/ ReplicateManifest \/ StoreManifest \/ Finalize
  PROVE  IInv'
<1> USE DEF IInv
<1>1. UNCHANGED <<reader, stage1, procCh, cur, infos, resumed, stopped>>
  BY DEF StoreFails, Join, ReplicateManifest, StoreManifest, Finalize, call, bounds
<1>2. OrderInv'
  <2>1. log' = log \/ log'.recs = <<>>
    BY DEF StoreFails, Join, ReplicateManifest, StoreManifest, Finalize, NoLog
  <2> QED
    BY <1>1, <2>1, EmptyInOrder DEF OrderInv, InOrder
<1>3. ManifestInOrder'
  <2>1. /\ manifest' = manifest \/ (manifest' = infos /\ pc = "manifest")
        /\ sent' = sent \/ (sent' = infos /\ pc = "replicate")
    BY DEF StoreFails, Join, ReplicateManifest, StoreManifest, Finalize
  <2> QED
    BY <1>1, <2>1, ListedInOrder DEF ManifestInOrder, InOrder
<1>4. CASE pc' \in Ended \cup {"finalize"}
  BY <1>2, <1>3, <1>4 DEF LogInv, PipeInv, Ended, Setup, Piping, Joined
<1>5. CASE pc' \in {"replicate", "manifest"}
  <2>1. pc \in Joined /\ pc' \in Joined /\ stage1' = "end"
    BY <1>1, <1>5 DEF StoreFails, Join, ReplicateManifest, StoreManifest, Finalize, Joined, PipeInv,
                     TypeInv, TypeOK
  <2>2. Taken' = Taken
    BY <1>1, <2>1 DEF Taken, Joined
  <2>3. PipeInv'
    BY <1>1, <2>1, <2>2 DEF PipeInv, Joined, Piping
  <2>4. LogInv'
    BY <2>1 DEF LogInv, Joined, Setup
  <2> QED
    BY <1>2, <1>3, <2>3, <2>4
<1> QED
  BY <1>4, <1>5 DEF StoreFails, Join, ReplicateManifest, StoreManifest, Finalize, Ended

LEMMA CrashInv ==
  ASSUME IInv, TypeInv', Crash
  PROVE  IInv'
<1>1. pc' \in Ended /\ infos' = <<>> /\ resumed' = <<>> /\ UNCHANGED <<log, manifest, sent, stopped>>
  BY DEF Crash, Ended
<1>2. OrderInv' /\ ManifestInOrder'
  BY <1>1, EmptyInOrder DEF IInv, OrderInv, InOrder, ManifestInOrder
<1>3. LogInv' /\ PipeInv'
  BY <1>1 DEF LogInv, PipeInv, Ended, Setup, Piping, Joined
<1> QED
  BY <1>2, <1>3 DEF IInv

LEMMA InitIInv == Init => IInv
<1> SUFFICES ASSUME Init
             PROVE  IInv
  OBVIOUS
<1>1. OrderInv
  BY EmptyInOrder DEF Init, OrderInv, NoLog
<1>2. LogInv /\ PipeInv
  BY DEF Init, LogInv, PipeInv, Setup, Piping, Joined
<1>3. ManifestInOrder
  BY EmptyInOrder DEF Init, ManifestInOrder, InOrder
<1> QED
  BY <1>1, <1>2, <1>3, InitType DEF IInv

LEMMA NextIInv == IInv /\ [Next]_vars => IInv'
<1> SUFFICES ASSUME IInv, [Next]_vars
             PROVE  IInv'
  OBVIOUS
<1>1. TypeInv'
  BY NextType DEF IInv
<1>2. CASE Start \/ Main
  BY <1>1, <1>2, SetupInv, ReceiveInv, ChunkInv, FinishInv DEF Main
<1>3. CASE Stage1
  BY <1>1, <1>3, Stage1Inv
<1>4. ASSUME NEW c \in Chunk, Replicate(c)
      PROVE  IInv'
  <2>1. UNCHANGED <<pc, reader, stage1, procCh, cur, infos, resumed, log, manifest, sent, stopped>>
    BY <1>4 DEF Replicate, StartSends, Replicated, SendEnds, call, bounds
  <2> QED
    BY <1>1, <2>1, AsideInv
<1>5. CASE Cancel
  BY <1>1, <1>5, AsideInv DEF Cancel, bounds
<1>6. CASE Crash
  BY <1>1, <1>6, CrashInv
<1>7. CASE UNCHANGED vars
  BY <1>1, <1>7, AsideInv DEF vars, call, bounds
<1> QED
  BY <1>2, <1>3, <1>4, <1>5, <1>6, <1>7 DEF Next

-----------------------------------------------------------------------------
(* No responsible node is forgotten.                                       *)

Placing == TypeInv /\ ReplicatedOrHinted

LEMMA NextPlacing == Placing /\ [Next]_vars => Placing'
<1> SUFFICES ASSUME Placing, [Next]_vars
             PROVE  Placing'
  OBVIOUS
<1> USE DEF Placing
<1>0. TypeInv'
  BY NextType
<1>1. repl \in [Chunk -> {"none", "spawned", "sending", "returned"}]
  BY DEF TypeInv, TypeOK
<1>2. send \in [Chunk -> [Target -> {"none", "sending", "ok", "failed"}]]
  BY DEF TypeInv, TypeOK
<1> SUFFICES ASSUME NEW d \in Chunk, NEW u \in Target, repl'[d] # "none"
             PROVE  Provided(d, u)'
  BY <1>0 DEF ReplicatedOrHinted
<1>3. repl[d] # "none" => Provided(d, u)
  BY DEF ReplicatedOrHinted
<1>4. CASE UNCHANGED net
  BY <1>3, <1>4 DEF net, Provided
<1>5. CASE Spawn
  BY <1>1, <1>3, <1>5 DEF Spawn, Provided
<1>6. CASE Crash
  BY <1>6 DEF Crash
<1>7. ASSUME NEW c \in Chunk, StartSends(c)
      PROVE  Provided(d, u)'
  <2>1. PICK connected \in SUBSET Target :
          /\ send' = [send EXCEPT ![c] = [t \in Target |-> IF t \in connected THEN "sending" ELSE "none"]]
          /\ placed' = placed \cup {<<t, c>> : t \in Target \ connected}
    BY <1>7 DEF StartSends
  <2>2. repl' = [repl EXCEPT ![c] = "sending"]
    BY <1>7 DEF StartSends
  <2>3. CASE d = c
    BY <1>2, <2>1, <2>3 DEF Provided
  <2>4. CASE d # c
    BY <1>1, <1>2, <1>3, <2>1, <2>2, <2>4 DEF Provided
  <2> QED
    BY <2>3, <2>4
<1>8. ASSUME NEW c \in Chunk, Replicated(c)
      PROVE  Provided(d, u)'
  <2>1. /\ repl[c] = "sending" /\ repl' = [repl EXCEPT ![c] = "returned"] /\ placed' = placed
        /\ send' = [send EXCEPT ![c] = [t \in Target |-> IF @[t] = "sending" THEN "sending" ELSE "none"]]
    BY <1>8 DEF Replicated
  <2>2. CASE d = c
    BY <1>2, <1>3, <2>1, <2>2 DEF Provided
  <2>3. CASE d # c
    BY <1>1, <1>2, <1>3, <2>1, <2>3 DEF Provided
  <2> QED
    BY <2>2, <2>3
<1>9. ASSUME NEW c \in Chunk, NEW t \in Target, SendEnds(c, t)
      PROVE  Provided(d, u)'
  <2>1. PICK result : send' = [send EXCEPT ![c][t] = result]
    BY <1>9 DEF SendEnds
  <2>2. placed' = placed \cup {<<t, c>>} /\ repl' = repl
    BY <1>9 DEF SendEnds
  <2>3. CASE d = c /\ u = t
    BY <2>2, <2>3 DEF Provided
  <2>4. CASE ~(d = c /\ u = t)
    <3>1. send'[d][u] = send[d][u]
      BY <1>2, <2>1, <2>4
    <3> QED
      BY <1>3, <2>2, <3>1 DEF Provided
  <2> QED
    BY <2>3, <2>4
<1>10. UNCHANGED net \/ Spawn \/ Crash \/ \E c \in Chunk : Replicate(c)
  BY DEF Next, Main, Stage1, Start, Load, CreateLog, WriteHeader, Rerecord, Receive, StoreLocally,
         StoreFails, RecordChunk, Join, ReplicateManifest, StoreManifest, Finalize, ReadChunk,
         ReadEnd, SourceStops, Cancel, vars
<1> QED
  BY <1>4, <1>5, <1>6, <1>7, <1>8, <1>9, <1>10 DEF Replicate

-----------------------------------------------------------------------------

\* Every variable keeps its type: procCh never holds more than its capacity, and
\* main stores, replicates and logs only chunks of the source.
THEOREM TypeCorrect == Spec => []TypeOK
<1>1. TypeInv => TypeOK
  BY DEF TypeInv
<1> QED
  BY <1>1, InitType, NextType, PTL DEF Spec

\* However calls are cancelled, fail or die, the manifests stored here and sent to
\* the peers list the chunks in index order and, unless a source broke off, all of them.
THEOREM ManifestOrdered == Spec => []ManifestInOrder
<1>1. IInv => ManifestInOrder
  BY DEF IInv
<1> QED
  BY <1>1, InitIInv, NextIInv, PTL DEF Spec

\* Every node responsible for a chunk that is or was being replicated has it, has a
\* hint for it, or is still being sent it, also after replicateChunk has returned.
THEOREM NobodyForgotten == Spec => []ReplicatedOrHinted
<1>1. Init => Placing
  <2>1. Init => ReplicatedOrHinted
    BY DEF Init, ReplicatedOrHinted
  <2> QED
    BY <2>1, InitType DEF Placing
<1>2. Placing => ReplicatedOrHinted
  BY DEF Placing
<1> QED
  BY <1>1, <1>2, NextPlacing, PTL DEF Spec

-----------------------------------------------------------------------------
(* Sharing: the access lists of files, for any nodes, handlers and files.  *)

\* The types; a handler that is busy has a file and a recipient.
SharingTypes ==
  /\ SharingTypeOK
  /\ \A h \in Handler : req[h].pc # "idle" => req[h].key \in File /\ req[h].to \in Node

\* Unless two requests overlapped, a handler that is to write a list back has read
\* the current one and signed it with its recipient, and it is alone with the file.
GrantInv ==
  ~overlap =>
    /\ \A f \in File : granted[f] \subseteq access[f] /\ signed[f] = access[f]
    /\ \A h \in Handler : req[h].pc = "append" =>
         /\ req[h].list = access[req[h].key]
         /\ req[h].sig = access[req[h].key] \cup {req[h].to}
    /\ \A g, h \in Handler :
         g # h /\ req[g].pc = "append" /\ req[h].pc = "append" => req[g].key # req[h].key

SharingIInv == SharingTypes /\ GrantInv

ConnectionStep(m, n) == Connect(m, n) \/ Break(m, n) \/ HandleIdentity(m, n) \/ FlushOutbox(m, n)

LEMMA ShareIs ==
  ASSUME NEW n \in Node, NEW p \in Node, NEW f \in File
  PROVE  Share(n, p, f) \in Message
  BY DEF Share, Message

LEMMA MessageIs ==
  ASSUME NEW x \in Message PROVE x.from \in Node /\ x.to \in Node /\ x.key \in File
  BY DEF Message

LEMMA ConnectionTypes ==
  ASSUME SharingTypes, NEW m \in Node, NEW n \in Node, ConnectionStep(m, n)
  PROVE  SharingTypes'
<1> USE DEF SharingTypes, SharingTypeOK
<1>1. UNCHANGED <<catalog, inbox, grants, req, count>>
  BY DEF ConnectionStep, Connect, Break, HandleIdentity, FlushOutbox, boxes
<1>2. link' \subseteq Link
  BY DEF ConnectionStep, Connect, Break, HandleIdentity, FlushOutbox
<1>3. knows' \in [Node -> SUBSET Node] /\ flush' \subseteq Node \X Node
  BY DEF ConnectionStep, Connect, Break, HandleIdentity, FlushOutbox, boxes
<1>4. outbox' \in [Node -> SUBSET (Node \X File)] /\ msgs' \subseteq Message
  <2>1. CASE ~FlushOutbox(m, n)
    BY <2>1 DEF ConnectionStep, Connect, Break, HandleIdentity, boxes
  <2>2. CASE FlushOutbox(m, n)
    <3>1. \A e \in ListOutboxForPeer(m, n) : e[2] \in File
      BY DEF ListOutboxForPeer
    <3>2. {Share(m, n, e[2]) : e \in ListOutboxForPeer(m, n)} \subseteq Message
      BY <3>1, ShareIs
    <3>3. msgs' \subseteq Message
      BY <2>2, <3>2 DEF FlushOutbox
    <3>4. outbox' \in [Node -> SUBSET (Node \X File)]
      BY <2>2 DEF FlushOutbox
    <3> QED BY <3>3, <3>4
  <2> QED BY <2>1, <2>2
<1> QED BY <1>1, <1>2, <1>3, <1>4 DEF catalog, grants

LEMMA CatalogTypes ==
  ASSUME SharingTypes, NEW f \in File, Upload(f) \/ DeleteFile(f)
  PROVE  SharingTypes'
<1> USE DEF SharingTypes, SharingTypeOK
<1> DEFINE n == Owner[f]
<1>1. n \in Node
  BY SharingAssumption
<1>2. UNCHANGED <<link, inbox, outbox, knows, flush, overlap, req>>
  BY DEF Upload, DeleteFile, boxes, grants
<1>3. uploads' \in [Node -> SUBSET File] /\ public' \in [Node -> SUBSET File]
      /\ tombstones' \in [Node -> SUBSET File] /\ summary' \in [Node -> SUBSET File]
  <2>1. /\ uploads \in [Node -> SUBSET File] /\ public \in [Node -> SUBSET File]
        /\ tombstones \in [Node -> SUBSET File] /\ summary \in [Node -> SUBSET File]
    OBVIOUS
  <2>2. public[n] \cup {f} \in SUBSET File /\ public[n] \ {f} \in SUBSET File
    BY <1>1, <2>1
  <2>3. CASE Upload(f) /\ f \in Public
    <3>1. /\ uploads' = [uploads EXCEPT ![n] = @ \cup {f}] /\ public' = [public EXCEPT ![n] = @ \cup {f}]
          /\ summary' = [summary EXCEPT ![n] = public[n] \cup {f}] /\ tombstones' = tombstones
      BY <2>3 DEF Upload, RecordUpload, AddPublicFile, UpdatePublicCatalogMetadata
    <3>2. uploads[n] \cup {f} \in SUBSET File
      BY <1>1, <2>1
    <3>3. uploads' \in [Node -> SUBSET File] /\ public' \in [Node -> SUBSET File]
      BY <2>1, <2>2, <3>1, <3>2
    <3>4. summary' \in [Node -> SUBSET File]
      BY <2>1, <2>2, <3>1
    <3> QED BY <2>1, <3>1, <3>3, <3>4
  <2>4. CASE Upload(f) /\ f \notin Public
    BY <1>1, <2>1, <2>4 DEF Upload, RecordUpload
  <2>5. CASE DeleteFile(f)
    BY <1>1, <2>1, <2>2, <2>5 DEF DeleteFile, RemoveUpload, RemovePublicFile, AddTombstone,
         UpdatePublicCatalogMetadata
  <2> QED BY <2>3, <2>4, <2>5
<1>4. /\ access' \in [File -> SUBSET Node] /\ signed' \in [File -> SUBSET Node]
      /\ granted' \in [File -> SUBSET Node]
  <2>1. CASE Upload(f)
    <3>1. (IF f \in Public THEN {} ELSE {n}) \in SUBSET Node
      BY <1>1
    <3>2. access' \in [File -> SUBSET Node]
      BY <2>1, <3>1 DEF Upload
    <3>3. signed' = [signed EXCEPT ![f] = access'[f]] /\ access'[f] \in SUBSET Node
      BY <2>1, <3>2 DEF Upload
    <3> QED BY <2>1, <3>2, <3>3 DEF Upload
  <2>2. CASE DeleteFile(f)
    BY <2>2 DEF DeleteFile, grants
  <2> QED BY <2>1, <2>2
<1>5. count' \in [shares : 0 .. MaxShares, uploads : 0 .. MaxUploads]
  <2>1. CASE Upload(f)
    <3>1. count.uploads + 1 \in 0 .. MaxUploads
      BY <2>1, SharingAssumption DEF Upload
    <3> QED BY <2>1, <3>1 DEF Upload
  <2>2. CASE DeleteFile(f)
    BY <2>2 DEF DeleteFile
  <2> QED BY <2>1, <2>2
<1>6. msgs' \subseteq Message
  BY <1>1 DEF Upload, DeleteFile, Peers, Message
<1> QED BY <1>2, <1>3, <1>4, <1>5, <1>6

LEMMA StartShareTypes ==
  ASSUME SharingTypes, NEW h \in Handler, NEW f \in File, NEW p \in Node, StartShare(h, f, p)
  PROVE  SharingTypes'
<1> USE DEF SharingTypes, SharingTypeOK
<1>1. UNCHANGED <<link, msgs, catalog, boxes, grants>>
  BY DEF StartShare
<1>2. req'[h].pc \in {"send", "sign"} /\ req'[h].key = f /\ req'[h].to = p
      /\ req'[h] \in Request /\ req' \in [Handler -> Request]
      /\ \A g \in Handler : g # h => req'[g] = req[g]
  BY DEF StartShare, Request, Idle
<1>3. count' \in [shares : 0 .. MaxShares, uploads : 0 .. MaxUploads]
  BY SharingAssumption DEF StartShare
<1>4. \A g \in Handler : req'[g].pc # "idle" => req'[g].key \in File /\ req'[g].to \in Node
  BY <1>2
<1> QED BY <1>1, <1>2, <1>3, <1>4 DEF catalog, boxes, grants

LEMMA HandlerTypes ==
  ASSUME SharingTypes, NEW h \in Handler, HandlerStep(h)
  PROVE  SharingTypes'
<1> USE DEF SharingTypes, SharingTypeOK
<1>1. UNCHANGED <<link, catalog, inbox, knows, flush, count>>
  BY DEF HandlerStep, Sign, AddAccessEntry, SendDirectShare, SendFails, QueueOutbox, boxes
<1>2. req[h].pc # "idle" /\ req[h] \in Request /\ req[h].key \in File /\ req[h].to \in Node
  BY DEF HandlerStep, Sign, AddAccessEntry, SendDirectShare, SendFails, QueueOutbox
<1>3. Owner[req[h].key] \in Node
  BY <1>2, SharingAssumption
<1>4. /\ req' \in [Handler -> Request]
      /\ \A g \in Handler : req'[g].pc # "idle" => req'[g].key \in File /\ req'[g].to \in Node
  <2>1. Idle \in Request
    BY DEF Idle, Request
  <2>2. CASE Sign(h)
    <3>1. SignedFor(h) \in SUBSET Node /\ access[req[h].key] \in SUBSET Node
      BY <1>2 DEF SignedFor
    <3> HIDE DEF SignedFor
    <3>2. req' = [req EXCEPT ![h].pc = "send"]
          \/ req' = [req EXCEPT ![h].pc = "append", ![h].sig = SignedFor(h), ![h].list = access[req[h].key]]
      BY <2>2 DEF Sign
    <3>3. CASE req' = [req EXCEPT ![h].pc = "send"]
      BY <1>2, <3>3 DEF Request
    <3>4. CASE req' = [req EXCEPT ![h].pc = "append", ![h].sig = SignedFor(h), ![h].list = access[req[h].key]]
      <4> DEFINE r == [req[h] EXCEPT !.pc = "append", !.sig = SignedFor(h), !.list = access[req[h].key]]
      <4>1. r \in Request /\ r.key = req[h].key /\ r.to = req[h].to
        BY <1>2, <3>1 DEF Request
      <4>2. req' = [req EXCEPT ![h] = r]
        BY <3>4
      <4> HIDE DEF r
      <4> QED BY <1>2, <4>1, <4>2
    <3> QED BY <3>2, <3>3, <3>4
  <2>3. CASE AddAccessEntry(h)
    BY <1>2, <2>3 DEF AddAccessEntry, Request
  <2>4. CASE SendDirectShare(h) \/ QueueOutbox(h)
    <3>1. req' = [req EXCEPT ![h] = Idle] /\ Idle.pc = "idle"
      BY <2>4 DEF SendDirectShare, QueueOutbox, Idle
    <3> QED BY <2>1, <3>1
  <2>5. CASE SendFails(h)
    <3>1. req' = [req EXCEPT ![h] = Idle] \/ req' = [req EXCEPT ![h].pc = "queue"]
      BY <2>5 DEF SendFails
    <3>2. CASE req' = [req EXCEPT ![h] = Idle]
      BY <2>1, <3>2 DEF Idle
    <3>3. CASE req' = [req EXCEPT ![h].pc = "queue"]
      BY <1>2, <3>3 DEF Request
    <3> QED BY <3>1, <3>2, <3>3
  <2> QED BY <2>2, <2>3, <2>4, <2>5 DEF HandlerStep
<1>5. msgs' \subseteq Message
  <2>1. Share(Owner[req[h].key], req[h].to, req[h].key) \in Message
    BY <1>2, <1>3, ShareIs
  <2> QED BY <2>1 DEF HandlerStep, Sign, AddAccessEntry, SendDirectShare, SendFails, QueueOutbox
<1>6. outbox' \in [Node -> SUBSET (Node \X File)]
  BY <1>2, <1>3 DEF HandlerStep, Sign, AddAccessEntry, SendDirectShare, SendFails, QueueOutbox, boxes
<1>7. /\ access' \in [File -> SUBSET Node] /\ signed' \in [File -> SUBSET Node]
      /\ granted' \in [File -> SUBSET Node] /\ overlap' \in BOOLEAN
  <2>1. CASE Sign(h)
    BY <2>1 DEF Sign
  <2>2. CASE AddAccessEntry(h)
    <3>1. req[h].list \in SUBSET Node /\ req[h].sig \in SUBSET Node
      BY <1>2 DEF Request
    <3> QED BY <1>2, <2>2, <3>1 DEF AddAccessEntry
  <2>3. CASE SendDirectShare(h) \/ SendFails(h) \/ QueueOutbox(h)
    BY <2>3 DEF SendDirectShare, SendFails, QueueOutbox, grants
  <2> QED BY <2>1, <2>2, <2>3 DEF HandlerStep
<1> QED BY <1>1, <1>4, <1>5, <1>6, <1>7 DEF catalog

LEMMA DeliverTypes ==
  ASSUME SharingTypes, NEW x \in msgs, Deliver(x)
  PROVE  SharingTypes'
<1> USE DEF SharingTypes, SharingTypeOK
<1>1. x.to \in Node /\ x.key \in File
  BY MessageIs
<1>2. UNCHANGED <<link, summary, outbox, knows, flush, grants, req, count>> /\ msgs' \subseteq msgs
  BY DEF Deliver, HandleDeleteFile, HandleDirectShare, boxes, catalog
<1>3. inbox' \in [Node -> SUBSET File]
  BY <1>1 DEF Deliver, HandleDeleteFile, HandleDirectShare, boxes
<1>4. uploads' \in [Node -> SUBSET File] /\ public' \in [Node -> SUBSET File]
      /\ tombstones' \in [Node -> SUBSET File]
  BY <1>1 DEF Deliver, HandleDeleteFile, HandleDirectShare, catalog, RemoveUpload, RemovePublicFile,
       AddTombstone
<1> QED BY <1>2, <1>3, <1>4 DEF grants

\* Steps that leave lists and handlers alone.
LEMMA GrantsKept ==
  ASSUME GrantInv, UNCHANGED <<grants, req>> PROVE GrantInv'
  BY DEF GrantInv, grants

LEMMA UploadGrants ==
  ASSUME SharingTypes, GrantInv, NEW f \in File, Upload(f)
  PROVE  GrantInv'
<1> USE DEF SharingTypes, SharingTypeOK
<1>1. UNCHANGED <<overlap, req>> /\ \A h \in Handler : req[h].key # f
  BY DEF Upload
<1>2. \A g \in File : g # f => access'[g] = access[g] /\ signed'[g] = signed[g] /\ granted'[g] = granted[g]
  BY DEF Upload
<1>3. signed'[f] = access'[f] /\ granted'[f] = {}
  BY DEF Upload
<1>4. \A h \in Handler : req[h].pc = "append" => req[h].key \in File /\ access'[req[h].key] = access[req[h].key]
  BY <1>1, <1>2
<1> QED BY <1>1, <1>2, <1>3, <1>4 DEF GrantInv

LEMMA StartShareGrants ==
  ASSUME SharingTypes, GrantInv, NEW h \in Handler, NEW f \in File, NEW p \in Node, StartShare(h, f, p)
  PROVE  GrantInv'
<1>1. UNCHANGED grants /\ req'[h].pc # "append" /\ \A g \in Handler : g # h => req'[g] = req[g]
  BY DEF StartShare, Idle, SharingTypes, SharingTypeOK
<1> QED BY <1>1 DEF GrantInv, grants

LEMMA HandlerGrants ==
  ASSUME SharingTypes, GrantInv, NEW h \in Handler, HandlerStep(h)
  PROVE  GrantInv'
<1> USE DEF SharingTypes, SharingTypeOK
<1>1. CASE SendDirectShare(h) \/ SendFails(h) \/ QueueOutbox(h)
  <2>1. UNCHANGED grants /\ req'[h].pc # "append" /\ \A g \in Handler : g # h => req'[g] = req[g]
    BY <1>1 DEF SendDirectShare, SendFails, QueueOutbox, Idle, Request
  <2> QED BY <2>1 DEF GrantInv, grants
<1>2. CASE Sign(h)
  <2> DEFINE f == req[h].key
  <2>1. UNCHANGED <<access, signed, granted>> /\ (overlap => overlap')
        /\ \A g \in Handler : g # h => req'[g] = req[g]
    BY <1>2 DEF Sign
  <2>2. CASE req[h].to \in access[f]
    <3>1. req'[h].pc = "send" /\ overlap' = overlap
      BY <1>2, <2>2 DEF Sign, Request
    <3> QED BY <2>1, <3>1 DEF GrantInv
  <2>3. CASE req[h].to \notin access[f]
    <3>1. /\ req'[h].pc = "append" /\ req'[h].key = f /\ req'[h].to = req[h].to
          /\ req'[h].list = access[f] /\ req'[h].sig = access[f] \cup {req[h].to}
      BY <1>2, <2>3 DEF Sign, Request, SignedFor
    <3>2. ~overlap' => ~overlap /\ \A g \in Handler : g # h /\ req[g].pc = "append" => req[g].key # f
      BY <1>2, <2>3 DEF Sign, Granting
    <3> QED BY <2>1, <3>1, <3>2 DEF GrantInv
  <2> QED BY <2>2, <2>3
<1>3. CASE AddAccessEntry(h)
  <2> DEFINE f == req[h].key
  <2>1. f \in File /\ req[h].pc = "append" /\ UNCHANGED overlap
        /\ req'[h].pc = "send" /\ \A g \in Handler : g # h => req'[g] = req[g]
    BY <1>3 DEF AddAccessEntry, Request
  <2>2. /\ access'[f] = req[h].list \cup {req[h].to} /\ signed'[f] = req[h].sig
        /\ granted'[f] = granted[f] \cup {req[h].to}
        /\ \A g \in File : g # f => access'[g] = access[g] /\ signed'[g] = signed[g] /\ granted'[g] = granted[g]
    BY <1>3, <2>1 DEF AddAccessEntry
  <2> SUFFICES ASSUME ~overlap
               PROVE /\ \A g \in File : granted'[g] \subseteq access'[g] /\ signed'[g] = access'[g]
                     /\ \A g \in Handler : req'[g].pc = "append" =>
                          /\ req'[g].list = access'[req'[g].key]
                          /\ req'[g].sig = access'[req'[g].key] \cup {req'[g].to}
                     /\ \A g, k \in Handler :
                          g # k /\ req'[g].pc = "append" /\ req'[k].pc = "append" => req'[g].key # req'[k].key
    BY <2>1 DEF GrantInv
  <2>3. req[h].list = access[f] /\ req[h].sig = access[f] \cup {req[h].to} /\ granted[f] \subseteq access[f]
    BY <2>1 DEF GrantInv
  <2>4. \A g \in File : granted'[g] \subseteq access'[g] /\ signed'[g] = access'[g]
    BY <2>2, <2>3 DEF GrantInv
  <2>5. \A g \in Handler : req'[g].pc = "append" =>
          g # h /\ req'[g] = req[g] /\ req[g].key \in File /\ req[g].key # f
    BY <2>1 DEF GrantInv
  <2> QED BY <2>1, <2>2, <2>4, <2>5 DEF GrantInv
<1> QED BY <1>1, <1>2, <1>3 DEF HandlerStep

LEMMA SharingStep ==
  ASSUME SharingIInv, [SharingNext]_sharingVars PROVE SharingIInv'
<1> USE DEF SharingIInv
<1>1. ASSUME NEW m \in Node, NEW n \in Node, ConnectionStep(m, n) PROVE SharingIInv'
  <2>1. UNCHANGED <<grants, req>>
    BY <1>1 DEF ConnectionStep, Connect, Break, HandleIdentity, FlushOutbox
  <2> QED BY <1>1, <2>1, ConnectionTypes, GrantsKept
<1>2. ASSUME NEW f \in File, Upload(f) \/ DeleteFile(f) PROVE SharingIInv'
  <2>1. DeleteFile(f) => UNCHANGED <<grants, req>>
    BY DEF DeleteFile
  <2> QED BY <1>2, <2>1, CatalogTypes, UploadGrants, GrantsKept
<1>3. ASSUME NEW h \in Handler, NEW f \in File, NEW p \in Node, StartShare(h, f, p) PROVE SharingIInv'
  BY <1>3, StartShareTypes, StartShareGrants
<1>4. ASSUME NEW h \in Handler, HandlerStep(h) PROVE SharingIInv'
  BY <1>4, HandlerTypes, HandlerGrants
<1>5. ASSUME NEW x \in msgs, Deliver(x) PROVE SharingIInv'
  <2>1. UNCHANGED <<grants, req>>
    BY <1>5 DEF Deliver, HandleDeleteFile, HandleDirectShare
  <2> QED BY <1>5, <2>1, DeliverTypes, GrantsKept
<1>6. CASE UNCHANGED sharingVars
  <2>1. SharingTypes'
    BY <1>6 DEF sharingVars, catalog, boxes, grants, SharingTypes, SharingTypeOK
  <2> QED BY <1>6, <2>1, GrantsKept DEF sharingVars
<1> QED BY <1>1, <1>2, <1>3, <1>4, <1>5, <1>6 DEF SharingNext, ConnectionStep

\* The types of nodes, messages and handlers of Sharing, and what a handler that
\* grants access knows of the list (grantAccessToRecipient, AddAccessEntry).
THEOREM SharingInvariant == SharingSpec => []SharingIInv
<1>1. SharingInit => SharingIInv
  <2> SUFFICES ASSUME SharingInit PROVE SharingIInv
    OBVIOUS
  <2>1. Idle \in Request
    BY DEF Idle, Request
  <2>2. /\ req \in [Handler -> Request] /\ \A h \in Handler : req[h].pc = "idle"
    BY <2>1 DEF SharingInit, Idle
  <2>3. /\ uploads \in [Node -> SUBSET File] /\ public \in [Node -> SUBSET File]
        /\ tombstones \in [Node -> SUBSET File] /\ summary \in [Node -> SUBSET File]
        /\ inbox \in [Node -> SUBSET File]
    BY DEF SharingInit
  <2>4. /\ access \in [File -> SUBSET Node] /\ signed \in [File -> SUBSET Node]
        /\ granted \in [File -> SUBSET Node]
    BY DEF SharingInit
  <2>5. count \in [shares : 0 .. MaxShares, uploads : 0 .. MaxUploads]
    BY SharingAssumption DEF SharingInit
  <2>6. /\ outbox \in [Node -> SUBSET (Node \X File)] /\ knows \in [Node -> SUBSET Node]
        /\ flush \subseteq Node \X Node /\ link \subseteq Link /\ msgs \subseteq Message /\ overlap \in BOOLEAN
    BY DEF SharingInit
  <2>7. SharingTypes
    BY <2>2, <2>3, <2>4, <2>5, <2>6 DEF SharingTypes, SharingTypeOK
  <2>8. GrantInv
    BY DEF SharingInit, GrantInv, Idle
  <2> QED BY <2>7, <2>8 DEF SharingIInv
<1>2. SharingIInv /\ [SharingNext]_sharingVars => SharingIInv'
  BY SharingStep
<1> QED BY <1>1, <1>2, PTL DEF SharingSpec

\* Whoever was granted access keeps it and the signature covers the list it is stored
\* with, for any number of handlers, as long as no two of them overlap.
THEOREM GrantsHold == SharingSpec => []GrantsVerifiable
<1>1. SharingIInv => GrantsVerifiable
  BY DEF SharingIInv, GrantInv, GrantsVerifiable
<1> QED BY <1>1, SharingInvariant, PTL

=============================================================================
