----------------------- MODULE ResumableDownload_proofs -----------------------
(***************************************************************************)
(* Proofs about ResumableDownload, for any number of chunks, versions of   *)
(* the manifest, calls and crashes.                                        *)
(*                                                                         *)
(* The final file is complete because the .part file is when it is         *)
(* renamed, which follows from where the running call is: each chunk was   *)
(* verified in the .part file, or a goroutine of the call wrote it there,  *)
(* or it is still to be dispatched.  That needs that the call's open .part *)
(* is the one at the path, that no inode has both names, and that there is *)
(* one running call; the sidecar is described in the same way.             *)
(***************************************************************************)
EXTENDS ResumableDownload, TLAPS

Boot     == {"open", "verify", "stale", "create", "header"}
Fetching == {"loop", "acquire", "wait"}
Closing  == {"cleanup", "remove", "rename"}

\* One call runs at a time; the others have no local state.
CallsInv ==
  /\ \A c \in Call : c \notin Running => frame[c] = NoFrame
  /\ \A c, d \in Running : c = d
  /\ \A c \in Running : frame[c].ver \in Versions

\* Files belong to calls that were made, the final one to a call that ended, and
\* the final file is not the .part file.
NamesInv ==
  /\ finalAt # None => pc[finalAt] \in Ended
  /\ partAt # None => pc[partAt] # "idle" /\ partAt # finalAt

\* Before the .part file is open nothing is dispatched.
BootInv(c) ==
  /\ pc[c] \in Boot \cup {"part"} =>
       /\ frame[c].next = 0 /\ frame[c].errs = {}
       /\ \A i \in Chunk : frame[c].worker[i] = "none"
  /\ pc[c] \in Boot => frame[c].skip = {}

\* The open sidecar is the one at the path; it is for the call's manifest and has
\* the chunks that are skipped.
SidecarInv(c) ==
  /\ pc[c] \in {"header", "verify", "part"} \cup Fetching =>
       frame[c].sideFd # None /\ sideAt = frame[c].sideFd
  /\ pc[c] \in {"verify", "part"} \cup Fetching =>
       /\ log[frame[c].sideFd].hdr = frame[c].ver
       /\ frame[c].skip \subseteq log[frame[c].sideFd].claims
  /\ pc[c] = "verify" => frame[c].claimed \subseteq log[frame[c].sideFd].claims

\* Chunk i of the .part file has the content that call c wants.
Right(c, i) == blocks[partAt][i] = frame[c].ver

\* The call has found chunk i in the .part file, or has written it there.
Believed(c, i) ==
  \/ i \in frame[c].skip
  \/ i \notin frame[c].errs /\ frame[c].worker[i] \in {"written", "exited"}

\* What is believed is right, and what is not is under way, failed or to come.
PartInv(c) ==
  /\ pc[c] = "part" => \A i \in frame[c].skip : partAt # None /\ Right(c, i)
  /\ pc[c] \in Fetching \cup Closing => frame[c].partFd # None /\ partAt = frame[c].partFd
  /\ pc[c] \in Fetching =>
       /\ \A i \in Chunk : Believed(c, i) => Right(c, i)
       /\ \A i \in Chunk : i < frame[c].next => i \in frame[c].skip \/ frame[c].worker[i] # "none"
  /\ pc[c] = "acquire" => frame[c].next < N
  /\ pc[c] = "wait" => frame[c].next = N \/ frame[c].ctxDone
  /\ pc[c] \in Closing =>
       /\ \A i \in Chunk : frame[c].worker[i] \in {"none", "exited"}
       /\ ~frame[c].ctxDone => \A i \in Chunk : Right(c, i)

ProgressInv == \A c \in Running : BootInv(c) /\ SidecarInv(c) /\ PartInv(c)

IInv == TypeOK /\ CallsInv /\ NamesInv /\ ProgressInv /\ FinalComplete

USE NAssumption, VersionsAssumption, BoundsAssumption
USE DEF Call, Inode, None

-----------------------------------------------------------------------------
(* Steps of the one running call.                                          *)

Labels == {"idle", "open", "verify", "stale", "create", "header", "part", "loop",
           "acquire", "wait", "cleanup", "remove", "rename"} \cup Ended

LEMMA NoFrameType == NoFrame \in Frame
  BY DEF NoFrame, Frame, WorkerState, Chunk

\* A step of call c that leaves the final file alone: only c is left to look at.
LEMMA Focus ==
  ASSUME IInv, NEW c \in Running, NEW l \in Labels \ {"idle"}, NEW g \in Frame,
         pc' = [pc EXCEPT ![c] = l], frame' = [frame EXCEPT ![c] = g],
         l \in Ended => g = NoFrame,
         l \notin Ended => g.ver = frame[c].ver,
         finalAt' = finalAt, cutShort' = cutShort, partAt' \in {partAt, None, c},
         finalAt # None => blocks'[finalAt] = blocks[finalAt]
  PROVE  /\ CallsInv' /\ NamesInv' /\ FinalComplete'
         /\ pc' \in [Call -> Labels] /\ frame' \in [Call -> Frame]
         /\ pc'[c] = l /\ frame'[c] = g
         /\ \A d \in Running' : d = c
<1>1. /\ c \in Call /\ pc \in [Call -> Labels] /\ frame \in [Call -> Frame]
      /\ pc[c] \notin Ended \cup {"idle"}
  BY DEF Running, IInv, TypeOK, Labels
<1>2. /\ pc' \in [Call -> Labels] /\ frame' \in [Call -> Frame]
      /\ pc'[c] = l /\ frame'[c] = g
      /\ \A d \in Call : d # c => pc'[d] = pc[d] /\ frame'[d] = frame[d]
  BY <1>1
<1>3. \A d \in Call : d \in Running => d = c
  BY DEF IInv, CallsInv
<1>4. \A d \in Running' : d \in Call /\ d = c
  BY <1>2, <1>3 DEF Running
<1>5. CallsInv'
  <2>1. ASSUME NEW d \in Call, d \notin Running' PROVE frame'[d] = NoFrame
    BY <1>2, <1>3, <2>1 DEF Running, IInv, CallsInv
  <2>2. ASSUME NEW d \in Running' PROVE frame'[d].ver \in Versions
    <3>1. d = c /\ l \notin Ended
      BY <1>2, <1>4, <2>2 DEF Running
    <3> QED
      BY <1>2, <3>1 DEF IInv, CallsInv
  <2> QED
    BY <1>4, <2>1, <2>2 DEF CallsInv
<1>6. NamesInv'
  <2>1. finalAt \in Call \cup {None} /\ partAt \in Call \cup {None}
    BY DEF IInv, TypeOK
  <2>2. finalAt # None => finalAt # c
    BY <1>1 DEF IInv, NamesInv
  <2> QED
    BY <1>1, <1>2, <2>1, <2>2 DEF IInv, NamesInv
<1>7. FinalComplete'
  BY DEF IInv, FinalComplete, Complete
<1> QED
  BY <1>2, <1>4, <1>5, <1>6, <1>7

-----------------------------------------------------------------------------
(* Resume boot.                                                            *)

\* What one step of c has to establish beyond Focus.
LEMMA Assemble ==
  ASSUME NEW c \in Call, CallsInv', NamesInv', FinalComplete', TypeOK',
         \A d \in Running' : d = c, BootInv(c)', SidecarInv(c)', PartInv(c)'
  PROVE  IInv'
  BY DEF IInv, ProgressInv

LEMMA FreeSidecarType ==
  ASSUME TypeOK, FreeSidecar
  PROVE  /\ sideAt' \in Inode \cup {None}
         /\ log' \in [Inode -> [hdr : Versions \cup {None}, claims : SUBSET Chunk]]
<1>1. [hdr |-> None, claims |-> {}] \in [hdr : Versions \cup {None}, claims : SUBSET Chunk]
  OBVIOUS
<1>2. /\ log \in [Inode -> [hdr : Versions \cup {None}, claims : SUBSET Chunk]]
      /\ sideAt \in Inode \cup {None}
  BY DEF TypeOK
<1> QED
  BY <1>1, <1>2 DEF FreeSidecar

LEMMA StartInv ==
  ASSUME IInv, NEW c \in Call, Start(c)
  PROVE  IInv'
<1> USE DEF IInv
<1>1. PICK v \in Versions : frame' = [frame EXCEPT ![c].ver = v]
  BY DEF Start
<1> DEFINE g == [NoFrame EXCEPT !.ver = v]
<1>2. frame[c] = NoFrame /\ pc[c] = "idle" /\ Running = {}
  BY DEF Start, CallsInv
<1>3. /\ g \in Frame /\ g.ver = v /\ g.next = 0 /\ g.errs = {} /\ g.skip = {}
      /\ \A i \in Chunk : g.worker[i] = "none"
  BY NoFrameType DEF NoFrame, Frame, WorkerState, Chunk
<1>4. /\ frame' = [frame EXCEPT ![c] = g] /\ pc' = [pc EXCEPT ![c] = "open"]
      /\ UNCHANGED <<finalAt, partAt, sideAt, blocks, log, crashes, cutShort>>
  BY <1>1, <1>2 DEF Start, Goto, disk, TypeOK
<1> HIDE DEF g
<1>5. /\ frame'[c] = g /\ pc'[c] = "open"
      /\ \A d \in Call : d # c => pc'[d] = pc[d] /\ frame'[d] = frame[d]
  BY <1>4 DEF TypeOK
<1>6. c \in Running' /\ \A d \in Running' : d = c
  BY <1>2, <1>5 DEF Running, Ended
<1>7. CallsInv'
  BY <1>2, <1>3, <1>5, <1>6 DEF CallsInv, Running
<1>8. NamesInv' /\ FinalComplete'
  BY <1>2, <1>4, <1>5 DEF NamesInv, FinalComplete, Complete, TypeOK, Ended
<1>9. BootInv(c)' /\ SidecarInv(c)' /\ PartInv(c)'
  BY <1>3, <1>5 DEF BootInv, SidecarInv, PartInv, Boot, Fetching, Closing
<1>10. TypeOK'
  BY <1>3, <1>4 DEF TypeOK, Ended
<1> QED
  BY <1>6, <1>7, <1>8, <1>9, <1>10, Assemble

LEMMA OpenSidecarInv ==
  ASSUME IInv, NEW c \in Call, OpenSidecar(c)
  PROVE  IInv'
<1> USE DEF IInv
<1>1. c \in Running /\ frame[c] \in Frame
  BY DEF OpenSidecar, Running, Ended, TypeOK
<1>2. /\ UNCHANGED <<finalAt, partAt, blocks, crashes, cutShort>>
      /\ BootInv(c) /\ pc[c] = "open"
  BY <1>1 DEF OpenSidecar, ProgressInv
<1>3. CASE frame' = frame /\ \E l \in {"create", "stale"} : Goto(c, l)
  <2>1. PICK l \in {"create", "stale"} : Goto(c, l)
    BY <1>3
  <2>2. frame' = [frame EXCEPT ![c] = frame[c]] /\ pc' = [pc EXCEPT ![c] = l]
    BY <1>3, <2>1 DEF Goto, TypeOK
  <2>3. /\ sideAt' \in Inode \cup {None}
        /\ log' \in [Inode -> [hdr : Versions \cup {None}, claims : SUBSET Chunk]]
    <3>1. FreeSidecar \/ UNCHANGED <<sideAt, log>>
      BY DEF OpenSidecar
    <3> QED
      BY <3>1, FreeSidecarType DEF TypeOK
  <2>4. /\ CallsInv' /\ NamesInv' /\ FinalComplete'
        /\ pc' \in [Call -> Labels] /\ frame' \in [Call -> Frame]
        /\ pc'[c] = l /\ frame'[c] = frame[c] /\ \A d \in Running' : d = c
    BY <1>1, <1>2, <2>2, Focus DEF Labels, Ended
  <2>5. TypeOK'
    BY <1>2, <2>3, <2>4 DEF TypeOK, Labels
  <2>6. BootInv(c)' /\ SidecarInv(c)' /\ PartInv(c)'
    BY <1>2, <2>4 DEF BootInv, SidecarInv, PartInv, Boot, Fetching, Closing
  <2> QED
    BY <2>4, <2>5, <2>6, Assemble
<1>4. CASE /\ sideAt # None /\ log[sideAt].hdr = frame[c].ver
           /\ frame' = [frame EXCEPT ![c].claimed = log[sideAt].claims, ![c].sideFd = sideAt]
           /\ Goto(c, "verify")
           /\ UNCHANGED <<sideAt, log>>
  <2> DEFINE g == [frame[c] EXCEPT !.claimed = log[sideAt].claims, !.sideFd = sideAt]
  <2>1. /\ g \in Frame /\ g.ver = frame[c].ver /\ g.next = frame[c].next /\ g.errs = frame[c].errs
        /\ g.skip = frame[c].skip /\ g.worker = frame[c].worker
        /\ g.claimed = log[sideAt].claims /\ g.sideFd = sideAt
    BY <1>1, <1>4 DEF Frame, TypeOK
  <2>2. frame' = [frame EXCEPT ![c] = g] /\ pc' = [pc EXCEPT ![c] = "verify"]
    BY <1>4 DEF Goto, TypeOK
  <2> HIDE DEF g
  <2>3. /\ CallsInv' /\ NamesInv' /\ FinalComplete'
        /\ pc' \in [Call -> Labels] /\ frame' \in [Call -> Frame]
        /\ pc'[c] = "verify" /\ frame'[c] = g /\ \A d \in Running' : d = c
    BY <1>1, <1>2, <2>1, <2>2, Focus DEF Labels, Ended
  <2>4. TypeOK'
    BY <1>2, <1>4, <2>3 DEF TypeOK, Labels
  <2>5. BootInv(c)' /\ SidecarInv(c)' /\ PartInv(c)'
    BY <1>2, <1>4, <2>1, <2>3 DEF BootInv, SidecarInv, PartInv, Boot, Fetching, Closing
  <2> QED
    BY <2>3, <2>4, <2>5, Assemble
<1> QED
  BY <1>3, <1>4 DEF OpenSidecar

LEMMA RemoveStalePartInv ==
  ASSUME IInv, NEW c \in Call, RemoveStalePart(c)
  PROVE  IInv'
<1> USE DEF IInv
<1>1. c \in Running /\ frame[c] \in Frame
  BY DEF RemoveStalePart, Running, Ended, TypeOK
<1>2. /\ UNCHANGED <<finalAt, sideAt, log, crashes, cutShort>> /\ partAt' = None
      /\ BootInv(c) /\ pc[c] = "stale"
      /\ frame' = [frame EXCEPT ![c] = frame[c]] /\ pc' = [pc EXCEPT ![c] = "create"]
  BY <1>1 DEF RemoveStalePart, ProgressInv, Goto, TypeOK
<1>3. blocks' \in [Inode -> [Chunk -> Versions \cup {None}]]
  BY DEF RemoveStalePart, FreePart, TypeOK
<1>4. finalAt # None => blocks'[finalAt] = blocks[finalAt]
  BY DEF RemoveStalePart, FreePart, TypeOK, NamesInv
<1>5. /\ CallsInv' /\ NamesInv' /\ FinalComplete'
      /\ pc' \in [Call -> Labels] /\ frame' \in [Call -> Frame]
      /\ pc'[c] = "create" /\ frame'[c] = frame[c] /\ \A d \in Running' : d = c
  BY <1>1, <1>2, <1>4, Focus DEF Labels, Ended
<1>6. TypeOK'
  BY <1>2, <1>3, <1>5 DEF TypeOK, Labels
<1>7. BootInv(c)' /\ SidecarInv(c)' /\ PartInv(c)'
  BY <1>2, <1>5 DEF BootInv, SidecarInv, PartInv, Boot, Fetching, Closing
<1> QED
  BY <1>5, <1>6, <1>7, Assemble

LEMMA FastVerifyInv ==
  ASSUME IInv, NEW c \in Call, FastVerify(c)
  PROVE  IInv'
<1> USE DEF IInv
<1> DEFINE g == [frame[c] EXCEPT !.skip = Verified(c)]
<1>1. c \in Running /\ frame[c] \in Frame
  BY DEF FastVerify, Running, Ended, TypeOK
<1>2. /\ UNCHANGED <<finalAt, partAt, sideAt, blocks, log, crashes, cutShort>>
      /\ BootInv(c) /\ SidecarInv(c) /\ pc[c] = "verify"
      /\ frame' = [frame EXCEPT ![c] = g] /\ pc' = [pc EXCEPT ![c] = "part"]
  BY <1>1 DEF FastVerify, ProgressInv, Goto, TypeOK, disk
<1>3. Verified(c) \subseteq frame[c].claimed /\ frame[c].claimed \subseteq Chunk
  BY <1>1 DEF Verified, Frame
<1>4. /\ g \in Frame /\ g.ver = frame[c].ver /\ g.next = frame[c].next /\ g.errs = frame[c].errs
      /\ g.skip = Verified(c) /\ g.worker = frame[c].worker /\ g.sideFd = frame[c].sideFd
  BY <1>1, <1>3 DEF Frame
<1> HIDE DEF g
<1>5. /\ CallsInv' /\ NamesInv' /\ FinalComplete'
      /\ pc' \in [Call -> Labels] /\ frame' \in [Call -> Frame]
      /\ pc'[c] = "part" /\ frame'[c] = g /\ \A d \in Running' : d = c
  BY <1>1, <1>2, <1>4, Focus DEF Labels, Ended
<1>6. TypeOK'
  BY <1>2, <1>5 DEF TypeOK, Labels
<1>7. BootInv(c)' /\ SidecarInv(c)'
  BY <1>2, <1>3, <1>4, <1>5 DEF BootInv, SidecarInv, Boot, Fetching
<1>8. PartInv(c)'
  BY <1>2, <1>4, <1>5 DEF PartInv, Right, Verified, Fetching, Closing
<1> QED
  BY <1>5, <1>6, <1>7, <1>8, Assemble

LEMMA CreateSidecarInv ==
  ASSUME IInv, NEW c \in Call, CreateSidecar(c)
  PROVE  IInv'
<1> USE DEF IInv
<1> DEFINE n == IF sideAt = None THEN c ELSE sideAt
           g == [frame[c] EXCEPT !.sideFd = n]
<1>1. c \in Running /\ frame[c] \in Frame /\ n \in Inode /\ n # None
  BY DEF CreateSidecar, Running, Ended, TypeOK
<1>2. /\ UNCHANGED <<finalAt, partAt, blocks, crashes, cutShort>>
      /\ sideAt' = n /\ log' = [log EXCEPT ![n] = [hdr |-> None, claims |-> {}]]
      /\ BootInv(c) /\ pc[c] = "create"
      /\ frame' = [frame EXCEPT ![c] = g] /\ pc' = [pc EXCEPT ![c] = "header"]
  BY <1>1 DEF CreateSidecar, ProgressInv, Goto, TypeOK
<1> HIDE DEF n
<1>3. /\ g \in Frame /\ g.ver = frame[c].ver /\ g.next = frame[c].next /\ g.errs = frame[c].errs
      /\ g.skip = frame[c].skip /\ g.worker = frame[c].worker /\ g.sideFd = n
  BY <1>1 DEF Frame
<1>4. log' \in [Inode -> [hdr : Versions \cup {None}, claims : SUBSET Chunk]]
  <2>1. [hdr |-> None, claims |-> {}] \in [hdr : Versions \cup {None}, claims : SUBSET Chunk]
    OBVIOUS
  <2> QED
    BY <1>1, <1>2, <2>1 DEF TypeOK
<1> HIDE DEF g
<1>5. /\ CallsInv' /\ NamesInv' /\ FinalComplete'
      /\ pc' \in [Call -> Labels] /\ frame' \in [Call -> Frame]
      /\ pc'[c] = "header" /\ frame'[c] = g /\ \A d \in Running' : d = c
  BY <1>1, <1>2, <1>3, Focus DEF Labels, Ended
<1>6. TypeOK'
  BY <1>1, <1>2, <1>4, <1>5 DEF TypeOK, Labels
<1>7. BootInv(c)' /\ SidecarInv(c)' /\ PartInv(c)'
  BY <1>1, <1>2, <1>3, <1>5 DEF BootInv, SidecarInv, PartInv, Boot, Fetching, Closing
<1> QED
  BY <1>5, <1>6, <1>7, Assemble

LEMMA WriteHeaderInv ==
  ASSUME IInv, NEW c \in Call, WriteHeader(c)
  PROVE  IInv'
<1> USE DEF IInv
<1>1. c \in Running /\ frame[c] \in Frame /\ BootInv(c) /\ SidecarInv(c) /\ pc[c] = "header"
  BY DEF WriteHeader, Running, Ended, TypeOK, ProgressInv
<1> DEFINE n == frame[c].sideFd
<1>2. /\ UNCHANGED <<finalAt, partAt, sideAt, blocks, crashes, cutShort>>
      /\ log' = [log EXCEPT ![n].hdr = frame[c].ver]
      /\ frame' = [frame EXCEPT ![c] = frame[c]] /\ pc' = [pc EXCEPT ![c] = "part"]
  BY DEF WriteHeader, Goto, TypeOK
<1>3. n \in Inode /\ sideAt = n /\ frame[c].ver \in Versions /\ frame[c].skip = {}
  BY <1>1 DEF SidecarInv, BootInv, Boot, Frame, CallsInv
<1>4. /\ log' \in [Inode -> [hdr : Versions \cup {None}, claims : SUBSET Chunk]]
      /\ log'[n].hdr = frame[c].ver
  <2> DEFINE e == [log[n] EXCEPT !.hdr = frame[c].ver]
  <2>1. log \in [Inode -> [hdr : Versions \cup {None}, claims : SUBSET Chunk]]
    BY DEF TypeOK
  <2>2. e \in [hdr : Versions \cup {None}, claims : SUBSET Chunk] /\ e.hdr = frame[c].ver
    BY <1>3, <2>1
  <2>3. log' = [log EXCEPT ![n] = e]
    BY <1>2, <1>3, <2>1
  <2> HIDE DEF e
  <2> QED
    BY <1>3, <2>1, <2>2, <2>3
<1>5. /\ CallsInv' /\ NamesInv' /\ FinalComplete'
      /\ pc' \in [Call -> Labels] /\ frame' \in [Call -> Frame]
      /\ pc'[c] = "part" /\ frame'[c] = frame[c] /\ \A d \in Running' : d = c
  BY <1>1, <1>2, Focus DEF Labels, Ended
<1>6. TypeOK'
  BY <1>2, <1>4, <1>5 DEF TypeOK, Labels
<1>7. BootInv(c)' /\ SidecarInv(c)' /\ PartInv(c)'
  BY <1>1, <1>2, <1>3, <1>4, <1>5 DEF BootInv, SidecarInv, PartInv, Boot, Fetching, Closing
<1> QED
  BY <1>5, <1>6, <1>7, Assemble

LEMMA OpenPartInv ==
  ASSUME IInv, NEW c \in Call, OpenPart(c)
  PROVE  IInv'
<1> USE DEF IInv
<1>1. /\ c \in Running /\ frame[c] \in Frame /\ pc[c] = "part"
      /\ BootInv(c) /\ SidecarInv(c) /\ PartInv(c)
  BY DEF OpenPart, Running, Ended, TypeOK, ProgressInv
<1> DEFINE n == IF partAt = None THEN c ELSE partAt
           l == IF frame[c].skip = Chunk THEN "cleanup" ELSE "loop"
           g == [frame[c] EXCEPT !.partFd = n]
<1>2. /\ UNCHANGED <<finalAt, sideAt, blocks, log, crashes, cutShort>> /\ partAt' = n
      /\ frame' = [frame EXCEPT ![c] = g] /\ pc' = [pc EXCEPT ![c] = l]
  BY DEF OpenPart, Goto, TypeOK
<1>3. n \in Inode /\ n # None /\ n \in {partAt, None, c} /\ l \in {"cleanup", "loop"}
  BY DEF TypeOK
<1>4. \A i \in frame[c].skip : blocks[n][i] = frame[c].ver
  BY <1>1 DEF PartInv, Right
<1> HIDE DEF n
<1>5. /\ g \in Frame /\ g.ver = frame[c].ver /\ g.next = frame[c].next /\ g.errs = frame[c].errs
      /\ g.skip = frame[c].skip /\ g.worker = frame[c].worker /\ g.sideFd = frame[c].sideFd
      /\ g.partFd = n
  BY <1>1, <1>3 DEF Frame
<1>6. l = "cleanup" => frame[c].skip = Chunk
  OBVIOUS
<1> HIDE DEF g, l
<1>7. /\ CallsInv' /\ NamesInv' /\ FinalComplete'
      /\ pc' \in [Call -> Labels] /\ frame' \in [Call -> Frame]
      /\ pc'[c] = l /\ frame'[c] = g /\ \A d \in Running' : d = c
  BY <1>1, <1>2, <1>3, <1>5, Focus DEF Labels, Ended
<1>8. TypeOK'
  BY <1>2, <1>3, <1>7 DEF TypeOK, Labels
<1>9. BootInv(c)' /\ SidecarInv(c)'
  BY <1>1, <1>2, <1>3, <1>5, <1>7 DEF BootInv, SidecarInv, Boot, Fetching
<1>10. PartInv(c)'
  <2>1. g.next = 0 /\ \A i \in Chunk : g.worker[i] = "none"
    BY <1>1, <1>5 DEF BootInv
  <2>2. \A i \in Chunk : Believed(c, i)' => i \in frame[c].skip
    BY <1>5, <1>7, <2>1 DEF Believed
  <2>3. \A i \in frame[c].skip : Right(c, i)'
    BY <1>2, <1>4, <1>5, <1>7 DEF Right
  <2>4. \A i \in Chunk : ~(i < g.next)
    BY <2>1 DEF Chunk
  <2> QED
    BY <1>2, <1>3, <1>5, <1>6, <1>7, <2>1, <2>2, <2>3, <2>4 DEF PartInv, Fetching, Closing
<1> QED
  BY <1>7, <1>8, <1>9, <1>10, Assemble

-----------------------------------------------------------------------------
(* DownloadToFileResumable.                                                *)

\* A step within the download that changes neither the disk nor the belief in a
\* chunk that is not right.
LEMMA FetchingStep ==
  ASSUME IInv, NEW c \in Running, pc[c] \in Fetching, NEW l \in Fetching, NEW g \in Frame,
         pc' = [pc EXCEPT ![c] = l], frame' = [frame EXCEPT ![c] = g],
         UNCHANGED <<finalAt, partAt, sideAt, blocks, log, crashes, cutShort>>,
         g.ver = frame[c].ver, g.skip = frame[c].skip,
         g.sideFd = frame[c].sideFd, g.partFd = frame[c].partFd,
         \A i \in Chunk : i \notin g.errs /\ g.worker[i] \in {"written", "exited"} => Believed(c, i),
         \A i \in Chunk : i < g.next => i \in g.skip \/ g.worker[i] # "none",
         l = "acquire" => g.next < N,
         l = "wait" => g.next = N \/ g.ctxDone
  PROVE  IInv'
<1> USE DEF IInv
<1>1. BootInv(c) /\ SidecarInv(c) /\ PartInv(c) /\ c \in Call
  BY DEF ProgressInv, Running
<1>2. /\ CallsInv' /\ NamesInv' /\ FinalComplete'
      /\ pc' \in [Call -> Labels] /\ frame' \in [Call -> Frame]
      /\ pc'[c] = l /\ frame'[c] = g /\ \A d \in Running' : d = c
  BY Focus DEF Labels, Ended, Fetching
<1>3. TypeOK'
  BY <1>2 DEF TypeOK, Labels
<1>4. BootInv(c)'
  BY <1>2 DEF BootInv, Boot, Fetching
<1>5. SidecarInv(c)'
  BY <1>1, <1>2 DEF SidecarInv, Fetching
<1>6. PartInv(c)'
  <2>1. \A i \in Chunk : Believed(c, i)' => Believed(c, i)
    BY <1>2 DEF Believed
  <2>2. \A i \in Chunk : Right(c, i)' <=> Right(c, i)
    BY <1>2 DEF Right
  <2> QED
    BY <1>1, <1>2, <2>1, <2>2 DEF PartInv, Fetching, Closing
<1> QED
  BY <1>1, <1>2, <1>3, <1>4, <1>5, <1>6, Assemble

LEMMA LoopTestInv ==
  ASSUME IInv, NEW c \in Call, LoopTest(c)
  PROVE  IInv'
<1> USE DEF IInv
<1>1. /\ c \in Running /\ frame[c] \in Frame /\ pc[c] = "loop" /\ PartInv(c)
  BY DEF LoopTest, Running, Ended, TypeOK, ProgressInv
<1>2. UNCHANGED <<finalAt, partAt, sideAt, blocks, log, crashes, cutShort>>
  BY DEF LoopTest, disk
<1>3. \A i \in Chunk : i \notin frame[c].errs /\ frame[c].worker[i] \in {"written", "exited"} => Believed(c, i)
  BY DEF Believed
<1>4. \A i \in Chunk : i < frame[c].next => i \in frame[c].skip \/ frame[c].worker[i] # "none"
  BY <1>1 DEF PartInv, Fetching
<1>5. frame[c].next \in 0 .. N
  BY <1>1 DEF Frame
<1>6. CASE frame' = frame
  <2>1. PICK l \in {"wait", "acquire"} :
          /\ Goto(c, l)
          /\ l = "wait" => frame[c].next = N \/ frame[c].ctxDone
          /\ l = "acquire" => frame[c].next < N
    <3>1. CASE Goto(c, "wait") /\ (frame[c].next = N \/ frame[c].ctxDone)
      BY <3>1
    <3>2. CASE Goto(c, "acquire") /\ frame[c].next < N
      BY <3>2
    <3>3. CASE /\ frame[c].next < N
               /\ frame' = [frame EXCEPT ![c].next = frame[c].next + 1]
      <4>1. frame'[c].next = frame[c].next + 1
        BY <1>1, <3>3 DEF TypeOK, Frame
      <4> QED
        BY <1>5, <1>6, <4>1
    <3> QED
      BY <3>1, <3>2, <3>3 DEF LoopTest
  <2>2. frame' = [frame EXCEPT ![c] = frame[c]] /\ pc' = [pc EXCEPT ![c] = l]
    BY <1>6, <2>1 DEF Goto, TypeOK
  <2> QED
    BY <1>1, <1>2, <1>3, <1>4, <2>1, <2>2, FetchingStep DEF Fetching
<1>7. CASE /\ frame[c].next < N /\ frame[c].next \in frame[c].skip
           /\ frame' = [frame EXCEPT ![c].next = frame[c].next + 1]
           /\ UNCHANGED pc
  <2> DEFINE g == [frame[c] EXCEPT !.next = frame[c].next + 1]
  <2>1. /\ g \in Frame /\ g.ver = frame[c].ver /\ g.skip = frame[c].skip /\ g.errs = frame[c].errs
        /\ g.sideFd = frame[c].sideFd /\ g.partFd = frame[c].partFd /\ g.worker = frame[c].worker
        /\ g.next = frame[c].next + 1
    BY <1>1, <1>5, <1>7 DEF Frame
  <2>2. frame' = [frame EXCEPT ![c] = g] /\ pc' = [pc EXCEPT ![c] = "loop"]
    BY <1>1, <1>7 DEF TypeOK
  <2> HIDE DEF g
  <2>3. \A i \in Chunk : i < g.next => i \in g.skip \/ g.worker[i] # "none"
    BY <1>4, <1>5, <1>7, <2>1 DEF Chunk
  <2> QED
    BY <1>1, <1>2, <1>3, <2>1, <2>2, <2>3, FetchingStep DEF Fetching
<1> QED
  BY <1>6, <1>7 DEF LoopTest

LEMMA SpawnInv ==
  ASSUME IInv, NEW c \in Call, Spawn(c)
  PROVE  IInv'
<1> USE DEF IInv
<1>1. /\ c \in Running /\ frame[c] \in Frame /\ pc[c] = "acquire" /\ PartInv(c)
  BY DEF Spawn, Running, Ended, TypeOK, ProgressInv
<1>2. UNCHANGED <<finalAt, partAt, sideAt, blocks, log, crashes, cutShort>>
  BY DEF Spawn, disk
<1> DEFINE k == frame[c].next
           g == [frame[c] EXCEPT !.worker[k] = "fetching", !.next = k + 1]
<1>3. k \in Chunk /\ k + 1 \in 0 .. N
  BY <1>1 DEF PartInv, Frame, Chunk
<1>4. /\ g \in Frame /\ g.ver = frame[c].ver /\ g.skip = frame[c].skip /\ g.errs = frame[c].errs
      /\ g.sideFd = frame[c].sideFd /\ g.partFd = frame[c].partFd /\ g.next = k + 1
      /\ g.worker = [frame[c].worker EXCEPT ![k] = "fetching"]
  BY <1>1, <1>3 DEF Frame, WorkerState
<1>5. frame' = [frame EXCEPT ![c] = g] /\ pc' = [pc EXCEPT ![c] = "loop"]
  BY DEF Spawn, Goto, TypeOK
<1> HIDE DEF g
<1>6. /\ g.worker[k] = "fetching"
      /\ \A i \in Chunk : i # k => g.worker[i] = frame[c].worker[i]
  BY <1>1, <1>3, <1>4 DEF Frame
<1>7. \A i \in Chunk : i < g.next => i \in g.skip \/ g.worker[i] # "none"
  <2>1. \A i \in Chunk : i < g.next => i < k \/ i = k
    BY <1>3, <1>4 DEF Chunk
  <2> QED
    BY <1>1, <1>4, <1>6, <2>1 DEF PartInv, Fetching
<1>8. \A i \in Chunk : i \notin g.errs /\ g.worker[i] \in {"written", "exited"} => Believed(c, i)
  BY <1>4, <1>6 DEF Believed
<1> QED
  BY <1>1, <1>2, <1>4, <1>5, <1>7, <1>8, FetchingStep DEF Fetching

\* A goroutine that has not ended belongs to a call that is still in the download.
LEMMA ActiveFetching ==
  ASSUME IInv, NEW c \in Call, NEW i \in Chunk, frame[c].worker[i] \notin {"none", "exited"}
  PROVE  /\ c \in Running /\ pc[c] \in Fetching /\ frame[c] \in Frame
         /\ SidecarInv(c) /\ PartInv(c)
<1> USE DEF IInv
<1>1. c \in Running
  BY DEF CallsInv, NoFrame
<1>2. BootInv(c) /\ PartInv(c) /\ SidecarInv(c)
  BY <1>1 DEF ProgressInv
<1>3. pc[c] \in Boot \cup {"part"} \cup Fetching \cup Closing
  BY <1>1 DEF Running, TypeOK, Boot, Fetching, Closing, Ended
<1>4. pc[c] \notin Boot \cup {"part"}
  BY <1>2 DEF BootInv
<1>5. pc[c] \notin Closing
  BY <1>2 DEF PartInv
<1> QED
  BY <1>1, <1>2, <1>3, <1>4, <1>5 DEF TypeOK

LEMMA FetchEndsInv ==
  ASSUME IInv, NEW c \in Call, NEW i \in Chunk, FetchOk(c, i) \/ ChunkFails(c, i)
  PROVE  IInv'
<1> USE DEF IInv
<1>1. c \in Running /\ pc[c] \in Fetching /\ frame[c] \in Frame /\ PartInv(c)
  BY ActiveFetching DEF FetchOk, ChunkFails
<1>2. UNCHANGED <<finalAt, partAt, sideAt, blocks, log, crashes, cutShort>>
  BY DEF FetchOk, ChunkFails, disk
<1>3. pc' = [pc EXCEPT ![c] = pc[c]] /\ frame[c].worker[i] # "none"
  BY DEF FetchOk, ChunkFails, TypeOK
<1>4. PICK w \in {"fetched", "exited"}, e \in SUBSET Chunk :
        /\ w = "exited" => i \in e
        /\ frame[c].errs \subseteq e
        /\ frame' = [frame EXCEPT ![c] = [frame[c] EXCEPT !.worker[i] = w, !.errs = e]]
  <2>1. CASE FetchOk(c, i)
    <3>1. frame' = [frame EXCEPT ![c] = [frame[c] EXCEPT !.worker[i] = "fetched", !.errs = frame[c].errs]]
      BY <1>1, <2>1 DEF FetchOk, TypeOK, Frame
    <3> QED
      BY <1>1, <3>1 DEF Frame
  <2>2. CASE ChunkFails(c, i)
    <3> DEFINE e == frame[c].errs \cup {i}
    <3>1. frame' = [frame EXCEPT ![c] = [frame[c] EXCEPT !.worker[i] = "exited", !.errs = e]]
      BY <1>1, <2>2 DEF ChunkFails, TypeOK, Frame
    <3>2. e \in SUBSET Chunk /\ i \in e /\ frame[c].errs \subseteq e
      BY <1>1 DEF Frame
    <3> HIDE DEF e
    <3> QED
      BY <3>1, <3>2
  <2> QED
    BY <2>1, <2>2
<1> DEFINE g == [frame[c] EXCEPT !.worker[i] = w, !.errs = e]
<1>5. /\ g \in Frame /\ g.ver = frame[c].ver /\ g.skip = frame[c].skip /\ g.errs = e
      /\ g.sideFd = frame[c].sideFd /\ g.partFd = frame[c].partFd /\ g.next = frame[c].next
      /\ g.worker = [frame[c].worker EXCEPT ![i] = w] /\ g.ctxDone = frame[c].ctxDone
  BY <1>1 DEF Frame, WorkerState
<1> HIDE DEF g
<1>6. g.worker[i] = w /\ \A j \in Chunk : j # i => g.worker[j] = frame[c].worker[j]
  BY <1>1, <1>5 DEF Frame
<1>7. \A j \in Chunk : j < g.next => j \in g.skip \/ g.worker[j] # "none"
  BY <1>1, <1>5, <1>6 DEF PartInv
<1>8. \A j \in Chunk : j \notin g.errs /\ g.worker[j] \in {"written", "exited"} => Believed(c, j)
  BY <1>4, <1>5, <1>6 DEF Believed
<1>9. (pc[c] = "acquire" => g.next < N) /\ (pc[c] = "wait" => g.next = N \/ g.ctxDone)
  BY <1>1, <1>5 DEF PartInv
<1>10. frame' = [frame EXCEPT ![c] = g]
  BY <1>4 DEF g
<1> QED
  BY <1>1, <1>2, <1>3, <1>5, <1>7, <1>8, <1>9, <1>10, FetchingStep

LEMMA WriteAtInv ==
  ASSUME IInv, NEW c \in Call, NEW i \in Chunk, WriteAt(c, i)
  PROVE  IInv'
<1> USE DEF IInv
<1>1. c \in Running /\ pc[c] \in Fetching /\ frame[c] \in Frame /\ SidecarInv(c) /\ PartInv(c)
  BY ActiveFetching DEF WriteAt
<1> DEFINE g == [frame[c] EXCEPT !.worker[i] = "written"]
<1>2. /\ UNCHANGED <<finalAt, partAt, sideAt, log, crashes, cutShort>>
      /\ blocks' = [blocks EXCEPT ![partAt][i] = frame[c].ver]
      /\ frame' = [frame EXCEPT ![c] = g] /\ pc' = [pc EXCEPT ![c] = pc[c]]
  BY <1>1 DEF WriteAt, PartInv, TypeOK
<1>3. /\ g \in Frame /\ g.ver = frame[c].ver /\ g.skip = frame[c].skip /\ g.errs = frame[c].errs
      /\ g.sideFd = frame[c].sideFd /\ g.partFd = frame[c].partFd /\ g.next = frame[c].next
      /\ g.worker = [frame[c].worker EXCEPT ![i] = "written"] /\ g.ctxDone = frame[c].ctxDone
  BY <1>1 DEF Frame, WorkerState
<1> HIDE DEF g
<1>4. partAt \in Inode /\ partAt # None /\ partAt # finalAt /\ frame[c].ver \in Versions
  BY <1>1 DEF PartInv, NamesInv, TypeOK, CallsInv
<1>5. /\ blocks' \in [Inode -> [Chunk -> Versions \cup {None}]]
      /\ finalAt # None => blocks'[finalAt] = blocks[finalAt]
      /\ blocks'[partAt][i] = frame[c].ver
      /\ \A j \in Chunk : j # i => blocks'[partAt][j] = blocks[partAt][j]
  BY <1>2, <1>4 DEF TypeOK
<1>6. pc[c] \in Labels \ {"idle"} /\ pc[c] \notin Ended
  BY <1>1 DEF Labels, Fetching, Ended
<1>7. /\ CallsInv' /\ NamesInv' /\ FinalComplete'
      /\ pc' \in [Call -> Labels] /\ frame' \in [Call -> Frame]
      /\ pc'[c] = pc[c] /\ frame'[c] = g /\ \A d \in Running' : d = c
  BY <1>1, <1>2, <1>3, <1>5, <1>6, Focus
<1>8. TypeOK'
  BY <1>2, <1>5, <1>7 DEF TypeOK, Labels
<1>9. BootInv(c)' /\ SidecarInv(c)'
  BY <1>1, <1>2, <1>3, <1>7 DEF BootInv, SidecarInv, Boot, Fetching
<1>10. PartInv(c)'
  <2>1. g.worker[i] = "written" /\ \A j \in Chunk : j # i => g.worker[j] = frame[c].worker[j]
    BY <1>1, <1>3 DEF Frame
  <2>2. \A j \in Chunk : Believed(c, j)' => Right(c, j)'
    <3> SUFFICES ASSUME NEW j \in Chunk, Believed(c, j)'
                 PROVE  blocks'[partAt'][j] = frame'[c].ver
      BY DEF Right
    <3>1. CASE j = i
      BY <1>2, <1>3, <1>5, <1>7, <3>1
    <3>2. CASE j # i
      <4>1. Believed(c, j)
        BY <1>3, <1>7, <2>1, <3>2 DEF Believed
      <4>2. Right(c, j)
        BY <1>1, <4>1 DEF PartInv
      <4> QED
        BY <1>2, <1>3, <1>5, <1>7, <3>2, <4>2 DEF Right
    <3> QED
      BY <3>1, <3>2
  <2>3. \A j \in Chunk : j < g.next => j \in g.skip \/ g.worker[j] # "none"
    BY <1>1, <1>3, <2>1 DEF PartInv
  <2>4. g.partFd # None /\ partAt' = g.partFd
    BY <1>1, <1>2, <1>3 DEF PartInv
  <2>5. (pc[c] = "acquire" => g.next < N) /\ (pc[c] = "wait" => g.next = N \/ g.ctxDone)
    BY <1>1, <1>3 DEF PartInv
  <2> QED
    BY <1>1, <1>7, <2>2, <2>3, <2>4, <2>5 DEF PartInv, Fetching, Closing
<1> QED
  BY <1>7, <1>8, <1>9, <1>10, Assemble

LEMMA RecordChunkInv ==
  ASSUME IInv, NEW c \in Call, NEW i \in Chunk, RecordChunk(c, i)
  PROVE  IInv'
<1> USE DEF IInv
<1>1. c \in Running /\ pc[c] \in Fetching /\ frame[c] \in Frame /\ SidecarInv(c) /\ PartInv(c)
  BY ActiveFetching DEF RecordChunk
<1> DEFINE g == [frame[c] EXCEPT !.worker[i] = "exited"]
<1>2. /\ UNCHANGED <<finalAt, partAt, sideAt, blocks, crashes, cutShort>>
      /\ log' = log \/ log' = [log EXCEPT ![sideAt].claims = @ \cup {i}]
      /\ frame' = [frame EXCEPT ![c] = g] /\ pc' = [pc EXCEPT ![c] = pc[c]]
  BY <1>1 DEF RecordChunk, SidecarInv, TypeOK
<1>3. /\ g \in Frame /\ g.ver = frame[c].ver /\ g.skip = frame[c].skip /\ g.errs = frame[c].errs
      /\ g.sideFd = frame[c].sideFd /\ g.partFd = frame[c].partFd /\ g.next = frame[c].next
      /\ g.worker = [frame[c].worker EXCEPT ![i] = "exited"] /\ g.ctxDone = frame[c].ctxDone
  BY <1>1 DEF Frame, WorkerState
<1> HIDE DEF g
<1>4. sideAt \in Inode
  BY <1>1 DEF SidecarInv, TypeOK
<1>5. /\ log' \in [Inode -> [hdr : Versions \cup {None}, claims : SUBSET Chunk]]
      /\ log'[sideAt].hdr = log[sideAt].hdr /\ log[sideAt].claims \subseteq log'[sideAt].claims
  <2> DEFINE e == [log[sideAt] EXCEPT !.claims = @ \cup {i}]
  <2>1. log \in [Inode -> [hdr : Versions \cup {None}, claims : SUBSET Chunk]]
    BY DEF TypeOK
  <2>2. /\ e \in [hdr : Versions \cup {None}, claims : SUBSET Chunk]
        /\ e.hdr = log[sideAt].hdr /\ log[sideAt].claims \subseteq e.claims
    BY <1>4, <2>1
  <2>3. log' = log \/ log' = [log EXCEPT ![sideAt] = e]
    BY <1>2, <1>4, <2>1
  <2> HIDE DEF e
  <2> QED
    BY <1>4, <2>1, <2>2, <2>3
<1>6. pc[c] \in Labels \ {"idle"} /\ pc[c] \notin Ended
  BY <1>1 DEF Labels, Fetching, Ended
<1>7. /\ CallsInv' /\ NamesInv' /\ FinalComplete'
      /\ pc' \in [Call -> Labels] /\ frame' \in [Call -> Frame]
      /\ pc'[c] = pc[c] /\ frame'[c] = g /\ \A d \in Running' : d = c
  BY <1>1, <1>2, <1>3, <1>6, Focus
<1>8. TypeOK'
  BY <1>2, <1>5, <1>7 DEF TypeOK, Labels
<1>9. BootInv(c)' /\ SidecarInv(c)'
  <2>1. BootInv(c)'
    BY <1>1, <1>7 DEF BootInv, Boot, Fetching
  <2>2. /\ sideAt' = g.sideFd /\ g.sideFd # None /\ log'[g.sideFd].hdr = g.ver
        /\ g.skip \subseteq log'[g.sideFd].claims
    BY <1>1, <1>2, <1>3, <1>5 DEF SidecarInv
  <2>3. SidecarInv(c)'
    BY <1>1, <1>7, <2>2 DEF SidecarInv, Fetching
  <2> QED
    BY <2>1, <2>3
<1>10. PartInv(c)'
  <2>1. g.worker[i] = "exited" /\ \A j \in Chunk : j # i => g.worker[j] = frame[c].worker[j]
    BY <1>1, <1>3 DEF Frame
  <2>2. frame[c].worker[i] = "written"
    BY DEF RecordChunk
  <2>3. \A j \in Chunk : Believed(c, j)' => Believed(c, j)
    BY <1>3, <1>7, <2>1, <2>2 DEF Believed
  <2>4. \A j \in Chunk : Right(c, j)' <=> Right(c, j)
    BY <1>2, <1>3, <1>7 DEF Right
  <2>5. \A j \in Chunk : j < g.next => j \in g.skip \/ g.worker[j] # "none"
    BY <1>1, <1>3, <2>1 DEF PartInv
  <2>6. \A j \in Chunk : Believed(c, j)' => Right(c, j)'
    BY <1>1, <2>3, <2>4 DEF PartInv
  <2>7. g.partFd # None /\ partAt' = g.partFd
    BY <1>1, <1>2, <1>3 DEF PartInv
  <2>8. (pc[c] = "acquire" => g.next < N) /\ (pc[c] = "wait" => g.next = N \/ g.ctxDone)
    BY <1>1, <1>3 DEF PartInv
  <2> QED
    BY <1>1, <1>7, <2>5, <2>6, <2>7, <2>8 DEF PartInv, Fetching, Closing
<1> QED
  BY <1>7, <1>8, <1>9, <1>10, Assemble

\* The call is over.
LEMMA ReturnInv ==
  ASSUME IInv, NEW c \in Running, NEW l \in {"ok", "err"}, Return(c, l), TypeOK',
         finalAt' = finalAt, cutShort' = cutShort, partAt' \in {partAt, None},
         finalAt # None => blocks'[finalAt] = blocks[finalAt]
  PROVE  IInv'
<1>1. /\ CallsInv' /\ NamesInv' /\ FinalComplete' /\ pc'[c] = l /\ \A d \in Running' : d = c
  BY Focus, NoFrameType DEF Return, Goto, Labels, Ended
<1>2. Running' = {}
  BY <1>1 DEF Running, Ended
<1> QED
  BY <1>1, <1>2 DEF IInv, ProgressInv

LEMMA JoinInv ==
  ASSUME IInv, NEW c \in Call, Join(c)
  PROVE  IInv'
<1> USE DEF IInv
<1>1. /\ c \in Running /\ frame[c] \in Frame /\ pc[c] = "wait"
      /\ BootInv(c) /\ SidecarInv(c) /\ PartInv(c)
  BY DEF Join, Running, Ended, TypeOK, ProgressInv
<1>2. UNCHANGED <<finalAt, partAt, sideAt, blocks, log, crashes, cutShort>>
  BY DEF Join, disk
<1>3. CASE Return(c, "err")
  <2>1. TypeOK'
    BY <1>2, <1>3, NoFrameType DEF Return, Goto, TypeOK, Ended
  <2> QED
    BY <1>1, <1>2, <1>3, <2>1, ReturnInv
<1>4. CASE frame[c].errs = {} /\ Goto(c, "cleanup") /\ UNCHANGED frame
  <2>1. frame' = [frame EXCEPT ![c] = frame[c]] /\ pc' = [pc EXCEPT ![c] = "cleanup"]
    BY <1>4 DEF Goto, TypeOK
  <2>2. /\ CallsInv' /\ NamesInv' /\ FinalComplete'
        /\ pc' \in [Call -> Labels] /\ frame' \in [Call -> Frame]
        /\ pc'[c] = "cleanup" /\ frame'[c] = frame[c] /\ \A d \in Running' : d = c
    BY <1>1, <1>2, <2>1, Focus DEF Labels, Ended
  <2>3. TypeOK'
    BY <1>2, <2>2 DEF TypeOK, Labels
  <2>4. BootInv(c)' /\ SidecarInv(c)'
    BY <2>2 DEF BootInv, SidecarInv, Boot, Fetching
  <2>5. \A i \in Chunk : frame[c].worker[i] \in {"none", "exited"}
    BY <1>1 DEF Join, Active, Frame, WorkerState
  <2>6. ~frame[c].ctxDone => \A i \in Chunk : Right(c, i)
    <3> SUFFICES ASSUME ~frame[c].ctxDone, NEW i \in Chunk
                 PROVE  Right(c, i)
      OBVIOUS
    <3>1. i < frame[c].next
      BY <1>1 DEF PartInv, Chunk
    <3>2. i \in frame[c].skip \/ frame[c].worker[i] = "exited"
      BY <1>1, <2>5, <3>1 DEF PartInv, Fetching
    <3>3. Believed(c, i)
      BY <1>4, <3>2 DEF Believed
    <3> QED
      BY <1>1, <3>3 DEF PartInv, Fetching
  <2>7. PartInv(c)'
    BY <1>1, <1>2, <2>2, <2>5, <2>6 DEF PartInv, Right, Fetching, Closing
  <2> QED
    BY <2>2, <2>3, <2>4, <2>7, Assemble
<1> QED
  BY <1>3, <1>4 DEF Join

-----------------------------------------------------------------------------
(* Success.                                                                *)

LEMMA CleanupInv ==
  ASSUME IInv, NEW c \in Call, Cleanup(c)
  PROVE  IInv'
<1> USE DEF IInv
<1>1. /\ c \in Running /\ frame[c] \in Frame /\ pc[c] = "cleanup" /\ PartInv(c)
  BY DEF Cleanup, Running, Ended, TypeOK, ProgressInv
<1>2. /\ UNCHANGED <<finalAt, partAt, blocks, crashes, cutShort>> /\ FreeSidecar
      /\ frame' = [frame EXCEPT ![c] = frame[c]] /\ pc' = [pc EXCEPT ![c] = "remove"]
  BY DEF Cleanup, Goto, TypeOK
<1>3. /\ CallsInv' /\ NamesInv' /\ FinalComplete'
      /\ pc' \in [Call -> Labels] /\ frame' \in [Call -> Frame]
      /\ pc'[c] = "remove" /\ frame'[c] = frame[c] /\ \A d \in Running' : d = c
  BY <1>1, <1>2, Focus DEF Labels, Ended
<1>4. TypeOK'
  BY <1>2, <1>3, FreeSidecarType DEF TypeOK, Labels
<1>5. BootInv(c)' /\ SidecarInv(c)' /\ PartInv(c)'
  BY <1>1, <1>2, <1>3 DEF BootInv, SidecarInv, PartInv, Right, Boot, Fetching, Closing
<1> QED
  BY <1>3, <1>4, <1>5, Assemble

LEMMA RemoveOldInv ==
  ASSUME IInv, NEW c \in Call, RemoveOld(c)
  PROVE  IInv'
<1> USE DEF IInv
<1>1. /\ c \in Running /\ frame[c] \in Frame /\ pc[c] = "remove" /\ PartInv(c)
  BY DEF RemoveOld, Running, Ended, TypeOK, ProgressInv
<1>2. /\ finalAt' = None /\ cutShort' = FALSE /\ UNCHANGED <<partAt, sideAt, log, crashes, frame>>
      /\ pc' = [pc EXCEPT ![c] = "rename"]
  BY DEF RemoveOld, Goto
<1>3. blocks' \in [Inode -> [Chunk -> Versions \cup {None}]]
  BY DEF RemoveOld, FreePart, TypeOK
<1>4. partAt # None /\ blocks'[partAt] = blocks[partAt]
  BY <1>1 DEF RemoveOld, FreePart, TypeOK, NamesInv, PartInv, Closing
<1>5. /\ pc'[c] = "rename" /\ \A d \in Call : d # c => pc'[d] = pc[d]
      /\ pc' \in [Call -> Labels]
  BY <1>2 DEF TypeOK, Labels
<1>6. Running' = Running
  BY <1>1, <1>5 DEF Running, Ended
<1>7. CallsInv' /\ \A d \in Running' : d = c
  BY <1>1, <1>2, <1>6 DEF CallsInv
<1>8. NamesInv' /\ FinalComplete'
  BY <1>2, <1>5 DEF NamesInv, FinalComplete, TypeOK
<1>9. TypeOK'
  BY <1>2, <1>3, <1>5 DEF TypeOK, Labels
<1>10. BootInv(c)' /\ SidecarInv(c)' /\ PartInv(c)'
  BY <1>1, <1>2, <1>4, <1>5 DEF BootInv, SidecarInv, PartInv, Right, Boot, Fetching, Closing
<1> QED
  BY <1>7, <1>8, <1>9, <1>10, Assemble

LEMMA RenameInv ==
  ASSUME IInv, NEW c \in Call, Rename(c)
  PROVE  IInv'
<1> USE DEF IInv
<1>1. /\ c \in Running /\ frame[c] \in Frame /\ pc[c] = "rename" /\ PartInv(c)
  BY DEF Rename, Running, Ended, TypeOK, ProgressInv
<1>2. UNCHANGED <<sideAt, blocks, log, crashes>>
  BY DEF Rename
<1>3. CASE Return(c, "err") /\ UNCHANGED <<finalAt, partAt, cutShort>>
  <2>1. TypeOK'
    BY <1>2, <1>3, NoFrameType DEF Return, Goto, TypeOK, Ended
  <2> QED
    BY <1>1, <1>2, <1>3, <2>1, ReturnInv
<1>4. CASE finalAt' = partAt /\ cutShort' = frame[c].ctxDone /\ partAt' = None /\ Return(c, "ok")
  <2>1. /\ pc' = [pc EXCEPT ![c] = "ok"] /\ frame' = [frame EXCEPT ![c] = NoFrame]
    BY <1>4 DEF Return, Goto
  <2>2. /\ pc'[c] = "ok" /\ frame'[c] = NoFrame
        /\ \A d \in Call : d # c => pc'[d] = pc[d] /\ frame'[d] = frame[d]
    BY <2>1 DEF TypeOK
  <2>3. \A d \in Call : d # c => d \notin Running
    BY <1>1 DEF CallsInv
  <2>4. Running' = {}
    BY <2>2, <2>3 DEF Running, Ended
  <2>5. TypeOK'
    BY <1>1, <1>2, <1>4, <2>1, NoFrameType DEF TypeOK, Ended, Frame
  <2>6. CallsInv'
    BY <2>2, <2>3, <2>4 DEF CallsInv
  <2>7. NamesInv'
    <3>1. partAt # None => pc[partAt] # "idle" /\ partAt \in Call
      BY DEF NamesInv, TypeOK
    <3>2. partAt # None => pc'[partAt] \in Ended
      BY <2>2, <2>3, <3>1 DEF Running, TypeOK, Ended
    <3> QED
      BY <1>4, <3>2 DEF NamesInv
  <2>8. FinalComplete'
    <3>1. frame[c].ver \in Versions
      BY <1>1 DEF CallsInv
    <3>2. ~frame[c].ctxDone => \A i \in Chunk : blocks[partAt][i] = frame[c].ver
      BY <1>1 DEF PartInv, Closing, Right
    <3> QED
      BY <1>2, <1>4, <3>1, <3>2 DEF FinalComplete, Complete
  <2> QED
    BY <2>4, <2>5, <2>6, <2>7, <2>8 DEF ProgressInv
<1> QED
  BY <1>3, <1>4 DEF Rename

-----------------------------------------------------------------------------
(* The environment.                                                        *)

LEMMA CancelInv ==
  ASSUME IInv, NEW c \in Call, Cancel(c)
  PROVE  IInv'
<1> USE DEF IInv
<1> DEFINE g == [frame[c] EXCEPT !.ctxDone = TRUE]
<1>1. /\ c \in Running /\ frame[c] \in Frame /\ BootInv(c) /\ SidecarInv(c) /\ PartInv(c)
  BY DEF Cancel, Running, TypeOK, ProgressInv
<1>2. /\ UNCHANGED <<finalAt, partAt, sideAt, blocks, log, crashes, cutShort>>
      /\ frame' = [frame EXCEPT ![c] = g] /\ pc' = [pc EXCEPT ![c] = pc[c]]
  BY DEF Cancel, disk, TypeOK
<1>3. /\ g \in Frame /\ g.ver = frame[c].ver /\ g.skip = frame[c].skip /\ g.errs = frame[c].errs
      /\ g.sideFd = frame[c].sideFd /\ g.partFd = frame[c].partFd /\ g.next = frame[c].next
      /\ g.worker = frame[c].worker /\ g.ctxDone = TRUE /\ g.claimed = frame[c].claimed
  BY <1>1 DEF Frame
<1> HIDE DEF g
<1>4. pc[c] \in Labels \ {"idle"} /\ pc[c] \notin Ended
  BY <1>1 DEF Labels, Running, TypeOK
<1>5. /\ CallsInv' /\ NamesInv' /\ FinalComplete'
      /\ pc' \in [Call -> Labels] /\ frame' \in [Call -> Frame]
      /\ pc'[c] = pc[c] /\ frame'[c] = g /\ \A d \in Running' : d = c
  BY <1>1, <1>2, <1>3, <1>4, Focus
<1>6. TypeOK'
  BY <1>2, <1>5 DEF TypeOK, Labels
<1>7. BootInv(c)'
  BY <1>1, <1>3, <1>5 DEF BootInv
<1>8. SidecarInv(c)'
  BY <1>1, <1>2, <1>3, <1>5 DEF SidecarInv
<1>9. PartInv(c)'
  <2>1. \A i \in Chunk : (Believed(c, i)' <=> Believed(c, i)) /\ (Right(c, i)' <=> Right(c, i))
    BY <1>2, <1>3, <1>5 DEF Believed, Right
  <2>2. frame[c].skip \subseteq Chunk
    BY <1>1 DEF Frame
  <2> QED
    BY <1>1, <1>2, <1>3, <1>5, <2>1, <2>2 DEF PartInv
<1> QED
  BY <1>5, <1>6, <1>7, <1>8, <1>9, Assemble

LEMMA CrashInv ==
  ASSUME IInv, Crash
  PROVE  IInv'
<1> USE DEF IInv
<1>1. PICK lost \in SUBSET Chunk :
        blocks' = [n \in Inode |-> [i \in Chunk |->
                     IF n = partAt /\ i \in lost THEN None ELSE blocks[n][i]]]
  BY DEF Crash
<1>2. /\ UNCHANGED <<finalAt, partAt, sideAt, log, cutShort>>
      /\ pc' = [c \in Call |-> IF c \in Running THEN "dead" ELSE pc[c]]
      /\ frame' = [c \in Call |-> NoFrame]
  BY DEF Crash
<1>3. \A c \in Call : pc'[c] \in Ended \cup {"idle"} /\ (pc'[c] = "idle" => pc[c] = "idle")
  BY <1>2 DEF Running, Ended
<1>4. Running' = {}
  BY <1>3 DEF Running
<1>5. TypeOK'
  <2>1. blocks' \in [Inode -> [Chunk -> Versions \cup {None}]]
    BY <1>1 DEF TypeOK
  <2>2. crashes' \in 0 .. MaxCrashes
    BY DEF Crash, TypeOK
  <2> QED
    BY <1>2, <2>1, <2>2, NoFrameType DEF TypeOK, Ended
<1>6. CallsInv'
  BY <1>2, <1>4 DEF CallsInv
<1>7. NamesInv'
  BY <1>2, <1>3 DEF NamesInv, TypeOK
<1>8. FinalComplete'
  <2>1. finalAt # None => finalAt \in Inode /\ finalAt # partAt
    BY DEF NamesInv, TypeOK
  <2>2. finalAt # None => \A i \in Chunk : blocks'[finalAt][i] = blocks[finalAt][i]
    BY <1>1, <2>1
  <2> QED
    BY <1>2, <2>2 DEF FinalComplete, Complete
<1> QED
  BY <1>4, <1>5, <1>6, <1>7, <1>8 DEF ProgressInv

-----------------------------------------------------------------------------
(* The theorems.                                                           *)

LEMMA InitIInv == Init => IInv
<1> SUFFICES ASSUME Init
             PROVE  IInv
  OBVIOUS
<1>1. Running = {}
  BY DEF Init, Running
<1>2. TypeOK
  <2>1. [hdr |-> None, claims |-> {}] \in [hdr : Versions \cup {None}, claims : SUBSET Chunk]
    OBVIOUS
  <2>2. /\ log \in [Inode -> [hdr : Versions \cup {None}, claims : SUBSET Chunk]]
        /\ blocks \in [Inode -> [Chunk -> Versions \cup {None}]]
    BY <2>1 DEF Init
  <2>3. pc \in [Call -> Labels] /\ frame \in [Call -> Frame]
    BY NoFrameType DEF Init, Labels
  <2>4. {finalAt, partAt, sideAt} \subseteq Inode \cup {None} /\ crashes \in 0 .. MaxCrashes
    BY DEF Init
  <2>5. cutShort \in BOOLEAN
    BY DEF Init
  <2> QED
    BY <2>2, <2>3, <2>4, <2>5 DEF TypeOK, Labels
<1> QED
  BY <1>1, <1>2 DEF Init, IInv, CallsInv, NamesInv, ProgressInv, FinalComplete

LEMMA NextIInv == IInv /\ [Next]_vars => IInv'
<1> SUFFICES ASSUME IInv, [Next]_vars
             PROVE  IInv'
  OBVIOUS
<1>1. ASSUME NEW c \in Call, Start(c) \/ Step(c) \/ Cancel(c)
      PROVE  IInv'
  BY <1>1, StartInv, OpenSidecarInv, RemoveStalePartInv, FastVerifyInv, CreateSidecarInv,
     WriteHeaderInv, OpenPartInv, LoopTestInv, SpawnInv, JoinInv, CleanupInv, RemoveOldInv,
     RenameInv, CancelInv DEF Step
<1>2. ASSUME NEW c \in Call, NEW i \in Chunk, Fetcher(c, i)
      PROVE  IInv'
  BY <1>2, FetchEndsInv, WriteAtInv, RecordChunkInv DEF Fetcher
<1>3. ASSUME UNCHANGED vars
      PROVE  IInv'
  <2>1. UNCHANGED <<pc, frame, finalAt, partAt, sideAt, blocks, log, crashes, cutShort>>
    BY <1>3 DEF vars, disk
  <2>2. Running' = Running
    BY <2>1 DEF Running
  <2>3. TypeOK' /\ CallsInv' /\ NamesInv' /\ FinalComplete'
    BY <2>1, <2>2 DEF IInv, TypeOK, CallsInv, NamesInv, FinalComplete, Complete
  <2>4. ASSUME NEW c \in Running
        PROVE  BootInv(c)' /\ SidecarInv(c)' /\ PartInv(c)'
    BY <2>1 DEF IInv, ProgressInv, BootInv, SidecarInv, PartInv, Believed, Right
  <2> QED
    BY <2>2, <2>3, <2>4 DEF IInv, ProgressInv
<1> QED
  BY <1>1, <1>2, <1>3, CrashInv DEF Next, Exhausted

LEMMA InductiveInvariant == Spec => []IInv
  BY InitIInv, NextIInv, PTL DEF Spec

\* Every value of the state is of its type, whatever the number of chunks,
\* versions, calls and crashes.
THEOREM TypeCorrect == Spec => []TypeOK
<1>1. IInv => TypeOK
  BY DEF IInv
<1> QED
  BY <1>1, InductiveInvariant, PTL

\* The file at the final path holds all chunks of one version of the manifest
\* (GetDataToFile with the sidecar, .part and SafeRename), whatever crashed, was
\* paused and was resumed before, unless a cancelled call has put it there.
THEOREM FinalFileComplete == Spec => []FinalComplete
<1>1. IInv => FinalComplete
  BY DEF IInv
<1> QED
  BY <1>1, InductiveInvariant, PTL

\* A call whose download fails or is paused leaves the sidecar at its path, with
\* the manifest it is for and every chunk that was verified or logged
\* (DownloadToFileResumable's error path keeps the sidecar).
THEOREM ProgressKept == Spec => FailureKeepsProgress
<1>1. IInv /\ [Next]_vars =>
        [\A c \in Call :
           pc[c] = "wait" /\ pc'[c] = "err" =>
             /\ sideAt' = frame[c].sideFd
             /\ log'[sideAt'].hdr = frame[c].ver
             /\ log[frame[c].sideFd].claims \cup frame[c].skip \subseteq log'[sideAt'].claims]_vars
  <2> SUFFICES ASSUME IInv, [Next]_vars, NEW c \in Call, pc[c] = "wait", pc'[c] = "err"
               PROVE  /\ sideAt' = frame[c].sideFd
                      /\ log'[sideAt'].hdr = frame[c].ver
                      /\ log[frame[c].sideFd].claims \cup frame[c].skip \subseteq log'[sideAt'].claims
    OBVIOUS
  <2>1. c \in Running /\ SidecarInv(c)
    BY DEF IInv, Running, Ended, ProgressInv
  <2>2. sideAt' = sideAt /\ log' = log
    <3>1. \A d \in Running : d = c
      BY <2>1 DEF IInv, CallsInv
    <3>2. ASSUME NEW d \in Call, Start(d) \/ Step(d) \/ Cancel(d)
          PROVE  sideAt' = sideAt /\ log' = log
      <4>1. d # c => pc'[c] = pc[c]
        BY <3>2 DEF IInv, TypeOK, Start, Step, Cancel, OpenSidecar, RemoveStalePart, FastVerify,
           CreateSidecar, WriteHeader, OpenPart, LoopTest, Spawn, Join, Cleanup, RemoveOld, Rename,
           Return, Goto
      <4>2. d = c
        BY <4>1
      <4> QED
        BY <3>2, <4>2 DEF IInv, TypeOK, Start, Step, Cancel, OpenSidecar, RemoveStalePart, FastVerify,
           CreateSidecar, WriteHeader, OpenPart, LoopTest, Spawn, Join, Cleanup, RemoveOld, Rename,
           disk
    <3>3. ASSUME NEW d \in Call, NEW i \in Chunk, Fetcher(d, i)
          PROVE  FALSE
      BY <3>3 DEF Fetcher, FetchOk, ChunkFails, WriteAt, RecordChunk
    <3>4. ~Crash
      BY <2>1 DEF Crash
    <3> QED
      BY <3>2, <3>3, <3>4 DEF Next, Exhausted, vars, disk
  <2> QED
    BY <2>1, <2>2 DEF SidecarInv, Fetching
<1> QED
  BY <1>1, InductiveInvariant, PTL DEF Spec, FailureKeepsProgress
=============================================================================
