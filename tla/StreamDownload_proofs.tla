------------------------ MODULE StreamDownload_proofs ------------------------
(***************************************************************************)
(* Proofs about StreamDownload, for every number of chunks and every       *)
(* window size.  The inductive invariant says where each chunk is: not yet *)
(* dispatched, with its goroutine, in the channel, in the window, or       *)
(* written, and never in two of these places.                              *)
(***************************************************************************)
EXTENDS StreamDownload, FiniteSetTheorems, TLAPS

InFlight == {"fetching", "fetched", "failed"}

\* The window bounds, and what main knows at each of its positions.
MainInv ==
  /\ nextExpected <= nextDispatch
  /\ nextDispatch <= nextExpected + WindowSize
  /\ pc = "acquire" => /\ nextExpected < nextDispatch
                       /\ worker[nextDispatch - 1] = "idle"
                       /\ nextDispatch - 1 \notin window
                       /\ \A k \in 1 .. Len(results) : results[k].index # nextDispatch - 1
  /\ pc \in {"merkle", "done"} => nextExpected = N

\* Goroutines exist only for dispatched chunks, and one that has not sent its
\* result works on a chunk that is in neither the channel nor the window.
WorkerInv ==
  \A i \in Chunk :
    /\ nextDispatch <= i => worker[i] = "idle"
    /\ worker[i] \in InFlight =>
         /\ nextExpected <= i
         /\ i \notin window
         /\ \A k \in 1 .. Len(results) : results[k].index # i

\* The channel holds distinct, dispatched, unwritten chunks.
ChannelInv ==
  /\ \A k \in 1 .. Len(results) :
       /\ nextExpected <= results[k].index
       /\ results[k].index < nextDispatch
       /\ results[k].index \notin window
  /\ \A k, l \in 1 .. Len(results) : results[k].index = results[l].index => k = l

\* So does the window.
BufferInv == \A i \in window : nextExpected <= i /\ i < nextDispatch

OutputInv ==
  /\ Len(written) = nextExpected
  /\ \A k \in 1 .. nextExpected : written[k] = k - 1

IInv == TypeOK /\ MainInv /\ WorkerInv /\ ChannelInv /\ BufferInv /\ OutputInv

USE NAssumption, WindowAssumption, RootAssumption

LEMMA InitIInv == Init => IInv
  BY DEF Init, IInv, TypeOK, MainInv, WorkerInv, ChannelInv, BufferInv,
         OutputInv, Chunk, Result, InFlight

\* Taking the head of the channel: what is left, and where it was.
LEMMA TakeHead ==
  ASSUME results \in Seq(Result), results # <<>>, results' = Tail(results)
  PROVE  /\ results' \in Seq(Result)
         /\ Len(results) >= 1
         /\ Len(results') = Len(results) - 1
         /\ \A k \in 1 .. Len(results') : k + 1 \in 1 .. Len(results) /\ results'[k] = results[k + 1]
         /\ Head(results) = results[1]
         /\ 1 \in 1 .. Len(results)
         /\ Head(results) \in Result
  OBVIOUS

\* What the channel holds are results for chunks of the file.
LEMMA ResultIndex ==
  ASSUME NEW q \in Seq(Result), NEW k \in 1 .. Len(q)
  PROVE  q[k].index \in Chunk
<1>1. q[k] \in Result
  OBVIOUS
<1> QED
  BY <1>1 DEF Result

\* Steps of the goroutine of one chunk.
LEMMA FetcherStep ==
  ASSUME IInv, NEW i \in Chunk, Fetcher(i)
  PROVE  IInv'
<1> USE DEF IInv, Chunk
<1>1. CASE FetchOk(i) \/ FetchFail(i)
  <2>1. /\ worker[i] = "fetching"
        /\ worker' \in [Chunk -> {"idle", "fetching", "fetched", "failed", "sent", "exited"}]
        /\ worker'[i] \in {"fetched", "failed"}
        /\ \A j \in Chunk : j # i => worker'[j] = worker[j]
        /\ UNCHANGED <<pc, nextDispatch, nextExpected, results, window, written>>
    BY <1>1 DEF FetchOk, FetchFail, TypeOK
  <2>2. TypeOK'
    BY <2>1 DEF TypeOK
  <2>3. MainInv'
    BY <2>1 DEF MainInv, TypeOK
  <2>4. WorkerInv'
    BY <2>1 DEF WorkerInv, InFlight, TypeOK
  <2>5. ChannelInv' /\ BufferInv' /\ OutputInv'
    BY <2>1 DEF ChannelInv, BufferInv, OutputInv
  <2> QED
    BY <2>2, <2>3, <2>4, <2>5
<1>2. CASE SendResult(i)
  <2> DEFINE r == [index |-> i, ok |-> worker[i] = "fetched"]
  <2>1. r \in Result
    BY DEF Result
  <2>2. /\ results \in Seq(Result)
        /\ results' = Append(results, r)
        /\ worker[i] \in {"fetched", "failed"}
        /\ worker' = [worker EXCEPT ![i] = "sent"]
        /\ UNCHANGED <<pc, nextDispatch, nextExpected, window, written>>
    BY <1>2 DEF SendResult, TypeOK
  <2>3. /\ results' \in Seq(Result)
        /\ Len(results') = Len(results) + 1
        /\ \A k \in 1 .. Len(results) : results'[k] = results[k]
        /\ results'[Len(results) + 1] = r
    BY <2>1, <2>2
  <2>4. /\ nextExpected <= i
        /\ i < nextDispatch
        /\ i \notin window
        /\ \A k \in 1 .. Len(results) : results[k].index # i
    BY <2>2 DEF WorkerInv, InFlight, TypeOK
  <2>5. r.index = i
    OBVIOUS
  <2> HIDE DEF r
  <2>6. TypeOK'
    BY <2>2, <2>3 DEF TypeOK
  <2>7. MainInv'
    <3>1. pc = "acquire" => nextDispatch - 1 # i /\ nextDispatch - 1 \in Chunk
      BY <2>2 DEF MainInv, TypeOK
    <3>2. pc = "acquire" => \A k \in 1 .. Len(results') : results'[k].index # nextDispatch - 1
      BY <3>1, <2>2, <2>3, <2>5 DEF MainInv
    <3>3. pc = "acquire" => worker'[nextDispatch - 1] = "idle"
      BY <3>1, <2>2 DEF MainInv, TypeOK
    <3> QED
      BY <3>2, <3>3, <2>2 DEF MainInv
  <2>8. WorkerInv'
    BY <2>2, <2>3, <2>5 DEF WorkerInv, InFlight, TypeOK
  <2>9. ChannelInv'
    BY <2>2, <2>3, <2>4, <2>5 DEF ChannelInv, TypeOK
  <2>10. BufferInv' /\ OutputInv'
    BY <2>2 DEF BufferInv, OutputInv
  <2> QED
    BY <2>6, <2>7, <2>8, <2>9, <2>10
<1>3. CASE ReleaseSlot(i)
  BY <1>3 DEF ReleaseSlot, TypeOK, MainInv, WorkerInv, ChannelInv,
              BufferInv, OutputInv, InFlight
<1> QED
  BY <1>1, <1>2, <1>3 DEF Fetcher

\* Steps of dispatchChunks.
LEMMA DispatchStep ==
  ASSUME IInv, DispatchNext \/ AcquireAndSpawn \/ DispatchDone
  PROVE  IInv'
<1> USE DEF IInv, Chunk
<1>1. CASE DispatchNext
  <2>1. /\ nextDispatch < N
        /\ nextDispatch < nextExpected + WindowSize
        /\ nextDispatch' = nextDispatch + 1
        /\ pc' = "acquire"
        /\ UNCHANGED <<nextExpected, worker, results, window, written>>
    BY <1>1 DEF DispatchNext, WindowOpen
  <2>2. \A k \in 1 .. Len(results) : results[k].index \in Chunk
    BY ResultIndex DEF TypeOK
  <2>3. TypeOK'
    BY <2>1 DEF TypeOK
  <2>4. MainInv'
    BY <2>1, <2>2 DEF MainInv, WorkerInv, ChannelInv, BufferInv, TypeOK
  <2>5. WorkerInv'
    <3>1. \A i \in Chunk : nextDispatch + 1 <= i => nextDispatch <= i
      BY DEF TypeOK
    <3> QED
      BY <2>1, <3>1 DEF WorkerInv
  <2>6. ChannelInv'
    BY <2>1, <2>2 DEF ChannelInv, TypeOK
  <2>7. BufferInv' /\ OutputInv'
    BY <2>1 DEF BufferInv, OutputInv, TypeOK
  <2> QED
    BY <2>3, <2>4, <2>5, <2>6, <2>7
<1>2. CASE AcquireAndSpawn
  <2> DEFINE d == nextDispatch - 1
  <2>1. /\ worker' = [worker EXCEPT ![d] = "fetching"]
        /\ pc' = "dispatch"
        /\ UNCHANGED <<nextDispatch, nextExpected, results, window, written>>
    BY <1>2 DEF AcquireAndSpawn
  <2>2. /\ d \in Chunk
        /\ nextExpected <= d
        /\ d \notin window
        /\ \A k \in 1 .. Len(results) : results[k].index # d
    BY <1>2 DEF AcquireAndSpawn, MainInv, TypeOK
  <2>3. TypeOK' /\ MainInv'
    BY <2>1, <2>2 DEF TypeOK, MainInv
  <2>4. WorkerInv'
    <3>1. /\ worker'[d] = "fetching"
          /\ ~(nextDispatch <= d)
          /\ \A i \in Chunk : i # d => worker'[i] = worker[i]
      BY <2>1, <2>2 DEF TypeOK
    <3> HIDE DEF d
    <3> QED
      BY <3>1, <2>1, <2>2 DEF WorkerInv
  <2>5. ChannelInv' /\ BufferInv' /\ OutputInv'
    BY <2>1 DEF ChannelInv, BufferInv, OutputInv
  <2> QED
    BY <2>3, <2>4, <2>5
<1>3. CASE DispatchDone
  BY <1>3 DEF DispatchDone, WindowOpen, TypeOK, MainInv, WorkerInv, ChannelInv,
              BufferInv, OutputInv, InFlight
<1> QED
  BY <1>1, <1>2, <1>3

\* Steps that take a result from the channel.
LEMMA ReceiveStep ==
  ASSUME IInv, pc = "recv", results # <<>>, results' = Tail(results),
         ReceiveError \/ ReceiveInOrder \/ ReceiveOutOfOrder \/ WriteFails
  PROVE  IInv'
<1> USE DEF IInv, Chunk
<1>1. /\ results' \in Seq(Result)
      /\ Len(results) >= 1
      /\ Len(results') = Len(results) - 1
      /\ \A k \in 1 .. Len(results') : k + 1 \in 1 .. Len(results) /\ results'[k] = results[k + 1]
      /\ Head(results) = results[1]
      /\ 1 \in 1 .. Len(results)
      /\ Head(results) \in Result
  BY TakeHead DEF TypeOK
<1> DEFINE h == Head(results).index
<1>2. /\ h \in Chunk
      /\ nextExpected <= h
      /\ h < nextDispatch
      /\ h \notin window
      /\ ~(worker[h] \in InFlight)
      /\ \A k \in 1 .. Len(results') : results'[k].index # h
  <2>1. h = results[1].index
    BY <1>1
  <2>2. h \in Chunk
    BY <1>1 DEF Result
  <2>3. nextExpected <= h /\ h < nextDispatch /\ h \notin window
    BY <1>1, <2>1 DEF ChannelInv
  <2>4. ~(worker[h] \in InFlight)
    BY <1>1, <2>1, <2>2 DEF WorkerInv
  <2>5. ASSUME NEW k \in 1 .. Len(results')
        PROVE  results'[k].index # h
    <3>1. k + 1 \in 1 .. Len(results) /\ results'[k] = results[k + 1] /\ k + 1 # 1
      BY <1>1, <2>5
    <3> QED
      BY <3>1, <1>1, <2>1 DEF ChannelInv
  <2> QED
    BY <2>2, <2>3, <2>4, <2>5
<1>3. ASSUME NEW k \in 1 .. Len(results')
      PROVE  /\ nextExpected <= results'[k].index
             /\ results'[k].index < nextDispatch
             /\ results'[k].index \notin window
             /\ results'[k].index \in Chunk
  BY <1>1, <1>3, ResultIndex DEF ChannelInv
<1>4. ASSUME NEW k \in 1 .. Len(results'), NEW l \in 1 .. Len(results'),
             results'[k].index = results'[l].index
      PROVE  k = l
  BY <1>1, <1>4 DEF ChannelInv
<1>5. ASSUME NEW i \in Chunk, worker[i] \in InFlight
      PROVE  /\ i # h
             /\ \A k \in 1 .. Len(results') : results'[k].index # i
  BY <1>1, <1>2, <1>5 DEF WorkerInv
<1> HIDE DEF h
<1>6. CASE ReceiveError \/ WriteFails
  <2>1. /\ pc' = "error"
        /\ UNCHANGED <<nextDispatch, nextExpected, worker, window, written>>
    BY <1>6 DEF ReceiveError, WriteFails
  <2>2. TypeOK'
    BY <2>1, <1>1 DEF TypeOK
  <2>3. MainInv'
    BY <2>1 DEF MainInv
  <2>4. WorkerInv'
    BY <2>1, <1>5 DEF WorkerInv
  <2>5. ChannelInv'
    BY <2>1, <1>3, <1>4 DEF ChannelInv
  <2>6. BufferInv' /\ OutputInv'
    BY <2>1 DEF BufferInv, OutputInv
  <2> QED
    BY <2>2, <2>3, <2>4, <2>5, <2>6
<1>7. CASE ReceiveInOrder
  <2>1. /\ h = nextExpected
        /\ written' = Append(written, h)
        /\ nextExpected' = nextExpected + 1
        /\ pc' = "flush"
        /\ UNCHANGED <<nextDispatch, worker, window>>
    BY <1>7 DEF ReceiveInOrder, IsNext, h
  <2>2. TypeOK'
    BY <2>1, <1>1, <1>2 DEF TypeOK
  <2>3. MainInv'
    BY <2>1, <1>2 DEF MainInv, TypeOK
  <2>4. WorkerInv'
    BY <2>1, <1>5 DEF WorkerInv, TypeOK
  <2>5. ChannelInv'
    BY <2>1, <1>2, <1>3, <1>4 DEF ChannelInv, TypeOK
  <2>6. BufferInv'
    BY <2>1, <1>2 DEF BufferInv, TypeOK
  <2>7. OutputInv'
    BY <2>1, <1>2 DEF OutputInv, TypeOK
  <2> QED
    BY <2>2, <2>3, <2>4, <2>5, <2>6, <2>7
<1>8. CASE ReceiveOutOfOrder
  <2>1. /\ window' = window \cup {h}
        /\ UNCHANGED <<pc, nextDispatch, nextExpected, worker, written>>
    BY <1>8 DEF ReceiveOutOfOrder, h
  <2>2. TypeOK'
    BY <2>1, <1>1, <1>2 DEF TypeOK
  <2>3. MainInv'
    BY <2>1, pc = "recv" DEF MainInv
  <2>4. WorkerInv'
    BY <2>1, <1>5 DEF WorkerInv
  <2>5. ChannelInv'
    BY <2>1, <1>2, <1>3, <1>4 DEF ChannelInv
  <2>6. BufferInv' /\ OutputInv'
    BY <2>1, <1>2 DEF BufferInv, OutputInv
  <2> QED
    BY <2>2, <2>3, <2>4, <2>5, <2>6
<1> QED
  BY <1>6, <1>7, <1>8

\* Steps that write from the window, and the final root check.
LEMMA FlushStep ==
  ASSUME IInv,
         \/ FlushOne
         \/ FlushDone
         \/ VerifyRoot
         \/ WriteFails /\ pc = "flush" /\ UNCHANGED results
  PROVE  IInv'
<1> USE DEF IInv, Chunk
<1>1. CASE FlushOne
  <2>1. nextExpected \in Chunk /\ nextExpected < nextDispatch
    BY <1>1 DEF FlushOne, TypeOK, BufferInv
  <2>2. TypeOK'
    BY <1>1, <2>1 DEF FlushOne, TypeOK
  <2>3. MainInv' /\ BufferInv'
    BY <1>1, <2>1 DEF FlushOne, TypeOK, MainInv, BufferInv
  <2>4. WorkerInv'
    <3>1. \A i \in Chunk : worker[i] \in InFlight => nextExpected + 1 <= i
      BY <1>1 DEF FlushOne, WorkerInv, TypeOK
    <3> QED
      BY <3>1, <1>1 DEF FlushOne, WorkerInv
  <2>5. ChannelInv'
    <3>1. \A k \in 1 .. Len(results) : results[k].index \in Chunk
      BY ResultIndex DEF TypeOK
    <3>2. \A k \in 1 .. Len(results) : nextExpected + 1 <= results[k].index
      BY <3>1, <1>1 DEF FlushOne, TypeOK, ChannelInv
    <3> QED
      BY <3>2, <1>1 DEF FlushOne, ChannelInv
  <2>6. OutputInv'
    BY <1>1, <2>1 DEF FlushOne, TypeOK, OutputInv
  <2> QED
    BY <2>2, <2>3, <2>4, <2>5, <2>6
<1>2. CASE FlushDone \/ VerifyRoot \/ (WriteFails /\ pc = "flush" /\ UNCHANGED results)
  <2>1. /\ pc' \in {"dispatch", "done", "error"}
        /\ pc' = "done" => pc = "merkle"
        /\ UNCHANGED <<nextDispatch, nextExpected, worker, results, window, written>>
    BY <1>2 DEF FlushDone, VerifyRoot, WriteFails
  <2> QED
    BY <2>1 DEF TypeOK, MainInv, WorkerInv, ChannelInv, BufferInv, OutputInv
<1> QED
  BY <1>1, <1>2

LEMMA NextIInv == IInv /\ [Next]_vars => IInv'
<1> SUFFICES ASSUME IInv, [Next]_vars PROVE IInv'
  OBVIOUS
<1>1. CASE UNCHANGED vars
  BY <1>1 DEF vars, IInv, TypeOK, MainInv, WorkerInv, ChannelInv, BufferInv,
              OutputInv, InFlight
<1>2. CASE DispatchNext \/ AcquireAndSpawn \/ DispatchDone
  BY <1>2, DispatchStep
<1>3. CASE ReceiveError \/ ReceiveInOrder \/ ReceiveOutOfOrder
  BY <1>3, ReceiveStep DEF ReceiveError, ReceiveInOrder, ReceiveOutOfOrder
<1>4. CASE WriteFails
  <2>1. \/ pc = "recv" /\ results # <<>> /\ results' = Tail(results)
        \/ pc = "flush" /\ UNCHANGED results
    BY <1>4 DEF WriteFails
  <2> QED
    BY <2>1, <1>4, ReceiveStep, FlushStep
<1>5. CASE FlushOne \/ FlushDone \/ VerifyRoot
  BY <1>5, FlushStep
<1>6. CASE \E i \in Chunk : Fetcher(i)
  BY <1>6, FetcherStep
<1>7. CASE Terminated
  BY <1>7, <1>1 DEF Terminated
<1> QED
  BY <1>1, <1>2, <1>3, <1>4, <1>5, <1>6, <1>7 DEF Next, Main

\* Where each chunk of a download is, in every reachable state: the inductive
\* invariant of DownloadToStream.
THEOREM Invariance == Spec => []IInv
  BY InitIInv, NextIInv, PTL DEF Spec

\* Every variable of DownloadToStream keeps its type.
THEOREM TypeCorrect == Spec => []TypeOK
<1>1. IInv => TypeOK
  BY DEF IInv
<1> QED
  BY <1>1, Invariance, PTL

-----------------------------------------------------------------------------

\* The chunks reach dst in index order, none missing, and success is reported
\* only when all of them did.
THEOREM OutputOrdered == Spec => []OrderedOutput
<1>1. IInv => OrderedOutput
  <2> SUFFICES ASSUME IInv PROVE OrderedOutput
    OBVIOUS
  <2>1. written = [k \in 1 .. nextExpected |-> k - 1]
    <3>1. /\ nextExpected \in Nat
          /\ written \in Seq(Chunk)
          /\ Len(written) = nextExpected
          /\ \A k \in 1 .. nextExpected : written[k] = k - 1
      BY DEF IInv, TypeOK, OutputInv
    <3>2. written \in [1 .. nextExpected -> Chunk]
      BY <3>1
    <3> QED
      BY <3>1, <3>2
  <2>2. pc = "done" => nextExpected = N
    BY DEF IInv, MainInv
  <2> QED
    BY <2>1, <2>2 DEF OrderedOutput
<1> QED
  BY <1>1, Invariance, PTL

LEMMA IInvWindow == IInv => WindowDiscipline
<1> SUFFICES ASSUME IInv PROVE WindowDiscipline
  OBVIOUS
<1> USE DEF IInv
<1>1. /\ nextDispatch \in Nat
      /\ nextExpected \in Nat
      /\ nextDispatch <= nextExpected + WindowSize
      /\ nextExpected <= nextDispatch
  BY DEF TypeOK, MainInv
<1>2. ASSUME NEW i \in Chunk, worker[i] = "fetched"
      PROVE  i \in nextExpected .. nextDispatch - 1
  BY <1>1, <1>2 DEF WorkerInv, InFlight, TypeOK, Chunk
<1>3. ASSUME NEW k \in 1 .. Len(results)
      PROVE  results[k].index \in nextExpected .. nextDispatch - 1
  BY <1>1, <1>3, ResultIndex DEF ChannelInv, TypeOK, Chunk
<1>4. ASSUME NEW i \in window
      PROVE  i \in nextExpected .. nextDispatch - 1
  BY <1>1, <1>4 DEF BufferInv, TypeOK, Chunk
<1>5. Buffered \subseteq nextExpected .. nextDispatch - 1
  BY <1>2, <1>3, <1>4 DEF Buffered
<1> QED
  BY <1>1, <1>5 DEF WindowDiscipline

\* Nothing is dispatched, in flight or buffered outside the sliding window.
THEOREM WindowRespected == Spec => []WindowDiscipline
  BY IInvWindow, Invariance, PTL

LEMMA IInvMemory == IInv => MemoryBounded
<1> SUFFICES ASSUME IInv PROVE MemoryBounded
  OBVIOUS
<1>1. /\ nextDispatch \in Nat
      /\ nextExpected \in Nat
      /\ nextExpected <= nextDispatch
      /\ nextDispatch <= nextExpected + WindowSize
      /\ Buffered \subseteq nextExpected .. nextDispatch - 1
  BY IInvWindow DEF WindowDiscipline, IInv, TypeOK
<1> DEFINE I == nextExpected .. nextDispatch - 1
<1>2. IsFiniteSet(I) /\ Cardinality(I) <= WindowSize
  <2>1. /\ IsFiniteSet(I)
        /\ Cardinality(I) = IF nextExpected > nextDispatch - 1 THEN 0
                            ELSE nextDispatch - 1 - nextExpected + 1
    BY <1>1, FS_Interval
  <2> QED
    BY <2>1, <1>1
<1>3. Buffered \in SUBSET I
  BY <1>1
<1> HIDE DEF I
<1>4. IsFiniteSet(Buffered) /\ Cardinality(Buffered) <= Cardinality(I)
  BY <1>2, <1>3, FS_Subset
<1>5. Cardinality(Buffered) \in Nat /\ Cardinality(I) \in Nat
  BY <1>2, <1>4, FS_CardinalityType
<1> QED
  BY <1>2, <1>4, <1>5 DEF MemoryBounded

\* At most MaxParallel chunks are held in memory, whatever the arrival order.
THEOREM MemoryBound == Spec => []MemoryBounded
  BY IInvMemory, Invariance, PTL

LEMMA IInvSend == IInv => SendNeverBlocks
<1> SUFFICES ASSUME IInv, NEW i \in Chunk, worker[i] \in {"fetched", "failed"}
             PROVE  Len(results) < WindowSize
  BY DEF SendNeverBlocks
<1> USE DEF IInv
<1> DEFINE I == nextExpected .. nextDispatch - 1
           L == 1 .. Len(results)
           f == [k \in L |-> results[k].index]
<1>1. /\ nextDispatch \in Nat
      /\ nextExpected \in Nat
      /\ nextExpected <= nextDispatch
      /\ nextDispatch <= nextExpected + WindowSize
      /\ Len(results) \in Nat
  BY DEF TypeOK, MainInv
<1>2. i \in I
  BY <1>1 DEF WorkerInv, InFlight, TypeOK, Chunk
<1>3. /\ \A k \in L : results[k].index \in I \ {i}
      /\ \A k, l \in L : results[k].index = results[l].index => k = l
  BY <1>1, ResultIndex DEF ChannelInv, WorkerInv, InFlight, TypeOK, Chunk
<1>4. f \in Injection(L, I \ {i})
  BY <1>3 DEF Injection, IsInjective
<1>5. /\ IsFiniteSet(I)
      /\ Cardinality(I) <= WindowSize
      /\ Cardinality(I) \in Nat
  <2>1. /\ IsFiniteSet(I)
        /\ Cardinality(I) = IF nextExpected > nextDispatch - 1 THEN 0
                            ELSE nextDispatch - 1 - nextExpected + 1
    BY <1>1, FS_Interval
  <2> QED
    BY <2>1, <1>1
<1>6. Cardinality(L) = Len(results)
  <2>1. Cardinality(L) = IF 1 > Len(results) THEN 0 ELSE Len(results) - 1 + 1
    BY <1>1, FS_Interval
  <2> QED
    BY <2>1, <1>1
<1> HIDE DEF I, L, f
<1>7. IsFiniteSet(I \ {i}) /\ Cardinality(I \ {i}) = Cardinality(I) - 1
  BY <1>2, <1>5, FS_RemoveElement
<1>8. Cardinality(L) <= Cardinality(I \ {i})
  BY <1>4, <1>7, FS_Injection
<1> QED
  BY <1>1, <1>5, <1>6, <1>7, <1>8

\* No goroutine ever waits for room in the result channel, so none outlives
\* an early error return.
THEOREM SendsNeverBlock == Spec => []SendNeverBlocks
  BY IInvSend, Invariance, PTL

-----------------------------------------------------------------------------

LEMMA InitRefines == Init => Stream!Init
  BY DEF Init, Stream!Init, Returned

LEMMA StepRefines ==
  ASSUME IInv, [Next]_vars
  PROVE  [Stream!Next]_(Stream!vars)
<1> USE DEF IInv, Stream!vars
<1>0. /\ written \in Seq(Chunk)
      /\ Len(written) = nextExpected
      /\ pc \in {"merkle"} => nextExpected = N
      /\ nextExpected \in 0 .. N
  BY DEF TypeOK, OutputInv, MainInv
<1>1. CASE \/ UNCHANGED vars \/ Terminated
           \/ DispatchNext \/ AcquireAndSpawn \/ DispatchDone
           \/ ReceiveOutOfOrder \/ FlushDone
           \/ \E i \in Chunk : Fetcher(i)
  BY <1>1 DEF vars, Terminated, DispatchNext, AcquireAndSpawn, DispatchDone,
              ReceiveOutOfOrder, FlushDone, Fetcher, FetchOk, FetchFail,
              SendResult, ReleaseSlot, Returned
<1>2. CASE ReceiveInOrder
  <2>1. Head(results).index = nextExpected /\ nextExpected < N
    <3>1. 1 \in 1 .. Len(results) /\ Head(results) = results[1]
      BY <1>2, TakeHead DEF ReceiveInOrder, TypeOK
    <3>2. results[1].index \in Chunk
      BY <3>1, ResultIndex DEF TypeOK
    <3> QED
      BY <1>2, <3>1, <3>2 DEF ReceiveInOrder, IsNext, Chunk
  <2> QED
    BY <1>0, <1>2, <2>1 DEF ReceiveInOrder, Stream!Next, Stream!Emit, Returned
<1>3. CASE FlushOne
  <2>1. nextExpected < N
    BY <1>3 DEF FlushOne, TypeOK, Chunk
  <2> QED
    BY <1>0, <1>3, <2>1 DEF FlushOne, Stream!Next, Stream!Emit, Returned
<1>4. CASE ReceiveError \/ WriteFails
  BY <1>4 DEF ReceiveError, WriteFails, Stream!Next, Stream!Fail, Returned
<1>5. CASE VerifyRoot
  BY <1>0, <1>5 DEF VerifyRoot, Stream!Next, Stream!Fail, Stream!Close, Returned
<1> QED
  BY <1>1, <1>2, <1>3, <1>4, <1>5 DEF Next, Main

\* DownloadToStream implements the ordered stream its reader is promised.
THEOREM ImplementsOrderedStream == Spec => RefinesOrderedStream
<1>1. IInv /\ [Next]_vars => [Stream!Next]_(Stream!vars)
  BY StepRefines
<1> QED
  BY <1>1, InitRefines, Invariance, PTL
     DEF Spec, RefinesOrderedStream, Stream!Spec

=============================================================================
