--------------------------- MODULE StreamDownload ---------------------------
(***************************************************************************)
(* Manager.DownloadToStream (Server/downloader/downloader.go): chunks are  *)
(* fetched by parallel goroutines and written to a sequential writer in    *)
(* index order, under a sliding window.                                    *)
(*                                                                         *)
(* One process is the caller's goroutine ("main"): it dispatches chunks    *)
(* while the window is open, receives results from a buffered channel,     *)
(* writes the next expected chunk, buffers the others.  The other          *)
(* processes are the fetch goroutines, one per dispatched chunk.  They     *)
(* share the semaphore `sem' and the channel `results', both of capacity   *)
(* windowSize = cfg.MaxParallel.                                           *)
(*                                                                         *)
(* fetchAndVerifyChunk is one step here: it returns verified bytes or an   *)
(* error (module ChunkFetch looks inside it).                              *)
(***************************************************************************)
EXTENDS Naturals, Sequences, FiniteSets

CONSTANTS N,            \* len(manifest.Chunks)
          WindowSize,   \* m.cfg.MaxParallel
          RootMatches   \* whether the manifest agrees with its MerkleRoot

ASSUME NAssumption == N \in Nat
ASSUME WindowAssumption == WindowSize \in Nat \ {0}
ASSUME RootAssumption == RootMatches \in BOOLEAN

VARIABLES pc,           \* where main is
          nextDispatch, \* first index not yet dispatched
          nextExpected, \* first index not yet written
          worker,       \* state of each chunk's goroutine
          results,      \* the channel of chunkResult, oldest first
          window,       \* indices buffered out of order
          written       \* indices handed to dst.Write, in order

vars == <<pc, nextDispatch, nextExpected, worker, results, window, written>>

Chunk == 0 .. N - 1

Result == [index : Chunk, ok : BOOLEAN]

\* Goroutines between `sem <- struct{}{}' and the deferred `<-sem'.
Holding == {i \in Chunk : worker[i] \in {"fetching", "fetched", "failed", "sent"}}

Returned == pc \in {"done", "error"}

TypeOK ==
  /\ pc \in {"dispatch", "acquire", "recv", "flush", "merkle", "done", "error"}
  /\ nextDispatch \in 0 .. N
  /\ nextExpected \in 0 .. N
  /\ worker \in [Chunk -> {"idle", "fetching", "fetched", "failed", "sent", "exited"}]
  /\ results \in Seq(Result)
  /\ window \subseteq Chunk
  /\ written \in Seq(Chunk)

Init ==
  /\ pc = IF N = 0 THEN "done" ELSE "dispatch"
  /\ nextDispatch = 0
  /\ nextExpected = 0
  /\ worker = [i \in Chunk |-> "idle"]
  /\ results = <<>>
  /\ window = {}
  /\ written = <<>>

-----------------------------------------------------------------------------
(* dispatchChunks, run by main.                                            *)

\* One slot too many in the sliding window.
MutWindowOpen == nextDispatch < N /\ nextDispatch <= nextExpected + WindowSize

\* The loop condition of dispatchChunks.
WindowOpen == nextDispatch < N /\ nextDispatch < nextExpected + WindowSize

\* idx := nextDispatch; nextDispatch++
DispatchNext ==
  /\ pc = "dispatch"
  /\ WindowOpen
  /\ nextDispatch' = nextDispatch + 1
  /\ pc' = "acquire"
  /\ UNCHANGED <<nextExpected, worker, results, window, written>>

\* sem <- struct{}{} (main blocks while all slots are taken), then go func.
AcquireAndSpawn ==
  /\ pc = "acquire"
  /\ Cardinality(Holding) < WindowSize
  /\ worker' = [worker EXCEPT ![nextDispatch - 1] = "fetching"]
  /\ pc' = "dispatch"
  /\ UNCHANGED <<nextDispatch, nextExpected, results, window, written>>

\* dispatchChunks returns; the receive loop tests nextExpected < n.
DispatchDone ==
  /\ pc = "dispatch"
  /\ ~WindowOpen
  /\ pc' = IF nextExpected < N THEN "recv" ELSE "merkle"
  /\ UNCHANGED <<nextDispatch, nextExpected, worker, results, window, written>>

-----------------------------------------------------------------------------
(* The goroutine of chunk i.                                               *)

FetchOk(i) ==
  /\ worker[i] = "fetching"
  /\ worker' = [worker EXCEPT ![i] = "fetched"]
  /\ UNCHANGED <<pc, nextDispatch, nextExpected, results, window, written>>

FetchFail(i) ==
  /\ worker[i] = "fetching"
  /\ worker' = [worker EXCEPT ![i] = "failed"]
  /\ UNCHANGED <<pc, nextDispatch, nextExpected, results, window, written>>

\* results <- chunkResult{...}: blocks while the channel is full.
SendResult(i) ==
  /\ worker[i] \in {"fetched", "failed"}
  /\ Len(results) < WindowSize
  /\ results' = Append(results, [index |-> i, ok |-> worker[i] = "fetched"])
  /\ worker' = [worker EXCEPT ![i] = "sent"]
  /\ UNCHANGED <<pc, nextDispatch, nextExpected, window, written>>

\* A goroutine without the deferred <-sem: its slot stays taken for ever.
MutReleaseSlot(i) ==
  /\ worker[i] = "sent"
  /\ UNCHANGED vars

\* The deferred <-sem; the goroutine ends.
ReleaseSlot(i) ==
  /\ worker[i] = "sent"
  /\ worker' = [worker EXCEPT ![i] = "exited"]
  /\ UNCHANGED <<pc, nextDispatch, nextExpected, results, window, written>>

-----------------------------------------------------------------------------
(* The receive loop, run by main.                                          *)

\* A result carrying an error ends the download.
ReceiveError ==
  /\ pc = "recv"
  /\ results # <<>>
  /\ ~Head(results).ok
  /\ results' = Tail(results)
  /\ pc' = "error"
  /\ UNCHANGED <<nextDispatch, nextExpected, worker, window, written>>

\* Any chunk that arrives is treated as the next one.
MutIsNext(i) == i >= nextExpected

IsNext(i) == i = nextExpected

\* The chunk needed next is written directly.
ReceiveInOrder ==
  /\ pc = "recv"
  /\ results # <<>>
  /\ Head(results).ok
  /\ IsNext(Head(results).index)
  /\ results' = Tail(results)
  /\ written' = Append(written, Head(results).index)
  /\ nextExpected' = nextExpected + 1
  /\ pc' = "flush"
  /\ UNCHANGED <<nextDispatch, worker, window>>

ReceiveOutOfOrder ==
  /\ pc = "recv"
  /\ results # <<>>
  /\ Head(results).ok
  /\ ~IsNext(Head(results).index)
  /\ results' = Tail(results)
  /\ window' = window \cup {Head(results).index}
  /\ UNCHANGED <<pc, nextDispatch, nextExpected, worker, written>>

\* Write the consecutive chunk that was waiting in the window.
FlushOne ==
  /\ pc = "flush"
  /\ nextExpected \in window
  /\ written' = Append(written, nextExpected)
  /\ window' = window \ {nextExpected}
  /\ nextExpected' = nextExpected + 1
  /\ UNCHANGED <<pc, nextDispatch, worker, results>>

\* Nothing more to flush: the window advanced, dispatch again.
FlushDone ==
  /\ pc = "flush"
  /\ nextExpected \notin window
  /\ pc' = "dispatch"
  /\ UNCHANGED <<nextDispatch, nextExpected, worker, results, window, written>>

\* dst.Write fails, on the direct write or on a flush: the download ends.
\* The result was taken from the channel in the first case.
WriteFails ==
  /\ \/ /\ pc = "recv"
        /\ results # <<>>
        /\ Head(results).ok
        /\ IsNext(Head(results).index)
        /\ results' = Tail(results)
     \/ /\ pc = "flush"
        /\ nextExpected \in window
        /\ UNCHANGED results
  /\ pc' = "error"
  /\ UNCHANGED <<nextDispatch, nextExpected, worker, window, written>>

\* chunker.VerifyMerkleRoot on the manifest, after the last chunk.
VerifyRoot ==
  /\ pc = "merkle"
  /\ pc' = IF RootMatches THEN "done" ELSE "error"
  /\ UNCHANGED <<nextDispatch, nextExpected, worker, results, window, written>>

-----------------------------------------------------------------------------

\* The call has returned and no goroutine of it is left.
Terminated ==
  /\ Returned
  /\ \A i \in Chunk : worker[i] \in {"idle", "exited"}
  /\ UNCHANGED vars

Main ==
  \/ DispatchNext \/ AcquireAndSpawn \/ DispatchDone
  \/ ReceiveError \/ ReceiveInOrder \/ ReceiveOutOfOrder
  \/ FlushOne \/ FlushDone \/ WriteFails \/ VerifyRoot

Fetcher(i) == FetchOk(i) \/ FetchFail(i) \/ SendResult(i) \/ ReleaseSlot(i)

Next == Main \/ (\E i \in Chunk : Fetcher(i)) \/ Terminated

\* Goroutines are scheduled, fetches end (ChunkTimeout bounds each attempt),
\* and the reader of the pipe keeps reading or closes it.
Fairness == WF_vars(Main) /\ \A i \in Chunk : WF_vars(Fetcher(i))

Spec == Init /\ [][Next]_vars

FairSpec == Spec /\ Fairness

-----------------------------------------------------------------------------
(* Properties.                                                             *)

\* Chunks whose plaintext some goroutine, the channel or the window holds.
Buffered ==
  {i \in Chunk : worker[i] = "fetched"}
    \cup {results[k].index : k \in 1 .. Len(results)}
    \cup window

\* The bytes handed to dst are chunks 0, 1, 2, ... with none skipped,
\* repeated or swapped, and the call succeeds only after the last of them,
\* whatever order fetches complete in.
OrderedOutput ==
  /\ written = [k \in 1 .. nextExpected |-> k - 1]
  /\ pc = "done" => nextExpected = N

\* "Memory: MaxParallel * ChunkSize": at no time are more than WindowSize
\* chunks fetched and not yet written, before or after an error return.
MemoryBounded == Cardinality(Buffered) <= WindowSize

\* A goroutine that has its result never waits for room in the channel, so
\* one that outlives an early error return still ends and frees its slot.
SendNeverBlocks ==
  \A i \in Chunk : worker[i] \in {"fetched", "failed"} => Len(results) < WindowSize

\* The sliding window of the code comment: nothing is dispatched, buffered or
\* in flight at or beyond nextExpected + WindowSize, and no chunk that was
\* already written is fetched or delivered again.
WindowDiscipline ==
  /\ nextDispatch <= nextExpected + WindowSize
  /\ nextExpected <= nextDispatch
  /\ Buffered \subseteq nextExpected .. nextDispatch - 1

\* The call returns, with success or with an error, and every goroutine that
\* it started ends, also after an early return.
Termination == <>[](Returned /\ \A i \in Chunk : worker[i] \in {"idle", "exited"})

\* The download implements an ordered stream.
Stream == INSTANCE OrderedStream WITH
            out <- written,
            status <- IF Returned THEN pc ELSE "open"

RefinesOrderedStream == Stream!Spec
=============================================================================
