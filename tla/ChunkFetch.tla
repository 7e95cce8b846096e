----------------------------- MODULE ChunkFetch -----------------------------
(***************************************************************************)
(* Fetching chunks: the workers of DownloadToFile, fetchAndVerifyChunk     *)
(* with its retries, the fetches they share through pendingFile, the       *)
(* buffers that handleLocalMessage takes from chunkBufPool and the workers *)
(* give back, and the background copies into the local store.              *)
(*                                                                         *)
(* The content of a chunk is its key; Bad is any other content, which a    *)
(* peer sends when the file it seeds has changed or its own copy is wrong. *)
(* Encrypted content is decrypted into memory of its own, so that the      *)
(* buffer it came in is released; plain content is used where it is.       *)
(***************************************************************************)
EXTENDS Naturals, Sequences, FiniteSets

CONSTANTS
  Worker,       \* goroutines of one or more downloads
  Peer,         \* nodes that can be asked
  Key,          \* storage keys of chunks
  Encrypted,    \* the keys of chunks that belong to encrypted files
  Buf,          \* buffers that can be referenced at a time
  Chan,         \* result channels that can be referenced at a time
  None, Bad,    \* no value, and content that belongs to no key
  MaxRetries,   \* Config.MaxRetries
  MaxFetches,   \* bound on the chunks all workers take on
  CasQueue      \* capacity of casWriteCh

ASSUME FetchAssumption ==
  /\ Encrypted \subseteq Key
  /\ None \notin Key \cup Buf \cup Chan \cup Peer
  /\ Bad \notin Key \cup {None}
  /\ MaxRetries \in Nat /\ MaxFetches \in Nat /\ CasQueue \in Nat

Content == Key \cup {Bad}

VARIABLES
  seedMode,     \* manifest.SeedMode: chunks are asked for on a stream of their own
  fetches,      \* chunks taken on so far
  pc, want, tried, peer, ch, hold, bytes,    \* of each worker
  written,      \* what a worker's WriteAt put into the file for its chunk
  active,       \* Selector: activeDownloads of each peer
  pending,      \* pendingFile
  chan,         \* content of each channel (capacity one)
  reqs,         \* MessageGetFile under way
  handlers,     \* handleLocalMessage goroutines that have delivered their buffer
  mem,          \* content of each buffer
  pool,         \* how many times a buffer is in chunkBufPool
  cas,          \* local store
  casWriteCh,
  shared        \* a buffer with encrypted content went to two workers

task == <<seedMode, fetches, want>>
table == <<pending, reqs>>
store == <<cas, casWriteCh>>
vars == <<task, pc, tried, peer, ch, hold, bytes, written, active, table, chan, handlers,
          mem, pool, store, shared>>

InFetch == {"fetch", "wait", "share"}
Handler == [key : Key, buf : Buf]

TypeOK ==
  /\ seedMode \in BOOLEAN /\ shared \in BOOLEAN
  /\ fetches \in 0 .. MaxFetches
  /\ pc \in [Worker -> InFetch \cup {"idle", "pick", "got", "write", "failed"}]
  /\ want \in [Worker -> Key \cup {None}]
  /\ tried \in [Worker -> SUBSET Peer]
  /\ peer \in [Worker -> Peer \cup {None}]
  /\ ch \in [Worker -> Chan \cup {None}]
  /\ hold \in [Worker -> Buf \cup {None}]
  /\ bytes \in [Worker -> Content \cup {None}]
  /\ written \in [Worker -> Content \cup {None}]
  /\ active \in [Peer -> Nat]
  /\ pending \in [Key -> Chan \cup {None}]
  /\ chan \in [Chan -> Buf \cup {None}]
  /\ reqs \subseteq Key \X Peer
  /\ handlers \subseteq Handler
  /\ mem \in [Buf -> Content \cup {None}] /\ pool \in [Buf -> Nat]
  /\ cas \in [Key -> Content \cup {None}]
  /\ casWriteCh \in Seq(Key \X Content) /\ Len(casWriteCh) <= CasQueue

Init ==
  /\ seedMode \in BOOLEAN /\ shared = FALSE
  /\ fetches = 0
  /\ pc = [w \in Worker |-> "idle"] /\ want = [w \in Worker |-> None]
  /\ tried = [w \in Worker |-> {}]
  /\ peer = [w \in Worker |-> None] /\ ch = [w \in Worker |-> None]
  /\ hold = [w \in Worker |-> None] /\ bytes = [w \in Worker |-> None]
  /\ written = [w \in Worker |-> None]
  /\ active = [p \in Peer |-> 0]
  /\ pending = [k \in Key |-> None] /\ chan = [c \in Chan |-> None]
  /\ reqs = {} /\ handlers = {}
  /\ mem = [b \in Buf |-> None] /\ pool = [b \in Buf |-> 0]
  /\ cas = [k \in Key |-> None] /\ casWriteCh = <<>>

-----------------------------------------------------------------------------
(* Memory.                                                                 *)

\* A channel somebody can still send to or receive from.
LiveChan(c) ==
  \/ \E k \in Key : pending[k] = c
  \/ \E w \in Worker : ch[w] = c

NewChan == LET new == {c \in Chan : ~LiveChan(c)} IN {c \in new : c = CHOOSE d \in new : TRUE}

Referenced(b) ==
  \/ \E w \in Worker : hold[w] = b
  \/ \E h \in handlers : h.buf = b
  \/ \E c \in Chan : LiveChan(c) /\ chan[c] = b

\* getChunkBuf: some buffer of the pool, or a new one.
CanGet ==
  LET new == {b \in Buf : pool[b] = 0 /\ ~Referenced(b)}
  IN {b \in Buf : pool[b] > 0} \cup {b \in new : b = CHOOSE x \in new : TRUE}

\* A buffer is taken and filled.  The content of lost ones does not matter.
GetChunkBuf(b, content) ==
  /\ pool' = [pool EXCEPT ![b] = IF @ > 0 THEN @ - 1 ELSE 0]
  /\ mem' = [x \in Buf |-> IF x = b THEN content ELSE IF Referenced(x) THEN mem[x] ELSE None]

\* Has, ReadStream, WriteStream: the content is replaced by a rename, whole.
Has(k) == cas[k] # None
WriteStream(k, content) == cas' = [cas EXCEPT ![k] = IF content = k THEN k ELSE Bad]

\* casWriteCh takes a copy of the bytes, unless it is full.
Enqueued(k, content) ==
  IF Len(casWriteCh) < CasQueue
    THEN Append(casWriteCh, <<k, IF content = k THEN k ELSE Bad>>)
    ELSE casWriteCh

CasWriteLoop ==
  /\ casWriteCh # <<>>
  /\ WriteStream(Head(casWriteCh)[1], Head(casWriteCh)[2])
  /\ casWriteCh' = Tail(casWriteCh)
  /\ UNCHANGED <<task, pc, tried, peer, ch, hold, bytes, written, active, table, chan,
                 handlers, mem, pool, shared>>

-----------------------------------------------------------------------------
(* A worker takes on a chunk and tries one peer after another.             *)

\* Selector: the counters that a peer's score is made of.
BeginDownload(p) == active' = [active EXCEPT ![p] = @ + 1]
EndDownload(p) == active' = [active EXCEPT ![p] = IF @ > 0 THEN @ - 1 ELSE 0]

\* BestPeer: any untried candidate, since latencies are whatever they are.
BestPeer(w) == Peer \ tried[w]

\* The dispatch loop starts a goroutine; the candidates that getPeers finds are
\* Peer, some of which may have nothing.
Begin(w) ==
  /\ pc[w] \in {"idle", "failed"}
  /\ fetches < MaxFetches
  /\ fetches' = fetches + 1
  /\ \E k \in Key : want' = [want EXCEPT ![w] = k]
  /\ written' = [written EXCEPT ![w] = None]
  /\ pc' = [pc EXCEPT ![w] = "pick"]
  /\ UNCHANGED <<seedMode, tried, peer, ch, hold, bytes, active, table, chan, handlers, mem, pool,
                 store, shared>>

PickPeer(w) ==
  /\ pc[w] = "pick"
  /\ Cardinality(tried[w]) <= MaxRetries
  /\ \E p \in BestPeer(w) :
       /\ peer' = [peer EXCEPT ![w] = p]
       /\ tried' = [tried EXCEPT ![w] = @ \cup {p}]
       /\ BeginDownload(p)
  /\ pc' = [pc EXCEPT ![w] = "fetch"]
  /\ UNCHANGED <<task, ch, hold, bytes, written, table, chan, handlers, mem, pool, store, shared>>

GiveUp(w) ==
  /\ pc[w] = "pick"
  /\ Cardinality(tried[w]) > MaxRetries \/ BestPeer(w) = {}
  /\ pc' = [pc EXCEPT ![w] = "failed"]
  /\ tried' = [tried EXCEPT ![w] = {}]
  /\ UNCHANGED <<task, peer, ch, hold, bytes, written, active, table, chan, handlers,
                 mem, pool, store, shared>>

\* The attempt is over: EndDownload and RecordLatency, then the next state.
AttemptEnds(w, next) ==
  /\ EndDownload(peer[w])
  /\ pc' = [pc EXCEPT ![w] = next]
  /\ peer' = [peer EXCEPT ![w] = None]
  /\ ch' = [ch EXCEPT ![w] = None]

\* The chunk is in the local store, whatever its content.
ReadLocal(w) ==
  /\ pc[w] = "fetch" /\ Has(want[w])
  /\ bytes' = [bytes EXCEPT ![w] = cas[want[w]]]
  /\ AttemptEnds(w, "got")
  /\ UNCHANGED <<task, tried, hold, written, table, chan, handlers, mem, pool, store, shared>>

\* handleGetChunkSwarmBidi at the peer: the stored chunk, or the chunk made again
\* from the file it seeds, which is sent although the hash differs.
ServesBidi(k) == {k, Bad}

\* fetchChunkSwarmBidi asks on a stream of its own; a copy of what comes goes to
\* the local store before anybody has checked it.
FetchBidi(w) ==
  /\ pc[w] = "fetch" /\ ~Has(want[w]) /\ seedMode
  /\ \E b \in CanGet, content \in ServesBidi(want[w]) :
       /\ GetChunkBuf(b, content)
       /\ hold' = [hold EXCEPT ![w] = b]
       /\ casWriteCh' = Enqueued(want[w], content)
  /\ AttemptEnds(w, "got")
  /\ UNCHANGED <<task, tried, bytes, written, table, chan, handlers, cas, shared>>

\* The peer is not connected, has nothing or does not answer in time.
BidiFails(w) ==
  /\ pc[w] = "fetch" /\ ~Has(want[w]) /\ seedMode
  /\ AttemptEnds(w, "pick")
  /\ UNCHANGED <<task, tried, hold, bytes, written, table, chan, handlers, mem, pool, store,
                 shared>>

-----------------------------------------------------------------------------
(* fetchChunkFromPeer and pendingFile.                                     *)

\* The first caller for a key opens a channel and asks its peer.
OpenFetch(w) ==
  /\ pc[w] = "fetch" /\ ~Has(want[w]) /\ ~seedMode
  /\ pending[want[w]] = None
  /\ \E c \in NewChan :
       /\ ch' = [ch EXCEPT ![w] = c]
       /\ pending' = [pending EXCEPT ![want[w]] = c]
       /\ chan' = [d \in Chan |-> IF LiveChan(d) THEN chan[d] ELSE None]
  /\ reqs' = reqs \cup {<<want[w], peer[w]>>}
  /\ pc' = [pc EXCEPT ![w] = "wait"]
  /\ UNCHANGED <<task, tried, peer, hold, bytes, written, active, handlers, mem, pool, store,
                 shared>>

\* Every caller opens a fetch of its own in place of the one it finds.
MutShareFetch(w) ==
  /\ pc[w] = "fetch" /\ ~Has(want[w]) /\ ~seedMode
  /\ pending[want[w]] # None
  /\ \E c \in NewChan :
       /\ ch' = [ch EXCEPT ![w] = c]
       /\ pending' = [pending EXCEPT ![want[w]] = c]
       /\ chan' = [d \in Chan |-> IF LiveChan(d) THEN chan[d] ELSE None]
  /\ reqs' = reqs \cup {<<want[w], peer[w]>>}
  /\ pc' = [pc EXCEPT ![w] = "wait"]
  /\ UNCHANGED <<task, tried, peer, hold, bytes, written, active, handlers, mem, pool, store,
                 shared>>

\* "If another goroutine is already fetching this key, share its channel."
ShareFetch(w) ==
  /\ pc[w] = "fetch" /\ ~Has(want[w]) /\ ~seedMode
  /\ pending[want[w]] # None
  /\ ch' = [ch EXCEPT ![w] = pending[want[w]]]
  /\ pc' = [pc EXCEPT ![w] = "share"]
  /\ UNCHANGED <<task, tried, peer, hold, bytes, written, active, table, chan, handlers, mem,
                 pool, store, shared>>

\* The owner's attempt ends without data: the peer is not connected, or the
\* context is over.
OwnerFails(w) ==
  /\ pc[w] = "wait"
  /\ pending' = [pending EXCEPT ![want[w]] = None]
  /\ AttemptEnds(w, "pick")
  /\ UNCHANGED <<task, tried, hold, bytes, written, reqs, chan, handlers, mem, pool, store,
                 shared>>

OwnerReceives(w) ==
  /\ pc[w] = "wait" /\ chan[ch[w]] # None
  /\ hold' = [hold EXCEPT ![w] = chan[ch[w]]]
  /\ chan' = [chan EXCEPT ![ch[w]] = None]
  /\ pending' = [pending EXCEPT ![want[w]] = None]
  /\ AttemptEnds(w, "got")
  /\ UNCHANGED <<task, tried, bytes, written, reqs, handlers, mem, pool, store, shared>>

\* "Put it back so any other waiter also gets it (best-effort)": both use the one
\* buffer.
SharerReceives(w) ==
  /\ pc[w] = "share" /\ chan[ch[w]] # None
  /\ hold' = [hold EXCEPT ![w] = chan[ch[w]]]
  /\ shared' = (shared \/ want[w] \in Encrypted)
  /\ AttemptEnds(w, "got")
  /\ UNCHANGED <<task, tried, bytes, written, table, chan, handlers, mem, pool, store>>

SharerFails(w) ==
  /\ pc[w] = "share"
  /\ AttemptEnds(w, "pick")
  /\ UNCHANGED <<task, tried, hold, bytes, written, table, chan, handlers, mem, pool, store,
                 shared>>

-----------------------------------------------------------------------------
(* handleGetMessage at the peer, and the goroutine of handleLocalMessage   *)
(* that its answer starts here.                                            *)

\* What the peer has stored under the key, which is not verified when it is read.
Serves(k) == {k, Bad}

\* An answer arrives, however late or never, is read into a buffer, and handed to
\* the channel for its key; it is dropped when nobody waits or the channel is full.
Answer(k, p) ==
  /\ <<k, p>> \in reqs
  /\ \E b \in CanGet, content \in Serves(k) :
       /\ GetChunkBuf(b, content)
       /\ handlers' = handlers \cup {[key |-> k, buf |-> b]}
       /\ chan' = [c \in Chan |-> IF c = pending[k] /\ chan[c] = None THEN b ELSE chan[c]]
  /\ reqs' = reqs \ {<<k, p>>}
  /\ UNCHANGED <<task, pc, tried, peer, ch, hold, bytes, written, active, pending, store,
                 shared>>

\* The copy for the local store is made from the buffer after its delivery.
CopyToCas(h) ==
  /\ casWriteCh' = Enqueued(h.key, mem[h.buf])
  /\ handlers' = handlers \ {h}
  /\ UNCHANGED <<task, pc, tried, peer, ch, hold, bytes, written, active, table, chan, mem,
                 pool, cas, shared>>

-----------------------------------------------------------------------------
(* Decrypt, release the buffer, check the hash, write.                     *)

Holds(w) == IF hold[w] # None THEN mem[hold[w]] ELSE bytes[w]

\* The hash of the plaintext against the manifest; on a mismatch, decryption
\* errors included, the peer is penalised and another one tried.
Checked(w) == IF Holds(w) = want[w] THEN "write" ELSE "pick"

\* Decryption and decompression make a copy; the buffer goes back by PutChunkBuf,
\* and the copy is checked.
CheckEncrypted(w) ==
  /\ pc[w] = "got" /\ want[w] \in Encrypted
  /\ pc' = [pc EXCEPT ![w] = Checked(w)]
  /\ bytes' = [bytes EXCEPT ![w] = IF Holds(w) = want[w] THEN Holds(w) ELSE None]
  /\ hold' = [hold EXCEPT ![w] = None]
  /\ pool' = [b \in Buf |-> pool[b] + IF b = hold[w] THEN 1 ELSE 0]
  /\ UNCHANGED <<task, tried, peer, ch, written, active, table, chan, handlers, mem,
                 store, shared>>

\* Plain content is given back too, although it is still to be written.
MutCheckPlain(w) ==
  /\ pc[w] = "got" /\ want[w] \notin Encrypted
  /\ pool' = [b \in Buf |-> pool[b] + IF b = hold[w] THEN 1 ELSE 0]
  /\ pc' = [pc EXCEPT ![w] = Checked(w)]
  /\ UNCHANGED <<task, tried, peer, ch, hold, bytes, written, active, table, chan, handlers, mem,
                 store, shared>>

CheckPlain(w) ==
  /\ pc[w] = "got" /\ want[w] \notin Encrypted
  /\ pc' = [pc EXCEPT ![w] = Checked(w)]
  /\ hold' = [hold EXCEPT ![w] = IF Holds(w) = want[w] THEN @ ELSE None]
  /\ bytes' = [bytes EXCEPT ![w] = IF Holds(w) = want[w] THEN @ ELSE None]
  /\ UNCHANGED <<task, tried, peer, ch, written, active, table, chan, handlers, mem, pool,
                 store, shared>>

WriteAt(w) ==
  /\ pc[w] = "write"
  /\ written' = [written EXCEPT ![w] = Holds(w)]
  /\ hold' = [hold EXCEPT ![w] = None] /\ bytes' = [bytes EXCEPT ![w] = None]
  /\ tried' = [tried EXCEPT ![w] = {}]
  /\ pc' = [pc EXCEPT ![w] = "idle"]
  /\ UNCHANGED <<task, peer, ch, active, table, chan, handlers, mem, pool, store, shared>>

-----------------------------------------------------------------------------
Fetch(w) ==
  \/ Begin(w) \/ PickPeer(w) \/ GiveUp(w) \/ ReadLocal(w)
  \/ FetchBidi(w) \/ BidiFails(w)
  \/ OpenFetch(w) \/ ShareFetch(w) \/ OwnerFails(w) \/ OwnerReceives(w)
  \/ SharerReceives(w) \/ SharerFails(w)
  \/ CheckEncrypted(w) \/ CheckPlain(w) \/ WriteAt(w)

Network ==
  \/ \E k \in Key, p \in Peer : Answer(k, p)
  \/ \E h \in handlers : CopyToCas(h)
  \/ CasWriteLoop

Next == (\E w \in Worker : Fetch(w)) \/ Network

Spec == Init /\ [][Next]_vars

-----------------------------------------------------------------------------
(* Properties.                                                             *)

\* "Both paths verify each chunk's SHA-256 hash ON-THE-FLY before writing":
\* what WriteAt writes is the chunk's content, whatever peers answer and
\* whatever becomes of the buffers meanwhile.
WrittenVerified == \A w \in Worker : written[w] \in {None, want[w]}

\* The same, as long as no two workers got one buffer of an encrypted chunk,
\* which both then put into the pool.
WrittenVerifiedUnshared == ~shared => WrittenVerified

\* An owner that waits finds its own channel in pendingFile, where answers look
\* for it, and no entry outlives the fetch it belongs to.
OwnerReachable ==
  /\ \A w \in Worker : pc[w] = "wait" => pending[want[w]] = ch[w]
  /\ \A k \in Key : pending[k] # None => \E w \in Worker : pc[w] = "wait" /\ want[w] = k

=============================================================================
