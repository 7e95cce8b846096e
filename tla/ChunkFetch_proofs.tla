-------------------------- MODULE ChunkFetch_proofs --------------------------
(***************************************************************************)
(* Proofs about ChunkFetch, for any numbers of workers, peers, keys,       *)
(* buffers, channels and fetches.                                          *)
(*                                                                         *)
(* The buffer of a chunk stays what it was when its hash was checked       *)
(* because nobody else puts it into the pool.  Only the buffers of         *)
(* encrypted chunks go there; so the argument is about who can have such a *)
(* buffer: as long as no sharer took one out of a channel, the worker that *)
(* holds it is the only one, and no channel that can still be received     *)
(* from has it too.                                                        *)
(***************************************************************************)
EXTENDS ChunkFetch, SequenceTheorems, TLAPS

\* What a worker has, by where it is.
WorkerInv ==
  \A w \in Worker :
    /\ pc[w] \notin {"idle", "failed"} => want[w] \in Key
    /\ IF pc[w] \in {"wait", "share"} THEN ch[w] \in Chan ELSE ch[w] = None
    /\ hold[w] # None => pc[w] \in {"got", "write"}
    /\ pc[w] \in InFetch => peer[w] \in Peer

\* A key has one owner.
OneOwner ==
  \A v, w \in Worker : pc[v] = "wait" /\ pc[w] = "wait" /\ want[v] = want[w] => v = w

\* Channel c is for key k.
IsFor(c, k) == pending[k] = c \/ \E w \in Worker : ch[w] = c /\ want[w] = k

ChanInv == \A c \in Chan, k, l \in Key : IsFor(c, k) /\ IsFor(c, l) => k = l

\* A buffer in the pool is there once, and is in nobody's hands.
PoolInv ==
  /\ \A b \in Buf : pool[b] <= 1
  /\ \A w \in Worker : hold[w] # None => pool[hold[w]] = 0
  /\ \A c \in Chan : LiveChan(c) /\ chan[c] # None => pool[chan[c]] = 0

\* Only buffers of plain chunks are in two places.
HandsInv ==
  /\ \A v, w \in Worker : v # w /\ hold[v] = hold[w] /\ hold[v] # None => want[v] \notin Encrypted
  /\ \A w \in Worker, c \in Chan, k \in Key :
       hold[w] # None /\ chan[c] = hold[w] /\ IsFor(c, k) => want[w] \notin Encrypted /\ k \notin Encrypted
  /\ \A c, d \in Chan : c # d /\ LiveChan(c) /\ LiveChan(d) /\ chan[c] = chan[d] => chan[c] = None

\* What was checked is what will be written.
CheckedInv == \A w \in Worker : pc[w] = "write" => Holds(w) = want[w]

Safe == PoolInv /\ HandsInv /\ CheckedInv /\ WrittenVerified

TypeInv == TypeOK /\ WorkerInv

Owners == OwnerReachable /\ OneOwner /\ ChanInv

IInv == TypeInv /\ Owners /\ (~shared => Safe)

USE FetchAssumption

-----------------------------------------------------------------------------
(* Memory.                                                                 *)

LEMMA NewChanFact ==
  ASSUME NEW c \in NewChan
  PROVE  c \in Chan /\ ~LiveChan(c)
  BY DEF NewChan

LEMMA CanGetFact ==
  ASSUME NEW b \in CanGet, pool \in [Buf -> Nat]
  PROVE  b \in Buf /\ (pool[b] > 0 \/ (pool[b] = 0 /\ ~Referenced(b)))
  BY DEF CanGet

LEMMA GetChunkBufFact ==
  ASSUME TypeOK, NEW b \in CanGet, NEW content \in Content, GetChunkBuf(b, content)
  PROVE  /\ b \in Buf
         /\ pool' \in [Buf -> Nat] /\ mem' \in [Buf -> Content \cup {None}]
         /\ pool'[b] = (IF pool[b] > 0 THEN pool[b] - 1 ELSE 0)
         /\ \A x \in Buf \ {b} : pool'[x] = pool[x] /\ (Referenced(x) => mem'[x] = mem[x])
         /\ mem'[b] = content
<1>1. pool \in [Buf -> Nat] /\ mem \in [Buf -> Content \cup {None}]
  BY DEF TypeOK
<1>2. b \in Buf
  BY <1>1, CanGetFact
<1>3. pool' = [pool EXCEPT ![b] = IF @ > 0 THEN @ - 1 ELSE 0]
  BY DEF GetChunkBuf
<1>4. mem' = [x \in Buf |-> IF x = b THEN content ELSE IF Referenced(x) THEN mem[x] ELSE None]
  BY DEF GetChunkBuf
<1>5. pool' \in [Buf -> Nat]
  <2>1. (IF pool[b] > 0 THEN pool[b] - 1 ELSE 0) \in Nat
    BY <1>1, <1>2
  <2> QED
    BY <1>1, <1>3, <2>1
<1> QED
  BY <1>1, <1>2, <1>3, <1>4, <1>5

LEMMA EnqueuedType ==
  ASSUME TypeOK, NEW k \in Key, NEW content
  PROVE  Enqueued(k, content) \in Seq(Key \X Content) /\ Len(Enqueued(k, content)) <= CasQueue
<1>1. casWriteCh \in Seq(Key \X Content) /\ Len(casWriteCh) <= CasQueue /\ Len(casWriteCh) \in Nat
  BY LenProperties DEF TypeOK
<1>2. <<k, IF content = k THEN k ELSE Bad>> \in Key \X Content
  BY DEF Content
<1> QED
  BY <1>1, <1>2, AppendProperties DEF Enqueued

-----------------------------------------------------------------------------
(* Types.                                                                  *)

LEMMA InitType == Init => TypeInv
<1> SUFFICES ASSUME Init
             PROVE  TypeInv
  OBVIOUS
<1>1. casWriteCh \in Seq(Key \X Content) /\ Len(casWriteCh) <= CasQueue
  BY EmptySeq DEF Init
<1>2. seedMode \in BOOLEAN /\ shared \in BOOLEAN
  BY DEF Init
<1>3. TypeOK
  BY <1>1, <1>2 DEF Init, TypeOK, Content
<1>4. WorkerInv
  BY DEF Init, WorkerInv, InFetch
<1> QED
  BY <1>3, <1>4 DEF TypeInv

\* Steps before and after the network is asked.
LEMMA LocalType ==
  ASSUME TypeInv, NEW w \in Worker,
         Begin(w) \/ PickPeer(w) \/ GiveUp(w) \/ CheckEncrypted(w) \/ CheckPlain(w) \/ WriteAt(w)
  PROVE  TypeInv'
<1> USE DEF TypeInv
<1>1. CASE Begin(w)
  <2>1. TypeOK'
    BY <1>1 DEF Begin, table, store, TypeOK
  <2>2. WorkerInv'
    BY <1>1 DEF Begin, TypeOK, WorkerInv, InFetch
  <2> QED
    BY <2>1, <2>2
<1>2. CASE PickPeer(w)
  <2>1. PICK p \in BestPeer(w) :
          /\ peer' = [peer EXCEPT ![w] = p] /\ tried' = [tried EXCEPT ![w] = @ \cup {p}]
          /\ active' = [active EXCEPT ![p] = @ + 1]
    BY <1>2 DEF PickPeer, BeginDownload
  <2>2. p \in Peer
    BY <2>1 DEF BestPeer
  <2>3. peer' \in [Worker -> Peer \cup {None}] /\ tried' \in [Worker -> SUBSET Peer] /\ active' \in [Peer -> Nat]
    BY <2>1, <2>2 DEF TypeOK
  <2>4. TypeOK'
    BY <1>2, <2>3 DEF PickPeer, task, table, store, TypeOK, InFetch
  <2>5. WorkerInv'
    BY <1>2, <2>1, <2>2 DEF PickPeer, task, TypeOK, WorkerInv, InFetch
  <2> QED
    BY <2>4, <2>5
<1>3. CASE GiveUp(w)
  <2>1. TypeOK'
    BY <1>3 DEF GiveUp, task, table, store, TypeOK
  <2>2. WorkerInv'
    BY <1>3 DEF GiveUp, task, TypeOK, WorkerInv, InFetch
  <2> QED
    BY <2>1, <2>2
<1>4. Holds(w) = want[w] \/ Holds(w) # want[w]
  OBVIOUS
<1>5. CASE CheckEncrypted(w)
  <2>1. want[w] \in Key
    BY <1>5 DEF CheckEncrypted
  <2>2. pool' \in [Buf -> Nat]
    BY <1>5 DEF CheckEncrypted, TypeOK
  <2>3. bytes' \in [Worker -> Content \cup {None}]
    BY <1>5, <2>1 DEF CheckEncrypted, TypeOK, Content
  <2>4. pc' = [pc EXCEPT ![w] = Checked(w)] /\ Checked(w) \in {"write", "pick"}
    BY <1>5 DEF CheckEncrypted, Checked
  <2>5. TypeOK'
    BY <1>5, <2>2, <2>3, <2>4 DEF CheckEncrypted, task, table, store, TypeOK
  <2>6. WorkerInv'
    BY <1>5, <2>4 DEF CheckEncrypted, task, TypeOK, WorkerInv, InFetch
  <2> QED
    BY <2>5, <2>6
<1>6. CASE CheckPlain(w)
  <2>1. /\ pc' = [pc EXCEPT ![w] = Checked(w)] /\ Checked(w) \in {"write", "pick"}
        /\ Checked(w) = "pick" => hold'[w] = None
    BY <1>6 DEF CheckPlain, Checked, TypeOK
  <2>2. TypeOK'
    BY <1>6, <2>1 DEF CheckPlain, task, table, store, TypeOK
  <2>3. WorkerInv'
    BY <1>6, <2>1 DEF CheckPlain, task, TypeOK, WorkerInv, InFetch
  <2> QED
    BY <2>2, <2>3
<1>7. CASE WriteAt(w)
  <2>1. Holds(w) \in Content \cup {None}
    BY DEF Holds, TypeOK
  <2>2. TypeOK'
    BY <1>7, <2>1 DEF WriteAt, task, table, store, TypeOK
  <2>3. WorkerInv'
    BY <1>7 DEF WriteAt, task, TypeOK, WorkerInv, InFetch
  <2> QED
    BY <2>2, <2>3
<1> QED
  BY <1>1, <1>2, <1>3, <1>5, <1>6, <1>7

\* An attempt that is over.
LEMMA AttemptEndsType ==
  ASSUME TypeInv, NEW w \in Worker, NEW next \in {"got", "pick"}, AttemptEnds(w, next), pc[w] \in InFetch,
         hold' \in [Worker -> Buf \cup {None}],
         \A v \in Worker \ {w} : hold'[v] = hold[v],
         hold'[w] = hold[w] \/ next = "got",
         UNCHANGED want
  PROVE  /\ active' \in [Peer -> Nat] /\ peer' \in [Worker -> Peer \cup {None}]
         /\ pc' \in [Worker -> InFetch \cup {"idle", "pick", "got", "write", "failed"}]
         /\ ch' \in [Worker -> Chan \cup {None}]
         /\ WorkerInv'
<1>1. /\ active \in [Peer -> Nat] /\ peer \in [Worker -> Peer \cup {None}]
      /\ pc \in [Worker -> InFetch \cup {"idle", "pick", "got", "write", "failed"}]
      /\ ch \in [Worker -> Chan \cup {None}]
  BY DEF TypeInv, TypeOK
<1>2. /\ active' = [active EXCEPT ![peer[w]] = IF @ > 0 THEN @ - 1 ELSE 0]
      /\ pc' = [pc EXCEPT ![w] = next] /\ peer' = [peer EXCEPT ![w] = None]
      /\ ch' = [ch EXCEPT ![w] = None]
  BY DEF AttemptEnds, EndDownload
<1>3. active' \in [Peer -> Nat]
  <2>1. peer[w] \in Peer
    BY DEF TypeInv, WorkerInv
  <2>2. (IF active[peer[w]] > 0 THEN active[peer[w]] - 1 ELSE 0) \in Nat
    BY <1>1, <2>1
  <2> QED
    BY <1>1, <1>2, <2>2
<1>4. WorkerInv'
  BY <1>1, <1>2 DEF TypeInv, WorkerInv, InFetch
<1> QED
  BY <1>1, <1>2, <1>3, <1>4

LEMMA AttemptType ==
  ASSUME TypeInv, NEW w \in Worker,
         \/ ReadLocal(w) \/ FetchBidi(w) \/ BidiFails(w) \/ OwnerFails(w) \/ OwnerReceives(w)
         \/ SharerReceives(w) \/ SharerFails(w)
  PROVE  TypeInv'
<1> USE DEF TypeInv
<1> DEFINE Attempted ==
         /\ active' \in [Peer -> Nat] /\ peer' \in [Worker -> Peer \cup {None}]
         /\ pc' \in [Worker -> InFetch \cup {"idle", "pick", "got", "write", "failed"}]
         /\ ch' \in [Worker -> Chan \cup {None}]
         /\ WorkerInv'
<1>0. /\ hold \in [Worker -> Buf \cup {None}]
      /\ pc[w] \in InFetch => want[w] \in Key
      /\ pc[w] \in {"wait", "share"} => ch[w] \in Chan
  BY DEF TypeOK, WorkerInv, InFetch
<1>1. CASE ReadLocal(w)
  <2>1. Attempted
    BY <1>0, <1>1, AttemptEndsType DEF ReadLocal, task, InFetch
  <2>2. bytes' \in [Worker -> Content \cup {None}]
    BY <1>0, <1>1 DEF ReadLocal, TypeOK, InFetch
  <2> QED
    BY <1>1, <2>1, <2>2 DEF ReadLocal, task, table, store, TypeOK
<1>2. CASE FetchBidi(w)
  <2>1. PICK b \in CanGet, content \in ServesBidi(want[w]) :
          /\ GetChunkBuf(b, content) /\ hold' = [hold EXCEPT ![w] = b]
          /\ casWriteCh' = Enqueued(want[w], content)
    BY <1>2 DEF FetchBidi
  <2>2. want[w] \in Key /\ content \in Content
    BY <1>0, <1>2, <2>1 DEF FetchBidi, InFetch, ServesBidi, Content
  <2>3. b \in Buf /\ pool' \in [Buf -> Nat] /\ mem' \in [Buf -> Content \cup {None}]
    BY <2>1, <2>2, GetChunkBufFact
  <2>4. casWriteCh' \in Seq(Key \X Content) /\ Len(casWriteCh') <= CasQueue
    BY <2>1, <2>2, EnqueuedType
  <2>5. hold' \in [Worker -> Buf \cup {None}] /\ \A v \in Worker \ {w} : hold'[v] = hold[v]
    BY <1>0, <2>1, <2>3
  <2>6. Attempted
    BY <1>2, <2>5, AttemptEndsType DEF FetchBidi, task, InFetch
  <2> HIDE DEF Attempted
  <2>7. TypeOK'
    BY <1>2, <2>3, <2>4, <2>5, <2>6 DEF FetchBidi, task, table, TypeOK, Attempted
  <2> QED
    BY <2>6, <2>7 DEF Attempted
<1>3. CASE BidiFails(w)
  <2>1. Attempted
    BY <1>0, <1>3, AttemptEndsType DEF BidiFails, task, InFetch
  <2> QED
    BY <1>3, <2>1 DEF BidiFails, task, table, store, TypeOK
<1>4. CASE OwnerFails(w)
  <2>1. Attempted
    BY <1>0, <1>4, AttemptEndsType DEF OwnerFails, task, InFetch
  <2> QED
    BY <1>4, <2>1 DEF OwnerFails, task, store, TypeOK
<1>5. CASE OwnerReceives(w)
  <2>1. hold' = [hold EXCEPT ![w] = chan[ch[w]]] /\ chan[ch[w]] \in Buf \cup {None}
    BY <1>0, <1>5 DEF OwnerReceives, TypeOK
  <2>2. Attempted
    BY <1>0, <1>5, <2>1, AttemptEndsType DEF OwnerReceives, task, InFetch
  <2> QED
    BY <1>0, <1>5, <2>1, <2>2 DEF OwnerReceives, task, store, TypeOK
<1>6. CASE SharerReceives(w)
  <2>1. hold' = [hold EXCEPT ![w] = chan[ch[w]]] /\ chan[ch[w]] \in Buf \cup {None}
    BY <1>0, <1>6 DEF SharerReceives, TypeOK
  <2>2. Attempted
    BY <1>0, <1>6, <2>1, AttemptEndsType DEF SharerReceives, task, InFetch
  <2>3. shared' \in BOOLEAN
    BY <1>6 DEF SharerReceives, TypeOK
  <2> QED
    BY <1>0, <1>6, <2>1, <2>2, <2>3 DEF SharerReceives, task, table, store, TypeOK
<1>7. CASE SharerFails(w)
  <2>1. Attempted
    BY <1>0, <1>7, AttemptEndsType DEF SharerFails, task, InFetch
  <2> QED
    BY <1>7, <2>1 DEF SharerFails, task, table, store, TypeOK
<1> QED
  BY <1>1, <1>2, <1>3, <1>4, <1>5, <1>6, <1>7

LEMMA OpenType ==
  ASSUME TypeInv, NEW w \in Worker, OpenFetch(w) \/ ShareFetch(w)
  PROVE  TypeInv'
<1> USE DEF TypeInv
<1>0. pc[w] = "fetch" /\ want[w] \in Key
  BY DEF OpenFetch, ShareFetch, WorkerInv, InFetch
<1>1. CASE OpenFetch(w)
  <2>1. PICK c \in NewChan :
       /\ ch' = [ch EXCEPT ![w] = c]
       /\ pending' = [pending EXCEPT ![want[w]] = c]
       /\ chan' = [d \in Chan |-> IF LiveChan(d) THEN chan[d] ELSE None]
    BY <1>1 DEF OpenFetch
  <2>2. c \in Chan
    BY NewChanFact
  <2>3. chan' \in [Chan -> Buf \cup {None}] /\ ch' \in [Worker -> Chan \cup {None}]
        /\ pending' \in [Key -> Chan \cup {None}]
    BY <2>1, <2>2 DEF TypeOK
  <2>4. reqs' \subseteq Key \X Peer
    BY <1>0, <1>1 DEF OpenFetch, TypeOK, WorkerInv, InFetch
  <2>5. TypeOK'
    BY <1>1, <2>3, <2>4 DEF OpenFetch, task, store, TypeOK, InFetch
  <2>6. WorkerInv'
    BY <1>0, <1>1, <2>1, <2>2 DEF OpenFetch, task, TypeOK, WorkerInv, InFetch
  <2> QED
    BY <2>5, <2>6
<1>2. CASE ShareFetch(w)
  <2>1. pending[want[w]] \in Chan
    BY <1>0, <1>2 DEF ShareFetch, TypeOK
  <2>2. TypeOK'
    BY <1>2, <2>1 DEF ShareFetch, task, table, store, TypeOK, InFetch
  <2>3. WorkerInv'
    BY <1>0, <1>2, <2>1 DEF ShareFetch, task, TypeOK, WorkerInv, InFetch
  <2> QED
    BY <2>2, <2>3
<1> QED
  BY <1>1, <1>2

LEMMA NetworkType ==
  ASSUME TypeInv, Network
  PROVE  TypeInv'
<1> USE DEF TypeInv
<1>1. ASSUME NEW k \in Key, NEW p \in Peer, Answer(k, p)
      PROVE  TypeInv'
  <2>1. PICK b \in CanGet, content \in Serves(k) :
          /\ GetChunkBuf(b, content)
          /\ handlers' = handlers \cup {[key |-> k, buf |-> b]}
          /\ chan' = [c \in Chan |-> IF c = pending[k] /\ chan[c] = None THEN b ELSE chan[c]]
    BY <1>1 DEF Answer
  <2>2. content \in Content
    BY DEF Serves, Content
  <2>3. b \in Buf /\ pool' \in [Buf -> Nat] /\ mem' \in [Buf -> Content \cup {None}]
    BY <2>1, <2>2, GetChunkBufFact
  <2>4. handlers' \subseteq Handler /\ chan' \in [Chan -> Buf \cup {None}]
    BY <2>1, <2>3 DEF TypeOK, Handler
  <2>5. TypeOK'
    BY <1>1, <2>3, <2>4 DEF Answer, task, store, TypeOK
  <2>6. WorkerInv'
    BY <1>1 DEF Answer, task, WorkerInv, InFetch
  <2> QED
    BY <2>5, <2>6
<1>2. ASSUME NEW h \in handlers, CopyToCas(h)
      PROVE  TypeInv'
  <2>1. h.key \in Key
    BY DEF TypeOK, Handler
  <2>2. casWriteCh' \in Seq(Key \X Content) /\ Len(casWriteCh') <= CasQueue
    BY <1>2, <2>1, EnqueuedType DEF CopyToCas
  <2>3. TypeOK'
    BY <1>2, <2>2 DEF CopyToCas, task, table, TypeOK
  <2>4. WorkerInv'
    BY <1>2 DEF CopyToCas, task, WorkerInv, InFetch
  <2> QED
    BY <2>3, <2>4
<1>3. CASE CasWriteLoop
  <2>1. casWriteCh \in Seq(Key \X Content) /\ casWriteCh # <<>> /\ Len(casWriteCh) <= CasQueue
    BY <1>3 DEF CasWriteLoop, TypeOK
  <2>2. /\ Tail(casWriteCh) \in Seq(Key \X Content) /\ Len(Tail(casWriteCh)) = Len(casWriteCh) - 1
        /\ Len(casWriteCh) \in Nat /\ Head(casWriteCh) \in Key \X Content
    BY <2>1, HeadTailProperties, LenProperties
  <2>3. cas' \in [Key -> Content \cup {None}]
    BY <1>3, <2>2 DEF CasWriteLoop, WriteStream, TypeOK, Content
  <2>4. casWriteCh' \in Seq(Key \X Content) /\ Len(casWriteCh') <= CasQueue
    BY <1>3, <2>1, <2>2 DEF CasWriteLoop
  <2>5. TypeOK'
    BY <1>3, <2>3, <2>4 DEF CasWriteLoop, task, table, TypeOK
  <2>6. WorkerInv'
    BY <1>3 DEF CasWriteLoop, task, WorkerInv, InFetch
  <2> QED
    BY <2>5, <2>6
<1> QED
  BY <1>1, <1>2, <1>3 DEF Network

LEMMA NextType == TypeInv /\ [Next]_vars => TypeInv'
<1>1. ASSUME TypeInv, UNCHANGED vars
      PROVE  TypeInv'
  BY <1>1 DEF vars, task, table, store, TypeInv, TypeOK, WorkerInv, InFetch
<1> QED
  BY <1>1, LocalType, AttemptType, OpenType, NetworkType DEF Next, Fetch

-----------------------------------------------------------------------------
(* Owners and channels.                                                    *)

\* A channel is live when it is for some key.
LEMMA LiveIsFor ==
  ASSUME TypeInv, NEW c \in Chan
  PROVE  LiveChan(c) <=> \E k \in Key : IsFor(c, k)
<1>1. \A w \in Worker : ch[w] = c => want[w] \in Key
  BY DEF TypeInv, WorkerInv
<1> QED
  BY <1>1 DEF LiveChan, IsFor

LEMMA LiveShrinks ==
  ASSUME TypeInv, TypeInv', NEW c \in Chan, \A k \in Key : IsFor(c, k)' => IsFor(c, k)
  PROVE  LiveChan(c)' => LiveChan(c)
<1>1. \A w \in Worker : ch'[w] = c => want'[w] \in Key
  BY DEF TypeInv, WorkerInv
<1> QED
  BY <1>1 DEF LiveChan, IsFor

\* Steps that leave pendingFile and the owners alone.
LEMMA OwnersKept ==
  ASSUME TypeInv, TypeInv', Owners, UNCHANGED pending,
         \A v \in Worker : /\ pc'[v] = "wait" <=> pc[v] = "wait"
                           /\ (ch'[v] = ch[v] /\ want'[v] = want[v]) \/ ch'[v] = None
  PROVE  Owners' /\ \A c \in Chan, k \in Key : IsFor(c, k)' => IsFor(c, k)
<1>1. \A v \in Worker : pc'[v] = "wait" => ch'[v] = ch[v] /\ want'[v] = want[v] /\ want[v] \in Key
  BY DEF TypeInv, WorkerInv
<1>2. \A c \in Chan, k \in Key : IsFor(c, k)' => IsFor(c, k)
  BY DEF IsFor
<1>3. OwnerReachable'
  <2>1. ASSUME NEW v \in Worker, pc'[v] = "wait"
        PROVE  pending'[want'[v]] = ch'[v]
    BY <1>1, <2>1 DEF Owners, OwnerReachable
  <2>2. ASSUME NEW k \in Key, pending'[k] # None
        PROVE  \E v \in Worker : pc'[v] = "wait" /\ want'[v] = k
    BY <1>1, <2>2 DEF Owners, OwnerReachable
  <2> QED
    BY <2>1, <2>2 DEF OwnerReachable
<1>4. OneOwner'
  BY <1>1 DEF Owners, OneOwner
<1>5. ChanInv'
  BY <1>2 DEF Owners, ChanInv
<1> QED
  BY <1>2, <1>3, <1>4, <1>5 DEF Owners

\* The owner of a fetch ends it.
LEMMA OwnerEnds ==
  ASSUME TypeInv, TypeInv', Owners, NEW w \in Worker, pc[w] = "wait", UNCHANGED want,
         pending' = [pending EXCEPT ![want[w]] = None], pc'[w] # "wait", ch' = [ch EXCEPT ![w] = None],
         \A v \in Worker \ {w} : pc'[v] = pc[v]
  PROVE  Owners' /\ \A c \in Chan, k \in Key : IsFor(c, k)' => IsFor(c, k)
<1>1. /\ \A v \in Worker : pc[v] = "wait" => want[v] \in Key /\ ch[v] \in Chan
      /\ pending \in [Key -> Chan \cup {None}] /\ ch \in [Worker -> Chan \cup {None}]
  BY DEF TypeInv, WorkerInv, TypeOK
<1>2. \A c \in Chan, k \in Key : IsFor(c, k)' => IsFor(c, k)
  BY <1>1 DEF IsFor
<1>3. OwnerReachable'
  <2>1. ASSUME NEW v \in Worker, pc'[v] = "wait"
        PROVE  pending'[want'[v]] = ch'[v]
    <3>1. v # w /\ pc[v] = "wait" /\ want[v] # want[w]
      BY <2>1 DEF Owners, OneOwner
    <3> QED
      BY <1>1, <3>1 DEF Owners, OwnerReachable
  <2>2. ASSUME NEW k \in Key, pending'[k] # None
        PROVE  \E v \in Worker : pc'[v] = "wait" /\ want'[v] = k
    <3>1. k # want[w] /\ pending[k] # None
      BY <1>1, <2>2
    <3>2. PICK v \in Worker : pc[v] = "wait" /\ want[v] = k
      BY <3>1 DEF Owners, OwnerReachable
    <3> QED
      BY <3>1, <3>2
  <2> QED
    BY <2>1, <2>2 DEF OwnerReachable
<1>4. OneOwner'
  BY DEF Owners, OneOwner
<1>5. ChanInv'
  BY <1>2 DEF Owners, ChanInv
<1> QED
  BY <1>2, <1>3, <1>4, <1>5 DEF Owners

LEMMA OpenOwners ==
  ASSUME TypeInv, TypeInv', Owners, NEW w \in Worker, OpenFetch(w)
  PROVE  /\ Owners'
         /\ \A d \in Chan, k \in Key : IsFor(d, k)' /\ chan'[d] # None => IsFor(d, k)
         /\ \A d \in Chan : chan'[d] \in {chan[d], None}
<1>1. PICK c \in NewChan :
       /\ ch' = [ch EXCEPT ![w] = c]
       /\ pending' = [pending EXCEPT ![want[w]] = c]
       /\ chan' = [d \in Chan |-> IF LiveChan(d) THEN chan[d] ELSE None]
  BY DEF OpenFetch
<1>2. c \in Chan /\ ~LiveChan(c) /\ chan'[c] = None
  BY <1>1, NewChanFact
<1>3. /\ pc[w] = "fetch" /\ pending[want[w]] = None /\ pc' = [pc EXCEPT ![w] = "wait"] /\ UNCHANGED want
  BY DEF OpenFetch, task
<1>4. /\ \A v \in Worker : pc[v] = "wait" => want[v] \in Key /\ ch[v] \in Chan
      /\ pending \in [Key -> Chan \cup {None}] /\ ch \in [Worker -> Chan \cup {None}]
      /\ want[w] \in Key /\ ch[w] = None /\ DOMAIN pc = Worker
  BY <1>3 DEF TypeInv, WorkerInv, TypeOK
<1>5. \A v \in Worker : pc[v] = "wait" => want[v] # want[w]
  BY <1>3, <1>4 DEF Owners, OwnerReachable
<1>6. ASSUME NEW d \in Chan, NEW k \in Key, IsFor(d, k)'
      PROVE  IF d = c THEN k = want[w] ELSE IsFor(d, k)
  <2>1. CASE d = c
    <3>1. pending[k] # c /\ \A v \in Worker : ch[v] # c
      BY <1>2 DEF LiveChan
    <3> QED
      BY <1>1, <1>3, <1>4, <1>6, <2>1, <3>1 DEF IsFor
  <2>2. CASE d # c
    BY <1>1, <1>3, <1>4, <1>6, <2>2 DEF IsFor
  <2> QED
    BY <2>1, <2>2
<1>7. OwnerReachable'
  <2>1. ASSUME NEW v \in Worker, pc'[v] = "wait"
        PROVE  pending'[want'[v]] = ch'[v]
    <3>1. CASE v = w
      BY <1>1, <1>3, <1>4, <3>1
    <3>2. CASE v # w
      BY <1>1, <1>3, <1>4, <1>5, <2>1, <3>2 DEF Owners, OwnerReachable
    <3> QED
      BY <3>1, <3>2
  <2>2. ASSUME NEW k \in Key, pending'[k] # None
        PROVE  \E v \in Worker : pc'[v] = "wait" /\ want'[v] = k
    <3>1. CASE k = want[w]
      BY <1>3, <1>4, <3>1
    <3>2. CASE k # want[w]
      <4>1. PICK v \in Worker : pc[v] = "wait" /\ want[v] = k
        BY <1>1, <1>4, <2>2, <3>2 DEF Owners, OwnerReachable
      <4> QED
        BY <1>3, <1>4, <4>1
    <3> QED
      BY <3>1, <3>2
  <2> QED
    BY <2>1, <2>2 DEF OwnerReachable
<1>8. OneOwner'
  BY <1>3, <1>4, <1>5 DEF Owners, OneOwner
<1>9. ChanInv'
  BY <1>6 DEF Owners, ChanInv
<1> QED
  BY <1>1, <1>2, <1>6, <1>7, <1>8, <1>9 DEF Owners

LEMMA ShareOwners ==
  ASSUME TypeInv, TypeInv', Owners, NEW w \in Worker, ShareFetch(w)
  PROVE  Owners' /\ \A c \in Chan, k \in Key : IsFor(c, k)' => IsFor(c, k)
<1>1. /\ pc[w] = "fetch" /\ pc' = [pc EXCEPT ![w] = "share"] /\ UNCHANGED <<want, pending>>
      /\ ch' = [ch EXCEPT ![w] = pending[want[w]]]
  BY DEF ShareFetch, task, table
<1>2. /\ DOMAIN pc = Worker /\ DOMAIN ch = Worker
      /\ \A v \in Worker : pc[v] = "wait" => want[v] \in Key
  BY DEF TypeInv, TypeOK, WorkerInv
<1>3. \A c \in Chan, k \in Key : IsFor(c, k)' => IsFor(c, k)
  BY <1>1, <1>2 DEF IsFor
<1>4. \A v \in Worker : pc'[v] = "wait" <=> pc[v] = "wait"
  BY <1>1, <1>2
<1>5. \A v \in Worker : pc[v] = "wait" => ch'[v] = ch[v]
  BY <1>1, <1>2
<1>6. OwnerReachable'
  BY <1>1, <1>4, <1>5 DEF Owners, OwnerReachable
<1>7. OneOwner'
  BY <1>1, <1>4 DEF Owners, OneOwner
<1>8. ChanInv'
  BY <1>3 DEF Owners, ChanInv
<1> QED
  BY <1>3, <1>6, <1>7, <1>8 DEF Owners

-----------------------------------------------------------------------------
(* Buffers.                                                                *)

LEMMA HandTypes ==
  ASSUME TypeInv
  PROVE  /\ hold \in [Worker -> Buf \cup {None}] /\ chan \in [Chan -> Buf \cup {None}]
         /\ pool \in [Buf -> Nat] /\ mem \in [Buf -> Content \cup {None}]
         /\ pc \in [Worker -> InFetch \cup {"idle", "pick", "got", "write", "failed"}]
         /\ bytes \in [Worker -> Content \cup {None}] /\ written \in [Worker -> Content \cup {None}]
         /\ want \in [Worker -> Key \cup {None}]
  BY DEF TypeInv, TypeOK

\* Nobody gets a new buffer, and none is given back.
LEMMA HandsKept ==
  ASSUME IInv, TypeInv', ~shared, UNCHANGED pool,
         \A c \in Chan, k \in Key : IsFor(c, k)' /\ chan'[c] # None => IsFor(c, k),
         \A c \in Chan : chan'[c] \in {chan[c], None},
         \A v \in Worker : hold'[v] = None \/ (hold'[v] = hold[v] /\ want'[v] = want[v])
  PROVE  PoolInv' /\ HandsInv'
<1>1. PoolInv /\ HandsInv /\ TypeInv
  BY DEF IInv, Safe
<1>2. \A c \in Chan : LiveChan(c)' /\ chan'[c] # None => LiveChan(c)
  BY <1>1, LiveShrinks
<1>3. PoolInv'
  BY <1>1, <1>2 DEF PoolInv
<1>4. HandsInv'
  <2>1. ASSUME NEW v \in Worker, NEW w \in Worker, v # w, hold'[v] = hold'[w], hold'[v] # None
        PROVE  want'[v] \notin Encrypted
    BY <1>1, <2>1 DEF HandsInv
  <2>2. ASSUME NEW w \in Worker, NEW c \in Chan, NEW k \in Key,
               hold'[w] # None, chan'[c] = hold'[w], IsFor(c, k)'
        PROVE  want'[w] \notin Encrypted /\ k \notin Encrypted
    BY <1>1, <2>2 DEF HandsInv
  <2>3. ASSUME NEW c \in Chan, NEW d \in Chan, c # d, LiveChan(c)', LiveChan(d)', chan'[c] = chan'[d]
        PROVE  chan'[c] = None
    BY <1>1, <1>2, <2>3 DEF HandsInv
  <2> QED
    BY <2>1, <2>2, <2>3 DEF HandsInv
<1> QED
  BY <1>3, <1>4

\* Nothing that was checked or written changes.
LEMMA ContentKept ==
  ASSUME IInv, ~shared,
         \A v \in Worker : pc'[v] = "write" =>
           /\ pc[v] = "write" /\ hold'[v] = hold[v] /\ bytes'[v] = bytes[v] /\ want'[v] = want[v]
           /\ hold[v] # None => mem'[hold[v]] = mem[hold[v]],
         \A v \in Worker : written'[v] = None \/ (written'[v] = written[v] /\ want'[v] = want[v])
  PROVE  CheckedInv' /\ WrittenVerified'
<1>1. CheckedInv /\ WrittenVerified
  BY DEF IInv, Safe
<1>2. CheckedInv'
  <2>1. ASSUME NEW v \in Worker, pc'[v] = "write"
        PROVE  Holds(v)' = want'[v]
    BY <1>1, <2>1 DEF CheckedInv, Holds
  <2> QED
    BY <2>1 DEF CheckedInv
<1>3. WrittenVerified'
  BY <1>1 DEF WrittenVerified
<1> QED
  BY <1>2, <1>3

\* A buffer that can be taken is in nobody's hands, and then not in the pool.
LEMMA TakenIsFree ==
  ASSUME IInv, ~shared, NEW b \in CanGet, NEW content \in Content, GetChunkBuf(b, content)
  PROVE  /\ \A v \in Worker : hold[v] # b
         /\ \A c \in Chan : LiveChan(c) => chan[c] # b
         /\ \A x \in Buf : pool'[x] <= pool[x]
         /\ pool'[b] = 0
         /\ \A v \in Worker : hold[v] # None => mem'[hold[v]] = mem[hold[v]]
<1>1. TypeOK /\ PoolInv /\ TypeInv
  BY DEF IInv, TypeInv, Safe
<1>2. /\ b \in Buf /\ b # None
      /\ pool \in [Buf -> Nat] /\ pool' \in [Buf -> Nat]
      /\ pool'[b] = (IF pool[b] > 0 THEN pool[b] - 1 ELSE 0)
      /\ \A x \in Buf \ {b} : pool'[x] = pool[x] /\ (Referenced(x) => mem'[x] = mem[x])
  BY <1>1, GetChunkBufFact DEF TypeOK
<1>3. pool[b] > 0 \/ (pool[b] = 0 /\ ~Referenced(b))
  BY <1>2, CanGetFact
<1>4. \A v \in Worker : hold[v] # b
  BY <1>1, <1>2, <1>3 DEF PoolInv, Referenced
<1>5. \A c \in Chan : LiveChan(c) => chan[c] # b
  BY <1>1, <1>2, <1>3 DEF PoolInv, Referenced
<1>6. pool'[b] = 0 /\ \A x \in Buf : pool'[x] <= pool[x]
  BY <1>1, <1>2 DEF PoolInv
<1>7. \A v \in Worker : hold[v] # None => mem'[hold[v]] = mem[hold[v]]
  BY <1>1, <1>2, <1>4, HandTypes DEF Referenced
<1> QED
  BY <1>4, <1>5, <1>6, <1>7

LEMMA FetchBidiSafe ==
  ASSUME IInv, TypeInv', ~shared, NEW w \in Worker, FetchBidi(w),
         \A c \in Chan, k \in Key : IsFor(c, k)' => IsFor(c, k)
  PROVE  Safe'
<1>1. PICK b \in CanGet, content \in ServesBidi(want[w]) :
        GetChunkBuf(b, content) /\ hold' = [hold EXCEPT ![w] = b]
  BY DEF FetchBidi
<1>2. /\ pc[w] = "fetch" /\ pc' = [pc EXCEPT ![w] = "got"] /\ UNCHANGED <<want, bytes, written, chan>>
      /\ TypeInv /\ want[w] \in Key /\ content \in Content
  BY <1>1 DEF FetchBidi, AttemptEnds, task, IInv, TypeInv, WorkerInv, ServesBidi, Content
<1>3. /\ \A v \in Worker : hold[v] # b
      /\ \A c \in Chan : LiveChan(c) => chan[c] # b
      /\ \A x \in Buf : pool'[x] <= pool[x]
      /\ pool'[b] = 0
      /\ \A v \in Worker : hold[v] # None => mem'[hold[v]] = mem[hold[v]]
  BY <1>1, <1>2, TakenIsFree
<1>4. /\ hold \in [Worker -> Buf \cup {None}] /\ chan \in [Chan -> Buf \cup {None}]
      /\ pool \in [Buf -> Nat] /\ pool' \in [Buf -> Nat] /\ b \in Buf /\ DOMAIN pc = Worker
  BY <1>1, <1>2, HandTypes, CanGetFact DEF TypeInv, TypeOK
<1>5. \A c \in Chan : LiveChan(c)' => LiveChan(c)
  BY <1>2, LiveShrinks
<1>6. PoolInv /\ HandsInv
  BY DEF IInv, Safe
<1>7. PoolInv'
  BY <1>1, <1>2, <1>3, <1>4, <1>5, <1>6 DEF PoolInv
<1>8. HandsInv'
  <2>1. ASSUME NEW v \in Worker, NEW u \in Worker, v # u, hold'[v] = hold'[u], hold'[v] # None
        PROVE  want'[v] \notin Encrypted
    BY <1>1, <1>2, <1>3, <1>4, <1>6, <2>1 DEF HandsInv
  <2>2. ASSUME NEW v \in Worker, NEW c \in Chan, NEW k \in Key,
               hold'[v] # None, chan'[c] = hold'[v], IsFor(c, k)'
        PROVE  want'[v] \notin Encrypted /\ k \notin Encrypted
    <3>1. LiveChan(c)
      BY <1>2, <2>2, LiveIsFor
    <3> QED
      BY <1>1, <1>2, <1>3, <1>4, <1>6, <2>2, <3>1 DEF HandsInv
  <2>3. ASSUME NEW c \in Chan, NEW d \in Chan, c # d, LiveChan(c)', LiveChan(d)', chan'[c] = chan'[d]
        PROVE  chan'[c] = None
    BY <1>2, <1>5, <1>6, <2>3 DEF HandsInv
  <2> QED
    BY <2>1, <2>2, <2>3 DEF HandsInv
<1>9. CheckedInv' /\ WrittenVerified'
  BY <1>1, <1>2, <1>3, <1>4, ContentKept
<1> QED
  BY <1>7, <1>8, <1>9 DEF Safe

LEMMA AnswerSafe ==
  ASSUME IInv, TypeInv', ~shared, NEW k \in Key, NEW p \in Peer, Answer(k, p)
  PROVE  Safe'
<1>1. PICK b \in CanGet, content \in Serves(k) :
        /\ GetChunkBuf(b, content)
        /\ chan' = [c \in Chan |-> IF c = pending[k] /\ chan[c] = None THEN b ELSE chan[c]]
  BY DEF Answer
<1>2. UNCHANGED <<pc, want, ch, hold, bytes, written, pending>> /\ TypeInv /\ content \in Content
  BY <1>1 DEF Answer, task, IInv, Serves, Content
<1>3. /\ \A v \in Worker : hold[v] # b
      /\ \A c \in Chan : LiveChan(c) => chan[c] # b
      /\ \A x \in Buf : pool'[x] <= pool[x]
      /\ pool'[b] = 0
      /\ \A v \in Worker : hold[v] # None => mem'[hold[v]] = mem[hold[v]]
  BY <1>1, <1>2, TakenIsFree
<1>4. /\ hold \in [Worker -> Buf \cup {None}] /\ chan \in [Chan -> Buf \cup {None}]
      /\ pool \in [Buf -> Nat] /\ pool' \in [Buf -> Nat] /\ b \in Buf
  BY <1>1, <1>2, HandTypes, CanGetFact DEF TypeInv, TypeOK
<1>5. /\ \A c \in Chan : LiveChan(c)' <=> LiveChan(c)
      /\ \A c \in Chan, l \in Key : IsFor(c, l)' <=> IsFor(c, l)
  BY <1>2 DEF LiveChan, IsFor
<1>6. PoolInv /\ HandsInv
  BY DEF IInv, Safe
<1>7. PoolInv'
  BY <1>1, <1>2, <1>3, <1>4, <1>5, <1>6 DEF PoolInv
<1>8. HandsInv'
  <2>1. ASSUME NEW v \in Worker, NEW u \in Worker, v # u, hold'[v] = hold'[u], hold'[v] # None
        PROVE  want'[v] \notin Encrypted
    BY <1>2, <1>6, <2>1 DEF HandsInv
  <2>2. ASSUME NEW v \in Worker, NEW c \in Chan, NEW l \in Key,
               hold'[v] # None, chan'[c] = hold'[v], IsFor(c, l)'
        PROVE  want'[v] \notin Encrypted /\ l \notin Encrypted
    BY <1>1, <1>2, <1>3, <1>4, <1>5, <1>6, <2>2 DEF HandsInv
  <2>3. ASSUME NEW c \in Chan, NEW d \in Chan, c # d, LiveChan(c)', LiveChan(d)', chan'[c] = chan'[d]
        PROVE  chan'[c] = None
    BY <1>1, <1>3, <1>4, <1>5, <1>6, <2>3 DEF HandsInv
  <2> QED
    BY <2>1, <2>2, <2>3 DEF HandsInv
<1>9. CheckedInv' /\ WrittenVerified'
  BY <1>2, <1>3, ContentKept
<1> QED
  BY <1>7, <1>8, <1>9 DEF Safe

\* A buffer is taken out of a channel, or left there by a sharer of a plain chunk.
LEMMA ReceivesSafe ==
  ASSUME IInv, TypeInv', ~shared, ~shared', NEW w \in Worker, OwnerReceives(w) \/ SharerReceives(w),
         \A c \in Chan, k \in Key : IsFor(c, k)' => IsFor(c, k)
  PROVE  Safe'
<1> DEFINE c == ch[w]
           b == chan[c]
<1>1. /\ TypeInv /\ PoolInv /\ HandsInv /\ ChanInv
  BY DEF IInv, Safe, Owners
<1>2. /\ hold' = [hold EXCEPT ![w] = b] /\ b # None /\ pc[w] \in {"wait", "share"}
      /\ pc' = [pc EXCEPT ![w] = "got"] /\ UNCHANGED <<want, bytes, written, mem, pool>>
      /\ chan' = [chan EXCEPT ![c] = None] \/ (chan' = chan /\ want[w] \notin Encrypted)
  BY DEF OwnerReceives, SharerReceives, AttemptEnds, task
<1>3. c \in Chan /\ want[w] \in Key /\ hold[w] = None
  BY <1>1, <1>2 DEF TypeInv, WorkerInv
<1>4. /\ hold \in [Worker -> Buf \cup {None}] /\ chan \in [Chan -> Buf \cup {None}]
      /\ pool \in [Buf -> Nat] /\ b \in Buf /\ DOMAIN pc = Worker
  BY <1>1, <1>2, <1>3, HandTypes DEF TypeInv, TypeOK
<1>5. IsFor(c, want[w]) /\ LiveChan(c)
  BY <1>3 DEF IsFor, LiveChan
<1> HIDE DEF c, b
<1>6. \A d \in Chan : LiveChan(d)' => LiveChan(d)
  BY <1>1, LiveShrinks
<1>7. b = chan[c]
  BY DEF b
<1>8. \A d \in Chan : chan'[d] \in {chan[d], None} /\ (chan'[c] # None => want[w] \notin Encrypted)
  BY <1>2, <1>3, <1>4
<1>9. PoolInv'
  BY <1>1, <1>2, <1>3, <1>4, <1>5, <1>6, <1>7, <1>8 DEF PoolInv
<1>10. HandsInv'
  <2>1. ASSUME NEW v \in Worker, NEW u \in Worker, v # u, hold'[v] = hold'[u], hold'[v] # None
        PROVE  want'[v] \notin Encrypted
    <3>1. \A x \in Worker : hold[x] = b => want[x] \notin Encrypted /\ want[w] \notin Encrypted
      BY <1>1, <1>2, <1>3, <1>5, <1>7 DEF HandsInv
    <3> QED
      BY <1>1, <1>2, <1>4, <2>1, <3>1 DEF HandsInv
  <2>2. ASSUME NEW v \in Worker, NEW d \in Chan, NEW k \in Key,
               hold'[v] # None, chan'[d] = hold'[v], IsFor(d, k)'
        PROVE  want'[v] \notin Encrypted /\ k \notin Encrypted
    <3>1. IsFor(d, k) /\ LiveChan(d) /\ chan'[d] = chan[d] /\ chan[d] # None
      BY <1>1, <1>8, <2>2, LiveIsFor
    <3>2. CASE v = w
      <4>1. d = c
        BY <1>1, <1>2, <1>3, <1>4, <1>5, <1>7, <2>2, <3>1, <3>2 DEF HandsInv
      <4>2. k = want[w]
        BY <1>1, <1>3, <1>5, <3>1, <4>1 DEF ChanInv
      <4> QED
        BY <1>2, <1>8, <2>2, <3>1, <3>2, <4>1, <4>2
    <3>3. CASE v # w
      BY <1>1, <1>2, <1>4, <2>2, <3>1, <3>3 DEF HandsInv
    <3> QED
      BY <3>2, <3>3
  <2>3. ASSUME NEW d \in Chan, NEW e \in Chan, d # e, LiveChan(d)', LiveChan(e)', chan'[d] = chan'[e]
        PROVE  chan'[d] = None
    BY <1>1, <1>6, <1>8, <2>3 DEF HandsInv
  <2> QED
    BY <2>1, <2>2, <2>3 DEF HandsInv
<1>11. CheckedInv' /\ WrittenVerified'
  BY <1>2, <1>4, ContentKept
<1> QED
  BY <1>9, <1>10, <1>11 DEF Safe

\* The buffer of an encrypted chunk goes into the pool.
LEMMA CheckEncryptedSafe ==
  ASSUME IInv, TypeInv', ~shared, NEW w \in Worker, CheckEncrypted(w),
         \A c \in Chan, k \in Key : IsFor(c, k)' => IsFor(c, k)
  PROVE  Safe'
<1>1. /\ TypeInv /\ PoolInv /\ HandsInv /\ CheckedInv
  BY DEF IInv, Safe
<1>2. /\ pc[w] = "got" /\ want[w] \in Encrypted /\ pc' = [pc EXCEPT ![w] = Checked(w)]
      /\ bytes' = [bytes EXCEPT ![w] = IF Holds(w) = want[w] THEN Holds(w) ELSE None]
      /\ hold' = [hold EXCEPT ![w] = None]
      /\ pool' = [b \in Buf |-> pool[b] + IF b = hold[w] THEN 1 ELSE 0]
      /\ UNCHANGED <<want, written, chan, mem>>
  BY DEF CheckEncrypted, task
<1>3. /\ hold \in [Worker -> Buf \cup {None}] /\ chan \in [Chan -> Buf \cup {None}]
      /\ pool \in [Buf -> Nat] /\ pc \in [Worker -> InFetch \cup {"idle", "pick", "got", "write", "failed"}]
      /\ bytes \in [Worker -> Content \cup {None}]
  BY <1>1, HandTypes
<1>4. \A c \in Chan : LiveChan(c)' => LiveChan(c)
  BY <1>1, LiveShrinks
<1>5. /\ \A v \in Worker \ {w} : hold[v] # None => hold[v] # hold[w]
      /\ \A c \in Chan : LiveChan(c) /\ chan[c] # None => chan[c] # hold[w]
  <2>1. \A c \in Chan : LiveChan(c) => \E k \in Key : IsFor(c, k)
    BY <1>1, LiveIsFor
  <2> QED
    BY <1>1, <1>2, <2>1 DEF HandsInv
<1>6. PoolInv'
  <2>1. \A b \in Buf : pool'[b] = IF b = hold[w] THEN pool[b] + 1 ELSE pool[b]
    BY <1>2, <1>3
  <2>2. ASSUME NEW b \in Buf
        PROVE  pool'[b] <= 1
    BY <1>1, <1>3, <2>1 DEF PoolInv
  <2>3. ASSUME NEW v \in Worker, hold'[v] # None
        PROVE  pool'[hold'[v]] = 0
    BY <1>1, <1>2, <1>3, <1>5, <2>1, <2>3 DEF PoolInv
  <2>4. ASSUME NEW c \in Chan, LiveChan(c)', chan'[c] # None
        PROVE  pool'[chan'[c]] = 0
    BY <1>1, <1>2, <1>3, <1>4, <1>5, <2>1, <2>4 DEF PoolInv
  <2> QED
    BY <2>2, <2>3, <2>4 DEF PoolInv
<1>7. HandsInv'
  <2>1. ASSUME NEW v \in Worker, NEW u \in Worker, v # u, hold'[v] = hold'[u], hold'[v] # None
        PROVE  want'[v] \notin Encrypted
    BY <1>1, <1>2, <1>3, <2>1 DEF HandsInv
  <2>2. ASSUME NEW v \in Worker, NEW c \in Chan, NEW k \in Key,
               hold'[v] # None, chan'[c] = hold'[v], IsFor(c, k)'
        PROVE  want'[v] \notin Encrypted /\ k \notin Encrypted
    BY <1>1, <1>2, <1>3, <2>2 DEF HandsInv
  <2>3. ASSUME NEW c \in Chan, NEW d \in Chan, c # d, LiveChan(c)', LiveChan(d)', chan'[c] = chan'[d]
        PROVE  chan'[c] = None
    BY <1>1, <1>2, <1>4, <2>3 DEF HandsInv
  <2> QED
    BY <2>1, <2>2, <2>3 DEF HandsInv
<1>8. CheckedInv'
  <2>1. ASSUME NEW v \in Worker, pc'[v] = "write"
        PROVE  Holds(v)' = want'[v]
    <3>1. CASE v = w
      <4>1. Holds(w) = want[w]
        BY <1>2, <1>3, <2>1, <3>1 DEF Checked
      <4> QED
        BY <1>2, <1>3, <3>1, <4>1 DEF Holds
    <3>2. CASE v # w
      BY <1>1, <1>2, <1>3, <2>1, <3>2 DEF CheckedInv, Holds
    <3> QED
      BY <3>1, <3>2
  <2> QED
    BY <2>1 DEF CheckedInv
<1>9. WrittenVerified'
  BY <1>2 DEF IInv, Safe, WrittenVerified
<1> QED
  BY <1>6, <1>7, <1>8, <1>9 DEF Safe

LEMMA CheckPlainSafe ==
  ASSUME IInv, TypeInv', ~shared, NEW w \in Worker, CheckPlain(w),
         \A c \in Chan, k \in Key : IsFor(c, k)' => IsFor(c, k)
  PROVE  Safe'
<1>1. TypeInv /\ CheckedInv /\ WrittenVerified
  BY DEF IInv, Safe
<1>2. /\ pc' = [pc EXCEPT ![w] = Checked(w)]
      /\ hold' = [hold EXCEPT ![w] = IF Holds(w) = want[w] THEN @ ELSE None]
      /\ bytes' = [bytes EXCEPT ![w] = IF Holds(w) = want[w] THEN @ ELSE None]
      /\ UNCHANGED <<want, written, chan, mem, pool>>
  BY DEF CheckPlain, task
<1>3. /\ hold \in [Worker -> Buf \cup {None}] /\ bytes \in [Worker -> Content \cup {None}]
      /\ pc \in [Worker -> InFetch \cup {"idle", "pick", "got", "write", "failed"}]
  BY <1>1, HandTypes
<1>4. \A v \in Worker : hold'[v] = None \/ (hold'[v] = hold[v] /\ want'[v] = want[v])
  BY <1>2, <1>3
<1>5. PoolInv' /\ HandsInv'
  BY <1>2, <1>4, HandsKept
<1>6. CheckedInv'
  <2>1. ASSUME NEW v \in Worker, pc'[v] = "write"
        PROVE  Holds(v)' = want'[v]
    <3>1. CASE v = w
      <4>1. Holds(w) = want[w]
        BY <1>2, <1>3, <2>1, <3>1 DEF Checked
      <4>2. hold'[w] = hold[w] /\ bytes'[w] = bytes[w]
        BY <1>2, <1>3, <4>1
      <4> QED
        BY <1>2, <3>1, <4>1, <4>2 DEF Holds
    <3>2. CASE v # w
      BY <1>1, <1>2, <1>3, <2>1, <3>2 DEF CheckedInv, Holds
    <3> QED
      BY <3>1, <3>2
  <2> QED
    BY <2>1 DEF CheckedInv
<1>7. WrittenVerified'
  BY <1>1, <1>2 DEF WrittenVerified
<1> QED
  BY <1>5, <1>6, <1>7 DEF Safe

LEMMA WriteAtSafe ==
  ASSUME IInv, TypeInv', ~shared, NEW w \in Worker, WriteAt(w),
         \A c \in Chan, k \in Key : IsFor(c, k)' => IsFor(c, k)
  PROVE  Safe'
<1>1. TypeInv /\ CheckedInv /\ WrittenVerified
  BY DEF IInv, Safe
<1>2. /\ pc[w] = "write" /\ pc' = [pc EXCEPT ![w] = "idle"] /\ written' = [written EXCEPT ![w] = Holds(w)]
      /\ hold' = [hold EXCEPT ![w] = None] /\ bytes' = [bytes EXCEPT ![w] = None]
      /\ UNCHANGED <<want, chan, mem, pool>>
  BY DEF WriteAt, task
<1>3. /\ hold \in [Worker -> Buf \cup {None}] /\ bytes \in [Worker -> Content \cup {None}]
      /\ written \in [Worker -> Content \cup {None}]
      /\ pc \in [Worker -> InFetch \cup {"idle", "pick", "got", "write", "failed"}]
  BY <1>1, HandTypes
<1>4. PoolInv' /\ HandsInv'
  BY <1>2, <1>3, HandsKept
<1>5. CheckedInv'
  BY <1>1, <1>2, <1>3 DEF CheckedInv, Holds
<1>6. WrittenVerified'
  BY <1>1, <1>2, <1>3 DEF WrittenVerified, CheckedInv
<1> QED
  BY <1>4, <1>5, <1>6 DEF Safe

\* Steps of worker w that get no buffer, give none back and check nothing.
LEMMA PlainSafe ==
  ASSUME IInv, TypeInv', ~shared, NEW w \in Worker,
         \/ Begin(w) \/ PickPeer(w) \/ GiveUp(w) \/ ReadLocal(w) \/ BidiFails(w) \/ OpenFetch(w)
         \/ ShareFetch(w) \/ OwnerFails(w) \/ SharerFails(w),
         \A c \in Chan, k \in Key : IsFor(c, k)' /\ chan'[c] # None => IsFor(c, k),
         \A c \in Chan : chan'[c] \in {chan[c], None}
  PROVE  Safe'
<1>1. TypeInv
  BY DEF IInv
<1>2. /\ UNCHANGED <<hold, mem, pool>>
      /\ pc[w] \notin {"got", "write"}
      /\ \E l \in InFetch \cup {"pick", "failed", "got"} : pc' = [pc EXCEPT ![w] = l]
  BY DEF Begin, PickPeer, GiveUp, ReadLocal, BidiFails, OpenFetch, ShareFetch, OwnerFails, SharerFails,
         AttemptEnds, InFetch
<1>3. /\ want' = want \/ \E k \in Key : want' = [want EXCEPT ![w] = k]
      /\ bytes' = bytes \/ bytes' = [bytes EXCEPT ![w] = cas[want[w]]]
      /\ (written' = written /\ want' = want) \/ written' = [written EXCEPT ![w] = None]
  BY DEF Begin, PickPeer, GiveUp, ReadLocal, BidiFails, OpenFetch, ShareFetch, OwnerFails, SharerFails, task
<1>4. /\ want \in [Worker -> Key \cup {None}] /\ bytes \in [Worker -> Content \cup {None}]
      /\ written \in [Worker -> Content \cup {None}] /\ hold[w] = None
      /\ pc \in [Worker -> InFetch \cup {"idle", "pick", "got", "write", "failed"}]
  BY <1>1, <1>2, HandTypes DEF TypeInv, WorkerInv
<1>5. \A v \in Worker \ {w} : /\ pc'[v] = pc[v] /\ want'[v] = want[v] /\ bytes'[v] = bytes[v]
                              /\ written'[v] = written[v]
  BY <1>2, <1>3, <1>4
<1>6. /\ pc'[w] # "write" /\ hold'[w] = None
      /\ written'[w] = None \/ (written'[w] = written[w] /\ want'[w] = want[w])
  BY <1>2, <1>3, <1>4 DEF InFetch
<1>7. PoolInv' /\ HandsInv'
  BY <1>2, <1>5, <1>6, HandsKept
<1>8. CheckedInv' /\ WrittenVerified'
  BY <1>2, <1>5, <1>6, ContentKept
<1> QED
  BY <1>7, <1>8 DEF Safe

-----------------------------------------------------------------------------
(* The invariant.                                                          *)

LEMMA InitIInv == Init => IInv
<1> SUFFICES ASSUME Init
             PROVE  IInv
  OBVIOUS
<1>1. Owners
  BY DEF Init, Owners, OwnerReachable, OneOwner, ChanInv, IsFor
<1>2. PoolInv /\ HandsInv
  BY DEF Init, PoolInv, HandsInv
<1>3. CheckedInv /\ WrittenVerified
  BY DEF Init, CheckedInv, WrittenVerified
<1> QED
  BY <1>1, <1>2, <1>3, InitType DEF IInv, Safe

LEMMA FetchIInv ==
  ASSUME IInv, TypeInv', NEW w \in Worker, Fetch(w)
  PROVE  IInv'
<1> DEFINE Shrinks == \A c \in Chan, k \in Key : IsFor(c, k)' => IsFor(c, k)
<1>0. /\ TypeInv /\ Owners /\ DOMAIN pc = Worker /\ DOMAIN ch = Worker /\ DOMAIN want = Worker
      /\ \A v \in Worker : pc[v] \notin {"wait", "share"} => ch[v] = None
  BY DEF IInv, TypeInv, TypeOK, WorkerInv
<1>1. shared => shared'
  BY DEF Fetch, Begin, PickPeer, GiveUp, ReadLocal, FetchBidi, BidiFails, OpenFetch, ShareFetch, OwnerFails,
         OwnerReceives, SharerReceives, SharerFails, CheckEncrypted, CheckPlain, WriteAt
<1>2. CASE Begin(w)
  <2>1. UNCHANGED <<pending, ch, chan>> /\ pc[w] \in {"idle", "failed"} /\ pc' = [pc EXCEPT ![w] = "pick"]
        /\ \E k \in Key : want' = [want EXCEPT ![w] = k]
    BY <1>2 DEF Begin, table
  <2>2. Owners' /\ Shrinks
    BY <1>0, <2>1, OwnersKept
  <2> QED
    BY <1>1, <1>2, <2>1, <2>2, PlainSafe DEF IInv
<1>3. CASE PickPeer(w) \/ GiveUp(w)
  <2>1. UNCHANGED <<pending, ch, want, chan>> /\ pc[w] = "pick"
        /\ \E l \in {"fetch", "failed"} : pc' = [pc EXCEPT ![w] = l]
    BY <1>3 DEF PickPeer, GiveUp, table, task
  <2>2. Owners' /\ Shrinks
    BY <1>0, <2>1, OwnersKept
  <2> QED
    BY <1>1, <1>3, <2>1, <2>2, PlainSafe DEF IInv
<1>4. CASE ReadLocal(w) \/ BidiFails(w) \/ SharerFails(w)
  <2>1. UNCHANGED <<pending, want, chan>> /\ pc[w] \in {"fetch", "share"} /\ ch' = [ch EXCEPT ![w] = None]
        /\ \E l \in {"got", "pick"} : pc' = [pc EXCEPT ![w] = l]
    BY <1>4 DEF ReadLocal, BidiFails, SharerFails, AttemptEnds, table, task
  <2>2. Owners' /\ Shrinks
    BY <1>0, <2>1, OwnersKept
  <2> QED
    BY <1>1, <1>4, <2>1, <2>2, PlainSafe DEF IInv
<1>5. CASE FetchBidi(w)
  <2>1. UNCHANGED <<pending, want>> /\ pc[w] = "fetch" /\ ch' = [ch EXCEPT ![w] = None]
        /\ pc' = [pc EXCEPT ![w] = "got"]
    BY <1>5 DEF FetchBidi, AttemptEnds, table, task
  <2>2. Owners' /\ Shrinks
    BY <1>0, <2>1, OwnersKept
  <2> QED
    BY <1>1, <1>5, <2>2, FetchBidiSafe DEF IInv
<1>6. CASE OpenFetch(w)
  <2>1. /\ Owners'
        /\ \A d \in Chan, k \in Key : IsFor(d, k)' /\ chan'[d] # None => IsFor(d, k)
        /\ \A d \in Chan : chan'[d] \in {chan[d], None}
    BY <1>0, <1>6, OpenOwners
  <2> QED
    BY <1>1, <1>6, <2>1, PlainSafe DEF IInv
<1>7. CASE ShareFetch(w)
  <2>1. Owners' /\ Shrinks /\ UNCHANGED chan
    BY <1>0, <1>7, ShareOwners DEF ShareFetch
  <2> QED
    BY <1>1, <1>7, <2>1, PlainSafe DEF IInv
<1>8. CASE OwnerFails(w) \/ OwnerReceives(w)
  <2>1. /\ pc[w] = "wait" /\ UNCHANGED want /\ pending' = [pending EXCEPT ![want[w]] = None]
        /\ ch' = [ch EXCEPT ![w] = None]
        /\ \E l \in {"got", "pick"} : pc' = [pc EXCEPT ![w] = l]
    BY <1>8 DEF OwnerFails, OwnerReceives, AttemptEnds, task
  <2>2. Owners' /\ Shrinks
    BY <1>0, <2>1, OwnerEnds
  <2>3. CASE OwnerFails(w)
    BY <1>1, <2>2, <2>3, PlainSafe DEF IInv, OwnerFails
  <2>4. CASE OwnerReceives(w)
    BY <1>1, <2>2, <2>4, ReceivesSafe DEF IInv
  <2> QED
    BY <1>8, <2>3, <2>4
<1>9. CASE SharerReceives(w)
  <2>1. UNCHANGED <<pending, want>> /\ pc[w] = "share" /\ ch' = [ch EXCEPT ![w] = None]
        /\ pc' = [pc EXCEPT ![w] = "got"]
    BY <1>9 DEF SharerReceives, AttemptEnds, table, task
  <2>2. Owners' /\ Shrinks
    BY <1>0, <2>1, OwnersKept
  <2> QED
    BY <1>1, <1>9, <2>2, ReceivesSafe DEF IInv
<1>10. CASE CheckEncrypted(w) \/ CheckPlain(w) \/ WriteAt(w)
  <2>1. UNCHANGED <<pending, ch, want>> /\ pc[w] \in {"got", "write"}
        /\ \E l \in {"pick", "write", "idle"} : pc' = [pc EXCEPT ![w] = l]
    BY <1>10 DEF CheckEncrypted, CheckPlain, WriteAt, Checked, table, task
  <2>2. Owners' /\ Shrinks
    BY <1>0, <2>1, OwnersKept
  <2> QED
    BY <1>1, <1>10, <2>2, CheckEncryptedSafe, CheckPlainSafe, WriteAtSafe DEF IInv
<1> QED
  BY <1>2, <1>3, <1>4, <1>5, <1>6, <1>7, <1>8, <1>9, <1>10 DEF Fetch

LEMMA AsideIInv ==
  ASSUME IInv, TypeInv', (Network /\ ~\E k \in Key, p \in Peer : Answer(k, p)) \/ UNCHANGED vars
  PROVE  IInv'
<1>1. UNCHANGED <<pc, want, ch, hold, bytes, written, pending, chan, mem, pool, shared>>
  BY DEF Network, CopyToCas, CasWriteLoop, vars, task, table
<1>2. Owners' /\ \A c \in Chan, k \in Key : IsFor(c, k)' => IsFor(c, k)
  BY <1>1, OwnersKept DEF IInv
<1>3. ~shared => PoolInv' /\ HandsInv'
  BY <1>1, <1>2, HandsKept
<1>4. ~shared => CheckedInv' /\ WrittenVerified'
  BY <1>1, ContentKept
<1> QED
  BY <1>1, <1>2, <1>3, <1>4 DEF IInv, Safe

LEMMA NextIInv == IInv /\ [Next]_vars => IInv'
<1> SUFFICES ASSUME IInv, [Next]_vars
             PROVE  IInv'
  OBVIOUS
<1>1. TypeInv'
  BY NextType DEF IInv
<1>2. ASSUME NEW k \in Key, NEW p \in Peer, Answer(k, p)
      PROVE  IInv'
  <2>1. UNCHANGED <<pc, want, ch, pending, shared>>
    BY <1>2 DEF Answer, task
  <2>2. Owners'
    BY <1>1, <2>1, OwnersKept DEF IInv
  <2> QED
    BY <1>1, <1>2, <2>1, <2>2, AnswerSafe DEF IInv
<1> QED
  BY <1>1, <1>2, FetchIInv, AsideIInv DEF Next

-----------------------------------------------------------------------------

\* Every variable keeps its type: the counters of the selector and the pool never run
\* below zero, and casWriteCh holds no more than its capacity.
THEOREM TypeCorrect == Spec => []TypeOK
<1>1. TypeInv => TypeOK
  BY DEF TypeInv
<1> QED
  BY <1>1, InitType, NextType, PTL DEF Spec

\* The owner of a shared fetch finds its channel in pendingFile until it leaves, and no
\* entry of pendingFile outlives its owner.
THEOREM OwnerReached == Spec => []OwnerReachable
<1>1. IInv => OwnerReachable
  BY DEF IInv, Owners
<1> QED
  BY <1>1, InitIInv, NextIInv, PTL DEF Spec

\* As long as no sharer took the buffer of an encrypted chunk, WriteAt writes what the
\* hash was checked for, whatever buffers the pool hands out in between.
THEOREM WritesVerified == Spec => []WrittenVerifiedUnshared
<1>1. IInv => WrittenVerifiedUnshared
  BY DEF IInv, Safe, WrittenVerifiedUnshared
<1> QED
  BY <1>1, InitIInv, NextIInv, PTL DEF Spec
=============================================================================
