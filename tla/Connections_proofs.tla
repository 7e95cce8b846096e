------------------------- MODULE Connections_proofs -------------------------
(***************************************************************************)
(* Proofs about the two ends at which connections come in: TransferManager *)
(* with a client session, for any number of clients, resumes, progress     *)
(* frames and recipients, and PeerTable, for any number of connections of  *)
(* a peer over time.                                                       *)
(*                                                                         *)
(* The manager's two properties need to know that a transfer is paused     *)
(* only when nothing runs with a live context, which is what Resume relies *)
(* on when it starts another worker. They carry over to the session        *)
(* because all it does with the transfer is steps of the manager.          *)
(*                                                                         *)
(* Nothing in the bytes of the session's messages says what they are. A    *)
(* reader whose layout matches what its peer has written takes all the     *)
(* fields of the message and leaves what follows, or waits, when some of   *)
(* them are still to come; this is proved by induction over the fields     *)
(* that it has read, a shortest prefix that it could have misread being    *)
(* impossible. The invariant of the session then says what is under way: a *)
(* request, whole or cut off where its client went away; and a transfer    *)
(* ID, any number of whole frames and the final status, or an answer that  *)
(* is written at once.                                                     *)
(*                                                                         *)
(* The invariant of PeerTable says which stage a connection is in while    *)
(* one of the three tables names it, and, for a node that only we have     *)
(* dialled and that nobody has sent away, who will still take it out of    *)
(* the ring.                                                               *)
(***************************************************************************)
EXTENDS ClientSession, PeerTable, WellFoundedInduction, SequenceTheorems, TLAPS


\* A live context is that of the worker which t.cancel cancels, or of one that
\* has nothing left to run.
LiveIsCurrent ==
  \A w \in Worker : wpc[w] \in {"start", "run"} /\ ctx[w] = "live" => current = w

\* No worker of a paused transfer runs with a live context.
PausedIsStopped ==
  status = "paused" => \A w \in Worker : wpc[w] \in {"start", "run"} => ctx[w] # "live"

IInv == TypeOK /\ LiveIsCurrent /\ PausedIsStopped

USE WorkersAssumption DEF Worker

LEMMA InitIInv == Init => IInv
  BY DEF Init, IInv, TypeOK, Status, LiveIsCurrent, PausedIsStopped

\* Steps of a worker: none of them starts anything, and the only statuses they
\* set are active, failed and completed.
LEMMA WorkerPreserves ==
  ASSUME IInv, NEW w \in Worker, WorkerStep(w)
  PROVE  IInv'
<1> USE DEF IInv, Move, Status
<1>1. CASE OperationEnds(w)
  BY <1>1 DEF OperationEnds, TypeOK, LiveIsCurrent, PausedIsStopped
<1>2. CASE SetFailed(w)
  BY <1>2 DEF SetFailed, TypeOK, LiveIsCurrent, PausedIsStopped
<1>3. CASE ReadStatus(w)
  BY <1>3 DEF ReadStatus, TypeOK, LiveIsCurrent, PausedIsStopped
<1>4. CASE Complete(w)
  BY <1>4 DEF Complete, TypeOK, LiveIsCurrent, PausedIsStopped
<1>5. CASE Record(w)
  BY <1>5 DEF Record, TypeOK, LiveIsCurrent, PausedIsStopped
<1>6. CASE Leave(w)
  BY <1>6 DEF Leave, TypeOK, LiveIsCurrent, PausedIsStopped
<1> QED
  BY <1>1, <1>2, <1>3, <1>4, <1>5, <1>6 DEF WorkerStep

\* The handler's SetStatus(Active) may come after a pause: the transfer is then
\* active with a context that is done.
LEMMA SetActivePreserves ==
  ASSUME IInv, SetActive
  PROVE  IInv'
  BY DEF IInv, SetActive, Move, Status, TypeOK, LiveIsCurrent, PausedIsStopped

\* Steps of a client.
LEMMA ClientPreserves ==
  ASSUME IInv, NEW k \in Clients,
         ClientApply(k) \/ \E op1 \in {"pause", "resume", "cancel"} : Lookup(k, op1)
  PROVE  IInv'
<1> USE DEF IInv, Move, Status
<1>1. CASE Pause(k)
  BY <1>1 DEF Pause, TypeOK, LiveIsCurrent, PausedIsStopped
<1>2. CASE Resume(k)
  <2>1. CASE status = "paused"
    <3>1. PICK w \in Worker :
            /\ wpc[w] = "none"
            /\ ctx' = [ctx EXCEPT ![w] = "live"]
            /\ current' = w
            /\ wpc' = [wpc EXCEPT ![w] = "run"]
      BY <1>2, <2>1 DEF Resume
    <3>2. status' = "active" /\ UNCHANGED <<registered, outcome, seen, history>>
      BY <1>2, <2>1 DEF Resume
    <3>3. TypeOK'
      BY <1>2, <3>1, <3>2 DEF Resume, TypeOK
    \* Whatever else runs has a context that is done.
    <3>4. LiveIsCurrent'
      BY <2>1, <3>1 DEF TypeOK, LiveIsCurrent, PausedIsStopped
    <3> QED
      BY <3>2, <3>3, <3>4 DEF PausedIsStopped
  <2>2. CASE status # "paused"
    BY <1>2, <2>2 DEF Resume, TypeOK, LiveIsCurrent, PausedIsStopped
  <2> QED
    BY <2>1, <2>2
<1>3. CASE Cancel(k)
  BY <1>3 DEF Cancel, TypeOK, LiveIsCurrent, PausedIsStopped
<1>4. ASSUME NEW op1 \in {"pause", "resume", "cancel"}, Lookup(k, op1)
      PROVE  IInv'
  BY <1>4 DEF Lookup, TypeOK, LiveIsCurrent, PausedIsStopped
<1> QED
  BY <1>1, <1>2, <1>3, <1>4 DEF ClientApply

LEMMA NextIInv == IInv /\ [Next]_vars => IInv'
<1> SUFFICES ASSUME IInv, [Next]_vars
             PROVE  IInv'
  OBVIOUS
<1>1. CASE SetActive
  BY <1>1, SetActivePreserves
<1>2. ASSUME NEW w \in Worker, WorkerStep(w)
      PROVE  IInv'
  BY <1>2, WorkerPreserves
<1>3. ASSUME NEW k \in Clients,
             ClientApply(k) \/ \E op1 \in {"pause", "resume", "cancel"} : Lookup(k, op1)
      PROVE  IInv'
  BY <1>3, ClientPreserves
<1>4. CASE UNCHANGED vars
  BY <1>4 DEF vars, IInv, TypeOK, LiveIsCurrent, PausedIsStopped
<1> QED
  BY <1>1, <1>2, <1>3, <1>4 DEF Next

\* However the lookups and updates of clients interleave with the ends of old
\* workers, at most one worker of a transfer runs with a context that is not done.
THEOREM SingleLiveWorker == Spec => []OneLiveWorker
<1>1. IInv => OneLiveWorker
  BY DEF IInv, LiveIsCurrent, OneLiveWorker
<1> QED
  BY <1>1, InitIInv, NextIInv, PTL DEF Spec

\* The cancel function that an entry holds is that of the worker which runs.
THEOREM CancelReaches == Spec => []CancelReachesLiveWorker
<1>1. IInv => CancelReachesLiveWorker
  BY DEF IInv, LiveIsCurrent, CancelReachesLiveWorker
<1> QED
  BY <1>1, InitIInv, NextIInv, PTL DEF Spec

\* A session, with a handler that may never register the transfer or serve a
\* client that is gone, does with the transfer only what the manager allows.
THEOREM SessionImplementsManager == SessionSpec => Spec
<1>1. SessionInit => Init
  BY DEF SessionInit
<1>2. [SessionNext]_all => [Next]_vars
  <2> SUFFICES ASSUME [SessionNext]_all
               PROVE  [Next]_vars
    OBVIOUS
  <2>1. 1 \in Worker
    OBVIOUS
  <2>2. CASE ClientStep \/ ClientDies \/ DaemonStep
    BY <2>2 DEF ClientStep, ClientDies, DaemonStep, SendRequest, ClientReadsTransferID,
                ClientReadsAnswer, ClientReadsHeader, ClientCopiesBody, ClientReads, ReadRequest,
                Register, AnnounceTransfer, Progress, FinalStatus, HandlerCloses, AnswerAtOnce
  <2>3. CASE ManagerStep
    BY <2>1, <2>3 DEF ManagerStep, HandlerStep, Next, WorkerStep
  <2>4. CASE UNCHANGED all
    BY <2>4 DEF all
  <2> QED
    BY <2>2, <2>3, <2>4 DEF SessionNext
<1> QED
  BY <1>1, <1>2, PTL DEF SessionSpec, Spec

\* Both properties hold of the composition.
THEOREM SessionSafe == SessionSpec => [](OneLiveWorker /\ CancelReachesLiveWorker)
  BY SessionImplementsManager, SingleLiveWorker, CancelReaches, PTL

HIDE WorkersAssumption DEF Worker

-----------------------------------------------------------------------------
(* What a reader makes of the fields that a writer has written.            *)

\* Numbers are well ordered.
LEMMA NatOrder == \E ord : IsWellFoundedOn(ord, Nat) /\ \A x, y \in Nat : <<y, x>> \in ord <=> y < x
<1>1. IsWellFoundedOn(OpToRel(<, Nat), Nat)
  BY NatLessThanWellFounded, Zenon
<1>2. \A x, y \in Nat : <<y, x>> \in OpToRel(<, Nat) <=> y < x
  BY Zenon DEF OpToRel
<1> QED BY <1>1, <1>2, Zenon

\* A set of numbers has a least one.
LEMMA LeastNat ==
  ASSUME NEW T \in SUBSET Nat, T # {}
  PROVE  \E x \in T : \A y \in T : x <= y
<1>1. PICK ord : IsWellFoundedOn(ord, Nat) /\ \A x, y \in Nat : <<y, x>> \in ord <=> y < x
  BY NatOrder
<1>2. PICK x \in T : \A y \in T : ~(<<y, x>> \in ord)
  BY <1>1, WFMin
<1>3. ASSUME NEW y \in T PROVE x <= y
  <2>1. x \in Nat /\ y \in Nat
    OBVIOUS
  <2>2. ~(<<y, x>> \in ord)
    BY <1>2, Zenon
  <2>3. ~(y < x)
    BY <1>1, <2>1, <2>2, Zenon
  <2> QED BY <2>1, <2>3
<1> QED BY <1>3

\* Induction over the numbers.
LEMMA NumberInduction ==
  ASSUME NEW T, 0 \in T, \A n \in Nat : n \in T => n + 1 \in T
  PROVE  Nat \subseteq T
<1> DEFINE B == {n \in Nat : n \notin T}
<1> SUFFICES ASSUME B # {} PROVE FALSE
  OBVIOUS
<1>1. PICK x \in B : \A y \in B : x <= y
  BY LeastNat
<1>2. x # 0 /\ x - 1 \in Nat /\ x - 1 \in T
  BY <1>1
<1> QED BY <1>1, <1>2

\* a is what has been read before each element of a layout, and at its end.
Steps(a, n, layout, fields) ==
  /\ a[0] = W!Reading(fields, <<>>, "ok")
  /\ \A i \in 1 .. n : a[i] = W!ReadField(a[i - 1], layout[i])
  /\ W!Parse(layout, fields) = a[n]

\* FoldLeft takes the elements in their order.
LEMMA ParseSteps ==
  ASSUME NEW n \in Nat, NEW layout, DOMAIN layout = 1 .. n, NEW fields
  PROVE  \E a : Steps(a, n, layout, fields)
<1> DEFINE base == W!Reading(fields, <<>>, "ok")
           E(F, A) == IF A = {} THEN base ELSE W!ReadField(F[A \ {W!Max(A)}], layout[W!Max(A)])
           Fold(m, F) == F = [A \in SUBSET (1 .. m) |-> E(F, A)]
           L == {m \in Nat : \E F : Fold(m, F)}
<1>1. ASSUME NEW m \in Nat, NEW A \in SUBSET (1 .. m + 1), m + 1 \in A
      PROVE  W!Max(A) = m + 1
  <2>1. \A y \in A : m + 1 >= y
    BY <1>1
  <2>2. \A x \in A : (\A y \in A : x >= y) => x = m + 1
    BY <1>1
  <2>3. W!Max(A) = CHOOSE x \in A : \A y \in A : x >= y
    BY Zenon DEF W!Max
  <2> QED BY <1>1, <2>1, <2>2, <2>3, Zenon
<1>2. 0 \in L
  <2> DEFINE F == [A \in SUBSET (1 .. 0) |-> base]
  <2>1. F = [A \in SUBSET (1 .. 0) |-> E(F, A)]
    <3> HIDE DEF base
    <3>1. \A A \in SUBSET (1 .. 0) : A = {}
      OBVIOUS
    <3>2. \A A \in SUBSET (1 .. 0) : base = E(F, A)
      BY <3>1, Zenon
    <3> QED BY <3>2, Zenon
  <2> HIDE DEF F, E
  <2> QED BY <2>1
<1>3. ASSUME NEW m \in Nat, m \in L PROVE m + 1 \in L
  <2>1. PICK F : F = [A \in SUBSET (1 .. m) |-> E(F, A)]
    BY <1>3, Zenon
  <2> DEFINE H == [A \in SUBSET (1 .. m + 1) |->
                     IF m + 1 \in A THEN W!ReadField(F[A \ {m + 1}], layout[m + 1]) ELSE F[A]]
  <2>2. ASSUME NEW A \in SUBSET (1 .. m + 1) PROVE H[A] = E(H, A)
    <3> HIDE DEF base
    <3>1. \A B \in SUBSET (1 .. m) : H[B] = F[B]
      <4>1. \A B \in SUBSET (1 .. m) : B \in SUBSET (1 .. m + 1) /\ m + 1 \notin B
        OBVIOUS
      <4> QED BY <4>1, Zenon
    <3>2. CASE m + 1 \in A
      <4>1. W!Max(A) = m + 1
        BY <1>1, <3>2
      <4>2. A \ {m + 1} \in SUBSET (1 .. m) /\ A # {}
        BY <3>2
      <4>3. H[A] = W!ReadField(F[A \ {m + 1}], layout[m + 1])
        BY <3>2, Zenon
      <4> HIDE DEF H
      <4>4. H[A \ {m + 1}] = F[A \ {m + 1}]
        BY <3>1, <4>2, Zenon
      <4> QED BY <4>1, <4>2, <4>3, <4>4, Zenon
    <3>3. CASE m + 1 \notin A
      <4>0. A \in SUBSET (1 .. m)
        BY <3>3
      <4>1. A \ {W!Max(A)} \in SUBSET (1 .. m)
        BY <4>0, Zenon
      <4>2. H[A] = F[A]
        BY <3>3, Zenon
      <4>3. F[A] = E(F, A)
        BY <2>1, <4>0, Zenon
      <4> HIDE DEF H
      <4>4. H[A \ {W!Max(A)}] = F[A \ {W!Max(A)}]
        BY <3>1, <4>1, Zenon
      <4> QED BY <4>2, <4>3, <4>4, Zenon
    <3> QED BY <3>2, <3>3, Zenon
  <2>3. H = [A \in SUBSET (1 .. m + 1) |-> E(H, A)]
    <3> DEFINE HA(A) == IF m + 1 \in A THEN W!ReadField(F[A \ {m + 1}], layout[m + 1]) ELSE F[A]
    <3>1. \A A \in SUBSET (1 .. m + 1) : HA(A) = E(H, A)
      BY <2>2, Zenon
    <3> HIDE DEF E
    <3> QED BY <3>1, Zenon
  <2> HIDE DEF H, E
  <2>4. m + 1 \in Nat
    OBVIOUS
  <2> QED BY <2>3, <2>4, Zenon
<1>4. n \in L
  <2> HIDE DEF L
  <2> QED BY <1>2, <1>3, NumberInduction
<1> DEFINE F == CHOOSE F : F = [A \in SUBSET (1 .. n) |-> E(F, A)]
<1>5. F = [A \in SUBSET (1 .. n) |-> E(F, A)]
  <2> HIDE DEF E
  <2>1. PICK G : G = [A \in SUBSET (1 .. n) |-> E(G, A)]
    BY <1>4, Zenon
  <2> QED BY <2>1, Zenon
<1>6. W!Parse(layout, fields) = F[1 .. n]
  BY Zenon DEF W!Parse, W!FoldLeft, W!MapThenFoldSet
<1> HIDE DEF F
<1> DEFINE a == [i \in 0 .. n |-> F[1 .. i]]
<1>7. a[0] = base
  <2>1. a[0] = F[1 .. 0] /\ 1 .. 0 = {}
    OBVIOUS
  <2>2. F[{}] = base
    <3>1. {} \in SUBSET (1 .. n)
      OBVIOUS
    <3> HIDE DEF base
    <3> QED BY <1>5, <3>1, Zenon
  <2> QED BY <2>1, <2>2, Zenon
<1>8. ASSUME NEW i \in 1 .. n PROVE a[i] = W!ReadField(a[i - 1], layout[i])
  <2>1. /\ i - 1 \in Nat /\ 1 .. i \in SUBSET (1 .. n) /\ 1 .. i # {} /\ (1 .. i) \ {i} = 1 .. i - 1
        /\ 1 .. i \in SUBSET (1 .. (i - 1) + 1) /\ (i - 1) + 1 = i /\ i \in 1 .. i
    <3>1. i \in Nat /\ i >= 1 /\ i <= n /\ i - 1 \in Nat /\ (i - 1) + 1 = i
      OBVIOUS
    <3>2. 1 .. i \in SUBSET (1 .. n)
      BY <3>1
    <3>3. (1 .. i) \ {i} = 1 .. i - 1 /\ i \in 1 .. i
      BY <3>1
    <3> QED BY <3>1, <3>2, <3>3
  <2>2. W!Max(1 .. i) = i
    <3>1. (i - 1) + 1 \in 1 .. i
      BY <2>1
    <3>2. W!Max(1 .. i) = (i - 1) + 1
      BY <1>1, <2>1, <3>1, Zenon
    <3> QED BY <2>1, <3>2
  <2>3. F[1 .. i] = W!ReadField(F[1 .. i - 1], layout[i])
    <3> HIDE DEF base
    <3>1. F[1 .. i] = E(F, 1 .. i)
      BY <1>5, <2>1, Zenon
    <3> QED BY <2>1, <2>2, <3>1, Zenon
  <2>4. a[i] = F[1 .. i] /\ a[i - 1] = F[1 .. i - 1]
    OBVIOUS
  <2> QED BY <2>3, <2>4, Zenon
<1>9. a[n] = F[1 .. n]
  OBVIOUS
<1>10. a[0] = W!Reading(fields, <<>>, "ok")
  BY <1>7, Zenon
<1> HIDE DEF a
<1> QED BY <1>6, <1>8, <1>9, <1>10, Zenon DEF Steps

\* A field of a layout reads what the message full has from lo + 1 to hi, which is
\* what r has under the name of the field.
ReadsItem(field, full, lo, hi, r) ==
  IF field[1] = "list"
    THEN /\ field[3] \in {2, 4}
         /\ \E count \in Nat :
              /\ full[lo + 1] = <<"n2", count>> /\ hi = lo + 1 + count * field[3]
              /\ \A j \in lo + 2 .. hi : full[j][1] = "s16"
              /\ r[field[2]] = [k \in 1 .. count |->
                                  [j \in 1 .. field[3] |-> full[lo + 1 + (k - 1) * field[3] + j][2]]]
    ELSE hi = lo + 1 /\ full[hi] = <<field[1], r[field[2]]>>

\* A layout reads a message, whose items end at the positions pos, as the values of r.
Fits(layout, full, pos, r) ==
  /\ pos[0] = 0 /\ pos[Len(layout)] = Len(full)
  /\ \A i \in 1 .. Len(layout) : /\ pos[i - 1] \in Nat /\ pos[i] \in 0 .. Len(full)
                                 /\ ReadsItem(layout[i], full, pos[i - 1], pos[i], r)

\* t is the beginning of full, or full with more behind it.
Meets(t, full, n) == \A j \in 1 .. Len(t) : j <= n => t[j] = full[j]

LEMMA ItemIsSome ==
  ASSUME NEW lo \in Nat, NEW hi \in Nat, NEW field, NEW full, NEW r, ReadsItem(field, full, lo, hi, r)
  PROVE  lo < hi
<1>1. CASE field[1] = "list"
  <2>1. PICK count \in Nat : hi = lo + 1 + count * field[3]
    BY <1>1 DEF ReadsItem
  <2>2. CASE field[3] = 2
    BY <2>1, <2>2
  <2>3. CASE field[3] = 4
    BY <2>1, <2>3
  <2> QED BY <1>1, <2>2, <2>3 DEF ReadsItem
<1>2. CASE field[1] # "list"
  BY <1>2 DEF ReadsItem
<1> QED BY <1>1, <1>2

LEMMA ItemRead ==
  ASSUME NEW F, NEW t \in Seq(F), NEW lo \in Nat, NEW hi \in Nat, lo <= Len(t), NEW field, NEW full,
         NEW value, NEW r, Meets(t, full, hi), ReadsItem(field, full, lo, hi, r),
         NEW a, a = W!ReadField(W!Reading(SubSeq(t, lo + 1, Len(t)), value, "ok"), field)
  PROVE  IF hi <= Len(t)
         THEN a = W!Reading(SubSeq(t, hi + 1, Len(t)), W!Extend(value, field[2], r[field[2]]), "ok")
         ELSE a.result = "short"
<1> DEFINE rest == SubSeq(t, lo + 1, Len(t))
<1>1. /\ rest \in Seq(F) /\ Len(rest) = Len(t) - lo
      /\ \A i \in 1 .. Len(t) - lo : rest[i] = t[lo + i]
  OBVIOUS
<1>3. /\ W!Reading(rest, value, "ok").rest = rest /\ W!Reading(rest, value, "ok").value = value
      /\ W!Reading(rest, value, "ok").result = "ok"
  BY DEF W!Reading
<1>4. W!Reading(<<>>, value, "short").result = "short"
  BY DEF W!Reading
<1>5. hi > lo
  BY ItemIsSome
<1> HIDE DEF rest
<1>6. CASE rest = <<>>
  <2>1. a.result = "short"
    BY <1>3, <1>4, <1>6, Zenon DEF W!ReadField, rest
  <2>2. Len(t) = lo
    BY <1>1, <1>6
  <2> QED BY <2>1, <2>2, <1>5
<1>7. CASE rest # <<>> /\ field[1] # "list"
  <2>1. lo < Len(t) /\ hi = lo + 1 /\ hi <= Len(t) /\ Head(rest) = t[hi]
    BY <1>1, <1>7 DEF ReadsItem
  <2>2. Head(rest) = <<field[1], r[field[2]]>>
    BY <1>7, <2>1 DEF ReadsItem, Meets
  <2>3. Tail(rest) = SubSeq(t, hi + 1, Len(t))
    BY <2>1 DEF rest
  <2>4. Head(rest)[1] = field[1] /\ Head(rest)[2] = r[field[2]]
    BY <2>2
  <2>5. a = W!Reading(Tail(rest), W!Extend(value, field[2], Head(rest)[2]), "ok")
    BY <1>3, <1>7, <2>4, Zenon DEF W!ReadField, rest
  <2>6. a = W!Reading(SubSeq(t, hi + 1, Len(t)), W!Extend(value, field[2], r[field[2]]), "ok")
    BY <2>3, <2>4, <2>5, Zenon
  <2> QED BY <2>1, <2>6
<1>8. CASE rest # <<>> /\ field[1] = "list"
  <2> DEFINE w == field[3]
  <2>1. PICK count \in Nat :
              /\ full[lo + 1] = <<"n2", count>> /\ hi = lo + 1 + count * w
              /\ \A j \in lo + 2 .. hi : full[j][1] = "s16"
              /\ r[field[2]] = [k \in 1 .. count |->
                                  [j \in 1 .. w |-> full[lo + 1 + (k - 1) * w + j][2]]]
    BY <1>8 DEF ReadsItem
  <2>2. w \in {2, 4}
    BY <1>8 DEF ReadsItem
  <2> HIDE DEF w
  <2>3. lo < Len(t) /\ Head(rest) = t[lo + 1] /\ lo + 1 <= hi
    BY <1>1, <1>5, <1>8
  <2>4. Head(rest) = <<"n2", count>>
    BY <2>1, <2>3 DEF Meets
  <2>5. Head(rest)[1] = "n2" /\ Head(rest)[2] = count
    BY <2>4
  <2> DEFINE end == 1 + count * w
             list == [i \in 1 .. count |-> [j \in 1 .. w |-> rest[1 + (i - 1) * w + j][2]]]
  <2>6. a = IF end > Len(rest) THEN W!Reading(<<>>, value, "short")
            ELSE IF \E i \in 2 .. end : rest[i][1] # "s16" THEN W!Reading(rest, value, "garbled")
            ELSE W!Reading(SubSeq(rest, end + 1, Len(rest)), W!Extend(value, field[2], list), "ok")
    <3>1. a = W!ReadList(W!Reading(rest, value, "ok"), field[2], w)
      BY <1>3, <1>8, Zenon DEF W!ReadField, rest, w
    <3> QED BY <3>1, <1>3, <2>5, Zenon DEF W!ReadList
  <2> HIDE DEF list
  <2>7. end \in Nat /\ hi = lo + end
    <3>1. CASE w = 2
      BY <2>1, <3>1
    <3>2. CASE w = 4
      BY <2>1, <3>2
    <3> QED BY <2>2, <3>1, <3>2
  <2> HIDE DEF end
  <2>8. CASE end > Len(rest)
    <3>1. a.result = "short"
      BY <1>4, <2>6, <2>8, Zenon
    <3>2. hi > Len(t)
      BY <1>1, <2>7, <2>8
    <3> QED BY <3>1, <3>2
  <2>9. CASE ~(end > Len(rest))
    <3>1. hi <= Len(t)
      BY <1>1, <2>7, <2>9
    <3>2. ASSUME NEW i \in 2 .. end PROVE rest[i][1] = "s16"
      <4>1. rest[i] = t[lo + i] /\ lo + i \in lo + 2 .. hi /\ lo + i \in 1 .. Len(t)
        BY <1>1, <2>7, <3>1
      <4> QED BY <2>1, <4>1 DEF Meets
    <3>3. a = W!Reading(SubSeq(rest, end + 1, Len(rest)), W!Extend(value, field[2], list), "ok")
      BY <2>6, <2>9, <3>2, Zenon
    <3>4. SubSeq(rest, end + 1, Len(rest)) = SubSeq(t, hi + 1, Len(t))
      BY <2>7, <3>1 DEF rest
    <3>5. ASSUME NEW i \in 1 .. count, NEW j \in 1 .. w
          PROVE  rest[1 + (i - 1) * w + j] = full[lo + 1 + (i - 1) * w + j]
      <4> DEFINE p == 1 + (i - 1) * w + j
      <4>1. p \in 1 .. end /\ lo + 1 + (i - 1) * w + j = lo + p
        BY <2>2 DEF end
      <4> HIDE DEF p
      <4>2. rest[p] = t[lo + p] /\ lo + p \in 1 .. Len(t) /\ lo + p <= hi
        BY <1>1, <2>7, <2>9, <3>1, <4>1
      <4>3. rest[p] = full[lo + p]
        BY <4>2 DEF Meets
      <4> QED BY <4>1, <4>3 DEF p
    <3>6. list = r[field[2]]
      <4> DEFINE A(i) == [j \in 1 .. w |-> rest[1 + (i - 1) * w + j][2]]
                 B(i) == [j \in 1 .. w |-> full[lo + 1 + (i - 1) * w + j][2]]
      <4>1. ASSUME NEW i \in 1 .. count PROVE A(i) = B(i)
        BY <3>5, Zenon
      <4>2. list = [i \in 1 .. count |-> A(i)] /\ r[field[2]] = [i \in 1 .. count |-> B(i)]
        BY <2>1, Zenon DEF list
      <4> HIDE DEF A, B
      <4> QED BY <4>1, <4>2, Zenon
    <3> QED BY <3>1, <3>3, <3>4, <3>6
  <2> QED BY <2>8, <2>9
<1> QED BY <1>6, <1>7, <1>8

\* What a layout makes of a message that it fits: its values, and what comes behind
\* it, if it is all there; otherwise the reader waits for the rest.
LEMMA ParseReads ==
  ASSUME NEW F, NEW t \in Seq(F), NEW layout, Len(layout) \in Nat, DOMAIN layout = 1 .. Len(layout), NEW full, Len(full) \in Nat, NEW pos, NEW r,
         Fits(layout, full, pos, r), Meets(t, full, Len(full)),
         NEW p, p = W!Parse(layout, t)
  PROVE  IF Len(full) <= Len(t)
         THEN /\ p.result = "ok" /\ p.rest = SubSeq(t, Len(full) + 1, Len(t))
              /\ DOMAIN p.value = {layout[i][2] : i \in 1 .. Len(layout)}
              /\ \A i \in 1 .. Len(layout) : p.value[layout[i][2]] = r[layout[i][2]]
         ELSE p.result = "short"
<1> DEFINE n == Len(layout)
           Names(i) == {layout[k][2] : k \in 1 .. i}
           Good(i, s) ==
             IF pos[i] <= Len(t)
             THEN \E value : /\ s = W!Reading(SubSeq(t, pos[i] + 1, Len(t)), value, "ok")
                             /\ DOMAIN value = Names(i) /\ \A x \in Names(i) : value[x] = r[x]
             ELSE s.result = "short"
<1>1. n \in Nat /\ DOMAIN layout = 1 .. n
  OBVIOUS
<1>2. \E a : Steps(a, n, layout, t)
  <2> HIDE DEF n
  <2> QED BY <1>1, ParseSteps, Zenon
<1>2a. PICK a : Steps(a, n, layout, t)
  BY <1>2, Zenon
<1>2b. /\ a[0] = W!Reading(t, <<>>, "ok")
       /\ \A i \in 1 .. n : a[i] = W!ReadField(a[i - 1], layout[i])
       /\ W!Parse(layout, t) = a[n]
  BY <1>2a, Zenon DEF Steps
<1>3. pos[0] = 0 /\ pos[n] = Len(full)
  BY DEF Fits
<1>4. ASSUME NEW i \in 1 .. n
      PROVE  /\ pos[i - 1] \in Nat /\ pos[i] \in Nat /\ pos[i] <= Len(full) /\ pos[i - 1] < pos[i]
             /\ ReadsItem(layout[i], full, pos[i - 1], pos[i], r)
  <2>1. pos[i - 1] \in Nat /\ pos[i] \in 0 .. Len(full) /\ ReadsItem(layout[i], full, pos[i - 1], pos[i], r)
    BY Zenon DEF Fits, n
  <2>2. pos[i - 1] \in Nat /\ pos[i] \in Nat /\ pos[i] <= Len(full)
    BY <2>1
  <2> QED BY <2>1, <2>2, ItemIsSome
<1> HIDE DEF n
<1> DEFINE L == {i \in Nat : i <= n => Good(i, a[i])}
<1>5. Nat \subseteq L
  <2>1. 0 \in L
    <3>1. a[0] = W!Reading(SubSeq(t, 0 + 1, Len(t)), <<>>, "ok")
      <4>1. SubSeq(t, 0 + 1, Len(t)) = t
        OBVIOUS
      <4> QED BY <1>2b, <4>1
    <3>2. DOMAIN <<>> = {} /\ Names(0) = {}
      OBVIOUS
    <3>3. pos[0] = 0 /\ 0 <= Len(t) /\ 0 \in Nat
      BY <1>3
    <3> HIDE DEF Names
    <3>4. Good(0, a[0])
      BY <3>1, <3>2, <3>3, Zenon
    <3> QED BY <3>4
  <2>2. ASSUME NEW i \in Nat, i \in L PROVE i + 1 \in L
    <3> SUFFICES ASSUME i + 1 <= n PROVE Good(i + 1, a[i + 1])
      <4> HIDE DEF Good
      <4> QED OBVIOUS
    <3> DEFINE m == i + 1
               field == layout[m]
    <3>1. m \in 1 .. n /\ m - 1 = i /\ i <= n
      BY <1>1
    <3>2. /\ pos[i] \in Nat /\ pos[m] \in Nat /\ pos[m] <= Len(full) /\ pos[i] < pos[m]
          /\ ReadsItem(field, full, pos[i], pos[m], r)
      BY <1>4, <3>1, Zenon
    <3>3. a[m] = W!ReadField(a[i], field)
      BY <1>2b, <3>1, Zenon
    <3>4. Good(i, a[i])
      BY <2>2, <3>1
    <3>5. Len(t) \in Nat
      OBVIOUS
    <3>6. Names(m) = Names(i) \cup {field[2]}
      <4>1. 1 .. m = (1 .. i) \cup {m}
        OBVIOUS
      <4> HIDE DEF m
      <4> QED BY <4>1, Zenon
    <3> HIDE DEF m, field, Names
    <3>7. CASE pos[i] <= Len(t)
      <4>1. PICK value : /\ a[i] = W!Reading(SubSeq(t, pos[i] + 1, Len(t)), value, "ok")
                         /\ DOMAIN value = Names(i) /\ \A x \in Names(i) : value[x] = r[x]
        BY <3>4, <3>7, Zenon
      <4> DEFINE grown == W!Extend(value, field[2], r[field[2]])
      <4>2. Meets(t, full, pos[m])
        BY <3>2, <3>5 DEF Meets
      <4>3. IF pos[m] <= Len(t)
            THEN a[m] = W!Reading(SubSeq(t, pos[m] + 1, Len(t)), grown, "ok")
            ELSE a[m].result = "short"
        <5>1. a[m] = W!ReadField(W!Reading(SubSeq(t, pos[i] + 1, Len(t)), value, "ok"), field)
          BY <3>3, <4>1, Zenon
        <5> HIDE DEF grown
        <5> QED BY <3>2, <3>7, <4>2, <5>1, ItemRead DEF grown
      <4>4. DOMAIN grown = Names(m)
        BY <3>6, <4>1, Zenon DEF W!Extend
      <4>5. \A x \in Names(m) : grown[x] = r[x]
        BY <3>6, <4>1, Zenon DEF W!Extend
      <4> HIDE DEF grown
      <4> QED BY <4>3, <4>4, <4>5, Zenon DEF m
    <3>8. CASE ~(pos[i] <= Len(t))
      <4>1. a[i].result = "short"
        BY <3>4, <3>8, Zenon
      <4>2. a[m] = a[i]
        BY <3>3, <4>1 DEF W!ReadField
      <4>3. ~(pos[m] <= Len(t))
        BY <3>2, <3>5, <3>8
      <4> QED BY <4>1, <4>2, <4>3, Zenon DEF m
    <3> QED BY <3>7, <3>8
  <2> HIDE DEF L
  <2> QED BY <2>1, <2>2, NumberInduction
<1>6. Good(n, a[n])
  <2> HIDE DEF Good
  <2>1. n \in L /\ n <= n
    BY <1>1, <1>5
  <2> QED BY <2>1
<1>7. CASE Len(full) <= Len(t)
  <2> HIDE DEF Names
  <2>1. PICK value : /\ p = W!Reading(SubSeq(t, Len(full) + 1, Len(t)), value, "ok")
                     /\ DOMAIN value = Names(n) /\ \A x \in Names(n) : value[x] = r[x]
    BY <1>2b, <1>3, <1>6, <1>7, Zenon
  <2>2. p.result = "ok" /\ p.rest = SubSeq(t, Len(full) + 1, Len(t)) /\ p.value = value
    BY <2>1 DEF W!Reading
  <2>3. Names(n) = {layout[i][2] : i \in 1 .. Len(layout)}
    BY Zenon DEF n, Names
  <2>4. \A i \in 1 .. Len(layout) : layout[i][2] \in Names(n)
    BY Zenon DEF n, Names
  <2> QED BY <1>7, <2>1, <2>2, <2>3, <2>4, Zenon
<1>8. CASE ~(Len(full) <= Len(t))
  BY <1>2b, <1>3, <1>6, <1>8
<1> QED BY <1>7, <1>8


\* Values of fields, and fields.
Text == {"key", "path", "peer", "dek", "ownerPub", "ownerEdPub", "signature", "size", "recipientPub",
         "wrappedDEK", "length", "message", "ok", "error", "json", "tid", "progress", "completed", "total",
         "fileIdx", "fileTotal", "chunkIdx", "chunkTotal", "isDirectory", "content", "fp", "x25519",
         "ed25519", "addr"}
Value == BOOLEAN \cup Text \cup Nat
Kind == {"n1", "n2", "n4", "n8", "s16", "raw"}
Field == Kind \X Value

LEMMA FieldIs ==
  \A v \in Value : /\ <<"n1", v>> \in Field /\ <<"n2", v>> \in Field /\ <<"n4", v>> \in Field
                   /\ <<"n8", v>> \in Field /\ <<"s16", v>> \in Field /\ <<"raw", v>> \in Field
<1>1. \A k \in Kind, v \in Value : <<k, v>> \in Field
  BY Zenon DEF Field
<1>2. /\ "n1" \in Kind /\ "n2" \in Kind /\ "n4" \in Kind /\ "n8" \in Kind
      /\ "s16" \in Kind /\ "raw" \in Kind
  BY DEF Kind
<1> QED BY <1>1, <1>2, Zenon

LEMMA Joined ==
  ASSUME NEW F, NEW a \in Seq(F), NEW b \in Seq(F)
  PROVE  a \o b = [j \in 1 .. Len(a) + Len(b) |-> IF j <= Len(a) THEN a[j] ELSE b[j - Len(a)]]
<1> DEFINE c == a \o b
<1>1. c \in Seq(F) /\ Len(c) = Len(a) + Len(b)
  OBVIOUS
<1>2. \A j \in 1 .. Len(a) + Len(b) : c[j] = IF j <= Len(a) THEN a[j] ELSE b[j - Len(a)]
  OBVIOUS
<1>3. c = [j \in 1 .. Len(c) |-> c[j]]
  <2> HIDE DEF c
  <2> QED BY <1>1
<1> HIDE DEF c
<1>4. c = [j \in 1 .. Len(a) + Len(b) |-> IF j <= Len(a) THEN a[j] ELSE b[j - Len(a)]]
  BY <1>1, <1>2, <1>3, Zenon
<1> QED BY <1>4, Zenon DEF c

LEMMA Prepended ==
  ASSUME NEW F, NEW x \in F, NEW h \in Seq(F), NEW l, l = <<x>> \o h
  PROVE  /\ l \in Seq(F) /\ Len(l) = 1 + Len(h) /\ l[1] = x
         /\ \A j \in 1 .. Len(h) : l[j + 1] = h[j]
OBVIOUS

LEMMA Listed ==
  ASSUME NEW F, NEW n \in Nat, NEW f \in [1 .. n -> F]
  PROVE  f \in Seq(F) /\ Len(f) = n
OBVIOUS

\* Copies of one entry, and the copies laid end to end.
Copies(n, e) == [i \in 1 .. n |-> e]
Laid(n, w, e) == [j \in 1 .. n * w |-> e[((j - 1) % w) + 1]]

LEMMA FlattenCopies ==
  ASSUME NEW n \in Nat, NEW w \in {2, 4}, NEW e \in Seq(Text), Len(e) = w
  PROVE  W!FlattenSeq(Copies(n, e)) = Laid(n, w, e)
<1> DEFINE s == Copies(n, e)
           g == [i \in 1 .. n |-> [j \in 1 .. i * w |-> e[((j - 1) % w) + 1]]]
           Rec(G) == G = [i \in 1 .. n |-> IF i = 1 THEN s[i] ELSE G[i - 1] \o s[i]]
<1>1. Len(s) = n /\ s = [i \in 1 .. n |-> e] /\ \A i \in 1 .. n : s[i] = e
  BY DEF Copies
<1> HIDE DEF s
<1>2. /\ \A j \in 1 .. w : ((j - 1) % w) + 1 = j
      /\ \A j \in Nat : j >= 1 => ((j - 1) % w) + 1 \in 1 .. w
      /\ \A i \in Nat : i >= 1 => /\ (i - 1) * w \in Nat /\ i * w = (i - 1) * w + w
                                  /\ \A j \in (i - 1) * w + 1 .. i * w : ((j - 1) % w) + 1 = j - (i - 1) * w
  <2>1. CASE w = 2
    BY <2>1
  <2>2. CASE w = 4
    BY <2>2
  <2> QED BY <2>1, <2>2
<1>3. ASSUME NEW i \in 1 .. n, i # 1
      PROVE  g[i] = g[i - 1] \o s[i]
  <2> DEFINE a == g[i - 1]
  <2>1. /\ i - 1 \in 1 .. n /\ i \in Nat /\ i >= 1 /\ s[i] = e
    BY <1>1, <1>3
  <2>2. (i - 1) * w \in Nat /\ i * w = (i - 1) * w + w
    BY <1>2, <2>1
  <2>3. a = [j \in 1 .. (i - 1) * w |-> e[((j - 1) % w) + 1]]
    BY <2>1
  <2>4. a \in Seq(Text) /\ Len(a) = (i - 1) * w
    <3>1. \A q \in 1 .. w : e[q] \in Text
      OBVIOUS
    <3>2. \A j \in 1 .. (i - 1) * w : j \in Nat /\ j >= 1
      BY <2>2
    <3>3. a \in [1 .. (i - 1) * w -> Text]
      <4>1. \A j \in 1 .. (i - 1) * w : e[((j - 1) % w) + 1] \in Text
        BY <1>2, <3>1, <3>2, Zenon
      <4> QED BY <2>3, <4>1, Zenon
    <3> DEFINE N == (i - 1) * w
    <3>4. N \in Nat /\ a \in [1 .. N -> Text]
      BY <2>2, <3>3, Zenon
    <3> HIDE DEF N
    <3>5. a \in Seq(Text) /\ Len(a) = N
      BY <3>4, Listed
    <3> QED BY <3>5, Zenon DEF N
  <2> HIDE DEF a
  <2>5. a \o e = [j \in 1 .. i * w |-> IF j <= (i - 1) * w THEN a[j] ELSE e[j - (i - 1) * w]]
    <3>1. a \o e = [j \in 1 .. Len(a) + Len(e) |-> IF j <= Len(a) THEN a[j] ELSE e[j - Len(a)]]
      BY <2>4, Joined, Zenon
    <3> QED BY <2>2, <2>4, <3>1, Zenon
  <2>6. \A j \in 1 .. i * w :
          (IF j <= (i - 1) * w THEN a[j] ELSE e[j - (i - 1) * w]) = e[((j - 1) % w) + 1]
    <3> SUFFICES ASSUME NEW j \in 1 .. i * w
                 PROVE  (IF j <= (i - 1) * w THEN a[j] ELSE e[j - (i - 1) * w]) = e[((j - 1) % w) + 1]
      OBVIOUS
    <3>1. CASE j <= (i - 1) * w
      <4>1. j \in 1 .. (i - 1) * w
        BY <2>2, <3>1
      <4> QED BY <2>3, <3>1, <4>1, Zenon
    <3>2. CASE ~(j <= (i - 1) * w)
      <4>1. j \in (i - 1) * w + 1 .. i * w
        BY <2>2, <3>2
      <4>2. ((j - 1) % w) + 1 = j - (i - 1) * w
        BY <1>2, <2>1, <4>1, Zenon
      <4> QED BY <3>2, <4>2, Zenon
    <3> QED BY <3>1, <3>2
  <2>7. g[i] = [j \in 1 .. i * w |-> e[((j - 1) % w) + 1]]
    BY <2>1
  <2>8. a \o e = g[i]
    BY <2>5, <2>6, <2>7, Zenon
  <2> QED BY <2>1, <2>8, Zenon DEF a
<1>4. n >= 1 => g[1] = e
  <2> SUFFICES ASSUME n >= 1 PROVE g[1] = e
    OBVIOUS
  <2>1. g[1] = [j \in 1 .. 1 * w |-> e[((j - 1) % w) + 1]] /\ 1 * w = w
    OBVIOUS
  <2>2. e = [j \in 1 .. w |-> e[j]]
    OBVIOUS
  <2> HIDE DEF g
  <2> QED BY <1>2, <2>1, <2>2, Zenon
<1>5. Rec(g)
  <2>1. \A i \in 1 .. n : g[i] = IF i = 1 THEN s[i] ELSE g[i - 1] \o s[i]
    <3> HIDE DEF g
    <3> SUFFICES ASSUME NEW i \in 1 .. n PROVE g[i] = IF i = 1 THEN s[i] ELSE g[i - 1] \o s[i]
      OBVIOUS
    <3>1. CASE i = 1
      <4>1. n >= 1
        BY <3>1
      <4> QED BY <1>1, <1>4, <3>1, <4>1, Zenon
    <3>2. CASE i # 1
      BY <1>3, <3>2, Zenon
    <3> QED BY <3>1, <3>2, Zenon
  <2>2. g = [i \in 1 .. n |-> g[i]]
    BY Zenon
  <2> HIDE DEF g
  <2> QED BY <2>1, <2>2, Zenon
<1>6. ASSUME NEW G, Rec(G) PROVE \A i \in 1 .. n : G[i] = g[i]
  <2> DEFINE L == {i \in Nat : i + 1 \in 1 .. n => G[i + 1] = g[i + 1]}
  <2> HIDE DEF g
  <2>1. 0 \in L
    BY <1>1, <1>4, <1>6
  <2>2. ASSUME NEW i \in Nat, i \in L PROVE i + 1 \in L
    <3> SUFFICES ASSUME (i + 1) + 1 \in 1 .. n PROVE G[(i + 1) + 1] = g[(i + 1) + 1]
      OBVIOUS
    <3> DEFINE m == (i + 1) + 1
    <3>1. i + 1 \in 1 .. n /\ m - 1 = i + 1 /\ m # 1 /\ m \in 1 .. n
      OBVIOUS
    <3>2. G[i + 1] = g[i + 1]
      BY <2>2, <3>1
    <3> HIDE DEF m
    <3>3. G[m] = G[m - 1] \o s[m]
      BY <1>6, <3>1, Zenon
    <3>4. g[m] = g[m - 1] \o s[m]
      BY <1>3, <3>1, Zenon
    <3> QED BY <3>1, <3>2, <3>3, <3>4, Zenon DEF m
  <2>3. Nat \subseteq L
    <3> HIDE DEF L
    <3> QED BY <2>1, <2>2, NumberInduction
  <2> SUFFICES ASSUME NEW i \in 1 .. n PROVE G[i] = g[i]
    OBVIOUS
  <2>4. i - 1 \in Nat /\ (i - 1) + 1 = i
    OBVIOUS
  <2>5. i - 1 \in L
    <3> HIDE DEF L
    <3> QED BY <2>3, <2>4
  <2> QED BY <2>4, <2>5, Zenon
<1>7. CASE n = 0
  <2>1. W!FlattenSeq(s) = s
    BY <1>1, <1>7 DEF W!FlattenSeq
  <2>2. 1 .. n * w = 1 .. n /\ 1 .. n = {}
    <3>1. n * w = 0
      BY <1>7
    <3> QED BY <1>7, <3>1
  <2>3. s = [j \in 1 .. n * w |-> e[((j - 1) % w) + 1]]
    BY <1>1, <2>2
  <2> QED BY <2>1, <2>3, Zenon DEF Laid, s
<1>8. CASE n # 0
  <2> DEFINE G == CHOOSE H : Rec(H)
  <2>1. Rec(G)
    <3> HIDE DEF g, Rec
    <3> QED BY <1>5, Zenon
  <2>2. W!FlattenSeq(s) = G[n]
    <3> HIDE DEF g
    <3> QED BY <1>1, <1>8, Zenon DEF W!FlattenSeq
  <2>3. n \in 1 .. n
    BY <1>8
  <2>4. G[n] = g[n]
    <3> HIDE DEF g, G
    <3> QED BY <1>6, <2>1, <2>3
  <2> HIDE DEF G
  <2>5. g[n] = [j \in 1 .. n * w |-> e[((j - 1) % w) + 1]]
    BY <2>3
  <2> QED BY <2>2, <2>4, <2>5, Zenon DEF Laid, s
<1> QED BY <1>7, <1>8 DEF Laid, s

\* l is a list of the n entries of s, of w fields each.
IsListOf(l, s, n, w) ==
  /\ l \in Seq(Field) /\ Len(l) = 1 + n * w /\ l[1] = <<"n2", n>>
  /\ \A j \in 2 .. 1 + n * w : l[j][1] = "s16"
  /\ s = [k \in 1 .. n |-> [j \in 1 .. w |-> l[1 + (k - 1) * w + j][2]]]

\* The list of copies.
LEMMA ListOfCopies ==
  ASSUME NEW n \in Nat, NEW w \in {2, 4}, NEW e \in Seq(Text), Len(e) = w,
         NEW s, s = Copies(n, e), NEW l, l = W!List(s)
  PROVE  IsListOf(l, s, n, w)
<1> DEFINE f == [j \in 1 .. n * w |-> e[((j - 1) % w) + 1]]
           h == [j \in 1 .. n * w |-> <<"s16", e[((j - 1) % w) + 1]>>]
<1>1. Len(s) = n /\ s = [i \in 1 .. n |-> e]
  BY DEF Copies
<1>2. W!FlattenSeq(s) = f /\ f = [j \in 1 .. n * w |-> e[((j - 1) % w) + 1]]
  <2>1. f = Laid(n, w, e)
    BY Zenon DEF Laid
  <2> HIDE DEF f, h
  <2>2. W!FlattenSeq(s) = Laid(n, w, e)
    BY FlattenCopies, Zenon
  <2> QED BY <2>1, <2>2, Zenon DEF f
<1>3. n * w \in Nat /\ \A j \in 1 .. n * w : ((j - 1) % w) + 1 \in 1 .. w
  <2>1. CASE w = 2
    BY <2>1
  <2>2. CASE w = 4
    BY <2>2
  <2> QED BY <2>1, <2>2
<1>4. Len(f) = n * w
  BY <1>3
<1>5. l = <<<<"n2", n>>>> \o h
  <2>1. l = <<<<"n2", Len(s)>>>> \o [i \in 1 .. Len(f) |-> <<"s16", f[i]>>]
    <3> HIDE DEF f
    <3> QED BY <1>2, Zenon DEF W!List, W!S16
  <2>2. \A i \in 1 .. n * w : f[i] = e[((i - 1) % w) + 1]
    BY Zenon
  <2>3. [i \in 1 .. Len(f) |-> <<"s16", f[i]>>] = h
    <3> HIDE DEF f
    <3> QED BY <1>4, <2>2, Zenon
  <2> QED BY <1>1, <2>1, <2>3, Zenon
<1>6. \A j \in 1 .. n * w : e[((j - 1) % w) + 1] \in Text
  BY <1>3
<1>7. h \in Seq(Field) /\ Len(h) = n * w
  <2>1. \A v \in Text : <<"s16", v>> \in Field
    BY FieldIs, Zenon DEF Value
  <2>2. h \in [1 .. n * w -> Field]
    BY <1>6, <2>1, Zenon
  <2> DEFINE N == n * w
  <2>3. N \in Nat /\ h \in [1 .. N -> Field]
    BY <1>3, <2>2, Zenon
  <2> HIDE DEF N, h
  <2>4. h \in Seq(Field) /\ Len(h) = N
    BY <2>3, Listed
  <2> QED BY <2>4, Zenon DEF N
<1>8. <<<<"n2", n>>>> \in Seq(Field)
  <2>1. <<"n2", n>> \in Field
    BY FieldIs, Zenon DEF Value
  <2> QED BY <2>1
<1>9. \A j \in 1 .. n * w : h[j] = <<"s16", e[((j - 1) % w) + 1]>>
  BY Zenon
<1> HIDE DEF h
<1>10. /\ l \in Seq(Field) /\ Len(l) = 1 + n * w /\ l[1] = <<"n2", n>>
       /\ \A j \in 1 .. n * w : l[j + 1] = h[j]
  <2>1. <<"n2", n>> \in Field
    BY FieldIs, Zenon DEF Value
  <2>2. /\ l \in Seq(Field) /\ Len(l) = 1 + Len(h) /\ l[1] = <<"n2", n>>
        /\ \A j \in 1 .. Len(h) : l[j + 1] = h[j]
    <3> DEFINE x == <<"n2", n>>
    <3>1. x \in Field /\ l = <<x>> \o h
      BY <1>5, <2>1, Zenon
    <3> HIDE DEF x
    <3>2. /\ l \in Seq(Field) /\ Len(l) = 1 + Len(h) /\ l[1] = x
          /\ \A j \in 1 .. Len(h) : l[j + 1] = h[j]
      BY <1>7, <3>1, Prepended
    <3> QED BY <3>2, Zenon DEF x
  <2> QED BY <1>7, <2>2, Zenon
<1>11. ASSUME NEW j \in 2 .. 1 + n * w PROVE l[j][1] = "s16"
  <2>1. j - 1 \in 1 .. n * w /\ (j - 1) + 1 = j
    BY <1>3
  <2>2. l[j] = h[j - 1]
    BY <1>10, <2>1
  <2> QED BY <1>9, <2>1, <2>2
<1>12. ASSUME NEW k \in 1 .. n, NEW j \in 1 .. w PROVE l[1 + (k - 1) * w + j][2] = e[j]
  <2> DEFINE q == (k - 1) * w + j
  <2>1. q \in 1 .. n * w /\ ((q - 1) % w) + 1 = j /\ 1 + (k - 1) * w + j = q + 1
    <3>1. CASE w = 2
      BY <3>1
    <3>2. CASE w = 4
      BY <3>2
    <3> QED BY <3>1, <3>2
  <2> HIDE DEF q
  <2>2. l[q + 1] = h[q]
    BY <1>10, <2>1, Zenon
  <2>3. h[q] = <<"s16", e[j]>>
    BY <1>9, <2>1, Zenon
  <2> QED BY <2>1, <2>2, <2>3
<1>13. s = [k \in 1 .. n |-> [j \in 1 .. w |-> l[1 + (k - 1) * w + j][2]]]
  <2>1. e = [j \in 1 .. w |-> e[j]]
    OBVIOUS
  <2>0. s = [i \in 1 .. n |-> e]
    BY <1>1
  <2>2. ASSUME NEW k \in 1 .. n PROVE e = [j \in 1 .. w |-> l[1 + (k - 1) * w + j][2]]
    <3>1. \A j \in 1 .. w : l[1 + (k - 1) * w + j][2] = e[j]
      BY <1>12, Zenon
    <3> QED BY <2>1, <3>1, Zenon
  <2> QED BY <2>0, <2>2, Zenon
<1> QED BY <1>10, <1>11, <1>13, Zenon DEF IsListOf

\* The entries of an access list.
Recipient == <<"recipientPub", "wrappedDEK">>

LEMMA RecipientIs == Recipient \in Seq(Text) /\ Len(Recipient) = 2
BY DEF Recipient, Text

LEMMA RequestIs ==
  ASSUME NEW r \in Request
  PROVE  /\ DOMAIN r = {"key", "path", "peer", "dek", "ownerPub", "ownerEdPub", "signature", "size",
                        "public", "access"}
         /\ r["key"] = "key" /\ r["path"] = "path" /\ r["peer"] = "peer" /\ r["dek"] = "dek"
         /\ r["ownerPub"] = "ownerPub" /\ r["ownerEdPub"] = "ownerEdPub"
         /\ r["signature"] = "signature" /\ r["size"] = "size" /\ r["public"] \in BOOLEAN
         /\ \E n \in Nat : r["access"] = Copies(n, Recipient)
<1>1. PICK p \in BOOLEAN, n \in 0 .. MaxAccess :
        r = [key |-> "key", path |-> "path", peer |-> "peer", dek |-> "dek",
             ownerPub |-> "ownerPub", ownerEdPub |-> "ownerEdPub", signature |-> "signature", size |-> "size",
             public |-> p, access |-> [i \in 1 .. n |-> <<"recipientPub", "wrappedDEK">>]]
  BY DEF Request
<1>2. n \in Nat
  BY SessionAssumption
<1>3. r["access"] = Copies(n, Recipient)
  BY <1>1 DEF Copies, Recipient
<1>4. r["public"] \in BOOLEAN
  BY <1>1, Zenon
<1> QED BY <1>1, <1>2, <1>3, <1>4

\* A message of single fields.
LEMMA SinglesFit ==
  ASSUME NEW layout, NEW full, NEW n \in Nat, Len(layout) = n, Len(full) = n, NEW r,
         \A i \in 1 .. n : layout[i][1] # "list" /\ full[i] = <<layout[i][1], r[layout[i][2]]>>
  PROVE  \E pos : Fits(layout, full, pos, r)
<1> DEFINE pos == [i \in 0 .. n |-> i]
<1>1. pos[0] = 0 /\ pos[n] = n /\ \A i \in 1 .. n : pos[i - 1] \in Nat /\ pos[i] \in 0 .. n
  OBVIOUS
<1>2. ASSUME NEW i \in 1 .. n PROVE ReadsItem(layout[i], full, pos[i - 1], pos[i], r)
  <2>1. pos[i] = pos[i - 1] + 1 /\ pos[i] = i
    OBVIOUS
  <2> HIDE DEF pos
  <2> QED BY <2>1 DEF ReadsItem
<1> HIDE DEF pos
<1>3. Fits(layout, full, pos, r)
  BY <1>1, <1>2 DEF Fits
<1> QED BY <1>3, Zenon

\* The layout of a request fits what the client writes, and has no other names.
Matches(layout, full, r) ==
  /\ full \in Seq(Field) /\ Len(layout) \in Nat /\ DOMAIN layout = 1 .. Len(layout)
  /\ \E pos : Fits(layout, full, pos, r)

LEMMA SinglesMatch ==
  ASSUME NEW layout, NEW full \in Seq(Field), NEW n \in Nat, Len(layout) = n, DOMAIN layout = 1 .. n,
         Len(full) = n, NEW r,
         \A i \in 1 .. n : layout[i][1] # "list" /\ full[i] = <<layout[i][1], r[layout[i][2]]>>
  PROVE  Matches(layout, full, r)
BY SinglesFit, Zenon DEF Matches

LEMMA TextFields ==
  \A x \in Text : W!S16(x) \in Field /\ W!N1(x) \in Field /\ W!N8(x) \in Field /\ W!Raw(x) \in Field
BY FieldIs, Zenon DEF Value, W!S16, W!N1, W!N8, W!Raw

LEMMA OtherFields ==
  /\ \A x \in BOOLEAN : W!N1(x) \in Field
  /\ \A x \in Nat : W!N8(x) \in Field
BY FieldIs, Zenon DEF Value, W!N1, W!N8

\* A message with one list, between m and k single fields.
OneList(layout, full, m, k, c, w, name, r) ==
  /\ Len(layout) = m + 1 + k /\ Len(full) = m + 1 + c * w + k
  /\ \A i \in 1 .. m : layout[i][1] # "list" /\ full[i] = <<layout[i][1], r[layout[i][2]]>>
  /\ layout[m + 1] = <<"list", name, w>> /\ full[m + 1] = <<"n2", c>>
  /\ \A j \in m + 2 .. m + 1 + c * w : full[j][1] = "s16"
  /\ r[name] = [i \in 1 .. c |-> [j \in 1 .. w |-> full[m + 1 + (i - 1) * w + j][2]]]
  /\ \A i \in 1 .. k : /\ layout[m + 1 + i][1] # "list"
                        /\ full[m + 1 + c * w + i] = <<layout[m + 1 + i][1], r[layout[m + 1 + i][2]]>>

LEMMA OneListFits ==
  ASSUME NEW m \in Nat, NEW k \in Nat, NEW c \in Nat, NEW w \in {2, 4}, NEW r, NEW name,
         NEW layout, NEW full, OneList(layout, full, m, k, c, w, name, r)
  PROVE  \E pos : Fits(layout, full, pos, r)
<1> USE DEF OneList
<1> DEFINE e == m + 1 + c * w
           pos == [i \in 0 .. m + 1 + k |-> IF i <= m THEN i ELSE e + (i - (m + 1))]
<1>1. e \in Nat /\ e > m
  <2>1. CASE w = 2
    BY <2>1
  <2>2. CASE w = 4
    BY <2>2
  <2> QED BY <2>1, <2>2
<1> HIDE DEF e
<1>2. Len(full) = e + k
  BY <1>1 DEF e
<1>3. pos[0] = 0 /\ pos[m + 1 + k] = e + k
  BY <1>1
<1>4. ASSUME NEW i \in 1 .. m + 1 + k
      PROVE  /\ pos[i - 1] \in Nat /\ pos[i] \in 0 .. e + k
             /\ ReadsItem(layout[i], full, pos[i - 1], pos[i], r)
  <2>1. pos[i - 1] \in Nat /\ pos[i] \in 0 .. e + k
    <3>1. i - 1 \in 0 .. m + 1 + k /\ i \in 0 .. m + 1 + k
      OBVIOUS
    <3>2. CASE i <= m
      BY <1>1, <3>1, <3>2
    <3>3. CASE i = m + 1
      BY <1>1, <3>1, <3>3
    <3>4. CASE i > m + 1
      BY <1>1, <3>1, <3>4
    <3> QED BY <3>2, <3>3, <3>4
  <2>2. CASE i <= m
    <3>0. i - 1 \in 0 .. m + 1 + k /\ i \in 0 .. m + 1 + k /\ i - 1 <= m
      BY <2>2
    <3>1. pos[i] = i /\ pos[i] = pos[i - 1] + 1 /\ i \in 1 .. m
      BY <2>2, <3>0
    <3> HIDE DEF pos
    <3> QED BY <2>1, <3>1 DEF ReadsItem
  <2>3. CASE i = m + 1
    <3>1. pos[i - 1] = m /\ pos[i] = e
      BY <1>1, <2>3
    <3>2. layout[i][1] = "list" /\ layout[i][2] = name /\ layout[i][3] = w
      BY <2>3
    <3>3. /\ full[m + 1] = <<"n2", c>> /\ e = m + 1 + c * w
          /\ \A j \in m + 2 .. e : full[j][1] = "s16"
          /\ r[name] = [x \in 1 .. c |-> [j \in 1 .. w |-> full[m + 1 + (x - 1) * w + j][2]]]
      BY Zenon DEF e
    <3> DEFINE f == layout[i]
    <3>4. ReadsItem(f, full, m, e, r)
      <4>1. f[1] = "list" /\ f[2] = name /\ f[3] = w
        BY <3>2
      <4>2. w \in {2, 4}
        OBVIOUS
      <4> HIDE DEF f
      <4>3. \E x \in Nat :
              /\ full[m + 1] = <<"n2", x>> /\ e = m + 1 + x * f[3]
              /\ \A j \in m + 2 .. e : full[j][1] = "s16"
              /\ r[f[2]] = [q \in 1 .. x |-> [j \in 1 .. f[3] |-> full[m + 1 + (q - 1) * f[3] + j][2]]]
        <5> WITNESS c \in Nat
        <5> QED BY <3>3, <4>1, Zenon
      <4> QED BY <4>1, <4>2, <4>3, Zenon DEF ReadsItem
    <3> HIDE DEF pos
    <3> QED BY <2>1, <3>1, <3>4, Zenon
  <2>4. CASE i > m + 1
    <3> DEFINE x == i - (m + 1)
    <3>1. x \in 1 .. k /\ m + 1 + x = i /\ pos[i] = e + x /\ pos[i - 1] + 1 = e + x
      BY <1>1, <2>4
    <3> HIDE DEF pos, x
    <3>2. layout[i][1] # "list" /\ full[e + x] = <<layout[i][1], r[layout[i][2]]>>
      BY <3>1, Zenon DEF e
    <3> QED BY <2>1, <3>1, <3>2, Zenon DEF ReadsItem
  <2> QED BY <2>2, <2>3, <2>4
<1> HIDE DEF pos
<1>5. Fits(layout, full, pos, r)
  BY <1>2, <1>3, <1>4 DEF Fits
<1> QED BY <1>5, Zenon

LEMMA Stretched ==
  ASSUME NEW a \in Seq(Field), NEW l \in Seq(Field), NEW b \in Seq(Field), NEW f, f = a \o l \o b
  PROVE  /\ f \in Seq(Field) /\ Len(f) = Len(a) + Len(l) + Len(b)
         /\ \A i \in 1 .. Len(a) : f[i] = a[i]
         /\ \A i \in 1 .. Len(l) : f[Len(a) + i] = l[i]
         /\ \A i \in 1 .. Len(b) : f[Len(a) + Len(l) + i] = b[i]
OBVIOUS

\* What is around the list of a layout is read from a and b.
Around(layout, a, b, w, name, r) ==
  /\ a \in Seq(Field) /\ b \in Seq(Field)
  /\ Len(layout) = Len(a) + 1 + Len(b) /\ DOMAIN layout = 1 .. Len(layout)
  /\ layout[Len(a) + 1] = <<"list", name, w>>
  /\ \A i \in 1 .. Len(a) : layout[i][1] # "list" /\ a[i] = <<layout[i][1], r[layout[i][2]]>>
  /\ \A i \in 1 .. Len(b) : /\ layout[Len(a) + 1 + i][1] # "list"
                             /\ b[i] = <<layout[Len(a) + 1 + i][1], r[layout[Len(a) + 1 + i][2]]>>

\* What surrounds a list of copies.
LEMMA OneListMatches ==
  ASSUME NEW c \in Nat, NEW w \in {2, 4}, NEW e \in Seq(Text), Len(e) = w,
         NEW r, NEW name, r[name] = Copies(c, e),
         NEW a, NEW b, NEW layout, Around(layout, a, b, w, name, r),
         NEW full, full = a \o W!List(Copies(c, e)) \o b
  PROVE  Matches(layout, full, r)
<1> USE DEF Around
<1> DEFINE l == W!List(Copies(c, e))
           m == Len(a)
           k == Len(b)
<1>1. /\ l \in Seq(Field) /\ Len(l) = 1 + c * w /\ l[1] = <<"n2", c>>
      /\ \A j \in 2 .. 1 + c * w : l[j][1] = "s16"
      /\ Copies(c, e) = [x \in 1 .. c |-> [j \in 1 .. w |-> l[1 + (x - 1) * w + j][2]]]
  <2> DEFINE s == Copies(c, e)
  <2>1. s = Copies(c, e) /\ l = W!List(s)
    OBVIOUS
  <2> HIDE DEF s, l
  <2>2. IsListOf(l, s, c, w)
    BY <2>1, ListOfCopies
  <2> QED BY <2>1, <2>2, Zenon DEF IsListOf
<1>2. m \in Nat /\ k \in Nat
  OBVIOUS
<1>3. c * w \in Nat /\ \A x \in 1 .. c, j \in 1 .. w : 1 + (x - 1) * w + j \in 1 .. 1 + c * w
  <2>1. CASE w = 2
    BY <2>1
  <2>2. CASE w = 4
    BY <2>2
  <2> QED BY <2>1, <2>2
<1>4. full = a \o l \o b
  OBVIOUS
<1> HIDE DEF l, m, k
<1>5. /\ full \in Seq(Field) /\ Len(full) = m + Len(l) + k
      /\ \A i \in 1 .. m : full[i] = a[i]
      /\ \A i \in 1 .. Len(l) : full[m + i] = l[i]
      /\ \A i \in 1 .. k : full[m + Len(l) + i] = b[i]
  <2>1. a \in Seq(Field) /\ l \in Seq(Field) /\ b \in Seq(Field) /\ full = a \o l \o b
    BY <1>1, <1>4
  <2>2. /\ full \in Seq(Field) /\ Len(full) = Len(a) + Len(l) + Len(b)
        /\ \A i \in 1 .. Len(a) : full[i] = a[i]
        /\ \A i \in 1 .. Len(l) : full[Len(a) + i] = l[i]
        /\ \A i \in 1 .. Len(b) : full[Len(a) + Len(l) + i] = b[i]
    BY ONLY <2>1, Stretched
  <2> QED BY <2>2, Zenon DEF m, k
<1> DEFINE cw == c * w
<1>6. Len(full) = m + 1 + cw + k
  <2> HIDE DEF cw
  <2>1. cw \in Nat /\ Len(l) = 1 + cw
    BY <1>1, <1>3 DEF cw
  <2> QED BY <1>2, <1>5, <2>1
<1>7. full[m + 1] = <<"n2", c>>
  <2>1. 1 \in 1 .. Len(l)
    BY <1>1, <1>3
  <2> QED BY <1>1, <1>5, <2>1, Zenon
<1>8. ASSUME NEW j \in m + 2 .. m + 1 + cw PROVE full[j][1] = "s16"
  <2>1. j - m \in 2 .. 1 + cw /\ m + (j - m) = j /\ j - m \in 1 .. 1 + cw
    <3> HIDE DEF cw
    <3>1. cw \in Nat
      BY <1>3 DEF cw
    <3> QED BY <1>2, <3>1
  <2>2. full[m + (j - m)] = l[j - m]
    BY <1>1, <1>5, <2>1, Zenon
  <2>3. l[j - m][1] = "s16"
    BY <1>1, <2>1, Zenon
  <2> QED BY <2>1, <2>2, <2>3
<1>9. ASSUME NEW x \in 1 .. c, NEW j \in 1 .. w
      PROVE  full[m + 1 + (x - 1) * w + j] = l[1 + (x - 1) * w + j]
  <2> DEFINE q == 1 + (x - 1) * w + j
  <2>1. q \in 1 .. Len(l) /\ m + q = m + 1 + (x - 1) * w + j
    <3>1. CASE w = 2
      BY <1>1, <1>2, <1>3, <3>1
    <3>2. CASE w = 4
      BY <1>1, <1>2, <1>3, <3>2
    <3> QED BY <3>1, <3>2
  <2> HIDE DEF q
  <2>2. full[m + q] = l[q]
    BY <1>5, <2>1, Zenon
  <2> QED BY <2>1, <2>2 DEF q
<1>10. r[name] = [i \in 1 .. c |-> [j \in 1 .. w |-> full[m + 1 + (i - 1) * w + j][2]]]
  <2> DEFINE A(i) == [j \in 1 .. w |-> full[m + 1 + (i - 1) * w + j][2]]
             B(i) == [j \in 1 .. w |-> l[1 + (i - 1) * w + j][2]]
  <2>1. ASSUME NEW i \in 1 .. c PROVE A(i) = B(i)
    BY <1>9, Zenon
  <2>2. r[name] = [i \in 1 .. c |-> B(i)]
    BY <1>1, Zenon
  <2> HIDE DEF A, B
  <2>3. r[name] = [i \in 1 .. c |-> A(i)]
    BY <2>1, <2>2, Zenon
  <2> QED BY <2>3, Zenon DEF A
<1>11. \A i \in 1 .. k : full[m + 1 + cw + i] = b[i]
  <2> HIDE DEF cw
  <2>1. cw \in Nat /\ Len(l) = 1 + cw
    BY <1>1, <1>3 DEF cw
  <2>2. m + Len(l) = m + 1 + cw
    BY <1>2, <2>1
  <2> QED BY <1>5, <2>2, Zenon
<1>12. /\ \A i \in 1 .. m : layout[i][1] # "list" /\ full[i] = <<layout[i][1], r[layout[i][2]]>>
       /\ \A i \in 1 .. k : /\ layout[m + 1 + i][1] # "list"
                            /\ full[m + 1 + cw + i] = <<layout[m + 1 + i][1], r[layout[m + 1 + i][2]]>>
       /\ Len(layout) = m + 1 + k /\ layout[m + 1] = <<"list", name, w>>
  <2> HIDE DEF cw
  <2> QED BY <1>5, <1>11, Zenon DEF m, k
<1>13. \E pos : Fits(layout, full, pos, r)
  <2>1. OneList(layout, full, m, k, c, w, name, r)
    BY <1>6, <1>7, <1>8, <1>10, <1>12, Zenon DEF OneList
  <2> QED BY <1>2, <2>1, OneListFits
<1>14. Len(layout) \in Nat /\ DOMAIN layout = 1 .. Len(layout)
  BY <1>2, <1>12
<1> QED BY <1>5, <1>13, <1>14, Zenon DEF Matches

\* Requests with an access list.
LEMMA ListsMatch ==
  ASSUME NEW r \in Request, op \in {"ecdhDirUpload", "seedECDHUpload"}
  PROVE  /\ Matches(HandleClient, Written(r), r)
         /\ \A i \in 1 .. Len(HandleClient) : HandleClient[i][2] \in DOMAIN r
<1>0. /\ r.key \in Text /\ r.path \in Text /\ r.dek \in Text /\ r.ownerPub \in Text
      /\ r.ownerEdPub \in Text /\ r.signature \in Text /\ r.size \in Text
  BY RequestIs DEF Text
<1>1. /\ W!S16(r.key) \in Field /\ W!S16(r.path) \in Field /\ W!N1(r.public) \in Field
      /\ W!S16(r.ownerPub) \in Field /\ W!S16(r.ownerEdPub) \in Field /\ W!S16(r.signature) \in Field
      /\ W!N8(r.size) \in Field /\ W!Raw(r.dek) \in Field
  BY <1>0, RequestIs, TextFields, OtherFields, Zenon
<1>2. /\ W!S16(r.key) = <<"s16", r["key"]>> /\ W!S16(r.path) = <<"s16", r["path"]>>
      /\ W!N1(r.public) = <<"n1", r["public"]>>
      /\ W!S16(r.ownerPub) = <<"s16", r["ownerPub"]>> /\ W!S16(r.ownerEdPub) = <<"s16", r["ownerEdPub"]>>
      /\ W!S16(r.signature) = <<"s16", r["signature"]>> /\ W!N8(r.size) = <<"n8", r["size"]>>
      /\ W!Raw(r.dek) = <<"raw", r["dek"]>>
  BY Zenon DEF W!S16, W!N1, W!N8, W!Raw
<1>3. PICK c \in Nat : r["access"] = Copies(c, Recipient)
  BY RequestIs, Zenon
<1>3a. r.access = Copies(c, Recipient)
  BY <1>3
<1>4. CASE op = "ecdhDirUpload"
  <2> DEFINE a == <<W!S16(r.key), W!S16(r.path), W!Raw(r.dek), W!S16(r.ownerPub), W!S16(r.ownerEdPub)>>
             b == <<W!S16(r.signature), W!N1(r.public)>>
             layout == W!ReadECDHDirUploadRequest
             full == a \o W!List(Copies(c, Recipient)) \o b
  <2>1. HandleClient = layout /\ Written(r) = full
    <3>1. HandleClient = layout
      BY <1>4, Zenon DEF HandleClient
    <3>2. Written(r) = W!WriteECDHDirUploadRequest(r)
      BY <1>4, Zenon DEF Written
    <3> QED BY <1>3a, <3>1, <3>2, Zenon DEF W!WriteECDHDirUploadRequest
  <2>2. a \in Seq(Field) /\ Len(a) = 5 /\ b \in Seq(Field) /\ Len(b) = 2
    BY <1>1
  <2>3. /\ Len(layout) = 8 /\ DOMAIN layout = 1 .. 8 /\ layout[6] = <<"list", "access", 2>>
        /\ \A i \in 1 .. 5 : layout[i][1] # "list" /\ a[i] = <<layout[i][1], r[layout[i][2]]>>
        /\ \A i \in 1 .. 2 : layout[6 + i][1] # "list" /\ b[i] = <<layout[6 + i][1], r[layout[6 + i][2]]>>
    BY <1>2 DEF W!ReadECDHDirUploadRequest
  <2>4. \A i \in 1 .. 8 : layout[i][2] \in DOMAIN r
    BY RequestIs DEF W!ReadECDHDirUploadRequest
  <2> DEFINE e == Recipient
             name == "access"
             w == 2
  <2>5. w \in {2, 4} /\ e \in Seq(Text) /\ Len(e) = w /\ r[name] = Copies(c, e)
    BY <1>3, RecipientIs
  <2>6. full = a \o W!List(Copies(c, e)) \o b /\ layout[Len(a) + 1] = <<"list", name, w>>
    BY <2>2, <2>3
  <2> HIDE DEF a, b, layout, full, e, name, w
  <2>7. Matches(layout, full, r)
    <3>1. Around(layout, a, b, w, name, r)
      BY <2>2, <2>3, <2>6 DEF Around
    <3> QED BY <2>5, <2>6, <3>1, OneListMatches
  <2> QED BY <2>1, <2>3, <2>4, <2>7
<1>5. CASE op = "seedECDHUpload"
  <2> DEFINE a == <<W!S16(r.key), W!S16(r.path), W!N8(r.size), W!N1(r.public), W!Raw(r.dek), W!S16(r.ownerPub),
                    W!S16(r.ownerEdPub), W!S16(r.signature)>>
             b == <<>>
             layout == W!ReadSeedECDHUploadRequest
             full == a \o W!List(Copies(c, Recipient)) \o b
  <2>1. HandleClient = layout /\ Written(r) = a \o W!List(Copies(c, Recipient))
    <3>1. HandleClient = layout
      BY <1>5, Zenon DEF HandleClient
    <3>2. Written(r) = W!WriteSeedECDHUploadRequest(r)
      BY <1>5, Zenon DEF Written
    <3> QED BY <1>3a, <3>1, <3>2, Zenon DEF W!WriteSeedECDHUploadRequest
  <2>2. a \in Seq(Field) /\ Len(a) = 8 /\ b \in Seq(Field) /\ Len(b) = 0
    BY <1>1
  <2>3. /\ Len(layout) = 9 /\ DOMAIN layout = 1 .. 9 /\ layout[9] = <<"list", "access", 2>>
        /\ \A i \in 1 .. 8 : layout[i][1] # "list" /\ a[i] = <<layout[i][1], r[layout[i][2]]>>
        /\ 1 .. Len(b) = {}
    BY <1>2 DEF W!ReadSeedECDHUploadRequest
  <2>4. \A i \in 1 .. 9 : layout[i][2] \in DOMAIN r
    BY RequestIs DEF W!ReadSeedECDHUploadRequest
  <2> DEFINE e == Recipient
             name == "access"
             w == 2
  <2>5. w \in {2, 4} /\ e \in Seq(Text) /\ Len(e) = w /\ r[name] = Copies(c, e)
    BY <1>3, RecipientIs
  <2>6. full = a \o W!List(Copies(c, e)) \o b /\ layout[Len(a) + 1] = <<"list", name, w>>
    BY <2>2, <2>3
  <2>7. full = a \o W!List(Copies(c, e))
    <3> DEFINE l == W!List(Copies(c, e))
    <3>1. l \in Seq(Field)
      <4> DEFINE s == Copies(c, e)
      <4>1. s = Copies(c, e) /\ l = W!List(s)
        OBVIOUS
      <4> HIDE DEF s, l, e, w
      <4>2. IsListOf(l, s, c, w)
        BY <2>5, <4>1, ListOfCopies
      <4> QED BY <4>2, Zenon DEF IsListOf
    <3> HIDE DEF a, l
    <3> QED BY <2>2, <3>1, <2>6
  <2> HIDE DEF a, b, layout, full, e, name, w
  <2>8. Matches(layout, full, r)
    <3>1. Around(layout, a, b, w, name, r)
      BY <2>2, <2>3, <2>6 DEF Around
    <3> QED BY <2>5, <2>6, <3>1, OneListMatches
  <2> QED BY <2>1, <2>3, <2>4, <2>7, <2>8 DEF e
<1> QED BY <1>4, <1>5

LEMMA RequestMatches ==
  ASSUME NEW r \in Request, op \in Op
  PROVE  /\ Matches(HandleClient, Written(r), r)
         /\ \A i \in 1 .. Len(HandleClient) : HandleClient[i][2] \in DOMAIN r
<1> DEFINE key == W!S16(r.key)
           path == W!S16(r.path)
           dek == W!S16(r.dek)
           peer == W!S16(r.peer)
           size == W!N8(r.size)
           public == W!N1(r.public)
<1>0. /\ r.key \in Text /\ r.path \in Text /\ r.peer \in Text /\ r.dek \in Text /\ r.ownerPub \in Text
      /\ r.ownerEdPub \in Text /\ r.signature \in Text /\ r.size \in Text
  BY RequestIs DEF Text
<1>1. /\ key \in Field /\ path \in Field /\ dek \in Field /\ peer \in Field /\ public \in Field
      /\ W!S16(r.ownerPub) \in Field /\ W!S16(r.ownerEdPub) \in Field /\ W!S16(r.signature) \in Field
      /\ size \in Field /\ W!Raw(r.dek) \in Field
  BY <1>0, RequestIs, TextFields, OtherFields, Zenon
<1>2. /\ key = <<"s16", r["key"]>> /\ path = <<"s16", r["path"]>> /\ dek = <<"s16", r["dek"]>>
      /\ peer = <<"s16", r["peer"]>> /\ public = <<"n1", r["public"]>>
      /\ W!S16(r.ownerPub) = <<"s16", r["ownerPub"]>> /\ W!S16(r.ownerEdPub) = <<"s16", r["ownerEdPub"]>>
      /\ W!S16(r.signature) = <<"s16", r["signature"]>> /\ size = <<"n8", r["size"]>>
      /\ W!Raw(r.dek) = <<"raw", r["dek"]>>
  BY Zenon DEF W!S16, W!N1, W!N8, W!Raw
<1> HIDE DEF key, path, dek, peer, size, public
<1>a. CASE op = "list"
  <2>1. HandleClient = <<>> /\ Written(r) = <<>>
    BY <1>a DEF HandleClient, Written
  <2> DEFINE layout == <<>>
             full == <<>>
  <2>2. full \in Seq(Field) /\ Len(layout) = 0 /\ DOMAIN layout = 1 .. 0 /\ Len(full) = 0 /\ 1 .. 0 = {}
    OBVIOUS
  <2> HIDE DEF layout, full
  <2>4. Matches(layout, full, r)
    BY <2>2, SinglesMatch
  <2> QED BY <2>1, <2>2, <2>4 DEF layout, full
<1>b. CASE op \in {"downloadToFile", "dirDownload"}
  <2> DEFINE layout == <<<<"s16", "key">>, <<"s16", "path">>>>
             full == <<key, path>>
  <2>1. HandleClient = layout /\ Written(r) = full
    BY <1>b DEF HandleClient, Written, W!ReadDownloadToFileRequest, W!WriteDownloadToFileRequest, W!ReadDirDownloadRequest, W!WriteDirDownloadRequest, key, path
  <2>2. /\ full \in Seq(Field) /\ Len(layout) = 2 /\ DOMAIN layout = 1 .. 2 /\ Len(full) = 2
        /\ \A i \in 1 .. 2 : layout[i][1] # "list" /\ full[i] = <<layout[i][1], r[layout[i][2]]>>
    BY <1>1, <1>2
  <2>3. \A i \in 1 .. 2 : layout[i][2] \in DOMAIN r
    BY RequestIs
  <2> HIDE DEF layout, full
  <2>4. Matches(layout, full, r)
    BY <2>2, SinglesMatch
  <2> QED BY <2>1, <2>2, <2>3, <2>4
<1>c. CASE op \in {"ecdhDownloadToFile", "ecdhDirDownload"}
  <2> DEFINE layout == <<<<"s16", "key">>, <<"s16", "path">>, <<"s16", "dek">>>>
             full == <<key, path, dek>>
  <2>1. HandleClient = layout /\ Written(r) = full
    BY <1>c DEF HandleClient, Written, W!ReadECDHDownloadToFileRequest, W!WriteECDHDownloadToFileRequest, W!ReadECDHDirDownloadRequest, W!WriteECDHDirDownloadRequest, key, path, dek
  <2>2. /\ full \in Seq(Field) /\ Len(layout) = 3 /\ DOMAIN layout = 1 .. 3 /\ Len(full) = 3
        /\ \A i \in 1 .. 3 : layout[i][1] # "list" /\ full[i] = <<layout[i][1], r[layout[i][2]]>>
    BY <1>1, <1>2
  <2>3. \A i \in 1 .. 3 : layout[i][2] \in DOMAIN r
    BY RequestIs
  <2> HIDE DEF layout, full
  <2>4. Matches(layout, full, r)
    BY <2>2, SinglesMatch
  <2> QED BY <2>1, <2>2, <2>3, <2>4
<1>d. CASE op = "ecdhDownload"
  <2> DEFINE layout == <<<<"s16", "key">>, <<"s16", "dek">>>>
             full == <<key, dek>>
  <2>1. HandleClient = layout /\ Written(r) = full
    BY <1>d DEF HandleClient, Written, W!ReadECDHDownloadRequest, W!WriteECDHDownloadRequest, key, dek
  <2>2. /\ full \in Seq(Field) /\ Len(layout) = 2 /\ DOMAIN layout = 1 .. 2 /\ Len(full) = 2
        /\ \A i \in 1 .. 2 : layout[i][1] # "list" /\ full[i] = <<layout[i][1], r[layout[i][2]]>>
    BY <1>1, <1>2
  <2>3. \A i \in 1 .. 2 : layout[i][2] \in DOMAIN r
    BY RequestIs
  <2> HIDE DEF layout, full
  <2>4. Matches(layout, full, r)
    BY <2>2, SinglesMatch
  <2> QED BY <2>1, <2>2, <2>3, <2>4
<1>e. CASE op = "sendToPeer"
  <2> DEFINE layout == <<<<"s16", "key">>, <<"s16", "peer">>>>
             full == <<key, peer>>
  <2>1. HandleClient = layout /\ Written(r) = full
    BY <1>e DEF HandleClient, Written, W!ReadSendToPeerRequest, W!WriteSendToPeerRequest, key, peer
  <2>2. /\ full \in Seq(Field) /\ Len(layout) = 2 /\ DOMAIN layout = 1 .. 2 /\ Len(full) = 2
        /\ \A i \in 1 .. 2 : layout[i][1] # "list" /\ full[i] = <<layout[i][1], r[layout[i][2]]>>
    BY <1>1, <1>2
  <2>3. \A i \in 1 .. 2 : layout[i][2] \in DOMAIN r
    BY RequestIs
  <2> HIDE DEF layout, full
  <2>4. Matches(layout, full, r)
    BY <2>2, SinglesMatch
  <2> QED BY <2>1, <2>2, <2>3, <2>4
<1>f. CASE op = "dirUpload"
  <2> DEFINE layout == <<<<"s16", "key">>, <<"s16", "path">>, <<"n1", "public">>>>
             full == <<key, path, public>>
  <2>1. HandleClient = layout /\ Written(r) = full
    BY <1>f DEF HandleClient, Written, W!ReadDirUploadRequest, W!WriteDirUploadRequest, key, path, public
  <2>2. /\ full \in Seq(Field) /\ Len(layout) = 3 /\ DOMAIN layout = 1 .. 3 /\ Len(full) = 3
        /\ \A i \in 1 .. 3 : layout[i][1] # "list" /\ full[i] = <<layout[i][1], r[layout[i][2]]>>
    BY <1>1, <1>2
  <2>3. \A i \in 1 .. 3 : layout[i][2] \in DOMAIN r
    BY RequestIs
  <2> HIDE DEF layout, full
  <2>4. Matches(layout, full, r)
    BY <2>2, SinglesMatch
  <2> QED BY <2>1, <2>2, <2>3, <2>4
<1>g. CASE op = "seedUpload"
  <2> DEFINE layout == <<<<"s16", "key">>, <<"s16", "path">>, <<"n8", "size">>, <<"n1", "public">>>>
             full == <<key, path, size, public>>
  <2>1. HandleClient = layout /\ Written(r) = full
    BY <1>g DEF HandleClient, Written, W!ReadSeedUploadRequest, W!WriteSeedUploadRequest, key, path, size, public
  <2>2. /\ full \in Seq(Field) /\ Len(layout) = 4 /\ DOMAIN layout = 1 .. 4 /\ Len(full) = 4
        /\ \A i \in 1 .. 4 : layout[i][1] # "list" /\ full[i] = <<layout[i][1], r[layout[i][2]]>>
    BY <1>1, <1>2
  <2>3. \A i \in 1 .. 4 : layout[i][2] \in DOMAIN r
    BY RequestIs
  <2> HIDE DEF layout, full
  <2>4. Matches(layout, full, r)
    BY <2>2, SinglesMatch
  <2> QED BY <2>1, <2>2, <2>3, <2>4
<1>h. CASE op \in {"query", "download", "getManifest", "resolveAlias", "action"}
  <2> DEFINE layout == <<<<"s16", "key">>>>
             full == <<key>>
  <2>1. HandleClient = layout /\ Written(r) = full
    BY <1>h DEF HandleClient, Written, W!ReadString16Request, W!WriteString16Request, key
  <2>2. /\ full \in Seq(Field) /\ Len(layout) = 1 /\ DOMAIN layout = 1 .. 1 /\ Len(full) = 1
        /\ \A i \in 1 .. 1 : layout[i][1] # "list" /\ full[i] = <<layout[i][1], r[layout[i][2]]>>
    BY <1>1, <1>2
  <2>3. \A i \in 1 .. 1 : layout[i][2] \in DOMAIN r
    BY RequestIs
  <2> HIDE DEF layout, full
  <2>4. Matches(layout, full, r)
    BY <2>2, SinglesMatch
  <2> QED BY <2>1, <2>2, <2>3, <2>4
<1>i. CASE op \in {"ecdhDirUpload", "seedECDHUpload"}
  BY <1>i, ListsMatch
<1> QED BY <1>a, <1>b, <1>c, <1>d, <1>e, <1>f, <1>g, <1>h, <1>i DEF Op, Transfer, FileTransfer, DirTransfer, Listing

-----------------------------------------------------------------------------
(* What is under way between the client and the handler.                   *)

\* Some copies of the frame f, and then z.
Blocks(s, f, k, z) ==
  /\ Len(s) = k * Len(f) + Len(z)
  /\ \A i \in 0 .. k - 1, j \in 1 .. Len(f) : s[i * Len(f) + j] = f[j]
  /\ \A j \in 1 .. Len(z) : s[k * Len(f) + j] = z[j]

Frame == IF op \in FileTransfer THEN W!WriteProgressUpdate ELSE W!WriteDirProgressUpdate
Final == IF handler \in {"answered", "closed"} THEN W!WriteStatus(verdict) ELSE <<>>
Frames(s) == s \in Seq(Field) /\ \E k \in Nat : Blocks(s, Frame, k, Final)

\* Until the handler reads it, the request is all there or cut off by its client's end.
RequestInv ==
  /\ op \in Op /\ handler # "garbled"
  /\ client = "start" => handler = "read"
  /\ handler = "read" =>
       /\ request \in Request
       /\ client \notin {"start", "gone"} => up = Written(request)
       /\ client = "gone" => /\ up \in Seq(Field) /\ Len(up) <= Len(Written(request))
                             /\ Meets(up, Written(request), Len(Written(request)))
  /\ asked # Nothing => /\ DOMAIN asked \subseteq DOMAIN request
                        /\ \A f \in DOMAIN asked : asked[f] = request[f]

\* The client of a transfer has the ID before it, then frames, and the status at the end.
TransferInv ==
  /\ handler \in {"answered", "closed"} => verdict \in {"ok", "error"}
  /\ client \in {"start", "tid", "loop", "done"}
  /\ handler \in {"read", "dispatch", "serve"} => client \in {"start", "tid"} /\ down = <<>>
  /\ handler \notin {"read", "dispatch", "serve"} =>
       /\ handler \in {"run", "answered", "closed"}
       /\ client = "tid" => down \in Seq(Field) /\ down # <<>> /\ down[1] = W!S16("tid") /\ Frames(Tail(down))
       /\ client = "loop" => Frames(down)
       /\ client = "done" => handler # "run" /\ told = verdict

\* The other clients have the whole answer before them as soon as there is one.
AtOnceInv ==
  /\ client \in {"start", Awaits, "body", "done"}
  /\ handler \in {"read", "dispatch"} => client \in {"start", Awaits} /\ down = <<>>
  /\ handler = "closed" =>
       /\ verdict \in {"ok", "error"}
       /\ client = Awaits => down \in Answers(verdict)
       /\ client = "done" /\ op \notin {"download", "ecdhDownload"} => told = verdict
       /\ client = "body" => op \in {"download", "ecdhDownload"}

SessionIInv ==
  /\ RequestInv
  /\ op \notin Transfer => handler \in {"read", "dispatch", "closed"}
  /\ client # "gone" => IF op \in Transfer THEN TransferInv ELSE AtOnceInv

LEMMA BlocksEmpty ==
  ASSUME NEW f \in Seq(Field), Len(f) \in {3, 5}
  PROVE  Blocks(<<>>, f, 0, <<>>)
BY DEF Blocks

LEMMA BlocksGrow ==
  ASSUME NEW f \in Seq(Field), Len(f) \in {3, 5}, NEW s \in Seq(Field), NEW k \in Nat, Blocks(s, f, k, <<>>)
  PROVE  Blocks(s \o f, f, k + 1, <<>>)
<1> DEFINE g == s \o f
<1>1. /\ Len(s) = k * Len(f) /\ k * Len(f) \in Nat
      /\ \A i \in 0 .. k - 1, j \in 1 .. Len(f) : s[i * Len(f) + j] = f[j]
  <2>1. CASE Len(f) = 3
    BY <2>1 DEF Blocks
  <2>2. CASE Len(f) = 5
    BY <2>2 DEF Blocks
  <2> QED BY <2>1, <2>2
<1>2. /\ Len(g) = Len(s) + Len(f) /\ \A q \in 1 .. Len(s) : g[q] = s[q]
      /\ \A q \in 1 .. Len(f) : g[Len(s) + q] = f[q]
  OBVIOUS
<1> HIDE DEF g
<1>3. Len(g) = (k + 1) * Len(f) + Len(<<>>)
  <2>1. CASE Len(f) = 3
    BY <1>1, <1>2, <2>1
  <2>2. CASE Len(f) = 5
    BY <1>1, <1>2, <2>2
  <2> QED BY <2>1, <2>2
<1>4. ASSUME NEW i \in 0 .. (k + 1) - 1, NEW j \in 1 .. Len(f) PROVE g[i * Len(f) + j] = f[j]
  <2>1. CASE i = k
    <3>1. i * Len(f) + j = Len(s) + j
      BY <1>1, <2>1
    <3> QED BY <1>2, <3>1
  <2>2. CASE i # k
    <3>1. i \in 0 .. k - 1
      BY <2>2
    <3>2. i * Len(f) + j \in 1 .. Len(s)
      <4>1. CASE Len(f) = 3
        BY <1>1, <3>1, <4>1
      <4>2. CASE Len(f) = 5
        BY <1>1, <3>1, <4>2
      <4> QED BY <4>1, <4>2
    <3>3. g[i * Len(f) + j] = s[i * Len(f) + j]
      BY <1>2, <3>2, Zenon
    <3> QED BY <1>1, <3>1, <3>3, Zenon
  <2> QED BY <2>1, <2>2
<1>5. \A j \in 1 .. Len(<<>>) : g[(k + 1) * Len(f) + j] = <<>>[j]
  OBVIOUS
<1>6. Blocks(g, f, k + 1, <<>>)
  BY <1>3, <1>4, <1>5, Zenon DEF Blocks
<1> QED BY <1>6 DEF g

LEMMA BlocksEnd ==
  ASSUME NEW f \in Seq(Field), Len(f) \in {3, 5}, NEW s \in Seq(Field), NEW k \in Nat, Blocks(s, f, k, <<>>),
         NEW z \in Seq(Field)
  PROVE  Blocks(s \o z, f, k, z)
<1> DEFINE g == s \o z
<1>1. /\ Len(s) = k * Len(f) /\ k * Len(f) \in Nat
      /\ \A i \in 0 .. k - 1, j \in 1 .. Len(f) : s[i * Len(f) + j] = f[j]
  <2>1. CASE Len(f) = 3
    BY <2>1 DEF Blocks
  <2>2. CASE Len(f) = 5
    BY <2>2 DEF Blocks
  <2> QED BY <2>1, <2>2
<1>2. /\ Len(g) = Len(s) + Len(z) /\ \A q \in 1 .. Len(s) : g[q] = s[q]
      /\ \A q \in 1 .. Len(z) : g[Len(s) + q] = z[q]
  OBVIOUS
<1> HIDE DEF g
<1>3. ASSUME NEW i \in 0 .. k - 1, NEW j \in 1 .. Len(f) PROVE g[i * Len(f) + j] = f[j]
  <2>1. i * Len(f) + j \in 1 .. Len(s)
    <3>1. CASE Len(f) = 3
      BY <1>1, <3>1
    <3>2. CASE Len(f) = 5
      BY <1>1, <3>2
    <3> QED BY <3>1, <3>2
  <2>2. g[i * Len(f) + j] = s[i * Len(f) + j]
    BY <1>2, <2>1, Zenon
  <2> QED BY <1>1, <2>2, Zenon
<1>4. Blocks(g, f, k, z)
  BY <1>1, <1>2, <1>3, Zenon DEF Blocks
<1> QED BY <1>4 DEF g

\* The first block is read off.
LEMMA BlocksRead ==
  ASSUME NEW f \in Seq(Field), Len(f) \in {3, 5}, NEW s \in Seq(Field), NEW k \in Nat, NEW z \in Seq(Field),
         Blocks(s, f, k, z), k # 0
  PROVE  /\ Len(f) <= Len(s) /\ Meets(s, f, Len(f)) /\ s # <<>> /\ s[1] = f[1]
         /\ Blocks(SubSeq(s, Len(f) + 1, Len(s)), f, k - 1, z)
<1> DEFINE g == SubSeq(s, Len(f) + 1, Len(s))
           n == Len(f)
<1>1. /\ Len(s) = k * n + Len(z) /\ (k - 1) * n \in Nat /\ k * n = (k - 1) * n + n /\ n \in Nat /\ n >= 1
  <2>1. CASE Len(f) = 3
    BY <2>1 DEF Blocks
  <2>2. CASE Len(f) = 5
    BY <2>2 DEF Blocks
  <2> QED BY <2>1, <2>2
<1>2. /\ \A i \in 0 .. k - 1, j \in 1 .. n : s[i * n + j] = f[j]
      /\ \A j \in 1 .. Len(z) : s[k * n + j] = z[j]
  BY Zenon DEF Blocks
<1>3. n <= Len(s)
  BY <1>1
<1>4. Len(g) = Len(s) - n /\ \A q \in 1 .. Len(s) - n : g[q] = s[n + q]
  BY <1>3
<1> HIDE DEF g
<1>5. \A j \in 1 .. n : s[j] = f[j]
  <2> SUFFICES ASSUME NEW j \in 1 .. n PROVE s[j] = f[j]
    OBVIOUS
  <2>1. 0 \in 0 .. k - 1 /\ 0 * n + j = j
    BY <1>1
  <2> HIDE DEF n
  <2> QED BY <1>2, <2>1
<1>6. ASSUME NEW i \in 0 .. (k - 1) - 1, NEW j \in 1 .. n PROVE g[i * n + j] = f[j]
  <2>1. i + 1 \in 0 .. k - 1 /\ i * n + j \in 1 .. Len(s) - n /\ n + (i * n + j) = (i + 1) * n + j
    <3>1. CASE n = 3
      BY <1>1, <3>1
    <3>2. CASE n = 5
      BY <1>1, <3>2
    <3> QED BY <3>1, <3>2
  <2> HIDE DEF n
  <2>2. g[i * n + j] = s[n + (i * n + j)]
    BY <1>4, <2>1, Zenon
  <2>3. s[(i + 1) * n + j] = f[j]
    BY <1>2, <2>1, Zenon
  <2> QED BY <2>1, <2>2, <2>3
<1>7. ASSUME NEW j \in 1 .. Len(z) PROVE g[(k - 1) * n + j] = z[j]
  <2>1. (k - 1) * n + j \in 1 .. Len(s) - n /\ n + ((k - 1) * n + j) = k * n + j
    BY <1>1
  <2> HIDE DEF n
  <2>2. g[(k - 1) * n + j] = s[n + ((k - 1) * n + j)]
    BY <1>4, <2>1, Zenon
  <2>3. s[k * n + j] = z[j]
    BY <1>2, Zenon
  <2> QED BY <2>1, <2>2, <2>3
<1>8. Len(g) = (k - 1) * n + Len(z)
  BY <1>1, <1>4
<1>9. Blocks(g, f, k - 1, z)
  BY <1>6, <1>7, <1>8, Zenon DEF Blocks, n
<1>10. Meets(s, f, n)
  BY <1>5 DEF Meets
<1>11. s # <<>> /\ s[1] = f[1]
  BY <1>1, <1>3, <1>5
<1> QED BY <1>3, <1>9, <1>10, <1>11 DEF g

\* Without blocks only the end is there.
LEMMA BlocksOver ==
  ASSUME NEW f \in Seq(Field), Len(f) \in {3, 5}, NEW s \in Seq(Field), NEW z \in Seq(Field), Blocks(s, f, 0, z)
  PROVE  s = z
<1>1. Len(s) = Len(z) /\ \A j \in 1 .. Len(z) : s[j] = z[j]
  <2>1. 0 * Len(f) = 0
    OBVIOUS
  <2> QED BY <2>1 DEF Blocks
<1> QED BY <1>1

LEMMA FieldsOfText ==
  \A x \in Text : <<"n4", x>> \in Field
BY FieldIs, Zenon DEF Value

LEMMA FramesAre ==
  /\ Frame \in Seq(Field) /\ Len(Frame) \in {3, 5} /\ Frame[1] = W!N1("progress")
  /\ \A v \in {"ok", "error"} : /\ W!WriteStatus(v) \in Seq(Field) /\ Len(W!WriteStatus(v)) = 3
                                /\ W!WriteStatus(v)[1] = W!N1(v)
<1>1. /\ "progress" \in Text /\ "completed" \in Text /\ "total" \in Text /\ "fileIdx" \in Text
      /\ "fileTotal" \in Text /\ "chunkIdx" \in Text /\ "chunkTotal" \in Text /\ "length" \in Text
      /\ "message" \in Text /\ "ok" \in Text /\ "error" \in Text
  BY DEF Text
<1>2. /\ W!N1("progress") \in Field /\ <<"n4", "completed">> \in Field /\ <<"n4", "total">> \in Field
      /\ <<"n4", "fileIdx">> \in Field /\ <<"n4", "fileTotal">> \in Field /\ <<"n4", "chunkIdx">> \in Field
      /\ <<"n4", "chunkTotal">> \in Field /\ <<"n4", "length">> \in Field /\ W!Raw("message") \in Field
      /\ W!N1("ok") \in Field /\ W!N1("error") \in Field
  BY <1>1, TextFields, FieldsOfText, Zenon
<1>3. W!WriteProgressUpdate \in Seq(Field) /\ Len(W!WriteProgressUpdate) = 3
      /\ W!WriteProgressUpdate[1] = W!N1("progress")
  BY <1>2 DEF W!WriteProgressUpdate
<1>4. W!WriteDirProgressUpdate \in Seq(Field) /\ Len(W!WriteDirProgressUpdate) = 5
      /\ W!WriteDirProgressUpdate[1] = W!N1("progress")
  BY <1>2 DEF W!WriteDirProgressUpdate
<1>5. ASSUME NEW v \in {"ok", "error"}
      PROVE  /\ W!WriteStatus(v) \in Seq(Field) /\ Len(W!WriteStatus(v)) = 3
             /\ W!WriteStatus(v)[1] = W!N1(v)
  BY <1>2 DEF W!WriteStatus
<1> QED BY <1>3, <1>4, <1>5 DEF Frame

\* What a client makes of a message that its layout matches.
LEMMA MatchRead ==
  ASSUME NEW layout, NEW full, NEW r, Matches(layout, full, r), NEW t \in Seq(Field), Meets(t, full, Len(full)),
         NEW p, p = W!Parse(layout, t)
  PROVE  IF Len(full) <= Len(t)
         THEN /\ p.result = "ok" /\ p.rest = SubSeq(t, Len(full) + 1, Len(t))
              /\ DOMAIN p.value = {layout[i][2] : i \in 1 .. Len(layout)}
              /\ \A i \in 1 .. Len(layout) : p.value[layout[i][2]] = r[layout[i][2]]
         ELSE p.result = "short"
<1>1. Len(full) \in Nat /\ Len(layout) \in Nat /\ DOMAIN layout = 1 .. Len(layout)
  BY DEF Matches
<1>2. PICK pos : Fits(layout, full, pos, r)
  BY Zenon DEF Matches
<1> QED BY <1>1, <1>2, ParseReads

\* A message of n single fields, told by its values.
LEMMA FrameMatches ==
  /\ \E r : Matches(IF op \in FileTransfer THEN <<<<"n1", "status">>, <<"n4", "completed">>, <<"n4", "total">>>>
                    ELSE <<<<"n1", "status">>, <<"n4", "fileIdx">>, <<"n4", "fileTotal">>, <<"n4", "chunkIdx">>,
                           <<"n4", "chunkTotal">>>>, Frame, r)
<1>1. CASE op \in FileTransfer
  <2> DEFINE layout == <<<<"n1", "status">>, <<"n4", "completed">>, <<"n4", "total">>>>
             r == [status |-> "progress", completed |-> "completed", total |-> "total"]
  <2>1. Frame = <<<<"n1", "progress">>, <<"n4", "completed">>, <<"n4", "total">>>>
    BY <1>1 DEF Frame, W!WriteProgressUpdate, W!N1
  <2>2. /\ Len(layout) = 3 /\ DOMAIN layout = 1 .. 3 /\ Len(Frame) = 3
        /\ \A i \in 1 .. 3 : layout[i][1] # "list" /\ Frame[i] = <<layout[i][1], r[layout[i][2]]>>
    BY <2>1
  <2> HIDE DEF layout, r
  <2>3. Matches(layout, Frame, r)
    BY <2>2, FramesAre, SinglesMatch
  <2> QED BY <1>1, <2>3, Zenon DEF layout
<1>2. CASE op \notin FileTransfer
  <2> DEFINE layout == <<<<"n1", "status">>, <<"n4", "fileIdx">>, <<"n4", "fileTotal">>, <<"n4", "chunkIdx">>,
                         <<"n4", "chunkTotal">>>>
             r == [status |-> "progress", fileIdx |-> "fileIdx", fileTotal |-> "fileTotal",
                   chunkIdx |-> "chunkIdx", chunkTotal |-> "chunkTotal"]
  <2>1. Frame = <<<<"n1", "progress">>, <<"n4", "fileIdx">>, <<"n4", "fileTotal">>, <<"n4", "chunkIdx">>,
                  <<"n4", "chunkTotal">>>>
    BY <1>2 DEF Frame, W!WriteDirProgressUpdate, W!N1
  <2>2. /\ Len(layout) = 5 /\ DOMAIN layout = 1 .. 5 /\ Len(Frame) = 5
        /\ \A i \in 1 .. 5 : layout[i][1] # "list" /\ Frame[i] = <<layout[i][1], r[layout[i][2]]>>
    BY <2>1
  <2> HIDE DEF layout, r
  <2>3. Matches(layout, Frame, r)
    BY <2>2, FramesAre, SinglesMatch
  <2> QED BY <1>2, <2>3, Zenon DEF layout
<1> QED BY <1>1, <1>2

\* A status, with its name first.
Tells(layout, full, v) ==
  \E r : Matches(layout, full, r) /\ r["status"] = v /\ layout[1][2] = "status" /\ Len(layout) >= 1

LEMMA StatusTells ==
  ASSUME NEW v \in {"ok", "error"}
  PROVE  Tells(W!ReadStatus, W!WriteStatus(v), v)
<1> DEFINE layout == <<<<"n1", "status">>, <<"n4", "length">>, <<"raw", "message">>>>
           r == [status |-> v, length |-> "length", message |-> "message"]
           full == W!WriteStatus(v)
<1>1. W!ReadStatus = layout /\ full = <<<<"n1", v>>, <<"n4", "length">>, <<"raw", "message">>>>
  BY DEF W!ReadStatus, W!WriteStatus, W!N1, W!Raw
<1>2. /\ Len(layout) = 3 /\ DOMAIN layout = 1 .. 3 /\ Len(full) = 3
      /\ \A i \in 1 .. 3 : layout[i][1] # "list" /\ full[i] = <<layout[i][1], r[layout[i][2]]>>
  <2> HIDE DEF full
  <2> QED BY <1>1
<1>3. r["status"] = v /\ layout[1][2] = "status" /\ Len(layout) >= 1 /\ full \in Seq(Field)
  BY FramesAre
<1> HIDE DEF layout, r, full
<1>4. Matches(layout, full, r)
  BY <1>2, <1>3, SinglesMatch
<1> QED BY <1>1, <1>3, <1>4, Zenon DEF Tells, full

\* Short sequences.
LEMMA Triple ==
  ASSUME NEW F, NEW x \in F, NEW y \in F, NEW z \in F, NEW s, s = <<x, y, z>>
  PROVE  /\ s \in Seq(F) /\ Len(s) = 3 /\ s # <<>> /\ Head(s) = x /\ s \o <<>> = s
         /\ s[1] = x /\ s[2] = y /\ s[3] = z
OBVIOUS

LEMMA Regroup ==
  ASSUME NEW F, NEW a \in Seq(F), NEW b \in Seq(F), NEW c \in Seq(F)
  PROVE  a \o (b \o c) = (a \o b) \o c
BY ConcatAssociative, SMT

LEMMA Regrouped ==
  ASSUME NEW F, NEW x \in F, NEW y \in F, NEW z \in F, NEW u \in F, NEW l \in Seq(F),
         NEW s, s = <<x, y, z>> \o (<<u>> \o l)
  PROVE  /\ s = <<x, y, z, u>> \o l \o <<>> /\ s \in Seq(F) /\ s # <<>> /\ Len(s) > 1
         /\ Head(s) = x /\ s[2] = y
         /\ <<x, y, z, u>> \in Seq(F) /\ Len(<<x, y, z, u>>) = 4
<1>1. <<x, y, z>> \in Seq(F) /\ <<u>> \in Seq(F) /\ <<x, y, z, u>> \in Seq(F)
  OBVIOUS
<1>2. <<x, y, z>> \o <<u>> = <<x, y, z, u>>
  <2> DEFINE t == <<x, y, z>> \o <<u>>
  <2>1. Len(<<x, y, z>>) = 3 /\ Len(<<u>>) = 1
    OBVIOUS
  <2>2. Len(t) = 4 /\ t \in Seq(F)
    BY <1>1, <2>1
  <2>3. t[1] = x /\ t[2] = y /\ t[3] = z /\ t[4] = u
    BY <1>1, <2>1
  <2> HIDE DEF t
  <2>4. t = <<x, y, z, u>>
    BY <2>2, <2>3
  <2> QED BY <2>4 DEF t
<1> DEFINE h == <<x, y, z>>
           o == <<u>>
           a == <<x, y, z, u>>
<1>3. h \in Seq(F) /\ o \in Seq(F) /\ a \in Seq(F) /\ Len(a) = 4 /\ a[1] = x /\ a[2] = y /\ h \o o = a
  BY <1>1, <1>2
<1>4. s = h \o (o \o l)
  OBVIOUS
<1> HIDE DEF h, o, a
<1>5. h \o (o \o l) = (h \o o) \o l
  <2>1. h \in Seq(F) /\ o \in Seq(F) /\ l \in Seq(F)
    BY <1>3
  <2> QED BY ONLY <2>1, Regroup, SMT
<1>6. s = a \o l
  BY <1>3, <1>4, <1>5
<1>7. (a \o l) \o <<>> = a \o l
  BY <1>3
<1>8. s \in Seq(F) /\ s # <<>> /\ Len(s) > 1 /\ Head(s) = x /\ s[2] = y
  BY <1>3, <1>6
<1> QED BY <1>3, <1>6, <1>7, <1>8 DEF a

LEMMA Appended ==
  ASSUME NEW F, NEW a \in Seq(F), NEW b \in Seq(F), Len(a) # 0, NEW s, s = a \o b
  PROVE  /\ s \in Seq(F) /\ Len(a) <= Len(s) /\ s # <<>> /\ s[1] = a[1]
         /\ \A i \in 1 .. Len(a) : s[i] = a[i]
OBVIOUS

LEMMA ThreeElements ==
  ASSUME NEW x, NEW y, NEW z
  PROVE  <<x, y>> \o <<z>> = <<x, y, z>>
<1> DEFINE F == {x, y, z}
           s == <<x, y>> \o <<z>>
<1>1. <<x, y>> \in Seq(F) /\ <<z>> \in Seq(F) /\ Len(<<x, y>>) = 2 /\ Len(<<z>>) = 1
  OBVIOUS
<1>2. Len(s) = 3 /\ s \in Seq(F)
  BY <1>1
<1>3. s[1] = x /\ s[2] = y /\ s[3] = z
  BY <1>1
<1> HIDE DEF s
<1>4. s = <<x, y, z>>
  BY <1>2, <1>3
<1> QED BY <1>4 DEF s

LEMMA FiveElements ==
  ASSUME NEW x, NEW y, NEW z, NEW u, NEW v
  PROVE  <<x, y, z>> \o <<u, v>> = <<x, y, z, u, v>>
<1> DEFINE F == {x, y, z, u, v}
           s == <<x, y, z>> \o <<u, v>>
<1>1. <<x, y, z>> \in Seq(F) /\ <<u, v>> \in Seq(F) /\ Len(<<x, y, z>>) = 3 /\ Len(<<u, v>>) = 2
  OBVIOUS
<1>2. Len(s) = 5 /\ s \in Seq(F)
  BY <1>1
<1>3. s[1] = x /\ s[2] = y /\ s[3] = z /\ s[4] = u /\ s[5] = v
  BY <1>1
<1> HIDE DEF s
<1>4. s = <<x, y, z, u, v>>
  BY <1>2, <1>3
<1> QED BY <1>4 DEF s

\* The kinds of requests.
LEMMA Kinds ==
  /\ \A o \in {"getManifest", "resolveAlias", "list", "query", "action", "sendToPeer", "download",
               "ecdhDownload"} : o \notin FileTransfer /\ o \notin DirTransfer
  /\ \A o \in {"getManifest", "resolveAlias", "action", "sendToPeer", "download", "ecdhDownload"} :
       o \notin Listing
  /\ \A o \in Listing : o \notin {"getManifest", "resolveAlias", "download", "ecdhDownload"}
                        /\ o \notin FileTransfer /\ o \notin DirTransfer
  /\ \A o \in FileTransfer : o \notin DirTransfer
BY DEF FileTransfer, DirTransfer, Listing

\* The layout in each case.
LEMMA LayoutIs ==
  ASSUME NEW d
  PROVE  /\ op \in FileTransfer => Layout(d) = W!ReadProgressOrStatus(d)
         /\ op \in DirTransfer => Layout(d) = W!ReadDirProgressOrStatus(d)
         /\ op = "getManifest" => Layout(d) = W!ReadManifestInfoResponse(d)
         /\ op = "resolveAlias" => Layout(d) = W!ReadResolveAliasResponse(d)
         /\ op \in Listing => Layout(d) = W!ReadJSONResponse
         /\ op \in {"action", "sendToPeer"} => Layout(d) = W!ReadStatus
<1> DEFINE A == W!ReadProgressOrStatus(d)
           B == W!ReadDirProgressOrStatus(d)
           C == W!ReadManifestInfoResponse(d)
           D == W!ReadResolveAliasResponse(d)
<1>1. Layout(d) = CASE op \in FileTransfer -> A
                 [] op \in DirTransfer -> B
                 [] op = "getManifest" -> C
                 [] op = "resolveAlias" -> D
                 [] op \in Listing -> W!ReadJSONResponse
                 [] OTHER -> W!ReadStatus
  BY Zenon DEF Layout
<1> HIDE DEF A, B, C, D
<1>2. /\ op \in FileTransfer => op \notin DirTransfer /\ op # "getManifest" /\ op # "resolveAlias" /\ op \notin Listing
      /\ op \in DirTransfer => op \notin FileTransfer /\ op # "getManifest" /\ op # "resolveAlias" /\ op \notin Listing
      /\ op = "getManifest" => op \notin FileTransfer /\ op \notin DirTransfer /\ op # "resolveAlias" /\ op \notin Listing
      /\ op = "resolveAlias" => op \notin FileTransfer /\ op \notin DirTransfer /\ op # "getManifest" /\ op \notin Listing
      /\ op \in Listing => op \notin FileTransfer /\ op \notin DirTransfer /\ op # "getManifest" /\ op # "resolveAlias"
      /\ op \in {"action", "sendToPeer"} => /\ op \notin FileTransfer /\ op \notin DirTransfer /\ op # "getManifest"
                                            /\ op # "resolveAlias" /\ op \notin Listing
  BY Kinds
<1>3. op \in FileTransfer => Layout(d) = A
  BY <1>1, <1>2, Zenon
<1>4. op \in DirTransfer => Layout(d) = B
  BY <1>1, <1>2, Zenon
<1>5. op = "getManifest" => Layout(d) = C
  BY <1>1, <1>2, Zenon
<1>6. op = "resolveAlias" => Layout(d) = D
  BY <1>1, <1>2, Zenon
<1>7. op \in Listing => Layout(d) = W!ReadJSONResponse
  BY <1>1, <1>2, Zenon
<1>8. op \in {"action", "sendToPeer"} => Layout(d) = W!ReadStatus
  BY <1>1, <1>2, Zenon
<1> QED BY <1>3, <1>4, <1>5, <1>6, <1>7, <1>8, Zenon DEF A, B, C, D

\* The answers in each case.
LEMMA AnswersAre ==
  ASSUME NEW v \in {"ok", "error"}
  PROVE  /\ op \in {"download", "ecdhDownload"} => Answers(v) = Streamed(v)
         /\ op = "getManifest" /\ v = "ok" =>
              Answers(v) = {W!WriteManifestInfoResponse(FALSE, <<>>)} \cup
                           {W!WriteManifestInfoResponse(TRUE, r.access) : r \in Request}
         /\ op = "resolveAlias" /\ v = "ok" =>
              Answers(v) = {W!WriteResolveAliasResponse([i \in 1 .. n |-> <<"fp", "x25519", "ed25519", "addr">>]) :
                              n \in 0 .. MaxAccess}
         /\ op \in Listing /\ v = "ok" => Answers(v) = {W!WriteJSONResponse}
         /\ op = "getManifest" /\ v = "error" => Answers(v) = {W!WriteDownloadError}
         /\ op \in {"resolveAlias", "list", "query"} /\ v = "error" => Answers(v) = {W!WriteStatus(v)}
         /\ op \in {"action", "sendToPeer"} => Answers(v) = {W!WriteStatus(v)}
<1> DEFINE A == Streamed(v)
           B == {W!WriteManifestInfoResponse(FALSE, <<>>)} \cup
                {W!WriteManifestInfoResponse(TRUE, r.access) : r \in Request}
           C == {W!WriteResolveAliasResponse([i \in 1 .. n |-> <<"fp", "x25519", "ed25519", "addr">>]) :
                              n \in 0 .. MaxAccess}
           dl == op \in {"download", "ecdhDownload"}
           listing == op \in Listing
<1>1. Answers(v) = CASE dl -> A
                     [] op = "getManifest" /\ v = "ok" -> B
                     [] op = "resolveAlias" /\ v = "ok" -> C
                     [] listing /\ v = "ok" -> {W!WriteJSONResponse}
                     [] op = "getManifest" /\ v = "error" -> {W!WriteDownloadError}
                     [] OTHER -> {W!WriteStatus(v)}
  BY Zenon DEF Answers
<1>2. /\ op = "getManifest" => ~dl /\ op # "resolveAlias" /\ ~listing
      /\ op = "resolveAlias" => ~dl /\ op # "getManifest" /\ ~listing
      /\ listing => ~dl /\ op # "resolveAlias" /\ op # "getManifest"
      /\ dl => op # "resolveAlias" /\ op # "getManifest" /\ ~listing
      /\ op \in {"action", "sendToPeer"} => ~dl /\ op # "resolveAlias" /\ op # "getManifest" /\ ~listing
      /\ op \in {"resolveAlias", "list", "query"} => op # "getManifest" /\ ~dl
      /\ v = "ok" => v # "error"
      /\ v = "error" => v # "ok"
  BY DEF Listing
<1>3. dl => Answers(v) = A
  <2> HIDE DEF A, B, C, dl, listing
  <2> QED BY <1>1, <1>2, Zenon
<1>4. op = "getManifest" /\ v = "ok" => Answers(v) = B
  <2> HIDE DEF A, B, C, dl, listing
  <2> QED BY <1>1, <1>2, Zenon
<1>5. op = "resolveAlias" /\ v = "ok" => Answers(v) = C
  <2> HIDE DEF A, B, C, dl, listing
  <2> QED BY <1>1, <1>2, Zenon
<1>6. listing /\ v = "ok" => Answers(v) = {W!WriteJSONResponse}
  <2> HIDE DEF A, B, C, dl, listing
  <2> QED BY <1>1, <1>2, Zenon
<1>7. op = "getManifest" /\ v = "error" => Answers(v) = {W!WriteDownloadError}
  <2> HIDE DEF A, B, C, dl, listing
  <2> QED BY <1>1, <1>2, Zenon
<1>8. op \in {"resolveAlias", "list", "query"} /\ v = "error" => Answers(v) = {W!WriteStatus(v)}
  <2> HIDE DEF A, B, C, dl, listing
  <2> QED BY <1>1, <1>2, Zenon
<1>9. op \in {"action", "sendToPeer"} => Answers(v) = {W!WriteStatus(v)}
  <2> HIDE DEF A, B, C, dl, listing
  <2> QED BY <1>1, <1>2, Zenon
<1> QED BY <1>3, <1>4, <1>5, <1>6, <1>7, <1>8, <1>9, Zenon

LEMMA ManifestFields ==
  /\ W!N1("ok") \in Field /\ W!N1("isDirectory") \in Field /\ W!S16("ownerPub") \in Field
  /\ W!N1(TRUE) \in Field /\ W!N1(FALSE) \in Field
  /\ W!N1("ok") # W!N1("error") /\ W!N1(FALSE) # W!N1(TRUE)
<1>1. "ok" \in Text /\ "isDirectory" \in Text /\ "ownerPub" \in Text
  BY DEF Text
<1>2. /\ W!N1("ok") \in Field /\ W!N1("isDirectory") \in Field /\ W!S16("ownerPub") \in Field
      /\ W!N1(TRUE) \in Field /\ W!N1(FALSE) \in Field
  BY <1>1, TextFields, OtherFields, Zenon
<1>3. W!N1("ok") # W!N1("error") /\ W!N1(FALSE) # W!N1(TRUE)
  <2>1. W!N1("ok")[2] = "ok" /\ W!N1("error")[2] = "error"
    BY DEF W!N1
  <2>2. (W!N1(FALSE)[2] = FALSE) /\ (W!N1(TRUE)[2] = TRUE)
    BY DEF W!N1
  <2>3. W!N1("ok") # W!N1("error")
    BY <2>1
  <2>4. W!N1(FALSE) # W!N1(TRUE)
    BY <2>2, Zenon
  <2> QED BY <2>3, <2>4
<1> QED BY <1>2, <1>3, Zenon

\* The manifest of a file for which no key is needed.
LEMMA PlainManifestTells ==
  ASSUME op = "getManifest", NEW d, d = W!WriteManifestInfoResponse(FALSE, <<>>)
  PROVE  d \in Seq(Field) /\ Tells(Layout(d), d, "ok")
<1> DEFINE layout == <<<<"n1", "status">>, <<"n1", "encrypted">>, <<"n1", "isDirectory">>>>
           full == <<W!N1("ok"), W!N1(FALSE), W!N1("isDirectory")>>
           r == [status |-> "ok", encrypted |-> FALSE, isDirectory |-> "isDirectory"]
<1>1. /\ full \in Seq(Field) /\ Len(full) = 3 /\ full # <<>> /\ Head(full) = W!N1("ok") /\ full \o <<>> = full
      /\ full[1] = W!N1("ok") /\ full[2] = W!N1(FALSE) /\ full[3] = W!N1("isDirectory")
  <2> DEFINE x == W!N1("ok")
             y == W!N1(FALSE)
             z == W!N1("isDirectory")
  <2>1. x \in Field /\ y \in Field /\ z \in Field /\ full = <<x, y, z>>
    BY ManifestFields, Zenon
  <2> HIDE DEF x, y, z, full
  <2>2. /\ full \in Seq(Field) /\ Len(full) = 3 /\ full # <<>> /\ Head(full) = x /\ full \o <<>> = full
        /\ full[1] = x /\ full[2] = y /\ full[3] = z
    BY ONLY <2>1, Triple
  <2> QED BY <2>2 DEF x, y, z
<1>2. /\ full[1] = <<"n1", r["status"]>> /\ full[2] = <<"n1", r["encrypted"]>>
      /\ full[3] = <<"n1", r["isDirectory"]>> /\ r["status"] = "ok"
  <2> HIDE DEF full
  <2> QED BY <1>1 DEF W!N1
<1>3. /\ Len(layout) = 3 /\ DOMAIN layout = 1 .. 3 /\ layout[1] = <<"n1", "status">>
      /\ layout[2] = <<"n1", "encrypted">> /\ layout[3] = <<"n1", "isDirectory">>
      /\ layout[1][2] = "status"
  OBVIOUS
<1>4. layout \o <<>> = layout
  OBVIOUS
<1>5. d = full
  <2>1. d = full \o <<>>
    BY Zenon DEF W!WriteManifestInfoResponse
  <2> HIDE DEF full
  <2> QED BY <1>1, <2>1, Zenon
<1>6. W!ReadManifestInfoResponse(full) = layout
  <2>1. ~W!Starts(full, "error") /\ ~(full[2] = W!N1(TRUE))
    <3> HIDE DEF full
    <3> QED BY ManifestFields, <1>1, Zenon DEF W!Starts
  <2> HIDE DEF full
  <2>2. W!ReadManifestInfoResponse(full) = layout \o <<>>
    BY <2>1, Zenon DEF W!ReadManifestInfoResponse
  <2> QED BY <1>4, <2>2, Zenon
<1> HIDE DEF layout, full, r
<1>7. \A i \in 1 .. 3 : layout[i][1] # "list" /\ full[i] = <<layout[i][1], r[layout[i][2]]>>
  <2>1. \A i \in 1 .. 3 : i = 1 \/ i = 2 \/ i = 3
    OBVIOUS
  <2> QED BY <1>2, <1>3, <2>1
<1>8. Matches(layout, full, r)
  BY <1>1, <1>3, <1>7, SinglesMatch
<1>9. Tells(layout, full, "ok")
  <2>1. Len(layout) >= 1
    BY <1>3
  <2> QED BY <1>2, <1>3, <1>8, <2>1, Zenon DEF Tells
<1>10. Layout(d) = layout
  BY <1>5, <1>6, LayoutIs, Zenon
<1> QED BY <1>1, <1>5, <1>9, <1>10

\* The manifest of an encrypted file, with its access list.
LEMMA EncryptedManifestTells ==
  ASSUME op = "getManifest", NEW q \in Request, NEW d, d = W!WriteManifestInfoResponse(TRUE, q.access)
  PROVE  d \in Seq(Field) /\ Tells(Layout(d), d, "ok")
<1> DEFINE layout == <<<<"n1", "status">>, <<"n1", "encrypted">>, <<"n1", "isDirectory">>,
                       <<"s16", "ownerPub">>, <<"list", "access", 2>>>>
           a == <<W!N1("ok"), W!N1(TRUE), W!N1("isDirectory"), W!S16("ownerPub")>>
           b == <<>>
           e == Recipient
           w == 2
           name == "access"
<1>1. PICK c \in Nat : q.access = Copies(c, e)
  BY RequestIs, Zenon
<1> DEFINE l == W!List(Copies(c, e))
           r == [status |-> "ok", encrypted |-> TRUE, isDirectory |-> "isDirectory", ownerPub |-> "ownerPub",
                 access |-> Copies(c, e)]
<1>2. l \in Seq(Field)
  <2> DEFINE s == Copies(c, e)
  <2>1. e \in Seq(Text) /\ Len(e) = w /\ w \in {2, 4} /\ s = Copies(c, e) /\ l = W!List(s)
    BY RecipientIs
  <2> HIDE DEF s, l, e, w
  <2>2. IsListOf(l, s, c, w)
    BY <2>1, ListOfCopies
  <2> QED BY <2>2, Zenon DEF IsListOf
<1> HIDE DEF l
<1>3. /\ d = a \o l \o b /\ d \in Seq(Field) /\ d # <<>> /\ Len(d) > 1
      /\ Head(d) = W!N1("ok") /\ d[2] = W!N1(TRUE) /\ a \in Seq(Field) /\ Len(a) = 4
  <2> DEFINE x == W!N1("ok")
             y == W!N1(TRUE)
             z == W!N1("isDirectory")
             u == W!S16("ownerPub")
  <2>1. /\ x \in Field /\ y \in Field /\ z \in Field /\ u \in Field /\ l \in Seq(Field)
        /\ d = <<x, y, z>> \o (<<u>> \o l)
    <3>1. d = <<x, y, z>> \o (<<u>> \o l)
      BY <1>1, Zenon DEF W!WriteManifestInfoResponse, l
    <3> QED BY <1>2, <3>1, ManifestFields, Zenon
  <2>2. a = <<x, y, z, u>>
    OBVIOUS
  <2> HIDE DEF x, y, z, u, a
  <2>3. /\ d = <<x, y, z, u>> \o l \o <<>> /\ d \in Seq(Field) /\ d # <<>> /\ Len(d) > 1
        /\ Head(d) = x /\ d[2] = y
        /\ <<x, y, z, u>> \in Seq(Field) /\ Len(<<x, y, z, u>>) = 4
    BY ONLY <2>1, Regrouped
  <2>4. a \in Seq(Field) /\ Len(a) = 4 /\ d = a \o l \o b
    BY <2>2, <2>3, Zenon
  <2> QED BY <2>3, <2>4 DEF x, y
<1>4. b \in Seq(Field) /\ Len(b) = 0 /\ 1 .. Len(b) = {}
  OBVIOUS
<1>6. W!ReadManifestInfoResponse(d) = layout
  <2> DEFINE x == <<<<"n1", "status">>, <<"n1", "encrypted">>, <<"n1", "isDirectory">>>>
             y == <<<<"s16", "ownerPub">>, <<"list", "access", 2>>>>
  <2>1. ~W!Starts(d, "error")
    BY ManifestFields, <1>3, Zenon DEF W!Starts
  <2>2. W!ReadManifestInfoResponse(d) = x \o y
    BY <1>3, <2>1, Zenon DEF W!ReadManifestInfoResponse
  <2>3. x \o y = layout
    <3> DEFINE p1 == <<"n1", "status">>
               p2 == <<"n1", "encrypted">>
               p3 == <<"n1", "isDirectory">>
               p4 == <<"s16", "ownerPub">>
               p5 == <<"list", "access", 2>>
    <3>1. x = <<p1, p2, p3>> /\ y = <<p4, p5>> /\ layout = <<p1, p2, p3, p4, p5>>
      OBVIOUS
    <3> HIDE DEF x, y, layout, p1, p2, p3, p4, p5
    <3>2. <<p1, p2, p3>> \o <<p4, p5>> = <<p1, p2, p3, p4, p5>>
      BY FiveElements
    <3> QED BY <3>1, <3>2
  <2> QED BY <2>2, <2>3, Zenon
<1>7. /\ Len(layout) = 5 /\ DOMAIN layout = 1 .. 5 /\ layout[5] = <<"list", name, w>>
      /\ layout[1] = <<"n1", "status">> /\ layout[2] = <<"n1", "encrypted">>
      /\ layout[3] = <<"n1", "isDirectory">> /\ layout[4] = <<"s16", "ownerPub">>
  OBVIOUS
<1>8. /\ a[1] = <<"n1", r["status"]>> /\ a[2] = <<"n1", r["encrypted"]>> /\ a[3] = <<"n1", r["isDirectory"]>>
      /\ a[4] = <<"s16", r["ownerPub"]>> /\ r["status"] = "ok" /\ r["access"] = Copies(c, e)
  BY DEF W!N1, W!S16
<1>9. w \in {2, 4} /\ e \in Seq(Text) /\ Len(e) = w /\ r[name] = Copies(c, e)
  BY <1>8, RecipientIs
<1>10. d = a \o W!List(Copies(c, e)) \o b
  BY <1>3, Zenon DEF l
<1> HIDE DEF layout, a, b, r, e, w
<1>11. \A i \in 1 .. 4 : layout[i][1] # "list" /\ a[i] = <<layout[i][1], r[layout[i][2]]>>
  <2>1. \A i \in 1 .. 4 : i = 1 \/ i = 2 \/ i = 3 \/ i = 4
    OBVIOUS
  <2> QED BY <1>7, <1>8, <2>1
<1> HIDE DEF name
<1>12. Around(layout, a, b, w, name, r)
  BY <1>3, <1>4, <1>7, <1>11 DEF Around
<1>13. Matches(layout, d, r)
  BY <1>9, <1>10, <1>12, OneListMatches
<1>14. Tells(layout, d, "ok")
  <2>1. Len(layout) >= 1 /\ layout[1][2] = "status"
    BY <1>7
  <2> QED BY <1>8, <1>13, <2>1, Zenon DEF Tells
<1>15. Layout(d) = layout
  BY <1>6, LayoutIs, Zenon
<1> QED BY <1>3, <1>14, <1>15, Zenon

\* A message of three fields, the first of which is the status.
LEMMA ThreeTell ==
  ASSUME NEW v \in {"ok", "error"}, NEW layout, NEW full, NEW r, NEW y, NEW z, NEW m, NEW n,
         layout = <<<<"n1", "status">>, <<y, m>>, <<z, n>>>>, y # "list", z # "list",
         r["status"] = v, full = <<W!N1(v), <<y, r[m]>>, <<z, r[n]>>>>, full \in Seq(Field)
  PROVE  Tells(layout, full, v)
<1>1. layout[1] = <<"n1", "status">> /\ layout[2] = <<y, m>> /\ layout[3] = <<z, n>>
      /\ Len(layout) = 3 /\ DOMAIN layout = 1 .. 3
  OBVIOUS
<1>2. full[1] = <<"n1", r["status"]>> /\ full[2] = <<y, r[m]>> /\ full[3] = <<z, r[n]>> /\ Len(full) = 3
  BY DEF W!N1
<1>3. \A i \in 1 .. 3 : layout[i][1] # "list" /\ full[i] = <<layout[i][1], r[layout[i][2]]>>
  <2>1. \A i \in 1 .. 3 : i = 1 \/ i = 2 \/ i = 3
    OBVIOUS
  <2> QED BY ONLY <1>1, <1>2, <2>1, y # "list", z # "list"
<1>4. Matches(layout, full, r)
  BY <1>1, <1>2, <1>3, SinglesMatch
<1>5. Len(layout) >= 1 /\ layout[1][2] = "status"
  BY <1>1
<1> QED BY <1>4, <1>5, Zenon DEF Tells

\* The fields of the short answers.
LEMMA ShortAnswers ==
  /\ W!WriteJSONResponse \in Seq(Field) /\ W!WriteDownloadError \in Seq(Field)
  /\ \A v \in {"ok", "error"} : W!WriteStatus(v) \in Seq(Field)
  /\ W!WriteDownloadError # <<>> /\ Head(W!WriteDownloadError) = W!N1("error")
  /\ \A v \in {"ok", "error"} : W!WriteStatus(v) # <<>> /\ Head(W!WriteStatus(v)) = W!N1(v)
<1>1. "ok" \in Text /\ "error" \in Text /\ "length" \in Text /\ "message" \in Text /\ "json" \in Text
  BY DEF Text
<1>2. /\ W!N1("ok") \in Field /\ W!N1("error") \in Field /\ <<"n4", "length">> \in Field
      /\ W!N8("length") \in Field /\ W!Raw("message") \in Field /\ W!Raw("json") \in Field
  BY <1>1, TextFields, FieldsOfText, Zenon
<1>3. W!WriteJSONResponse \in Seq(Field)
  BY <1>2, Triple DEF W!WriteJSONResponse
<1>4. W!WriteDownloadError \in Seq(Field) /\ W!WriteDownloadError # <<>> /\ Head(W!WriteDownloadError) = W!N1("error")
  BY <1>2, Triple DEF W!WriteDownloadError
<1>5. ASSUME NEW v \in {"ok", "error"}
      PROVE  W!WriteStatus(v) \in Seq(Field) /\ W!WriteStatus(v) # <<>> /\ Head(W!WriteStatus(v)) = W!N1(v)
  BY <1>2, Triple DEF W!WriteStatus
<1> QED BY <1>3, <1>4, <1>5

\* The answers of three fields.
LEMMA JSONTells ==
  /\ Tells(W!ReadJSONResponse, W!WriteJSONResponse, "ok")
  /\ Tells(W!ReadJSONResponse, W!WriteStatus("error"), "error")
<1> DEFINE layout == W!ReadJSONResponse
           r == [status |-> "ok", length |-> "length", json |-> "json"]
           q == [status |-> "error", length |-> "length", json |-> "message"]
<1>1. /\ layout = <<<<"n1", "status">>, <<"n4", "length">>, <<"raw", "json">>>>
      /\ r["status"] = "ok" /\ r["length"] = "length" /\ r["json"] = "json"
      /\ q["status"] = "error" /\ q["length"] = "length" /\ q["json"] = "message"
      /\ "n4" # "list" /\ "raw" # "list"
  BY DEF W!ReadJSONResponse
<1> HIDE DEF layout, r, q
<1>2. W!WriteJSONResponse = <<W!N1("ok"), <<"n4", r["length"]>>, <<"raw", r["json"]>>>>
  BY <1>1 DEF W!WriteJSONResponse, W!Raw
<1>3. W!WriteStatus("error") = <<W!N1("error"), <<"n4", q["length"]>>, <<"raw", q["json"]>>>>
  BY <1>1 DEF W!WriteStatus, W!Raw
<1>4. Tells(layout, W!WriteJSONResponse, "ok")
  BY <1>1, <1>2, ShortAnswers, ThreeTell
<1>5. Tells(layout, W!WriteStatus("error"), "error")
  BY <1>1, <1>3, ShortAnswers, ThreeTell
<1> QED BY <1>4, <1>5 DEF layout

\* A download error, read after its status as the manifest and the download are.
LEMMA ErrorTells ==
  Tells(<<<<"n1", "status">>, <<"n8", "length">>, <<"raw", "message">>>>, W!WriteDownloadError, "error")
<1> DEFINE layout == <<<<"n1", "status">>, <<"n8", "length">>, <<"raw", "message">>>>
           r == [status |-> "error", length |-> "length", message |-> "message"]
<1>1. /\ layout = <<<<"n1", "status">>, <<"n8", "length">>, <<"raw", "message">>>>
      /\ r["status"] = "error" /\ r["length"] = "length" /\ r["message"] = "message"
      /\ "n8" # "list" /\ "raw" # "list"
  OBVIOUS
<1> HIDE DEF layout, r
<1>2. W!WriteDownloadError = <<W!N1("error"), <<"n8", r["length"]>>, <<"raw", r["message"]>>>>
  BY <1>1 DEF W!WriteDownloadError, W!N8, W!Raw
<1>3. Tells(layout, W!WriteDownloadError, "error")
  BY <1>1, <1>2, ShortAnswers, ThreeTell
<1> QED BY <1>3 DEF layout

Contact == <<"fp", "x25519", "ed25519", "addr">>

LEMMA ContactIs == Contact \in Seq(Text) /\ Len(Contact) = 4
<1>1. "fp" \in Text /\ "x25519" \in Text /\ "ed25519" \in Text /\ "addr" \in Text
  BY DEF Text
<1> QED BY <1>1 DEF Contact

\* The contacts of an alias.
LEMMA AliasTells ==
  ASSUME op = "resolveAlias", NEW c \in Nat, NEW d,
         d = W!WriteResolveAliasResponse([i \in 1 .. c |-> <<"fp", "x25519", "ed25519", "addr">>])
  PROVE  d \in Seq(Field) /\ Tells(Layout(d), d, "ok")
<1> DEFINE layout == <<<<"n1", "status">>, <<"list", "results", 4>>>>
           ok == W!N1("ok")
           a == <<ok>>
           b == <<>>
           e == Contact
           w == 4
           name == "results"
           l == W!List(Copies(c, e))
           r == [status |-> "ok", results |-> Copies(c, e)]
<1>1. l \in Seq(Field)
  <2> DEFINE s == Copies(c, e)
  <2>1. e \in Seq(Text) /\ Len(e) = w /\ w \in {2, 4} /\ s = Copies(c, e) /\ l = W!List(s)
    BY ContactIs
  <2> HIDE DEF s, l, e, w
  <2>2. IsListOf(l, s, c, w)
    BY <2>1, ListOfCopies
  <2> QED BY <2>2, Zenon DEF IsListOf
<1>2. ok \in Field /\ ok # W!N1("error")
  BY ManifestFields, Zenon
<1> HIDE DEF l, ok
<1>3. d = a \o l \o b /\ d \in Seq(Field) /\ d # <<>> /\ Head(d) = ok
  <2>1. d = <<ok>> \o l
    BY Zenon DEF W!WriteResolveAliasResponse, l, ok, Copies, Contact
  <2>2. <<ok>> \o l \in Seq(Field) /\ <<ok>> \o l \o <<>> = <<ok>> \o l /\ <<ok>> \o l # <<>>
        /\ Head(<<ok>> \o l) = ok
    BY ONLY <1>1, <1>2
  <2> QED BY <2>1, <2>2
<1>4. /\ a \in Seq(Field) /\ Len(a) = 1 /\ a[1] = ok
      /\ b \in Seq(Field) /\ Len(b) = 0 /\ 1 .. Len(b) = {}
  BY <1>2
<1>5. W!ReadResolveAliasResponse(d) = layout
  <2>1. ~W!Starts(d, "error")
    BY <1>2, <1>3, Zenon DEF W!Starts
  <2> QED BY <2>1, Zenon DEF W!ReadResolveAliasResponse
<1>6. /\ Len(layout) = 2 /\ DOMAIN layout = 1 .. 2 /\ layout[2] = <<"list", name, w>>
      /\ layout[1] = <<"n1", "status">>
  OBVIOUS
<1>7. a[1] = <<"n1", r["status"]>> /\ r["status"] = "ok" /\ r["results"] = Copies(c, e)
  BY <1>4 DEF W!N1, ok
<1>8. w \in {2, 4} /\ e \in Seq(Text) /\ Len(e) = w /\ r[name] = Copies(c, e)
  BY <1>7, ContactIs
<1>9. d = a \o W!List(Copies(c, e)) \o b
  BY <1>3, Zenon DEF l
<1> HIDE DEF layout, a, b, r, e, w
<1>10. \A i \in 1 .. 1 : layout[i][1] # "list" /\ a[i] = <<layout[i][1], r[layout[i][2]]>>
  <2>1. \A i \in 1 .. 1 : i = 1
    OBVIOUS
  <2> QED BY <1>6, <1>7, <2>1
<1> HIDE DEF name
<1>11. Around(layout, a, b, w, name, r)
  BY <1>4, <1>6, <1>10 DEF Around
<1>12. Matches(layout, d, r)
  BY <1>8, <1>9, <1>11, OneListMatches
<1>13. Tells(layout, d, "ok")
  <2>1. Len(layout) >= 1 /\ layout[1][2] = "status"
    BY <1>6
  <2> QED BY <1>7, <1>12, <2>1, Zenon DEF Tells
<1>14. Layout(d) = layout
  BY <1>5, LayoutIs, Zenon
<1> QED BY <1>3, <1>13, <1>14, Zenon

\* Every answer tells the result to the client that reads it.
LEMMA AnswerTells ==
  ASSUME op \in Op, op \notin Transfer, op \notin {"download", "ecdhDownload"}, NEW v \in {"ok", "error"},
         NEW d \in Answers(v)
  PROVE  d \in Seq(Field) /\ Tells(Layout(d), d, v)
<1>1. op \in {"getManifest", "resolveAlias", "list", "query", "action", "sendToPeer"}
  BY DEF Op, Listing
<1>2. CASE op = "getManifest" /\ v = "ok"
  <2>1. \/ d = W!WriteManifestInfoResponse(FALSE, <<>>)
        \/ \E q \in Request : d = W!WriteManifestInfoResponse(TRUE, q.access)
    BY <1>2, AnswersAre, Zenon
  <2>2. CASE d = W!WriteManifestInfoResponse(FALSE, <<>>)
    BY <1>2, <2>2, PlainManifestTells
  <2>3. CASE \E q \in Request : d = W!WriteManifestInfoResponse(TRUE, q.access)
    <3>1. PICK q \in Request : d = W!WriteManifestInfoResponse(TRUE, q.access)
      BY <2>3
    <3> QED BY <1>2, <3>1, EncryptedManifestTells
  <2> QED BY <2>1, <2>2, <2>3
<1>3. CASE op = "getManifest" /\ v = "error"
  <2>1. d = W!WriteDownloadError
    BY <1>3, AnswersAre, Zenon
  <2>2. W!Starts(d, "error")
    BY <2>1, ShortAnswers, Zenon DEF W!Starts
  <2>3. Layout(d) = <<<<"n1", "status">>, <<"n8", "length">>, <<"raw", "message">>>>
    BY <1>3, <2>2, LayoutIs, Zenon DEF W!ReadManifestInfoResponse
  <2> QED BY <1>3, <2>1, <2>3, ShortAnswers, ErrorTells, Zenon
<1>4. CASE op = "resolveAlias" /\ v = "ok"
  <2>1. PICK n \in 0 .. MaxAccess :
          d = W!WriteResolveAliasResponse([i \in 1 .. n |-> <<"fp", "x25519", "ed25519", "addr">>])
    BY <1>4, AnswersAre, Zenon
  <2>2. n \in Nat
    BY SessionAssumption
  <2> QED BY <1>4, <2>1, <2>2, AliasTells
<1>5. CASE op = "resolveAlias" /\ v = "error"
  <2>1. d = W!WriteStatus("error")
    BY <1>5, AnswersAre, Zenon
  <2>2. W!Starts(d, "error")
    BY <2>1, ShortAnswers, Zenon DEF W!Starts
  <2>3. Layout(d) = W!ReadStatus
    BY <1>5, <2>2, LayoutIs, Zenon DEF W!ReadResolveAliasResponse
  <2> QED BY <1>5, <2>1, <2>3, ShortAnswers, StatusTells, Zenon
<1>6. CASE op \in {"list", "query"}
  <2>1. op \in Listing
    BY <1>6 DEF Listing
  <2>2. CASE v = "ok"
    BY <2>1, <2>2, AnswersAre, LayoutIs, ShortAnswers, JSONTells, Zenon
  <2>3. CASE v = "error"
    <3>1. op \in {"resolveAlias", "list", "query"}
      BY <1>6
    <3> QED BY <2>1, <2>3, <3>1, AnswersAre, LayoutIs, ShortAnswers, JSONTells, Zenon
  <2> QED BY <2>2, <2>3
<1>7. CASE op \in {"action", "sendToPeer"}
  BY <1>7, AnswersAre, LayoutIs, ShortAnswers, StatusTells, Zenon
<1> QED BY <1>1, <1>2, <1>3, <1>4, <1>5, <1>6, <1>7

\* What a client makes of a message that tells v.
LEMMA TellsRead ==
  ASSUME NEW layout, NEW full, NEW v, Tells(layout, full, v), NEW t \in Seq(Field), Meets(t, full, Len(full)),
         NEW p, p = W!Parse(layout, t)
  PROVE  IF Len(full) <= Len(t)
         THEN p.result = "ok" /\ p.rest = SubSeq(t, Len(full) + 1, Len(t)) /\ p.value.status = v
         ELSE p.result = "short"
<1>1. PICK r : Matches(layout, full, r) /\ r["status"] = v /\ layout[1][2] = "status" /\ Len(layout) >= 1
  BY Zenon DEF Tells
<1>2. IF Len(full) <= Len(t)
      THEN /\ p.result = "ok" /\ p.rest = SubSeq(t, Len(full) + 1, Len(t))
           /\ DOMAIN p.value = {layout[i][2] : i \in 1 .. Len(layout)}
           /\ \A i \in 1 .. Len(layout) : p.value[layout[i][2]] = r[layout[i][2]]
      ELSE p.result = "short"
  BY <1>1, MatchRead
<1>3. 1 \in 1 .. Len(layout)
  <2>1. Len(layout) \in Nat
    BY <1>1, Zenon DEF Matches
  <2> QED BY <1>1, <2>1
<1>4. CASE Len(full) <= Len(t)
  <2>1. p.value[layout[1][2]] = r[layout[1][2]]
    BY <1>2, <1>3, <1>4, Zenon
  <2>2. p.value["status"] = v
    BY <1>1, <2>1, Zenon
  <2> QED BY <1>2, <1>4, <2>2
<1>5. CASE ~(Len(full) <= Len(t))
  BY <1>2, <1>5, Zenon
<1> QED BY <1>4, <1>5

\* A whole message is read to its end.
LEMMA WholeRead ==
  ASSUME NEW layout, NEW v, NEW t \in Seq(Field), Tells(layout, t, v), NEW p, p = W!Parse(layout, t)
  PROVE  p.result = "ok" /\ p.rest = <<>> /\ p.value.status = v
<1>1. Meets(t, t, Len(t)) /\ Len(t) <= Len(t) /\ SubSeq(t, Len(t) + 1, Len(t)) = <<>>
  BY DEF Meets
<1>2. IF Len(t) <= Len(t)
      THEN p.result = "ok" /\ p.rest = SubSeq(t, Len(t) + 1, Len(t)) /\ p.value.status = v
      ELSE p.result = "short"
  BY <1>1, TellsRead
<1> QED BY <1>1, <1>2, Zenon

\* The header that a streamed content begins with.
LEMMA HeaderMatches ==
  ASSUME NEW length \in {0, 2}
  PROVE  \E r : Matches(W!ReadDownloadResponseHeader, W!WriteDownloadResponse(length), r)
<1> DEFINE layout == W!ReadDownloadResponseHeader
           full == W!WriteDownloadResponse(length)
           r == [status |-> "ok", length |-> length]
<1>1. W!N1("ok") \in Field /\ W!N8(length) \in Field
  <2>1. length \in Nat
    OBVIOUS
  <2>2. W!N8(length) \in Field
    BY <2>1, OtherFields, Zenon
  <2> QED BY <2>2, ManifestFields, Zenon
<1>2. /\ layout[1] = <<"n1", "status">> /\ layout[2] = <<"n8", "length">> /\ Len(layout) = 2
      /\ DOMAIN layout = 1 .. 2
  BY DEF W!ReadDownloadResponseHeader
<1>3. /\ full \in Seq(Field) /\ Len(full) = 2 /\ full[1] = W!N1("ok") /\ full[2] = W!N8(length)
  BY <1>1 DEF W!WriteDownloadResponse
<1>4. full[1] = <<"n1", r["status"]>> /\ full[2] = <<"n8", r["length"]>>
  <2> HIDE DEF full
  <2> QED BY <1>3 DEF W!N1, W!N8
<1> HIDE DEF layout, full, r
<1>5. \A i \in 1 .. 2 : layout[i][1] # "list" /\ full[i] = <<layout[i][1], r[layout[i][2]]>>
  <2>1. \A i \in 1 .. 2 : i = 1 \/ i = 2
    OBVIOUS
  <2> QED BY <1>2, <1>4, <2>1
<1>6. Matches(layout, full, r)
  BY <1>2, <1>3, <1>5, SinglesMatch
<1> QED BY <1>6, Zenon DEF layout, full

\* What is streamed.
LEMMA StreamedIs ==
  ASSUME NEW v, NEW x \in Streamed(v)
  PROVE  \/ x = W!WriteDownloadError
         \/ \E length \in {0, 2}, n \in {0, 1, 2} :
              x = W!WriteDownloadResponse(length) \o [i \in 1 .. n |-> W!Raw("content")]
<1> DEFINE E(length, n) == W!WriteDownloadResponse(length) \o [i \in 1 .. n |-> W!Raw("content")]
           N == IF v = "ok" THEN {2} ELSE {0, 1}
           A == {E(length, n) : length \in {0, 2}, n \in N}
           B == IF v = "error" THEN {W!WriteDownloadError} ELSE {}
<1>1. Streamed(v) = A \cup B
  BY SMT DEF Streamed
<1>2. N \subseteq {0, 1, 2}
  OBVIOUS
<1> HIDE DEF E, N
<1>3. x \in A => \E length \in {0, 2}, n \in N : x = E(length, n)
  OBVIOUS
<1>4. x \in B => x = W!WriteDownloadError
  OBVIOUS
<1> HIDE DEF A, B
<1>5. x = W!WriteDownloadError \/ \E length \in {0, 2}, n \in {0, 1, 2} : x = E(length, n)
  BY <1>1, <1>2, <1>3, <1>4, Zenon
<1> QED BY <1>5 DEF E

LEMMA StreamBegins ==
  ASSUME NEW length \in {0, 2}, NEW n \in {0, 1, 2}, NEW x,
         x = W!WriteDownloadResponse(length) \o [i \in 1 .. n |-> W!Raw("content")]
  PROVE  /\ x \in Seq(Field) /\ Len(W!WriteDownloadResponse(length)) <= Len(x) /\ ~W!Starts(x, "error")
         /\ Meets(x, W!WriteDownloadResponse(length), Len(W!WriteDownloadResponse(length)))
<1> DEFINE full == W!WriteDownloadResponse(length)
           content == [i \in 1 .. n |-> W!Raw("content")]
<1>1. full \in Seq(Field) /\ Len(full) = 2 /\ full[1] = W!N1("ok")
  <2>1. length \in Nat
    OBVIOUS
  <2>2. W!N1("ok") \in Field /\ W!N8(length) \in Field
    BY <2>1, ManifestFields, OtherFields, Zenon
  <2> QED BY <2>2 DEF W!WriteDownloadResponse
<1>2. content \in Seq(Field)
  <2>1. n \in Nat
    OBVIOUS
  <2>2. "content" \in Text
    BY DEF Text
  <2>3. content \in [1 .. n -> Field]
    BY <2>2, TextFields, Zenon
  <2> HIDE DEF content
  <2> QED BY <2>1, <2>3, Listed
<1>3. x = full \o content
  OBVIOUS
<1> HIDE DEF full, content
<1>4. /\ x \in Seq(Field) /\ Len(full) <= Len(x) /\ x # <<>> /\ x[1] = W!N1("ok")
      /\ \A i \in 1 .. Len(full) : x[i] = full[i]
  <2>1. full \in Seq(Field) /\ Len(full) # 0
    BY ONLY <1>1
  <2>2. /\ x \in Seq(Field) /\ Len(full) <= Len(x) /\ x # <<>> /\ x[1] = full[1]
        /\ \A i \in 1 .. Len(full) : x[i] = full[i]
    BY ONLY <1>2, <1>3, <2>1, Appended, SMT
  <2> QED BY <1>1, <2>2, Zenon
<1>5. ~W!Starts(x, "error")
  <2>1. Head(x) = x[1]
    BY <1>4
  <2> QED BY <1>4, <2>1, ManifestFields, Zenon DEF W!Starts
<1>6. Meets(x, full, Len(full))
  <2>1. \A i \in 1 .. Len(x) : i <= Len(full) => i \in 1 .. Len(full)
    BY <1>1
  <2> QED BY <1>4, <2>1, Zenon DEF Meets
<1> QED BY <1>4, <1>5, <1>6 DEF full

\* The header of a download, or its error, is read.
LEMMA HeaderRead ==
  ASSUME op \in {"download", "ecdhDownload"}, NEW v \in {"ok", "error"}, NEW d \in Answers(v),
         NEW p, p = W!Parse(IF W!Starts(d, "error")
                            THEN W!ReadDownloadResponseHeader \o <<<<"raw", "message">>>>
                            ELSE W!ReadDownloadResponseHeader, d)
  PROVE  p.result = "ok"
<1>1. d \in Streamed(v)
  BY AnswersAre, Zenon
<1>2. CASE d = W!WriteDownloadError
  <2>1. W!Starts(d, "error")
    BY <1>2, ShortAnswers, Zenon DEF W!Starts
  <2>2. W!ReadDownloadResponseHeader \o <<<<"raw", "message">>>>
          = <<<<"n1", "status">>, <<"n8", "length">>, <<"raw", "message">>>>
    <3> DEFINE x == <<"n1", "status">>
               y == <<"n8", "length">>
               z == <<"raw", "message">>
    <3>1. W!ReadDownloadResponseHeader = <<x, y>>
      BY Zenon DEF W!ReadDownloadResponseHeader
    <3> HIDE DEF x, y, z
    <3>2. <<x, y>> \o <<z>> = <<x, y, z>>
      BY ThreeElements
    <3> QED BY <3>1, <3>2, Zenon DEF x, y, z
  <2>3. Tells(<<<<"n1", "status">>, <<"n8", "length">>, <<"raw", "message">>>>, d, "error")
    BY <1>2, ErrorTells, Zenon
  <2>4. p = W!Parse(<<<<"n1", "status">>, <<"n8", "length">>, <<"raw", "message">>>>, d)
    BY <2>1, <2>2, Zenon
  <2>5. d \in Seq(Field)
    BY <1>2, ShortAnswers, Zenon
  <2> DEFINE layout == <<<<"n1", "status">>, <<"n8", "length">>, <<"raw", "message">>>>
  <2>6. Tells(layout, d, "error") /\ p = W!Parse(layout, d)
    BY <2>3, <2>4, Zenon
  <2> HIDE DEF layout
  <2> QED BY <2>5, <2>6, WholeRead
<1>3. CASE \E length \in {0, 2}, n \in {0, 1, 2} :
             d = W!WriteDownloadResponse(length) \o [i \in 1 .. n |-> W!Raw("content")]
  <2>1. PICK length \in {0, 2}, n \in {0, 1, 2} :
             d = W!WriteDownloadResponse(length) \o [i \in 1 .. n |-> W!Raw("content")]
    BY <1>3
  <2> DEFINE full == W!WriteDownloadResponse(length)
  <2>2. /\ d \in Seq(Field) /\ Len(full) <= Len(d) /\ ~W!Starts(d, "error")
        /\ Meets(d, full, Len(full))
    BY <2>1, StreamBegins
  <2>3. p = W!Parse(W!ReadDownloadResponseHeader, d)
    BY <2>2, Zenon
  <2>4. PICK r : Matches(W!ReadDownloadResponseHeader, full, r)
    BY HeaderMatches, Zenon
  <2> HIDE DEF full
  <2> QED BY <2>2, <2>3, <2>4, MatchRead
<1> QED BY <1>1, <1>2, <1>3, StreamedIs

\* Nothing can be read where nothing is.
LEMMA EmptyRead ==
  ASSUME NEW n \in Nat, NEW layout, DOMAIN layout = 1 .. n, n # 0, NEW p, p = W!Parse(layout, <<>>)
  PROVE  p.result = "short"
<1>1. PICK a : Steps(a, n, layout, <<>>)
  BY ParseSteps, Zenon
<1>2. /\ a[0] = W!Reading(<<>>, <<>>, "ok") /\ p = a[n]
      /\ \A i \in 1 .. n : a[i] = W!ReadField(a[i - 1], layout[i])
  BY <1>1, Zenon DEF Steps
<1>3. \A x, l : x.result # "ok" => W!ReadField(x, l) = x
  BY Zenon DEF W!ReadField
<1> DEFINE L == {i \in Nat : i + 1 <= n => a[i + 1].result = "short"}
<1>4. 0 \in L
  <2>1. a[0].result = "ok" /\ a[0].rest = <<>>
    BY <1>2 DEF W!Reading
  <2>2. a[1] = W!ReadField(a[0], layout[1])
    <3>1. 1 \in 1 .. n /\ 1 - 1 = 0
      OBVIOUS
    <3> QED BY <1>2, <3>1
  <2>3. a[1] = W!Reading(<<>>, a[0].value, "short")
    BY <2>1, <2>2, Zenon DEF W!ReadField
  <2>4. a[1].result = "short"
    BY <2>3 DEF W!Reading
  <2> QED BY <2>4
<1>5. ASSUME NEW i \in Nat, i \in L PROVE i + 1 \in L
  <2> SUFFICES ASSUME (i + 1) + 1 <= n PROVE a[(i + 1) + 1].result = "short"
    OBVIOUS
  <2> DEFINE m == (i + 1) + 1
  <2>1. m \in 1 .. n /\ m - 1 = i + 1 /\ i + 1 <= n
    OBVIOUS
  <2>2. a[i + 1].result = "short"
    BY <1>5, <2>1
  <2> HIDE DEF m
  <2>3. a[m] = W!ReadField(a[i + 1], layout[m])
    BY <1>2, <2>1
  <2>4. a[i + 1].result # "ok"
    BY <2>2
  <2>5. a[m] = a[i + 1]
    BY <1>3, <2>3, <2>4, Zenon
  <2> QED BY <2>2, <2>5, Zenon DEF m
<1>6. Nat \subseteq L
  <2> HIDE DEF L
  <2> QED BY <1>4, <1>5, NumberInduction
<1>7. n - 1 \in Nat /\ (n - 1) + 1 = n /\ n <= n
  OBVIOUS
<1>8. n - 1 \in L
  <2> HIDE DEF L
  <2> QED BY <1>6, <1>7
<1>9. (n - 1) + 1 <= n => a[(n - 1) + 1].result = "short"
  BY <1>8
<1> QED BY <1>2, <1>7, <1>9

\* The layouts that a client starts with are not empty.
LEMMA LayoutsAreNot ==
  ASSUME op \in Op, op \notin {"download", "ecdhDownload"}
  PROVE  \E n \in Nat : n # 0 /\ DOMAIN (Layout(<<>>)) = 1 .. n
<1>1. \A v : ~W!Starts(<<>>, v)
  BY DEF W!Starts
<1>2. DOMAIN W!ReadStatus = 1 .. 3 /\ DOMAIN W!ReadJSONResponse = 1 .. 3
  BY DEF W!ReadStatus, W!ReadJSONResponse
<1>3. op \in FileTransfer \/ op \in DirTransfer \/ op = "getManifest" \/ op = "resolveAlias" \/ op \in Listing
      \/ op \in {"action", "sendToPeer"}
  BY DEF Op, Transfer
<1>4. CASE op \in FileTransfer
  <2>1. Layout(<<>>) = W!ReadStatus
    BY <1>1, <1>4, LayoutIs, Zenon DEF W!ReadProgressOrStatus
  <2> QED BY <1>2, <2>1
<1>5. CASE op \in DirTransfer
  <2>1. Layout(<<>>) = W!ReadStatus
    BY <1>1, <1>5, LayoutIs, Zenon DEF W!ReadDirProgressOrStatus
  <2> QED BY <1>2, <2>1
<1>6. CASE op = "getManifest"
  <2> DEFINE x == <<<<"n1", "status">>, <<"n1", "encrypted">>, <<"n1", "isDirectory">>>>
  <2>1. ~(Len(<<>>) > 1)
    OBVIOUS
  <2>2. Layout(<<>>) = x \o <<>>
    BY <1>1, <1>6, <2>1, LayoutIs, Zenon DEF W!ReadManifestInfoResponse
  <2>3. x \o <<>> = x /\ DOMAIN x = 1 .. 3
    <3> DEFINE a == <<"n1", "status">>
               b == <<"n1", "encrypted">>
               c == <<"n1", "isDirectory">>
    <3>1. x = <<a, b, c>>
      OBVIOUS
    <3> DEFINE F == {a, b, c}
    <3>2. a \in F /\ b \in F /\ c \in F
      OBVIOUS
    <3> HIDE DEF a, b, c, F, x
    <3>3. x \o <<>> = x /\ x \in Seq(F) /\ Len(x) = 3
      BY <3>1, <3>2, Triple
    <3> QED BY <3>3
  <2>4. DOMAIN (Layout(<<>>)) = 1 .. 3
    BY <2>2, <2>3, Zenon
  <2>5. 3 \in Nat /\ 3 # 0
    OBVIOUS
  <2> QED BY <2>4, <2>5, Zenon
<1>7. CASE op = "resolveAlias"
  <2>1. Layout(<<>>) = <<<<"n1", "status">>, <<"list", "results", 4>>>>
    BY <1>1, <1>7, LayoutIs, Zenon DEF W!ReadResolveAliasResponse
  <2>2. DOMAIN (Layout(<<>>)) = 1 .. 2
    BY <2>1
  <2> QED BY <2>2
<1>8. CASE op \in Listing
  <2>1. Layout(<<>>) = W!ReadJSONResponse
    BY <1>8, LayoutIs, Zenon
  <2> QED BY <1>2, <2>1
<1>9. CASE op \in {"action", "sendToPeer"}
  <2>1. Layout(<<>>) = W!ReadStatus
    BY <1>9, LayoutIs, Zenon
  <2> QED BY <1>2, <2>1
<1> QED BY <1>3, <1>4, <1>5, <1>6, <1>7, <1>8, <1>9

LEMMA AnswersAreFields ==
  ASSUME op \in Op, op \notin Transfer, NEW v \in {"ok", "error"}, NEW d \in Answers(v)
  PROVE  d \in Seq(Field)
<1>1. CASE op \in {"download", "ecdhDownload"}
  <2>1. d \in Streamed(v)
    BY <1>1, AnswersAre, Zenon
  <2>2. CASE d = W!WriteDownloadError
    BY <2>2, ShortAnswers
  <2>3. CASE \E length \in {0, 2}, n \in {0, 1, 2} :
              d = W!WriteDownloadResponse(length) \o [i \in 1 .. n |-> W!Raw("content")]
    BY <2>3, StreamBegins
  <2> QED BY <2>1, <2>2, <2>3, StreamedIs
<1>2. CASE op \notin {"download", "ecdhDownload"}
  BY <1>2, AnswerTells
<1> QED BY <1>1, <1>2

\* What depends on the request only.
LEMMA SameOp ==
  ASSUME op' = op
  PROVE  /\ \A r : Written(r)' = Written(r)
         /\ Awaits' = Awaits /\ Frame' = Frame
         /\ \A v : Answers(v)' = Answers(v)
<1>1. \A r : Written(r)' = Written(r)
  BY DEF Written
<1>2. Awaits' = Awaits /\ Frame' = Frame
  BY DEF Awaits, Frame
<1>3. \A v : Answers(v)' = Answers(v)
  BY DEF Answers
<1> QED BY <1>1, <1>2, <1>3

-----------------------------------------------------------------------------
(* The steps.                                                              *)

LEMMA AwaitsIs ==
  /\ Awaits \in {"tid", "header", "loop"}
  /\ op \in Transfer => Awaits = "tid"
  /\ op \notin Transfer => Awaits \in {"header", "loop"}
  /\ op \notin Transfer /\ Awaits = "header" => op \in {"download", "ecdhDownload"}
  /\ op \notin Transfer /\ Awaits = "loop" => op \notin {"download", "ecdhDownload"}
BY DEF Awaits

LEMMA SendKeeps ==
  ASSUME SessionIInv, SendRequest
  PROVE  SessionIInv'
<1> USE DEF SendRequest
<1>1. RequestInv'
  <2>1. Awaits \notin {"start", "gone"}
    BY AwaitsIs
  <2> QED BY <2>1, SameOp DEF SessionIInv, RequestInv
<1>2. handler = "read"
  BY DEF SessionIInv, RequestInv
<1>3. op \in Transfer => TransferInv'
  BY <1>2, AwaitsIs, SameOp DEF SessionIInv, TransferInv
<1>4. op \notin Transfer => AtOnceInv'
  BY <1>2, AwaitsIs, SameOp DEF SessionIInv, AtOnceInv
<1> QED BY <1>1, <1>3, <1>4 DEF SessionIInv

LEMMA WrittenIs ==
  ASSUME op \in Op, request \in Request
  PROVE  /\ Written(request) \in Seq(Field)
         /\ Meets(Written(request), Written(request), Len(Written(request)))
BY RequestMatches DEF Matches, Meets

LEMMA DeathKeeps ==
  ASSUME SessionIInv, ClientDies
  PROVE  SessionIInv'
<1> USE DEF ClientDies
<1>1. /\ op \in Op /\ handler # "garbled" /\ (client = "start" => handler = "read")
      /\ handler = "read" => request \in Request /\ (client # "start" => up = Written(request))
      /\ asked # Nothing => /\ DOMAIN asked \subseteq DOMAIN request
                            /\ \A f \in DOMAIN asked : asked[f] = request[f]
  BY DEF SessionIInv, RequestInv
<1>2. handler = "read" => /\ up' \in Seq(Field) /\ Len(up') <= Len(Written(request))
                          /\ Meets(up', Written(request), Len(Written(request)))
  <2> SUFFICES ASSUME handler = "read"
               PROVE  /\ up' \in Seq(Field) /\ Len(up') <= Len(Written(request))
                      /\ Meets(up', Written(request), Len(Written(request)))
    OBVIOUS
  <2>1. request \in Request
    BY <1>1
  <2>2. CASE client = "start"
    <3>1. PICK n \in 0 .. Len(Written(request)) - 1 : up' = SubSeq(Written(request), 1, n)
      BY <2>2
    <3> DEFINE full == Written(request)
    <3>2. full \in Seq(Field)
      BY <1>1, <2>1, WrittenIs
    <3> HIDE DEF full
    <3>3. /\ SubSeq(full, 1, n) \in Seq(Field) /\ Len(SubSeq(full, 1, n)) = n /\ n <= Len(full)
          /\ \A i \in 1 .. n : SubSeq(full, 1, n)[i] = full[i]
      BY <3>1, <3>2 DEF full
    <3> QED BY <3>1, <3>3 DEF Meets, full
  <2>3. CASE client # "start"
    <3>1. up' = Written(request)
      BY <1>1, <2>3
    <3>2. Len(Written(request)) <= Len(Written(request))
      BY <1>1, <2>1, WrittenIs
    <3> QED BY <1>1, <2>1, <3>1, <3>2, WrittenIs, Zenon
  <2> QED BY <2>2, <2>3
<1>3. RequestInv'
  BY <1>1, <1>2, SameOp DEF RequestInv
<1> QED BY <1>3 DEF SessionIInv

LEMMA ReadKeeps ==
  ASSUME SessionIInv, ReadRequest
  PROVE  SessionIInv'
<1> DEFINE full == Written(request)
           p == W!Parse(HandleClient, up)
<1>1. /\ handler = "read" /\ client # "start" /\ op \in Op /\ request \in Request
      /\ p.result = "short" => client = "gone"
      /\ handler' = CASE p.result = "short" -> "closed"
                      [] p.result = "ok" /\ p.rest = <<>> -> "dispatch"
                      [] OTHER -> "garbled"
      /\ asked' = IF handler' = "dispatch" THEN p.value ELSE asked
      /\ UNCHANGED <<vars, op, request, down, verdict, frames, client, told>>
  BY DEF ReadRequest, SessionIInv, RequestInv
<1>2. /\ Matches(HandleClient, full, request) /\ full \in Seq(Field)
      /\ \A i \in 1 .. Len(HandleClient) : HandleClient[i][2] \in DOMAIN request
  BY <1>1, RequestMatches, WrittenIs
<1>3. up \in Seq(Field) /\ Len(up) <= Len(full) /\ Meets(up, full, Len(full)) /\ (client # "gone" => up = full)
  <2>1. CASE client = "gone"
    BY <1>1, <2>1 DEF SessionIInv, RequestInv
  <2>2. CASE client # "gone"
    <3>1. up = full
      BY <1>1, <2>2 DEF SessionIInv, RequestInv
    <3>2. Meets(full, full, Len(full))
      BY <1>1, WrittenIs
    <3> HIDE DEF full
    <3> QED BY <1>2, <3>1, <3>2
  <2> QED BY <2>1, <2>2
<1> HIDE DEF full, p
<1>4. IF Len(full) <= Len(up)
      THEN /\ p.result = "ok" /\ p.rest = SubSeq(up, Len(full) + 1, Len(up))
           /\ DOMAIN p.value = {HandleClient[i][2] : i \in 1 .. Len(HandleClient)}
           /\ \A i \in 1 .. Len(HandleClient) : p.value[HandleClient[i][2]] = request[HandleClient[i][2]]
      ELSE p.result = "short"
  <2> DEFINE layout == HandleClient
  <2>1. Matches(layout, full, request) /\ up \in Seq(Field) /\ Meets(up, full, Len(full)) /\ p = W!Parse(layout, up)
    BY <1>2, <1>3 DEF p
  <2> HIDE DEF layout
  <2>2. IF Len(full) <= Len(up)
        THEN /\ p.result = "ok" /\ p.rest = SubSeq(up, Len(full) + 1, Len(up))
             /\ DOMAIN p.value = {layout[i][2] : i \in 1 .. Len(layout)}
             /\ \A i \in 1 .. Len(layout) : p.value[layout[i][2]] = request[layout[i][2]]
        ELSE p.result = "short"
    BY ONLY <2>1, MatchRead
  <2> QED BY <2>2 DEF layout
<1>5. handler' \in {"closed", "dispatch"} /\ (client # "gone" => handler' = "dispatch")
  <2>1. CASE Len(full) <= Len(up)
    <3>1. SubSeq(up, Len(full) + 1, Len(up)) = <<>>
      BY <1>2, <1>3, <2>1
    <3>2. handler' = "dispatch"
      BY <1>1, <1>4, <2>1, <3>1
    <3> QED BY <3>2
  <2>2. CASE ~(Len(full) <= Len(up))
    <3>1. p.result = "short"
      BY <1>4, <2>2
    <3> QED BY <1>1, <3>1
  <2> QED BY <2>1, <2>2
<1>6. asked' # Nothing => /\ DOMAIN asked' \subseteq DOMAIN request
                          /\ \A f \in DOMAIN asked' : asked'[f] = request[f]
  <2>1. CASE handler' = "dispatch"
    <3>1. p.result = "ok"
      BY <1>1, <2>1
    <3>2. /\ DOMAIN p.value = {HandleClient[i][2] : i \in 1 .. Len(HandleClient)}
          /\ \A i \in 1 .. Len(HandleClient) : p.value[HandleClient[i][2]] = request[HandleClient[i][2]]
      BY <1>4, <3>1
    <3>3. DOMAIN p.value \subseteq DOMAIN request /\ \A f \in DOMAIN p.value : p.value[f] = request[f]
      <4>1. \A f \in DOMAIN p.value : \E i \in 1 .. Len(HandleClient) : f = HandleClient[i][2]
        BY <3>2
      <4> QED BY <1>2, <3>2, <4>1, Zenon
    <3>4. asked' = p.value
      BY <1>1, <2>1
    <3> QED BY <3>3, <3>4
  <2>2. CASE handler' # "dispatch"
    BY <1>1, <2>2 DEF SessionIInv, RequestInv
  <2> QED BY <2>1, <2>2
<1>7. RequestInv'
  BY <1>1, <1>5, <1>6 DEF RequestInv
<1>8. client # "gone" => /\ op \in Transfer => TransferInv'
                         /\ op \notin Transfer => AtOnceInv'
  <2> SUFFICES ASSUME client # "gone"
               PROVE  (op \in Transfer => TransferInv') /\ (op \notin Transfer => AtOnceInv')
    OBVIOUS
  <2>1. handler' = "dispatch"
    BY <1>5
  <2>2. op \in Transfer => TransferInv'
    BY <1>1, <2>1 DEF TransferInv, SessionIInv
  <2>3. op \notin Transfer => AtOnceInv'
    BY <1>1, <2>1, SameOp DEF AtOnceInv, SessionIInv
  <2> QED BY <2>2, <2>3
<1> QED BY <1>1, <1>5, <1>7, <1>8 DEF SessionIInv

\* What is sent after the ID and some frames.
LEMMA FramesSent ==
  ASSUME NEW s \in Seq(Field), NEW z \in Seq(Field), NEW x, NEW g \in Seq(Field), s # <<>>, s[1] = x, Tail(s) = g
  PROVE  /\ s \o z \in Seq(Field) /\ s \o z # <<>> /\ (s \o z)[1] = x /\ Tail(s \o z) = g \o z
<1>1. s \o z \in Seq(Field) /\ Len(s \o z) = Len(s) + Len(z) /\ Len(s) # 0
  OBVIOUS
<1>2. (s \o z)[1] = x /\ s \o z # <<>>
  BY <1>1
<1>3. Len(g) = Len(s) - 1 /\ \A i \in 1 .. Len(g) : g[i] = s[i + 1]
  <2>1. Len(Tail(s)) = Len(s) - 1 /\ \A i \in 1 .. Len(s) - 1 : Tail(s)[i] = s[i + 1]
    OBVIOUS
  <2>2. g = Tail(s)
    OBVIOUS
  <2> QED BY ONLY <2>1, <2>2
<1> DEFINE a == Tail(s \o z)
           b == g \o z
<1>4. /\ a \in Seq(Field) /\ Len(a) = Len(s) + Len(z) - 1
      /\ \A i \in 1 .. Len(s) + Len(z) - 1 : a[i] = (s \o z)[i + 1]
  BY <1>1, <1>2
<1>5. b \in Seq(Field) /\ Len(b) = Len(s) + Len(z) - 1
  <2>1. b \in Seq(Field) /\ Len(b) = Len(g) + Len(z)
    BY ONLY g \in Seq(Field), z \in Seq(Field)
  <2> HIDE DEF b
  <2> QED BY <1>1, <1>3, <2>1
<1>6. ASSUME NEW i \in 1 .. Len(s) + Len(z) - 1 PROVE a[i] = b[i]
  <2>1. CASE i + 1 <= Len(s)
    <3>1. a[i] = s[i + 1]
      BY <1>1, <1>4, <2>1
    <3>2. b[i] = g[i] /\ i \in 1 .. Len(g)
      BY <1>1, <1>3, <2>1
    <3> HIDE DEF a, b
    <3> QED BY <1>3, <3>1, <3>2
  <2>2. CASE i + 1 > Len(s)
    <3>1. a[i] = z[i + 1 - Len(s)]
      BY <1>1, <1>4, <2>2
    <3>2. b[i] = z[i - Len(g)] /\ i - Len(g) = i + 1 - Len(s)
      BY <1>1, <1>3, <2>2
    <3> HIDE DEF a, b
    <3> QED BY <3>1, <3>2
  <2> QED BY <1>1, <2>1, <2>2
<1> HIDE DEF a, b
<1>7. a = b
  <2> DEFINE n == Len(s) + Len(z) - 1
  <2>1. a = [i \in 1 .. n |-> a[i]]
    BY <1>4
  <2>2. b = [i \in 1 .. n |-> b[i]]
    BY <1>5
  <2> QED BY <1>6, <2>1, <2>2, Zenon
<1> QED BY <1>1, <1>2, <1>7 DEF a, b

LEMMA RegisterKeeps ==
  ASSUME SessionIInv, Register
  PROVE  SessionIInv'
<1> USE DEF Register
<1>1. op' \in {"downloadToFile", "dirUpload", "dirDownload"}
  OBVIOUS
<1>2. op' \in Op /\ op' \in Transfer
  BY <1>1 DEF Op, Transfer, FileTransfer, DirTransfer
<1>3. RequestInv'
  BY <1>2 DEF SessionIInv, RequestInv
<1>4. client # "gone" => TransferInv'
  BY DEF SessionIInv, TransferInv
<1> QED BY <1>2, <1>3, <1>4 DEF SessionIInv

LEMMA RequestKept ==
  ASSUME RequestInv, UNCHANGED <<op, request, asked, client>>, handler # "read",
         handler' \notin {"read", "garbled"}
  PROVE  RequestInv'
BY DEF RequestInv

LEMMA AnnounceKeeps ==
  ASSUME SessionIInv, AnnounceTransfer
  PROVE  SessionIInv'
<1> USE DEF AnnounceTransfer
<1>1. RequestInv'
  BY RequestKept DEF SessionIInv
<1>2. op \in Transfer
  BY DEF SessionIInv
<1>3. ASSUME client # "gone" PROVE TransferInv'
  <2>1. client \in {"start", "tid"} /\ down = <<>> /\ client # "start"
    BY <1>2, <1>3 DEF SessionIInv, TransferInv, RequestInv
  <2>2. "tid" \in Text
    BY DEF Text
  <2>3. W!S16("tid") \in Field
    BY <2>2, TextFields
  <2>4. down' = <<W!S16("tid")>>
    <3> DEFINE x == W!S16("tid")
    <3>1. down' = <<>> \o <<x>>
      BY <1>3, <2>1 DEF Send, W!WriteTransferID
    <3> HIDE DEF x
    <3>2. <<>> \o <<x>> = <<x>>
      OBVIOUS
    <3> QED BY <3>1, <3>2 DEF x
  <2>5. down' \in Seq(Field) /\ down' # <<>> /\ down'[1] = W!S16("tid") /\ Tail(down') = <<>>
    BY <2>3, <2>4
  <2>6. Frames(Tail(down))'
    <3>1. Final' = <<>>
      BY DEF Final
    <3>2. Blocks(<<>>, Frame, 0, <<>>)
      BY FramesAre, BlocksEmpty
    <3>3. <<>> \in Seq(Field) /\ 0 \in Nat
      OBVIOUS
    <3> QED BY <2>5, <3>1, <3>2, <3>3, SameOp, Zenon DEF Frames
  <2> QED BY <2>1, <2>5, <2>6 DEF TransferInv
<1> QED BY <1>1, <1>2, <1>3 DEF SessionIInv

LEMMA ProgressKeeps ==
  ASSUME SessionIInv, Progress
  PROVE  SessionIInv'
<1> USE DEF Progress
<1>1. RequestInv'
  BY RequestKept DEF SessionIInv
<1>2. op \in Transfer
  BY DEF SessionIInv
<1>3. ASSUME client # "gone" PROVE TransferInv'
  <2>1. /\ client \in {"tid", "loop"}
        /\ client = "tid" => down \in Seq(Field) /\ down # <<>> /\ down[1] = W!S16("tid") /\ Frames(Tail(down))
        /\ client = "loop" => Frames(down)
    BY <1>2, <1>3 DEF SessionIInv, TransferInv, RequestInv
  <2>2. down' = down \o Frame
    BY <1>3 DEF Send, Frame
  <2>3. Final = <<>> /\ Final' = <<>>
    BY DEF Final
  <2>4. ASSUME NEW s \in Seq(Field), NEW k \in Nat, Blocks(s, Frame, k, <<>>)
        PROVE  s \o Frame \in Seq(Field) /\ k + 1 \in Nat /\ Blocks(s \o Frame, Frame, k + 1, <<>>)
    BY <2>4, FramesAre, BlocksGrow
  <2>5. CASE client = "tid"
    <3>1. PICK k \in Nat : Blocks(Tail(down), Frame, k, <<>>)
      BY <2>1, <2>3, <2>5 DEF Frames
    <3> DEFINE s == down
               g == Tail(down)
    <3>2. s \in Seq(Field) /\ s # <<>> /\ s[1] = W!S16("tid") /\ g \in Seq(Field)
      BY <2>1, <2>5 DEF Frames
    <3>3. Tail(s) = g
      OBVIOUS
    <3> HIDE DEF g, s
    <3> DEFINE z == Frame
               id == W!S16("tid")
    <3>4. z \in Seq(Field)
      BY FramesAre
    <3>5. s \in Seq(Field) /\ s # <<>> /\ s[1] = id /\ g \in Seq(Field)
      BY <3>2
    <3> HIDE DEF z, id
    <3>6. s \o z \in Seq(Field) /\ s \o z # <<>> /\ (s \o z)[1] = id /\ Tail(s \o z) = g \o z
      BY ONLY <3>3, <3>4, <3>5, FramesSent
    <3>7. /\ s \o Frame \in Seq(Field) /\ s \o Frame # <<>> /\ (s \o Frame)[1] = W!S16("tid")
          /\ Tail(s \o Frame) = g \o Frame
      BY <3>6 DEF z, id
    <3>8. /\ down' \in Seq(Field) /\ down' # <<>> /\ down'[1] = W!S16("tid") /\ Tail(down') = g \o Frame
      BY <2>2, <3>7 DEF s
    <3>9. Frames(Tail(down))'
      <4>1. g \o Frame \in Seq(Field) /\ k + 1 \in Nat /\ Blocks(g \o Frame, Frame, k + 1, <<>>)
        BY <2>4, <3>1, <3>2 DEF g
      <4> DEFINE t == g \o Frame
      <4>2. Tail(down') = t
        BY <3>8
      <4>3. t \in Seq(Field) /\ k + 1 \in Nat /\ Blocks(t, Frame, k + 1, <<>>)
        BY <4>1
      <4> HIDE DEF t
      <4> QED BY <2>3, <4>2, <4>3, SameOp, Zenon DEF Frames
    <3> QED BY <2>5, <3>8, <3>9 DEF TransferInv
  <2>6. CASE client = "loop"
    <3>1. PICK k \in Nat : Blocks(down, Frame, k, <<>>)
      BY <2>1, <2>3, <2>6 DEF Frames
    <3>2. down \in Seq(Field)
      BY <2>1, <2>6 DEF Frames
    <3>3. down \o Frame \in Seq(Field) /\ k + 1 \in Nat /\ Blocks(down \o Frame, Frame, k + 1, <<>>)
      BY <2>4, <3>1, <3>2
    <3>4. Frames(down)'
      <4> DEFINE t == down \o Frame
      <4>1. down' = t /\ t \in Seq(Field) /\ k + 1 \in Nat /\ Blocks(t, Frame, k + 1, <<>>)
        BY <2>2, <3>3
      <4> HIDE DEF t
      <4> QED BY <2>3, <4>1, SameOp, Zenon DEF Frames
    <3> QED BY <2>6, <3>4 DEF TransferInv
  <2> QED BY <2>1, <2>5, <2>6
<1> QED BY <1>1, <1>2, <1>3 DEF SessionIInv

LEMMA FinalKeeps ==
  ASSUME SessionIInv, FinalStatus
  PROVE  SessionIInv'
<1> USE DEF FinalStatus
<1>1. RequestInv'
  BY RequestKept DEF SessionIInv
<1>2. op \in Transfer
  BY DEF SessionIInv
<1>3. ASSUME client # "gone" PROVE TransferInv'
  <2>1. /\ client \in {"tid", "loop"}
        /\ client = "tid" => down \in Seq(Field) /\ down # <<>> /\ down[1] = W!S16("tid") /\ Frames(Tail(down))
        /\ client = "loop" => Frames(down)
    BY <1>2, <1>3 DEF SessionIInv, TransferInv, RequestInv
  <2>2. PICK v \in {"ok", "error"} : verdict' = v /\ Send(W!WriteStatus(v))
    OBVIOUS
  <2> DEFINE z == W!WriteStatus(v)
  <2>3. down' = down \o z /\ z \in Seq(Field)
    BY <1>3, <2>2, FramesAre DEF Send
  <2>4. Final = <<>> /\ Final' = z
    <3>1. Final = <<>>
      BY DEF Final
    <3>2. Final' = W!WriteStatus(verdict')
      BY DEF Final
    <3> QED BY <2>2, <3>1, <3>2
  <2> HIDE DEF z
  <2>5. ASSUME NEW s \in Seq(Field), NEW k \in Nat, Blocks(s, Frame, k, <<>>)
        PROVE  s \o z \in Seq(Field) /\ Blocks(s \o z, Frame, k, z)
    BY <2>3, <2>5, FramesAre, BlocksEnd
  <2>6. CASE client = "tid"
    <3>1. PICK k \in Nat : Blocks(Tail(down), Frame, k, <<>>)
      BY <2>1, <2>4, <2>6 DEF Frames
    <3> DEFINE s == down
               g == Tail(down)
    <3>2. s \in Seq(Field) /\ s # <<>> /\ s[1] = W!S16("tid") /\ g \in Seq(Field)
      BY <2>1, <2>6 DEF Frames
    <3>3. Tail(s) = g
      OBVIOUS
    <3> HIDE DEF g, s
    <3>4. s \o z \in Seq(Field) /\ s \o z # <<>> /\ (s \o z)[1] = W!S16("tid") /\ Tail(s \o z) = g \o z
      <4> DEFINE id == W!S16("tid")
      <4>1. z \in Seq(Field)
        BY <2>3
      <4>2. s \in Seq(Field) /\ s # <<>> /\ s[1] = id /\ g \in Seq(Field)
        BY <3>2
      <4> HIDE DEF id
      <4>3. s \o z \in Seq(Field) /\ s \o z # <<>> /\ (s \o z)[1] = id /\ Tail(s \o z) = g \o z
        BY ONLY <3>3, <4>1, <4>2, FramesSent
      <4> QED BY <4>3 DEF id
    <3>5. /\ down' \in Seq(Field) /\ down' # <<>> /\ down'[1] = W!S16("tid") /\ Tail(down') = g \o z
      BY <2>3, <3>4 DEF s
    <3>6. Frames(Tail(down))'
      <4> DEFINE t == g \o z
      <4>1. t \in Seq(Field) /\ Blocks(t, Frame, k, z) /\ Tail(down') = t
        BY <2>5, <3>1, <3>2, <3>5 DEF g
      <4> HIDE DEF t
      <4> QED BY <2>4, <4>1, SameOp, Zenon DEF Frames
    <3> QED BY <2>2, <2>6, <3>5, <3>6 DEF TransferInv
  <2>7. CASE client = "loop"
    <3>1. PICK k \in Nat : Blocks(down, Frame, k, <<>>)
      BY <2>1, <2>4, <2>7 DEF Frames
    <3>2. down \in Seq(Field)
      BY <2>1, <2>7 DEF Frames
    <3>3. Frames(down)'
      <4> DEFINE t == down \o z
      <4>1. down' = t /\ t \in Seq(Field) /\ Blocks(t, Frame, k, z)
        BY <2>3, <2>5, <3>1, <3>2
      <4> HIDE DEF t
      <4> QED BY <2>4, <4>1, SameOp, Zenon DEF Frames
    <3> QED BY <2>2, <2>7, <3>3 DEF TransferInv
  <2> QED BY <2>1, <2>6, <2>7
<1> QED BY <1>1, <1>2, <1>3 DEF SessionIInv

LEMMA CloseKeeps ==
  ASSUME SessionIInv, HandlerCloses
  PROVE  SessionIInv'
<1> USE DEF HandlerCloses
<1>1. RequestInv'
  BY RequestKept DEF SessionIInv
<1>2. op \in Transfer
  BY DEF SessionIInv
<1>3. Final' = Final
  BY DEF Final
<1>4. \A s : Frames(s) = Frames(s)'
  BY <1>3, SameOp DEF Frames
<1>5. client # "gone" => TransferInv'
  BY <1>2, <1>4 DEF SessionIInv, TransferInv
<1> QED BY <1>1, <1>2, <1>5 DEF SessionIInv

LEMMA AtOnceKeeps ==
  ASSUME SessionIInv, AnswerAtOnce
  PROVE  SessionIInv'
<1> USE DEF AnswerAtOnce
<1>1. RequestInv'
  BY RequestKept DEF SessionIInv
<1>2. op \notin Transfer /\ op \in Op
  BY DEF SessionIInv, RequestInv
<1>3. ASSUME client # "gone" PROVE AtOnceInv'
  <2>1. client = Awaits /\ down = <<>>
    BY <1>2, <1>3 DEF SessionIInv, AtOnceInv, RequestInv
  <2>2. PICK v \in {"ok", "error"} : verdict' = v /\ \E fields \in Answers(v) : Send(fields)
    OBVIOUS
  <2>3. PICK fields \in Answers(v) : down' = <<>> \o fields
    BY <1>3, <2>1, <2>2 DEF Send
  <2>4. fields \in Seq(Field)
    BY <1>2, AnswersAreFields
  <2>5. down' = fields
    BY <2>3, <2>4
  <2>6. client' = Awaits' /\ down' \in Answers(verdict)'
    <3>1. Answers(v)' = Answers(v) /\ Awaits' = Awaits
      BY SameOp
    <3>2. Answers(verdict)' = Answers(v)'
      BY <2>2
    <3> QED BY <2>1, <2>3, <2>5, <3>1, <3>2
  <2>7. client' \notin {"done", "body", "gone"}
    BY <2>1, AwaitsIs
  <2> QED BY <2>2, <2>6, <2>7, Zenon DEF AtOnceInv
<1> QED BY <1>1, <1>2, <1>3 DEF SessionIInv

LEMMA CopyKeeps ==
  ASSUME SessionIInv, ClientCopiesBody
  PROVE  SessionIInv'
<1> USE DEF ClientCopiesBody
<1>1. RequestInv'
  BY DEF SessionIInv, RequestInv
<1>2. op \notin Transfer
  BY DEF SessionIInv, TransferInv
<1>3. AtOnceInv'
  BY <1>2, AwaitsIs, SameOp DEF SessionIInv, AtOnceInv
<1> QED BY <1>1, <1>2, <1>3 DEF SessionIInv

LEMMA SameKeeps ==
  ASSUME SessionIInv, UNCHANGED sess
  PROVE  SessionIInv'
<1> USE DEF sess
<1>1. Final' = Final
  BY DEF Final
<1>2. \A s : Frames(s) = Frames(s)'
  BY <1>1, SameOp DEF Frames
<1>3. RequestInv'
  BY SameOp DEF SessionIInv, RequestInv
<1>4. client # "gone" /\ op \in Transfer => TransferInv'
  BY <1>2 DEF SessionIInv, TransferInv
<1>5. client # "gone" /\ op \notin Transfer => AtOnceInv'
  <2>1. Answers(verdict)' = Answers(verdict)
    BY SameOp
  <2> QED BY <2>1, SameOp DEF SessionIInv, AtOnceInv
<1> QED BY <1>3, <1>4, <1>5 DEF SessionIInv

LEMMA TransferIDMatches == \E r : Matches(W!ReadTransferID, W!WriteTransferID, r)
<1> DEFINE layout == W!ReadTransferID
           full == W!WriteTransferID
           r == [tid |-> "tid"]
<1>1. "tid" \in Text
  BY DEF Text
<1>2. W!S16("tid") \in Field
  BY <1>1, TextFields
<1>3. full \in Seq(Field) /\ Len(full) = 1 /\ full[1] = W!S16("tid")
  BY <1>2 DEF W!WriteTransferID
<1>4. layout[1] = <<"s16", "tid">> /\ Len(layout) = 1 /\ DOMAIN layout = 1 .. 1
  BY DEF W!ReadTransferID
<1> HIDE DEF layout, full
<1>5. full[1] = <<"s16", r["tid"]>>
  BY <1>3 DEF W!S16
<1> HIDE DEF r
<1>6. \A i \in 1 .. 1 : layout[i][1] # "list" /\ full[i] = <<layout[i][1], r[layout[i][2]]>>
  <2>1. \A i \in 1 .. 1 : i = 1
    OBVIOUS
  <2> QED BY <1>4, <1>5, <2>1
<1>7. Matches(layout, full, r)
  BY <1>3, <1>4, <1>6, SinglesMatch
<1> QED BY <1>7, Zenon DEF layout, full

LEMMA TransferIDKeeps ==
  ASSUME SessionIInv, ClientReadsTransferID
  PROVE  SessionIInv'
<1> DEFINE p == W!Parse(W!ReadTransferID, down)
           full == W!WriteTransferID
<1>1. /\ client = "tid"
      /\ p.result = "short" => handler = "closed"
      /\ client' = CASE p.result = "ok" -> "loop" [] p.result = "short" -> "failed" [] OTHER -> "garbled"
      /\ down' = p.rest
      /\ told' = told
      /\ UNCHANGED <<vars, op, request, up, handler, asked, verdict, frames>>
  BY DEF ClientReadsTransferID, ClientReads
<1>2. op \in Transfer /\ TransferInv
  BY <1>1, AwaitsIs DEF SessionIInv, AtOnceInv
<1> HIDE DEF p
<1>3. handler \notin {"read", "dispatch", "serve"}
  <2> SUFFICES ASSUME handler \in {"read", "dispatch", "serve"} PROVE FALSE
    OBVIOUS
  <2>1. down = <<>>
    BY <1>2 DEF TransferInv
  <2>2. DOMAIN W!ReadTransferID = 1 .. 1
    BY DEF W!ReadTransferID
  <2>3. p = W!Parse(W!ReadTransferID, <<>>)
    BY <2>1 DEF p
  <2>4. p.result = "short"
    BY <2>2, <2>3, EmptyRead
  <2> QED BY <1>1, <2>4
<1>4. /\ handler \in {"run", "answered", "closed"}
      /\ down \in Seq(Field) /\ down # <<>> /\ down[1] = W!S16("tid") /\ Frames(Tail(down))
  BY <1>1, <1>2, <1>3 DEF TransferInv
<1>5. full[1] = W!S16("tid") /\ Len(full) = 1
  BY DEF W!WriteTransferID
<1>6. PICK r : Matches(W!ReadTransferID, full, r)
  BY TransferIDMatches
<1> HIDE DEF full
<1>7. Meets(down, full, Len(full)) /\ Len(full) <= Len(down) /\ SubSeq(down, Len(full) + 1, Len(down)) = Tail(down)
  BY <1>4, <1>5 DEF Meets
<1>8. p.result = "ok" /\ p.rest = SubSeq(down, Len(full) + 1, Len(down))
  <2> DEFINE layout == W!ReadTransferID
             t == down
  <2>1. Matches(layout, full, r) /\ t \in Seq(Field) /\ Meets(t, full, Len(full)) /\ p = W!Parse(layout, t)
    BY <1>4, <1>6, <1>7 DEF p
  <2> HIDE DEF layout, t
  <2>2. IF Len(full) <= Len(t)
        THEN /\ p.result = "ok" /\ p.rest = SubSeq(t, Len(full) + 1, Len(t))
             /\ DOMAIN p.value = {layout[i][2] : i \in 1 .. Len(layout)}
             /\ \A i \in 1 .. Len(layout) : p.value[layout[i][2]] = r[layout[i][2]]
        ELSE p.result = "short"
    BY ONLY <2>1, MatchRead
  <2> QED BY <1>7, <2>2 DEF t
<1>9. client' = "loop" /\ down' = Tail(down)
  BY <1>1, <1>7, <1>8
<1>10. Frames(down)'
  <2>1. Final' = Final
    BY <1>1 DEF Final
  <2>2. Frame' = Frame
    BY <1>1, SameOp
  <2> QED BY <1>4, <1>9, <2>1, <2>2, Zenon DEF Frames
<1>11. TransferInv'
  BY <1>1, <1>2, <1>4, <1>9, <1>10 DEF TransferInv
<1>12. RequestInv'
  BY <1>1, <1>9, SameOp DEF SessionIInv, RequestInv
<1> QED BY <1>1, <1>2, <1>11, <1>12 DEF SessionIInv

\* The layout of a frame that is known by its first field.
LEMMA FrameLayout ==
  ASSUME op \in Transfer, NEW d
  PROVE  /\ W!Starts(d, "progress") =>
              \E r : Matches(Layout(d), Frame, r)
         /\ ~W!Starts(d, "progress") => Layout(d) = W!ReadStatus
<1>1. op \in FileTransfer \/ op \in DirTransfer
  BY DEF Transfer
<1>2. op \in DirTransfer => op \notin FileTransfer
  BY Kinds
<1>3. W!Starts(d, "progress") =>
        Layout(d) = IF op \in FileTransfer
                    THEN <<<<"n1", "status">>, <<"n4", "completed">>, <<"n4", "total">>>>
                    ELSE <<<<"n1", "status">>, <<"n4", "fileIdx">>, <<"n4", "fileTotal">>, <<"n4", "chunkIdx">>,
                           <<"n4", "chunkTotal">>>>
  BY <1>1, <1>2, LayoutIs, Zenon DEF W!ReadProgressOrStatus, W!ReadDirProgressOrStatus
<1>4. ~W!Starts(d, "progress") => Layout(d) = W!ReadStatus
  BY <1>1, LayoutIs, Zenon DEF W!ReadProgressOrStatus, W!ReadDirProgressOrStatus
<1> QED BY <1>3, <1>4, FrameMatches, Zenon

LEMMA FrameAnswerKeeps ==
  ASSUME SessionIInv, ClientReadsAnswer, op \in Transfer
  PROVE  SessionIInv'
<1> DEFINE p == W!Parse(Layout(down), down)
           next == IF op \in Transfer /\ W!Starts(down, "progress") THEN "loop" ELSE "done"
<1>1. /\ client = "loop"
      /\ p.result = "short" => handler = "closed"
      /\ client' = CASE p.result = "ok" -> next [] p.result = "short" -> "failed" [] OTHER -> "garbled"
      /\ down' = p.rest
      /\ told' = IF p.result = "ok" /\ next = "done" THEN p.value.status ELSE told
      /\ UNCHANGED <<vars, op, request, up, handler, asked, verdict, frames>>
  BY DEF ClientReadsAnswer, ClientReads
<1>2. /\ TransferInv /\ handler \in {"run", "answered", "closed"} /\ Frames(down)
      /\ handler # "run" => verdict \in {"ok", "error"}
  BY <1>1 DEF SessionIInv, TransferInv
<1> DEFINE layout == Layout(down)
           f == Frame
           z == Final
<1>3. down \in Seq(Field) /\ \E k \in Nat : Blocks(down, f, k, z)
  BY <1>2 DEF Frames
<1>4. PICK k \in Nat : Blocks(down, f, k, z)
  BY <1>3
<1>5. f \in Seq(Field) /\ Len(f) \in {3, 5} /\ f[1] = W!N1("progress")
  BY FramesAre
<1>6. (handler = "run" => z = <<>>) /\ (handler # "run" => z = W!WriteStatus(verdict))
  BY <1>2 DEF Final
<1>7. z \in Seq(Field)
  <2> HIDE DEF z
  <2>1. CASE handler = "run"
    <3>1. <<>> \in Seq(Field)
      OBVIOUS
    <3> QED BY <1>6, <2>1, <3>1
  <2>2. CASE handler # "run"
    BY <1>2, <1>6, <2>2, FramesAre
  <2> QED BY <2>1, <2>2
<1>8. Frame' = f /\ Final' = z
  BY <1>1, SameOp DEF Final
<1>9. (client' = "loop" \/ client' = "done") => RequestInv'
  BY <1>1, SameOp DEF SessionIInv, RequestInv
<1>10. p = W!Parse(layout, down)
  OBVIOUS
<1>10a. op' \in Transfer /\ handler' = handler /\ verdict' = verdict
  BY <1>1
<1>11. W!Starts(down, "progress") => \E r : Matches(layout, f, r)
  BY FrameLayout
<1>12. ~W!Starts(down, "progress") => layout = W!ReadStatus
  BY FrameLayout
<1>13. next = IF W!Starts(down, "progress") THEN "loop" ELSE "done"
  OBVIOUS
<1> HIDE DEF p, layout, f, z, next
<1>14. CASE k # 0
  <2>1. /\ Len(f) <= Len(down) /\ Meets(down, f, Len(f)) /\ down # <<>> /\ down[1] = f[1]
        /\ Blocks(SubSeq(down, Len(f) + 1, Len(down)), f, k - 1, z)
    BY <1>3, <1>4, <1>5, <1>7, <1>14, BlocksRead
  <2>2. W!Starts(down, "progress")
    <3>1. Head(down) = down[1]
      BY <1>3, <2>1
    <3> QED BY <1>5, <2>1, <3>1, Zenon DEF W!Starts
  <2>3. PICK r : Matches(layout, f, r)
    BY <1>11, <2>2
  <2>4. p.result = "ok" /\ p.rest = SubSeq(down, Len(f) + 1, Len(down))
    <3> DEFINE t == down
    <3>1. Matches(layout, f, r) /\ t \in Seq(Field) /\ Meets(t, f, Len(f)) /\ p = W!Parse(layout, t)
      BY <1>3, <1>10, <2>1, <2>3
    <3> HIDE DEF t
    <3>2. IF Len(f) <= Len(t)
          THEN /\ p.result = "ok" /\ p.rest = SubSeq(t, Len(f) + 1, Len(t))
               /\ DOMAIN p.value = {layout[i][2] : i \in 1 .. Len(layout)}
               /\ \A i \in 1 .. Len(layout) : p.value[layout[i][2]] = r[layout[i][2]]
          ELSE p.result = "short"
      BY ONLY <3>1, MatchRead
    <3> QED BY <2>1, <3>2 DEF t
  <2>5. client' = "loop" /\ told' = told /\ down' = SubSeq(down, Len(f) + 1, Len(down))
    BY <1>1, <1>13, <2>2, <2>4
  <2>6. Frames(down)'
    <3> DEFINE g == SubSeq(down, Len(f) + 1, Len(down))
    <3>1. g \in Seq(Field)
      BY <1>3, <1>5, <2>1
    <3>2. k - 1 \in Nat
      BY <1>14
    <3>3. Blocks(g, f, k - 1, z) /\ down' = g
      BY <2>1, <2>5
    <3> HIDE DEF g
    <3> QED BY <1>8, <3>1, <3>2, <3>3, Zenon DEF Frames
  <2>7. TransferInv'
    BY <1>1, <1>2, <2>5, <2>6 DEF TransferInv
  <2> QED BY <1>9, <1>10a, <2>5, <2>7 DEF SessionIInv
<1>15. CASE k = 0
  <2>1. down = z
    <3>1. Blocks(down, f, 0, z)
      BY <1>4, <1>15
    <3> QED BY <1>3, <1>5, <1>7, <3>1, BlocksOver
  <2>2. CASE handler = "run"
    <3>1. down = <<>>
      BY <1>6, <2>1, <2>2
    <3>2. ~W!Starts(down, "progress")
      BY <3>1 DEF W!Starts
    <3>3. p = W!Parse(W!ReadStatus, <<>>)
      BY <1>10, <1>12, <3>1, <3>2
    <3>4. DOMAIN W!ReadStatus = 1 .. 3
      BY DEF W!ReadStatus
    <3>5. p.result = "short"
      BY <3>3, <3>4, EmptyRead
    <3> QED BY <1>1, <2>2, <3>5
  <2>3. CASE handler # "run"
    <3>1. verdict \in {"ok", "error"} /\ down = W!WriteStatus(verdict)
      BY <1>2, <1>6, <2>1, <2>3
    <3>2. ~W!Starts(down, "progress")
      <4>1. W!N1("ok") # W!N1("progress") /\ W!N1("error") # W!N1("progress")
        BY DEF W!N1
      <4>2. Head(down) = W!N1(verdict)
        BY <3>1, ShortAnswers
      <4>3. W!N1(verdict) # W!N1("progress")
        BY <3>1, <4>1
      <4> QED BY <4>2, <4>3, Zenon DEF W!Starts
    <3>3. p = W!Parse(W!ReadStatus, down)
      BY <1>10, <1>12, <3>2
    <3>4. Tells(W!ReadStatus, down, verdict)
      BY <3>1, StatusTells
    <3>5. p.result = "ok" /\ p.value.status = verdict
      BY <1>3, <3>3, <3>4, WholeRead
    <3>6. client' = "done" /\ told' = verdict
      BY <1>1, <1>13, <3>2, <3>5
    <3>7. TransferInv'
      BY <1>1, <1>2, <2>3, <3>6 DEF TransferInv
    <3> QED BY <1>9, <1>10a, <3>6, <3>7 DEF SessionIInv
  <2> QED BY <2>2, <2>3
<1> QED BY <1>14, <1>15

LEMMA AtOnceAnswerKeeps ==
  ASSUME SessionIInv, ClientReadsAnswer, op \notin Transfer
  PROVE  SessionIInv'
<1> DEFINE p == W!Parse(Layout(down), down)
           layout == Layout(down)
<1>1. /\ client = "loop"
      /\ p.result = "short" => handler = "closed"
      /\ client' = CASE p.result = "ok" -> "done" [] p.result = "short" -> "failed" [] OTHER -> "garbled"
      /\ down' = p.rest
      /\ told' = IF p.result = "ok" THEN p.value.status ELSE told
      /\ UNCHANGED <<vars, op, request, up, handler, asked, verdict, frames>>
  BY DEF ClientReadsAnswer, ClientReads
<1>2. AtOnceInv /\ op \in Op /\ handler \in {"read", "dispatch", "closed"}
  BY <1>1 DEF SessionIInv, RequestInv
<1>3. client = Awaits /\ op \notin {"download", "ecdhDownload"}
  BY <1>1, <1>2, AwaitsIs DEF AtOnceInv
<1>4. p = W!Parse(layout, down)
  OBVIOUS
<1>5. client' = "done" => RequestInv'
  BY <1>1, SameOp DEF SessionIInv, RequestInv
<1> HIDE DEF p
<1>6. handler = "closed"
  <2> SUFFICES ASSUME handler # "closed" PROVE FALSE
    OBVIOUS
  <2>1. down = <<>>
    BY <1>2 DEF AtOnceInv
  <2>2. PICK n \in Nat : n # 0 /\ DOMAIN (Layout(<<>>)) = 1 .. n
    BY <1>2, <1>3, LayoutsAreNot
  <2>3. p = W!Parse(Layout(<<>>), <<>>)
    BY <1>4, <2>1
  <2>4. p.result = "short"
    BY <2>2, <2>3, EmptyRead
  <2> QED BY <1>1, <2>4
<1>7. verdict \in {"ok", "error"} /\ down \in Answers(verdict)
  BY <1>2, <1>3, <1>6 DEF AtOnceInv
<1>8. down \in Seq(Field) /\ Tells(layout, down, verdict)
  BY <1>2, <1>3, <1>7, AnswerTells
<1> HIDE DEF layout
<1>9. p.result = "ok" /\ p.value.status = verdict
  BY <1>4, <1>8, WholeRead
<1>10. client' = "done" /\ told' = verdict
  BY <1>1, <1>9
<1>11. AtOnceInv'
  <2>1. Awaits' # "done"
    BY <1>1, AwaitsIs, SameOp
  <2> QED BY <1>1, <1>2, <1>6, <1>7, <1>10, <2>1 DEF AtOnceInv
<1> QED BY <1>1, <1>2, <1>5, <1>10, <1>11 DEF SessionIInv

LEMMA HeaderKeeps ==
  ASSUME SessionIInv, ClientReadsHeader
  PROVE  SessionIInv'
<1> DEFINE layout == IF W!Starts(down, "error")
                     THEN W!ReadDownloadResponseHeader \o <<<<"raw", "message">>>>
                     ELSE W!ReadDownloadResponseHeader
           p == W!Parse(layout, down)
<1>1. /\ client = "header"
      /\ p.result = "short" => handler = "closed"
      /\ p.result = "ok" => client' \in {"done", "body"}
      /\ UNCHANGED <<vars, op, request, up, handler, asked, verdict, frames>>
  <2>1. CASE W!Starts(down, "error")
    <3>1. ClientReads(layout, "done") /\ client = "header"
      BY <2>1 DEF ClientReadsHeader
    <3> HIDE DEF layout
    <3> QED BY <3>1 DEF ClientReads
  <2>2. CASE ~W!Starts(down, "error")
    <3>1. ClientReads(layout, "body") /\ client = "header"
      BY <2>2 DEF ClientReadsHeader
    <3> HIDE DEF layout
    <3> QED BY <3>1 DEF ClientReads
  <2> QED BY <2>1, <2>2
<1>2. op \notin Transfer /\ AtOnceInv /\ op \in Op /\ handler \in {"read", "dispatch", "closed"}
  BY <1>1 DEF SessionIInv, RequestInv, TransferInv
<1>3. client = Awaits /\ op \in {"download", "ecdhDownload"}
  BY <1>1, <1>2, AwaitsIs DEF AtOnceInv
<1>4. client' \in {"done", "body"} => RequestInv'
  BY <1>1, SameOp DEF SessionIInv, RequestInv
<1>5. p = W!Parse(layout, down)
  OBVIOUS
<1> HIDE DEF p
<1>6. handler = "closed"
  <2> SUFFICES ASSUME handler # "closed" PROVE FALSE
    OBVIOUS
  <2>1. down = <<>>
    BY <1>2 DEF AtOnceInv
  <2>2. ~W!Starts(down, "error")
    BY <2>1 DEF W!Starts
  <2>3. p = W!Parse(W!ReadDownloadResponseHeader, <<>>)
    BY <1>5, <2>1, <2>2
  <2>4. DOMAIN W!ReadDownloadResponseHeader = 1 .. 2
    BY DEF W!ReadDownloadResponseHeader
  <2>5. p.result = "short"
    BY <2>3, <2>4, EmptyRead
  <2> QED BY <1>1, <2>5
<1>7. verdict \in {"ok", "error"} /\ down \in Answers(verdict)
  BY <1>2, <1>3, <1>6 DEF AtOnceInv
<1>8. p.result = "ok"
  BY <1>3, <1>5, <1>7, HeaderRead
<1>9. client' \in {"done", "body"}
  BY <1>1, <1>8
<1>10. AtOnceInv'
  <2>1. Awaits' \notin {"done", "body"}
    BY <1>1, AwaitsIs, SameOp
  <2> QED BY <1>1, <1>2, <1>3, <1>6, <1>7, <1>9, <2>1 DEF AtOnceInv
<1> QED BY <1>1, <1>2, <1>4, <1>9, <1>10 DEF SessionIInv

LEMMA SessionStarts ==
  ASSUME SessionInit
  PROVE  SessionIInv
<1> USE DEF SessionInit
<1>1. RequestInv
  BY DEF RequestInv
<1>2. op \in Transfer => TransferInv
  BY DEF TransferInv
<1>3. op \notin Transfer => AtOnceInv
  BY DEF AtOnceInv
<1> QED BY <1>1, <1>2, <1>3 DEF SessionIInv

LEMMA SessionKeeps ==
  ASSUME SessionIInv, [SessionNext]_all
  PROVE  SessionIInv'
<1>1. CASE SendRequest
  BY <1>1, SendKeeps
<1>2. CASE ClientReadsTransferID
  BY <1>2, TransferIDKeeps
<1>3. CASE ClientReadsAnswer
  BY <1>3, FrameAnswerKeeps, AtOnceAnswerKeeps
<1>4. CASE ClientReadsHeader
  BY <1>4, HeaderKeeps
<1>5. CASE ClientCopiesBody
  BY <1>5, CopyKeeps
<1>6. CASE ClientDies
  BY <1>6, DeathKeeps
<1>7. CASE ReadRequest
  BY <1>7, ReadKeeps
<1>8. CASE Register
  BY <1>8, RegisterKeeps
<1>9. CASE AnnounceTransfer
  BY <1>9, AnnounceKeeps
<1>10. CASE Progress
  BY <1>10, ProgressKeeps
<1>11. CASE FinalStatus
  BY <1>11, FinalKeeps
<1>12. CASE HandlerCloses
  BY <1>12, CloseKeeps
<1>13. CASE AnswerAtOnce
  BY <1>13, AtOnceKeeps
<1>14. CASE ManagerStep \/ UNCHANGED all
  <2>1. UNCHANGED sess
    BY <1>14 DEF ManagerStep, all
  <2> QED BY <2>1, SameKeeps
<1> QED BY <1>1, <1>2, <1>3, <1>4, <1>5, <1>6, <1>7, <1>8, <1>9, <1>10, <1>11, <1>12, <1>13, <1>14
        DEF SessionNext, ClientStep, DaemonStep

\* What is under way in either direction is, from any position of the reader, what
\* that reader expects: the request for HandleClient's reader, then for the client
\* the ID, any number of frames and the status, or the answer that is sent at once.
THEOREM SessionFraming == SessionSpec => []SessionIInv
<1>1. SessionInit => SessionIInv
  BY SessionStarts
<1>2. SessionIInv /\ [SessionNext]_all => SessionIInv'
  BY SessionKeeps
<1> QED BY <1>1, <1>2, PTL DEF SessionSpec

\* Every handler reads what its client wrote (each pair of writer and reader in
\* cmd/ipc.go and ipc/wire.go), for access lists of any length.
THEOREM RequestsUnderstood == SessionSpec => []RequestUnderstood
<1>1. SessionIInv => RequestUnderstood
  BY DEF SessionIInv, RequestInv, RequestUnderstood
<1> QED BY <1>1, SessionFraming, PTL

\* A client that stays ends with its handler's result, for any number of progress
\* frames, recipients and contacts, and whatever other connections do to the transfer.
THEOREM AnswersUnderstood == SessionSpec => []AnswerUnderstood
<1>1. ASSUME SessionIInv PROVE AnswerUnderstood
  <2>1. CASE client = "gone"
    BY <2>1 DEF AnswerUnderstood
  <2>2. CASE client # "gone" /\ op \in Transfer
    <3>1. TransferInv
      BY <1>1, <2>2 DEF SessionIInv
    <3>2. handler \notin {"read", "dispatch", "serve"} \/ client # "done"
      BY <3>1 DEF TransferInv
    <3> QED BY <3>1, <3>2 DEF TransferInv, AnswerUnderstood
  <2>3. CASE client # "gone" /\ op \notin Transfer
    <3>1. AtOnceInv /\ handler \in {"read", "dispatch", "closed"}
      BY <1>1, <2>3 DEF SessionIInv
    <3>2. client \in {"start", "tid", "header", "loop", "body", "done"}
      BY <3>1, AwaitsIs DEF AtOnceInv
    <3>3. client = "done" => handler = "closed"
      BY <3>1, AwaitsIs DEF AtOnceInv
    <3> QED BY <3>1, <3>2, <3>3 DEF AtOnceInv, AnswerUnderstood
  <2> QED BY <2>1, <2>2, <2>3
<1> QED BY <1>1, SessionFraming, PTL

-----------------------------------------------------------------------------
(* Connections of a peer. *)


\* What the direction of a connection says about where it can be.
DirectionInv ==
  \A c \in Conn :
    /\ stage[c] = "none" <=> dir[c] = "none"
    /\ stage[c] = "stored" => dir[c] = "out"
    /\ announce[c] # "none" => dir[c] = "in"

\* The peer under the canonical address has got through OnPeer and, unless it was
\* moved there from an ephemeral address, its disconnect was not handled.
CanonicalInv ==
  canonical # None =>
    /\ stage[canonical] \notin {"none", "start"}
    /\ sharedPort \/ dir[canonical] = "out" => stage[canonical] \in {"stored", "open"}

\* Ephemeral addresses, in the peers map and in announceAdded, belong to inbound
\* connections whose disconnect was not handled.
EphemeralInv ==
  /\ \A c \in ephemeral : dir[c] = "in" /\ stage[c] = "open"
  /\ announceAdded # None => dir[announceAdded] = "in" /\ stage[announceAdded] = "open"

\* We dialled, nobody dialled us, and no departure was handled.
OnlyOutbound == leaver = "none" /\ \A c \in Conn : dir[c] # "in"

\* Then a connection on its way into the ring is the one in the peers map, and a
\* node that is in the ring without a peer in the map has a disconnect handler
\* about to take it out.
OutboundInv ==
  OnlyOutbound =>
    /\ \A c \in Conn : stage[c] = "stored" => canonical = c
    /\ ring /\ canonical = None => \E c \in Conn : stage[c] = "noticing"

PeersInv == PeersTypeOK /\ DirectionInv /\ CanonicalInv /\ EphemeralInv /\ OutboundInv

USE ConnsAssumption DEF Conn, None

LEMMA PeersInitInv == PeersInit => PeersInv
  BY DEF PeersInit, PeersInv, PeersTypeOK, DirectionInv, CanonicalInv, EphemeralInv, OutboundInv

\* A connection opens, or its socket closes.
LEMMA OpenPreserves ==
  ASSUME PeersInv, NEW c \in Conn, Open(c, "out") \/ Open(c, "in") \/ Close(c)
  PROVE  PeersInv'
<1> USE DEF PeersInv, Goto
<1>1. ASSUME NEW d \in {"out", "in"}, Open(c, d)
      PROVE  PeersInv'
  <2> USE <1>1 DEF Open
  <2>1. PeersTypeOK'
    BY DEF PeersTypeOK
  <2>2. DirectionInv'
    BY DEF DirectionInv, PeersTypeOK
  <2>3. CanonicalInv'
    BY DEF CanonicalInv, PeersTypeOK
  <2>4. EphemeralInv'
    BY DEF EphemeralInv, PeersTypeOK
  <2>5. OutboundInv'
    BY DEF OutboundInv, OnlyOutbound, PeersTypeOK, DirectionInv
  <2> QED
    BY <2>1, <2>2, <2>3, <2>4, <2>5
<1>2. CASE Close(c)
  BY <1>2 DEF Close, PeersTypeOK, DirectionInv, CanonicalInv, EphemeralInv, OutboundInv, OnlyOutbound
<1> QED
  BY <1>1, <1>2

\* OnPeer.
LEMMA OnPeerPreserves ==
  ASSUME PeersInv, NEW c \in Conn, OnPeerInbound(c) \/ OnPeerOutbound(c) \/ OnPeerJoins(c)
  PROVE  PeersInv'
<1> USE DEF PeersInv, Goto
<1>1. CASE OnPeerInbound(c)
  <2> USE <1>1 DEF OnPeerInbound
  <2>1. PeersTypeOK'
    BY DEF PeersTypeOK
  <2>2. DirectionInv'
    BY DEF DirectionInv, PeersTypeOK
  <2>3. CanonicalInv'
    BY DEF CanonicalInv, PeersTypeOK
  <2>4. EphemeralInv'
    BY DEF EphemeralInv, PeersTypeOK
  <2>5. OutboundInv'
    BY DEF OutboundInv, OnlyOutbound, PeersTypeOK
  <2> QED
    BY <2>1, <2>2, <2>3, <2>4, <2>5
<1>2. CASE OnPeerOutbound(c)
  <2> USE <1>2 DEF OnPeerOutbound, HasOutbound
  <2>1. PeersTypeOK'
    BY DEF PeersTypeOK
  <2>2. DirectionInv'
    BY DEF DirectionInv, PeersTypeOK
  <2>3. CanonicalInv'
    BY DEF CanonicalInv, PeersTypeOK
  <2>4. EphemeralInv'
    BY DEF EphemeralInv, PeersTypeOK
  <2>5. OutboundInv'
    BY DEF OutboundInv, OnlyOutbound, PeersTypeOK, DirectionInv, CanonicalInv
  <2> QED
    BY <2>1, <2>2, <2>3, <2>4, <2>5
<1>3. CASE OnPeerJoins(c)
  <2> USE <1>3 DEF OnPeerJoins
  <2>1. PeersTypeOK'
    BY DEF PeersTypeOK, AddNode
  <2>2. DirectionInv'
    BY DEF DirectionInv, PeersTypeOK
  <2>3. CanonicalInv'
    BY DEF CanonicalInv, PeersTypeOK
  <2>4. EphemeralInv'
    BY DEF EphemeralInv, PeersTypeOK
  <2>5. OutboundInv'
    BY DEF OutboundInv, OnlyOutbound, PeersTypeOK
  <2> QED
    BY <2>1, <2>2, <2>3, <2>4, <2>5
<1> QED
  BY <1>1, <1>2, <1>3

\* handleAnnounce, which only inbound connections have.
LEMMA AnnouncePreserves ==
  ASSUME PeersInv, NEW c \in Conn, AnnounceRemaps(c) \/ AnnounceJoins(c)
  PROVE  PeersInv'
<1> USE DEF PeersInv
<1>1. CASE AnnounceRemaps(c)
  <2> USE <1>1 DEF AnnounceRemaps
  <2>1. PeersTypeOK'
    BY DEF PeersTypeOK
  <2>2. DirectionInv'
    BY DEF DirectionInv, PeersTypeOK
  <2>3. CanonicalInv'
    BY DEF CanonicalInv, EphemeralInv, PeersTypeOK
  <2>4. EphemeralInv'
    BY DEF EphemeralInv, PeersTypeOK
  <2>5. OutboundInv'
    BY DEF OutboundInv, OnlyOutbound, PeersTypeOK, DirectionInv
  <2> QED
    BY <2>1, <2>2, <2>3, <2>4, <2>5
<1>2. CASE AnnounceJoins(c)
  <2> USE <1>2 DEF AnnounceJoins
  <2>1. PeersTypeOK'
    BY DEF PeersTypeOK, AddNode
  <2>2. DirectionInv'
    BY DEF DirectionInv, PeersTypeOK
  <2>3. CanonicalInv' /\ EphemeralInv'
    BY DEF CanonicalInv, EphemeralInv
  <2>4. OutboundInv'
    BY DEF OutboundInv, OnlyOutbound, PeersTypeOK, DirectionInv
  <2> QED
    BY <2>1, <2>2, <2>3, <2>4
<1> QED
  BY <1>1, <1>2

\* OnPeerDisconnect.
LEMMA GonePreserves ==
  ASSUME PeersInv, NEW c \in Conn, OutboundGone(c) \/ InboundGone(c) \/ GoneLeaves(c)
  PROVE  PeersInv'
<1> USE DEF PeersInv, Goto, SamePeer
<1>1. CASE OutboundGone(c)
  <2> USE <1>1 DEF OutboundGone
  <2>1. PeersTypeOK'
    BY DEF PeersTypeOK
  <2>2. DirectionInv'
    BY DEF DirectionInv, PeersTypeOK
  <2>3. CanonicalInv'
    BY DEF CanonicalInv, PeersTypeOK
  <2>4. EphemeralInv'
    BY DEF EphemeralInv, PeersTypeOK
  <2>5. OutboundInv'
    BY DEF OutboundInv, OnlyOutbound, PeersTypeOK
  <2> QED
    BY <2>1, <2>2, <2>3, <2>4, <2>5
<1>2. CASE InboundGone(c)
  <2> USE <1>2 DEF InboundGone
  <2>1. PeersTypeOK'
    BY DEF PeersTypeOK
  <2>2. DirectionInv'
    BY DEF DirectionInv, PeersTypeOK
  <2>3. CanonicalInv'
    BY DEF CanonicalInv, PeersTypeOK
  <2>4. EphemeralInv'
    BY DEF EphemeralInv, PeersTypeOK
  <2>5. OutboundInv'
    BY DEF OutboundInv, OnlyOutbound, PeersTypeOK
  <2> QED
    BY <2>1, <2>2, <2>3, <2>4, <2>5
<1>3. CASE GoneLeaves(c)
  <2> USE <1>3 DEF GoneLeaves
  <2>1. PeersTypeOK'
    BY DEF PeersTypeOK, ForceDead
  <2>2. DirectionInv'
    BY DEF DirectionInv, PeersTypeOK
  <2>3. CanonicalInv'
    BY DEF CanonicalInv, PeersTypeOK
  <2>4. EphemeralInv'
    BY DEF EphemeralInv, PeersTypeOK
  <2>5. OutboundInv'
    BY DEF OutboundInv, OnlyOutbound, PeersTypeOK
  <2> QED
    BY <2>1, <2>2, <2>3, <2>4, <2>5
<1> QED
  BY <1>1, <1>2, <1>3

\* DisconnectPeer and handleLeaving take names out of the tables.
LEMMA LeaverPreserves ==
  ASSUME PeersInv, DisconnectPeer \/ DisconnectPeerLeaves \/ HandleLeaving \/ HandleLeavingCloses
  PROVE  PeersInv'
<1> USE DEF PeersInv
<1>1. CASE DisconnectPeer
  BY <1>1 DEF DisconnectPeer, PeersTypeOK, DirectionInv, CanonicalInv, EphemeralInv, OutboundInv,
              OnlyOutbound
<1>2. CASE DisconnectPeerLeaves
  BY <1>2 DEF DisconnectPeerLeaves, ForceDead, PeersTypeOK, DirectionInv, CanonicalInv, EphemeralInv,
              OutboundInv, OnlyOutbound
<1>3. CASE HandleLeaving
  BY <1>3 DEF HandleLeaving, PeersTypeOK, DirectionInv, CanonicalInv, EphemeralInv, OutboundInv,
              OnlyOutbound
<1>4. CASE HandleLeavingCloses
  BY <1>4 DEF HandleLeavingCloses, PeersTypeOK, DirectionInv, CanonicalInv, EphemeralInv, OutboundInv,
              OnlyOutbound
<1> QED
  BY <1>1, <1>2, <1>3, <1>4

LEMMA PeersNextInv == PeersInv /\ [PeersNext]_peerVars => PeersInv'
<1> SUFFICES ASSUME PeersInv, [PeersNext]_peerVars
             PROVE  PeersInv'
  OBVIOUS
<1>1. ASSUME NEW c \in Conn, Open(c, "out") \/ Open(c, "in") \/ Close(c)
      PROVE  PeersInv'
  BY <1>1, OpenPreserves
<1>2. ASSUME NEW c \in Conn, ConnStep(c)
      PROVE  PeersInv'
  BY <1>2, OnPeerPreserves, AnnouncePreserves, GonePreserves DEF ConnStep
<1>3. CASE DisconnectPeer \/ DisconnectPeerLeaves \/ HandleLeaving \/ HandleLeavingCloses
  BY <1>3, LeaverPreserves
<1>4. CASE UNCHANGED peerVars
  BY <1>4 DEF peerVars, PeersInv, PeersTypeOK, DirectionInv, CanonicalInv, EphemeralInv, OutboundInv,
              OnlyOutbound
<1> QED
  BY <1>1, <1>2, <1>3, <1>4 DEF PeersNext

LEMMA PeersInvariance == PeersSpec => []PeersInv
  BY PeersInitInv, PeersNextInv, PTL DEF PeersSpec

\* The peers map does not keep a connection whose OnPeerDisconnect has run, except
\* an inbound one that was moved to the canonical address.
THEOREM PeerNotStale == PeersSpec => []NoStalePeer
<1>1. PeersInv => NoStalePeer
  BY DEF PeersInv, PeersTypeOK, DirectionInv, CanonicalInv, NoStalePeer
<1> QED
  BY <1>1, PeersInvariance, PTL

\* Neither an ephemeral key of the peers map nor the reverse mapping outlives the
\* connection that it was made for.
THEOREM MapDoesNotLeak == PeersSpec => []NoMapLeak
<1>1. PeersInv => NoMapLeak
  BY DEF PeersInv, EphemeralInv, NoMapLeak
<1> QED
  BY <1>1, PeersInvariance, PTL

\* A node that only we dialled leaves the ring with its last connection.
THEOREM RingFollowsOutbound == PeersSpec => []OutboundLeavesRing
<1>1. PeersInv => OutboundLeavesRing
  <2> SUFFICES ASSUME PeersInv, Gone, \A c \in Conn : dir[c] # "in"
               PROVE  ~ring
    BY DEF OutboundLeavesRing
  <2>1. \A c \in Conn : stage[c] \in {"none", "done"}
    BY DEF Gone, Quiet
  <2>2. canonical = None
    BY <2>1 DEF PeersInv, PeersTypeOK, DirectionInv, CanonicalInv
  <2> QED
    BY <2>1, <2>2 DEF PeersInv, OutboundInv, OnlyOutbound, Gone
<1> QED
  BY <1>1, PeersInvariance, PTL
=============================================================================
