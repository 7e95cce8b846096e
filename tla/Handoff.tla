------------------------------- MODULE Handoff -------------------------------
(***************************************************************************)
(* Hinted handoff (Cluster/handoff/handoff.go): the store of hints, one    *)
(* JSON file per target, and HandoffService, which delivers the hints of a *)
(* target when it reconnects.                                              *)
(*                                                                         *)
(* Store operations hold s.mu for their whole length, the write of the     *)
(* file included, so each is one step.  A delivery loop works on a copy of *)
(* the hints and touches the store once per hint, after the network call;  *)
(* uploads, read repair, the hourly purge and other loops run in between.  *)
(*                                                                         *)
(* A hint names a chunk by its content address, so hints for one key have  *)
(* one size.  `id' is the order of creation, which stands for CreatedAt.   *)
(***************************************************************************)
EXTENDS Integers, Sequences, SequencesExt

CONSTANTS Target, Key,
          Size,         \* [Key -> Nat], the data size of a chunk
          MaxHints,     \* s.maxHints, per target
          MaxDataSize,  \* s.maxDataSize, over all targets
          MaxAttempts,  \* maxDeliveryAttempts
          MaxAdds,      \* bound on hints ever stored
          MaxCrashes    \* bound on daemon crashes

ASSUME SizeAssumption == IsFiniteSet(Target) /\ Size \in [Key -> Nat]
ASSUME LimitsAssumption == {MaxHints, MaxAttempts} \subseteq Nat \ {0} /\ MaxDataSize \in Nat
ASSUME BoundsAssumption == MaxAdds \in Nat /\ MaxCrashes \in Nat

VARIABLES hints,        \* s.hints
          total,        \* s.totalDataSize
          file,         \* the hint files
          phase,        \* the delivery loop of each target (activeDeliveries)
          todo,         \* its copy of the hints, from the current one on
          adds, crashes,
          repeated      \* a key was stored for a target that had a hint for it

handoffVars == <<hints, total, file, phase, todo, adds, crashes, repeated>>
loops == <<phase, todo>>
counts == <<adds, crashes>>

Hint == [id : 1 .. MaxAdds, key : Key, attempts : 0 .. MaxAttempts - 1]

HandoffTypeOK ==
  /\ hints \in [Target -> Seq(Hint)]
  /\ total \in Nat
  /\ file \in [Target -> Seq(Hint)]
  /\ phase \in [Target -> {"idle", "copy", "deliver", "sent", "failed"}]
  /\ todo \in [Target -> Seq(Hint)]
  /\ adds \in 0 .. MaxAdds /\ crashes \in 0 .. MaxCrashes
  /\ repeated \in BOOLEAN

HandoffInit ==
  /\ hints = [t \in Target |-> <<>>]
  /\ total = 0
  /\ file = [t \in Target |-> <<>>]
  /\ phase = [t \in Target |-> "idle"]
  /\ todo = [t \in Target |-> <<>>]
  /\ adds = 0 /\ crashes = 0
  /\ repeated = FALSE

KeysOf(s) == {s[i].key : i \in 1 .. Len(s)}

SizeOf(s) == FoldLeft(LAMBDA sum, h : sum + Size[h.key], 0, s)

\* Data size of the hints of all targets.
TotalSize(hs) == FoldFunction(LAMBDA s, sum : sum + SizeOf(s), 0, hs)

\* The hints of target t are s, in memory and, by persistLocked, in its file.
Store(t, s) ==
  /\ hints' = [hints EXCEPT ![t] = s]
  /\ file' = [file EXCEPT ![t] = s]

-----------------------------------------------------------------------------
(* Store.AddHint.                                                          *)

\* The evicted hint stays on the total.
MutAddToStore(t, h) ==
  /\ Store(t, Append(IF Len(hints[t]) >= MaxHints THEN Tail(hints[t]) ELSE hints[t], h))
  /\ total' = total + Size[h.key]

\* A target with MaxHints hints evicts the oldest.
AddToStore(t, h) ==
  \/ /\ Len(hints[t]) < MaxHints
     /\ Store(t, Append(hints[t], h))
     /\ total' = total + Size[h.key]
  \/ /\ Len(hints[t]) >= MaxHints
     /\ Store(t, Append(Tail(hints[t]), h))
     /\ total' = total - Size[Head(hints[t]).key] + Size[h.key]

Fits(k) == total + Size[k] <= MaxDataSize

\* Over the data budget the hint is dropped without an error.
AddHint(t, k) ==
  /\ adds < MaxAdds
  /\ adds' = adds + 1
  /\ \/ /\ Fits(k)
        /\ AddToStore(t, [id |-> adds + 1, key |-> k, attempts |-> 0])
        /\ repeated' = (repeated \/ k \in KeysOf(hints[t]))
     \/ /\ ~Fits(k)
        /\ UNCHANGED <<hints, total, file, repeated>>
  /\ UNCHANGED <<loops, crashes>>

-----------------------------------------------------------------------------
(* HandoffService.                                                         *)

\* OnPeerReconnect: nothing pending, or a loop already active, is ignored.
OnPeerReconnect(t) ==
  /\ hints[t] # <<>>
  /\ phase[t] = "idle"
  /\ phase' = [phase EXCEPT ![t] = "copy"]
  /\ UNCHANGED <<hints, total, file, todo, counts, repeated>>

\* deliverPending: GetHints.
CopyHints(t) ==
  /\ phase[t] = "copy"
  /\ todo' = [todo EXCEPT ![t] = hints[t]]
  /\ phase' = [phase EXCEPT ![t] = "deliver"]
  /\ UNCHANGED <<hints, total, file, counts, repeated>>

\* hs.deliver: the chunk is read from the CAS and sent, or not.
Deliver(t) ==
  /\ phase[t] = "deliver" /\ todo[t] # <<>>
  /\ \E r \in {"sent", "failed"} : phase' = [phase EXCEPT ![t] = r]
  /\ UNCHANGED <<hints, total, file, todo, counts, repeated>>

NextHint(t) ==
  /\ todo' = [todo EXCEPT ![t] = Tail(@)]
  /\ phase' = [phase EXCEPT ![t] = "deliver"]

\* The hints of s that are in set H, in their order.
Only(s, H) == FoldLeft(LAMBDA kept, h : IF h \in H THEN Append(kept, h) ELSE kept, <<>>, s)

WithKey(s, k) == Only(s, {h \in Hint : h.key = k})
WithoutKey(s, k) == Only(s, {h \in Hint : h.key # k})

\* DeleteHint forgets the file.
MutDeleteHint(t, k) ==
  /\ hints' = [hints EXCEPT ![t] = WithoutKey(@, k)]
  /\ total' = total - SizeOf(WithKey(hints[t], k))
  /\ UNCHANGED file

\* DeleteHint: every hint with the key, also one stored since the copy.
DeleteHint(t, k) ==
  /\ Store(t, WithoutKey(hints[t], k))
  /\ total' = total - SizeOf(WithKey(hints[t], k))

Delivered(t) ==
  /\ phase[t] = "sent"
  /\ DeleteHint(t, Head(todo[t]).key)
  /\ NextHint(t)
  /\ UNCHANGED <<counts, repeated>>

\* A hint that is gone is put back.
MutUpdated(s, h) ==
  LET at == SelectInSeq(s, LAMBDA g : g.key = h.key) IN
  IF at = 0 THEN Append(s, h) ELSE [s EXCEPT ![at] = h]

\* UpdateHint: the copy replaces the first hint with its key, if there is one.
Updated(s, h) ==
  LET at == SelectInSeq(s, LAMBDA g : g.key = h.key) IN
  IF at = 0 THEN s ELSE [s EXCEPT ![at] = h]

\* A hint that is never given up.
MutDeliveryFailed(t) ==
  LET h == [Head(todo[t]) EXCEPT !.attempts = IF @ + 1 < MaxAttempts THEN @ + 1 ELSE @] IN
  /\ phase[t] = "failed"
  /\ Store(t, Updated(hints[t], h))
  /\ NextHint(t)
  /\ UNCHANGED <<total, counts, repeated>>

GiveUp(h) == h.attempts >= MaxAttempts

\* The copy's attempts are counted; at the limit the hint is discarded.
DeliveryFailed(t) ==
  LET h == [Head(todo[t]) EXCEPT !.attempts = @ + 1] IN
  /\ phase[t] = "failed"
  /\ \/ GiveUp(h) /\ DeleteHint(t, h.key)
     \/ ~GiveUp(h) /\ Store(t, Updated(hints[t], h)) /\ UNCHANGED total
  /\ NextHint(t)
  /\ UNCHANGED <<counts, repeated>>

\* The loop ends and is no longer active.
DeliveryEnds(t) ==
  /\ phase[t] = "deliver" /\ todo[t] = <<>>
  /\ phase' = [phase EXCEPT ![t] = "idle"]
  /\ UNCHANGED <<hints, total, file, todo, counts, repeated>>

-----------------------------------------------------------------------------
(* Time and crashes.                                                       *)

\* Hints of hs younger than the cutoff, and the others.
Fresh(hs, cutoff) == [t \in Target |-> Only(hs[t], {h \in Hint : h.id > cutoff})]
Expired(hs, cutoff) == [t \in Target |-> Only(hs[t], {h \in Hint : h.id <= cutoff})]

\* PurgeExpired, hourly: hints older than maxAge, of all targets.
PurgeExpired ==
  /\ \E cutoff \in 1 .. adds :
       /\ hints' = Fresh(hints, cutoff)
       /\ total' = total - TotalSize(Expired(hints, cutoff))
       /\ file' = [t \in Target |-> IF hints'[t] = hints[t] THEN file[t] ELSE hints'[t]]
  /\ UNCHANGED <<loops, counts, repeated>>

\* A write of the file of t may be under way.
Writing(t) == adds < MaxAdds \/ phase[t] \in {"sent", "failed"}

\* The daemon stops and starts: NewStore loads the files and purges.  A file
\* that was being written is empty or cut off; load skips it.
Crash ==
  /\ crashes < MaxCrashes
  /\ crashes' = crashes + 1
  /\ \E torn \in {{}} \cup {{t} : t \in {u \in Target : Writing(u)}}, cutoff \in 0 .. adds :
       LET loaded == [t \in Target |-> IF t \in torn THEN <<>> ELSE file[t]] IN
       /\ hints' = Fresh(loaded, cutoff)
       /\ file' = hints'
       /\ total' = TotalSize(loaded) - TotalSize(Expired(loaded, cutoff))
  /\ phase' = [t \in Target |-> "idle"]
  /\ todo' = [t \in Target |-> <<>>]
  /\ UNCHANGED <<adds, repeated>>

-----------------------------------------------------------------------------

Loop(t) == CopyHints(t) \/ Deliver(t) \/ Delivered(t) \/ DeliveryFailed(t) \/ DeliveryEnds(t)

HandoffNext ==
  \/ \E t \in Target : OnPeerReconnect(t) \/ Loop(t) \/ \E k \in Key : AddHint(t, k)
  \/ PurgeExpired
  \/ Crash

\* A loop goes on (a send ends, uploads end) and the target reconnects again.
Fairness == \A t \in Target : WF_handoffVars(Loop(t)) /\ WF_handoffVars(OnPeerReconnect(t))

HandoffSpec == HandoffInit /\ [][HandoffNext]_handoffVars

FairSpec == HandoffSpec /\ Fairness

-----------------------------------------------------------------------------
(* Properties.                                                             *)

\* The running total is the size of the hints in the store, through eviction,
\* duplicates, retries, expiry and reloads; so the budget check means something.
Accounted == total = TotalSize(hints)

\* "Hints are persisted to disk": what a restart would load is what the store
\* holds, after every operation.
Durable == file = hints

\* A delivery loop works on a copy; a chunk whose hint was evicted, expired or
\* deleted in the meantime is not brought back by it ("not found - already
\* delivered").
NothingComesBack ==
  [][adds' = adds => \A t \in Target : KeysOf(hints'[t]) \subseteq KeysOf(hints[t])]_handoffVars

\* Every hint is delivered or given up: the queue of a target that keeps
\* reconnecting runs empty.  Not so when a chunk was hinted twice for a target:
\* UpdateHint replaces the first of the two, and the count never gets far.
Drains == [](~repeated) => \A t \in Target : []<>(hints[t] = <<>>)
=============================================================================
