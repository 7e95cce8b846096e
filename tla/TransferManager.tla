--------------------------- MODULE TransferManager ---------------------------
(***************************************************************************)
(* One entry of transfer.Manager (Server/transfer/transfer.go) and the     *)
(* goroutines that share it: the IPC handler that registered it, the       *)
(* workers spawned by handleResumeTransfer, and the clients that pause,    *)
(* resume and cancel it (cmd/handle_client.go).                            *)
(*                                                                         *)
(* The manager looks an entry up under m.mu, releases it, and then works   *)
(* on the *trackedTransfer under t.mu: an entry can leave the registry in  *)
(* between, and the operation then works on the orphan.  Entries do not    *)
(* interact, so one is modelled.                                           *)
(***************************************************************************)
EXTENDS Naturals

CONSTANTS Clients,      \* concurrent pause / resume / cancel connections
          MaxWorkers    \* bound on workers: the handler and MaxWorkers - 1 resumes

ASSUME WorkersAssumption == MaxWorkers \in Nat \ {0}

Worker == 1 .. MaxWorkers      \* 1 is the handler that registered the transfer

VARIABLES registered,   \* the entry is in m.transfers
          status,       \* t.Status
          current,      \* the worker whose context t.cancel cancels
          ctx,          \* context of each worker
          wpc, outcome, \* position of each worker, result of its operation
          seen,         \* status each worker read in completeAndRecordTransfer
          cpc,          \* what each client is in the middle of
          history       \* statuses RecordTransfer persisted

vars == <<registered, status, current, ctx, wpc, outcome, seen, cpc, history>>

Status == {"queued", "active", "paused", "completed", "failed"}

TypeOK ==
  /\ registered \in BOOLEAN
  /\ status \in Status
  /\ current \in Worker
  /\ ctx \in [Worker -> {"none", "live", "cancelled"}]
  /\ wpc \in [Worker -> {"none", "start", "run", "fail", "get", "complete", "record", "leave", "gone"}]
  /\ outcome \in [Worker -> {"none", "ok", "err"}]
  /\ seen \in [Worker -> Status]
  /\ cpc \in [Clients -> {"idle", "pause", "resume", "cancel"}]
  /\ history \subseteq {"completed", "failed"}

\* Register: the entry is queued and the handler owns its context.
Init ==
  /\ registered = TRUE
  /\ status = "queued"
  /\ current = 1
  /\ ctx = [w \in Worker |-> IF w = 1 THEN "live" ELSE "none"]
  /\ wpc = [w \in Worker |-> IF w = 1 THEN "start" ELSE "none"]
  /\ outcome = [w \in Worker |-> "none"]
  /\ seen = [w \in Worker |-> "queued"]
  /\ cpc = [k \in Clients |-> "idle"]
  /\ history = {}

Move(w, l) == wpc' = [wpc EXCEPT ![w] = l]

-----------------------------------------------------------------------------
(* Workers.                                                                *)

\* The handler: SetStatus(tid, Active) right after Register.
SetActive ==
  /\ wpc[1] = "start"
  /\ status' = IF registered THEN "active" ELSE status
  /\ Move(1, "run")
  /\ UNCHANGED <<registered, current, ctx, outcome, seen, cpc, history>>

\* GetDataToFile / GetDirectory / StoreData returns.  A download whose context
\* is done usually fails, but one that has fetched what it asked for succeeds.
\* A resumed worker then reports a failure with SetStatus; the handler does not.
OperationEnds(w) ==
  /\ wpc[w] = "run"
  /\ \E r \in {"ok", "err"} :
       /\ outcome' = [outcome EXCEPT ![w] = r]
       /\ Move(w, IF r = "err" /\ w # 1 THEN "fail" ELSE "get")
  /\ UNCHANGED <<registered, status, current, ctx, seen, cpc, history>>

\* handleResumeTransfer: SetStatus(id, Failed, ...).
SetFailed(w) ==
  /\ wpc[w] = "fail"
  /\ status' = IF registered THEN "failed" ELSE status
  /\ Move(w, "get")
  /\ UNCHANGED <<registered, current, ctx, outcome, seen, cpc, history>>

\* completeAndRecordTransfer: Get.
ReadStatus(w) ==
  /\ wpc[w] = "get"
  /\ seen' = [seen EXCEPT ![w] = IF registered THEN status ELSE @]
  /\ outcome' = [outcome EXCEPT ![w] = "none"]
  /\ Move(w, IF registered THEN "complete" ELSE "leave")
  /\ UNCHANGED <<registered, status, current, ctx, cpc, history>>

\* completeAndRecordTransfer: Complete, which does not look at the status.
Complete(w) ==
  /\ wpc[w] = "complete"
  /\ status' = IF registered THEN "completed" ELSE status
  /\ Move(w, "record")
  /\ UNCHANGED <<registered, current, ctx, outcome, seen, cpc, history>>

\* completeAndRecordTransfer: RecordTransfer with the status read before.
Record(w) ==
  /\ wpc[w] = "record"
  /\ history' = history \cup {IF seen[w] = "failed" THEN "failed" ELSE "completed"}
  /\ seen' = [seen EXCEPT ![w] = "queued"]
  /\ Move(w, "leave")
  /\ UNCHANGED <<registered, status, current, ctx, outcome, cpc>>

\* The handler's deferred cancel(); a resumed worker drops its cancel function.
Leave(w) ==
  /\ wpc[w] = "leave"
  /\ ctx' = IF w = 1 THEN [ctx EXCEPT ![w] = "cancelled"] ELSE ctx
  /\ Move(w, "gone")
  /\ UNCHANGED <<registered, status, current, outcome, seen, cpc, history>>

-----------------------------------------------------------------------------
(* Clients.  Each operation is a lookup under m.mu and an update under     *)
(* t.mu; Cancel deletes the entry in the first.                            *)

Lookup(k, op) ==
  /\ cpc[k] = "idle"
  /\ registered
  /\ cpc' = [cpc EXCEPT ![k] = op]
  /\ registered' = (op # "cancel")
  /\ UNCHANGED <<status, current, ctx, wpc, outcome, seen, history>>

\* Pause: whatever the status is, it becomes Paused and the context is done.
Pause(k) ==
  /\ cpc[k] = "pause"
  /\ status' = "paused"
  /\ ctx' = [ctx EXCEPT ![current] = "cancelled"]
  /\ cpc' = [cpc EXCEPT ![k] = "idle"]
  /\ UNCHANGED <<registered, current, wpc, outcome, seen, history>>

\* Resume that does not check the status.
MutResumeAny(k) ==
  /\ cpc[k] = "resume"
  /\ \E w \in Worker :
       /\ wpc[w] = "none"
       /\ \A u \in Worker : u < w => wpc[u] # "none"
       /\ ctx' = [ctx EXCEPT ![w] = "live"]
       /\ current' = w
       /\ Move(w, "run")
  /\ status' = "active"
  /\ cpc' = [cpc EXCEPT ![k] = "idle"]
  /\ UNCHANGED <<registered, outcome, seen, history>>

\* Resume that keeps the old cancel function.
MutResumeOldCancel(k) ==
  /\ cpc[k] = "resume"
  /\ status = "paused"
  /\ \E w \in Worker :
       /\ wpc[w] = "none"
       /\ \A u \in Worker : u < w => wpc[u] # "none"
       /\ ctx' = [ctx EXCEPT ![w] = "live"]
       /\ Move(w, "run")
  /\ status' = "active"
  /\ cpc' = [cpc EXCEPT ![k] = "idle"]
  /\ UNCHANGED <<registered, current, outcome, seen, history>>

\* Resume: only a paused transfer, which gets a fresh context and a new worker
\* (handleResumeTransfer spawns it at once).
Resume(k) ==
  /\ cpc[k] = "resume"
  /\ \/ /\ status = "paused"
        /\ \E w \in Worker :
             /\ wpc[w] = "none"
             /\ \A u \in Worker : u < w => wpc[u] # "none"
             /\ ctx' = [ctx EXCEPT ![w] = "live"]
             /\ current' = w
             /\ Move(w, "run")
        /\ status' = "active"
     \/ /\ status # "paused"
        /\ UNCHANGED <<status, current, ctx, wpc>>
  /\ cpc' = [cpc EXCEPT ![k] = "idle"]
  /\ UNCHANGED <<registered, outcome, seen, history>>

Cancel(k) ==
  /\ cpc[k] = "cancel"
  /\ status' = "failed"
  /\ ctx' = [ctx EXCEPT ![current] = "cancelled"]
  /\ cpc' = [cpc EXCEPT ![k] = "idle"]
  /\ UNCHANGED <<registered, current, wpc, outcome, seen, history>>

WorkerStep(w) ==
  \/ OperationEnds(w) \/ SetFailed(w) \/ ReadStatus(w) \/ Complete(w) \/ Record(w) \/ Leave(w)

ClientApply(k) == Pause(k) \/ Resume(k) \/ Cancel(k)

Next ==
  \/ SetActive
  \/ \E w \in Worker : WorkerStep(w)
  \/ \E k \in Clients : ClientApply(k) \/ \E op \in {"pause", "resume", "cancel"} : Lookup(k, op)

Spec == Init /\ [][Next]_vars

-----------------------------------------------------------------------------
(* Properties.                                                             *)

\* However pauses, resumes and the end of an old worker interleave, at most
\* one worker still runs with a context that nobody has cancelled.
OneLiveWorker ==
  \A w, u \in Worker :
    wpc[w] = "run" /\ wpc[u] = "run" /\ ctx[w] = "live" /\ ctx[u] = "live" => w = u

\* While the entry is in the registry its cancel function reaches the live
\* worker, so that Pause and Cancel stop it and not an older one.
CancelReachesLiveWorker ==
  \A w \in Worker : wpc[w] = "run" /\ ctx[w] = "live" => current = w

=============================================================================
