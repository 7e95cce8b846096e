------------------------------ MODULE Sharing ------------------------------
(***************************************************************************)
(* What nodes tell each other about files: the upload list and the public  *)
(* catalog with its summary in the gossip metadata, deletions, direct      *)
(* shares with their access grants, outbox and inbox.  Connections break   *)
(* at any time and lose what is under way; they come back, whereupon each  *)
(* side flushes its outbox.                                                *)
(*                                                                         *)
(* Every message has a stream of its own, so that they arrive in any       *)
(* order.  The bolt transactions of StateDB are atomic.  A file's key      *)
(* starts with the fingerprint of its owner, so nobody else uploads it.    *)
(***************************************************************************)
EXTENDS Naturals, FiniteSets, TLC

CONSTANTS
  Node,
  Link,       \* pairs of nodes that can be connected
  File,
  Owner,      \* the node whose fingerprint the key starts with
  Public,     \* files uploaded in plaintext for everybody; the rest are encrypted
  Handler,    \* concurrent IPC connections with a send-to-peer request
  None,
  MaxShares,  \* bound on send-to-peer requests
  MaxUploads  \* bound on uploads, so on deletions

ASSUME SharingAssumption ==
  /\ Link \subseteq {{m, n} : m \in Node, n \in Node}
  /\ Owner \in [File -> Node] /\ Public \subseteq File
  /\ MaxShares \in Nat /\ MaxUploads \in Nat

VARIABLES
  link,       \* connected pairs of nodes
  msgs,       \* messages under way
  uploads, public, tombstones, summary,   \* of each node
  inbox, outbox,                          \* of each node
  knows,      \* whose identity metadata a node has
  flush,      \* FlushOutbox goroutines that are to run
  access, signed,   \* the access list of a file's manifest, and the list its signature covers
  req,        \* what each handler is doing
  count,      \* requests and uploads so far
  granted, overlap   \* history: grants that succeeded, and that two overlapped

catalog == <<uploads, public, tombstones, summary>>
boxes == <<inbox, outbox, knows, flush>>
grants == <<access, signed, granted, overlap>>
sharingVars == <<link, msgs, catalog, boxes, grants, req, count>>

\* Nodes that have something to share; the outbox of others stays empty.
Sharer == {Owner[f] : f \in File}
Linked(m, n) == {m, n} \in link
Peers(n) == {m \in Node : Linked(m, n)}

Message == [type : {"share", "delete"}, from : Node, to : Node, key : File]

Idle == [pc |-> "idle", to |-> None, key |-> None, list |-> {}, sig |-> {}]
Request == [pc : {"idle", "sign", "append", "send", "queue"}, to : Node \cup {None},
            key : File \cup {None}, list : SUBSET Node, sig : SUBSET Node]

SharingTypeOK ==
  /\ link \subseteq Link /\ msgs \subseteq Message
  /\ \A x \in {uploads, public, tombstones, summary, inbox} : x \in [Node -> SUBSET File]
  /\ outbox \in [Node -> SUBSET (Node \X File)]
  /\ knows \in [Node -> SUBSET Node] /\ flush \subseteq Node \X Node
  /\ access \in [File -> SUBSET Node] /\ signed \in [File -> SUBSET Node]
  /\ granted \in [File -> SUBSET Node] /\ overlap \in BOOLEAN
  /\ req \in [Handler -> Request]
  /\ count \in [shares : 0 .. MaxShares, uploads : 0 .. MaxUploads]

SharingInit ==
  /\ link = {} /\ msgs = {}
  /\ uploads = [n \in Node |-> {}] /\ public = uploads /\ tombstones = uploads
  /\ summary = uploads /\ inbox = uploads
  /\ outbox = [n \in Node |-> {}] /\ knows = [n \in Node |-> {}] /\ flush = {}
  /\ access = [f \in File |-> {}] /\ signed = access /\ granted = access
  /\ overlap = FALSE
  /\ req = [h \in Handler |-> Idle]
  /\ count = [shares |-> 0, uploads |-> 0]

-----------------------------------------------------------------------------
(* Connections.                                                            *)

\* OnPeer and handleAnnounce: both sides send their identity metadata, which
\* arrives later, and start a goroutine that flushes the outbox.
Connect(m, n) ==
  /\ {m, n} \in Link \ link
  /\ link' = link \cup {{m, n}}
  /\ flush' = flush \cup ({<<m, n>>, <<n, m>>} \cap (Sharer \X Node))
  /\ UNCHANGED <<msgs, catalog, inbox, outbox, knows, grants, req, count>>

\* The connection breaks: a message that was sent may never arrive.
Break(m, n) ==
  /\ Linked(m, n)
  /\ link' = link \ {{m, n}}
  /\ msgs' = {x \in msgs : {x.from, x.to} # {m, n}}
  /\ UNCHANGED <<catalog, boxes, grants, req, count>>

\* MessageIdentityMeta arrives, some time after the connection was made.
HandleIdentity(n, p) ==
  /\ n \in Sharer /\ Linked(n, p) /\ p \notin knows[n]
  /\ knows' = [knows EXCEPT ![n] = @ \cup {p}]
  /\ UNCHANGED <<link, msgs, catalog, inbox, outbox, flush, grants, req, count>>

-----------------------------------------------------------------------------
(* The catalog.                                                            *)

\* PublicCatalogSummary and UpdatePublicCatalogMetadata.
UpdatePublicCatalogMetadata(n, list) == summary' = [summary EXCEPT ![n] = list]

RecordUpload(n, f) == uploads' = [uploads EXCEPT ![n] = @ \cup {f}]
AddPublicFile(n, f) == public' = [public EXCEPT ![n] = @ \cup {f}]
RemoveUpload(n, f) == uploads' = [uploads EXCEPT ![n] = @ \ {f}]
RemovePublicFile(n, f) == public' = [public EXCEPT ![n] = @ \ {f}]
AddTombstone(n, f) == tombstones' = [tombstones EXCEPT ![n] = @ \cup {f}]
IsTombstoned(n, f) == f \in tombstones[n]

\* recordUploadState, once the file is stored; the manifest of an encrypted file
\* lists its owner.  A tombstone of an earlier deletion stays.
Upload(f) ==
  LET n == Owner[f] IN
  /\ count.uploads < MaxUploads
  /\ f \notin uploads[n] /\ \A h \in Handler : req[h].key # f
  /\ count' = [count EXCEPT !.uploads = @ + 1]
  /\ RecordUpload(n, f)
  /\ IF f \in Public
       THEN AddPublicFile(n, f) /\ UpdatePublicCatalogMetadata(n, public[n] \cup {f})
       ELSE UNCHANGED <<public, summary>>
  /\ access' = [access EXCEPT ![f] = IF f \in Public THEN {} ELSE {n}]
  /\ signed' = [signed EXCEPT ![f] = access'[f]]
  /\ granted' = [granted EXCEPT ![f] = {}]
  /\ UNCHANGED <<link, msgs, tombstones, boxes, overlap, req>>

\* DeleteFile: manifest and chunks stay, because they are looked up in the store
\* and manifests are kept in the metadata database.
DeleteFile(f) ==
  LET n == Owner[f] IN
  /\ f \in uploads[n]
  /\ RemoveUpload(n, f) /\ RemovePublicFile(n, f) /\ AddTombstone(n, f)
  /\ UpdatePublicCatalogMetadata(n, public[n] \ {f})
  /\ msgs' = msgs \cup {[type |-> "delete", from |-> n, to |-> m, key |-> f] : m \in Peers(n)}
  /\ UNCHANGED <<link, boxes, grants, req, count>>

HandleDeleteFile(x) ==
  /\ x.type = "delete"
  /\ msgs' = msgs \ {x}
  /\ IF IsTombstoned(x.to, x.key)
       THEN UNCHANGED <<uploads, public, tombstones>>
       ELSE RemoveUpload(x.to, x.key) /\ RemovePublicFile(x.to, x.key)
              /\ AddTombstone(x.to, x.key)
  /\ UNCHANGED <<link, summary, boxes, grants, req, count>>

-----------------------------------------------------------------------------
(* Direct shares.                                                          *)

\* handleSendToPeer: the owner of an encrypted file, if it has the recipient's
\* key, first grants access.
StartShare(h, f, p) ==
  LET n == Owner[f] IN
  /\ req[h].pc = "idle" /\ count.shares < MaxShares
  /\ f \in uploads[n] /\ p # n
  /\ count' = [count EXCEPT !.shares = @ + 1]
  /\ req' = [req EXCEPT ![h] =
       [Idle EXCEPT !.pc = IF f \in Public \/ p \notin knows[n] THEN "send" ELSE "sign",
                    !.to = p, !.key = f]]
  /\ UNCHANGED <<link, msgs, catalog, boxes, grants>>

\* Another handler is between reading the access list of the file and writing it.
Granting(f, h) ==
  \E g \in Handler \ {h} : req[g].key = f /\ req[g].pc = "append"

\* The entry is added after the signature was made over the list without it.
MutSignedFor(h) == access[req[h].key]

\* The list that the new signature covers.
SignedFor(h) == access[req[h].key] \cup {req[h].to}

\* grantAccessToRecipient reads the list, wraps the key and signs the new list;
\* AddAccessEntry then reads the manifest again.
Sign(h) ==
  LET f == req[h].key IN
  /\ req[h].pc = "sign"
  /\ IF req[h].to \in access[f]
       THEN req' = [req EXCEPT ![h].pc = "send"] /\ UNCHANGED overlap
       ELSE /\ req' = [req EXCEPT ![h].pc = "append", ![h].sig = SignedFor(h),
                                  ![h].list = access[f]]
            /\ overlap' = (overlap \/ Granting(f, h))
  /\ UNCHANGED <<link, msgs, catalog, boxes, access, signed, granted, count>>

\* The list that was read, with the new entry, is written back.
AddAccessEntry(h) ==
  LET f == req[h].key IN
  /\ req[h].pc = "append"
  /\ access' = [access EXCEPT ![f] = req[h].list \cup {req[h].to}]
  /\ signed' = [signed EXCEPT ![f] = req[h].sig]
  /\ granted' = [granted EXCEPT ![f] = @ \cup {req[h].to}]
  /\ req' = [req EXCEPT ![h].pc = "send"]
  /\ UNCHANGED <<link, msgs, catalog, boxes, overlap, count>>

Share(n, p, f) == [type |-> "share", from |-> n, to |-> p, key |-> f]

\* SendDirectShare succeeds.
SendDirectShare(h) ==
  LET n == Owner[req[h].key] IN
  /\ req[h].pc = "send" /\ Linked(n, req[h].to)
  /\ msgs' = msgs \cup {Share(n, req[h].to, req[h].key)}
  /\ req' = [req EXCEPT ![h] = Idle]
  /\ UNCHANGED <<link, catalog, boxes, grants, count>>

\* SendDirectShare fails; without the recipient's fingerprint, so does the request.
SendFails(h) ==
  LET n == Owner[req[h].key] IN
  /\ req[h].pc = "send" /\ ~Linked(n, req[h].to)
  /\ req' = [req EXCEPT ![h] =
               IF req[h].to \in knows[n] THEN [@ EXCEPT !.pc = "queue"] ELSE Idle]
  /\ UNCHANGED <<link, msgs, catalog, boxes, grants, count>>

\* The peer may have connected, and its flush have run, in the meantime.
QueueOutbox(h) ==
  /\ req[h].pc = "queue"
  /\ outbox' = [outbox EXCEPT ![Owner[req[h].key]] = @ \cup {<<req[h].to, req[h].key>>}]
  /\ req' = [req EXCEPT ![h] = Idle]
  /\ UNCHANGED <<link, msgs, catalog, inbox, knows, flush, grants, count>>

ListOutboxForPeer(n, p) == {e \in outbox[n] : e[1] = p}

\* Entries are removed whether or not they could be sent.
MutFlushOutbox(n, p) ==
  /\ <<n, p>> \in flush
  /\ flush' = flush \ {<<n, p>>}
  /\ msgs' = IF Linked(n, p)
       THEN msgs \cup {Share(n, p, e[2]) : e \in ListOutboxForPeer(n, p)} ELSE msgs
  /\ outbox' = [outbox EXCEPT ![n] = @ \ ListOutboxForPeer(n, p)]
  /\ UNCHANGED <<link, catalog, inbox, knows, grants, req, count>>

\* FlushOutbox needs the fingerprint, and stops when the peer is gone again.
FlushOutbox(n, p) ==
  /\ <<n, p>> \in flush
  /\ flush' = flush \ {<<n, p>>}
  /\ IF p \in knows[n] /\ Linked(n, p)
       THEN /\ msgs' = msgs \cup {Share(n, p, e[2]) : e \in ListOutboxForPeer(n, p)}
            /\ outbox' = [outbox EXCEPT ![n] = @ \ ListOutboxForPeer(n, p)]
       ELSE UNCHANGED <<msgs, outbox>>
  /\ UNCHANGED <<link, catalog, inbox, knows, grants, req, count>>

HandleDirectShare(x) ==
  /\ x.type = "share"
  /\ inbox' = [inbox EXCEPT ![x.to] = @ \cup {x.key}]
  /\ msgs' = msgs \ {x}
  /\ UNCHANGED <<link, catalog, outbox, knows, flush, grants, req, count>>

-----------------------------------------------------------------------------
Deliver(x) == HandleDeleteFile(x) \/ HandleDirectShare(x)

HandlerStep(h) ==
  \/ Sign(h) \/ AddAccessEntry(h) \/ SendDirectShare(h) \/ SendFails(h) \/ QueueOutbox(h)

SharingNext ==
  \/ \E m, n \in Node : Connect(m, n) \/ Break(m, n) \/ HandleIdentity(m, n) \/ FlushOutbox(m, n)
  \/ \E f \in File : Upload(f) \/ DeleteFile(f)
  \/ \E h \in Handler : HandlerStep(h) \/ \E f \in File, p \in Node : StartShare(h, f, p)
  \/ \E x \in msgs : Deliver(x)

\* The receive loop takes every message, and goroutines run.
SharingFairness ==
  /\ \A x \in Message : WF_sharingVars(x \in msgs /\ Deliver(x))
  /\ \A m, n \in Node : WF_sharingVars(FlushOutbox(m, n))

SharingSpec == SharingInit /\ [][SharingNext]_sharingVars /\ SharingFairness

-----------------------------------------------------------------------------
(* Properties.                                                             *)

\* "will be delivered automatically when the peer reconnects": a share that is in
\* the outbox while its recipient is away is sent once the connection comes back to
\* stay, however often it breaks before that.  (It is sent once: what a breaking
\* connection loses is not sent again.)
QueuedIsSent ==
  \A n \in Sharer, p \in Node, f \in File :
    <>[]Linked(n, p) =>
      ((<<p, f>> \in outbox[n] /\ ~Linked(n, p)) ~>
         (Share(n, p, f) \in msgs \/ f \in inbox[p]))

\* Unless two requests update the list of one file at the same time, a recipient
\* who was granted access keeps it, and the signature of the manifest covers the
\* access list that it is stored with.
GrantsVerifiable ==
  ~overlap => \A f \in File : granted[f] \subseteq access[f] /\ signed[f] = access[f]
=============================================================================
