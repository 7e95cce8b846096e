------------------------------ MODULE Replicas ------------------------------
(***************************************************************************)
(* What keeps copies where they belong, as one node (Self) does it: the    *)
(* failure detector that takes silent peers off the hash ring, the         *)
(* rebalancer that sends manifests to a node that joins, the replication   *)
(* of an uploaded manifest, the anti-entropy exchange of key lists, and,   *)
(* from module QuorumCalls, quorum calls to the nodes that the ring names. *)
(*                                                                         *)
(* A file's meta-data are stored under two keys, its own and that of its   *)
(* manifest, which have different places on the ring.  Neither is in the   *)
(* content-addressed store, so that reading one there fails.               *)
(***************************************************************************)
EXTENDS QuorumCalls, MerkleTree

CONSTANTS
  Self,
  File,
  FileOrder,      \* nodes in the order in which the ring meets them from the file's key
  ManifestOrder,  \* ... and from the key of its manifest
  Factor,         \* replication factor of the ring
  Scenario,       \* parts of the system that are exercised together, with their bounds
  MaxSamples      \* arrivals that are counted: more than phi needs

Peer == Node \ {Self}
Bounds == [peers : SUBSET Peer, calls : BOOLEAN, joins : Nat, leaves : Nat, beats : Nat,
           uploads : Nat, foreign : Nat, syncs : Nat]

\* Scenarios that have quorum calls leave the ring alone.
ASSUME ReplicasAssumption ==
  /\ Self \in Node
  /\ File \subseteq Nat \ {0} /\ IsFiniteSet(File) /\ 1 \in File
  /\ FileOrder \in [File -> Seq(Node)] /\ ManifestOrder \in [File -> Seq(Node)]
  /\ Factor \in Nat \ {0} /\ W + R > Factor
  /\ MaxSamples \in Nat /\ MaxSamples >= 3
  /\ Scenario \subseteq Bounds
  /\ \A s \in Scenario : s.calls => s.joins = 0 /\ s.leaves = 0 /\ s.beats = 0

VARIABLES
  left,      \* what remains of the scenario's bounds
  ring,      \* members of Self's hash ring
  peers,     \* outbound peers
  state,     \* HeartbeatService.states: life of each peer, and which entry it is
  samples,   \* arrivals in the peer's window
  reaper,    \* the reaper goroutine: the peer it is at, the entry and what it read of it
  dying,     \* onDead goroutines
  has,       \* files whose manifest each node has
  events,    \* OnNodeJoined and OnNodeLeft goroutines that have not begun
  pass,      \* the rebalancing pass in progress
  upload,    \* file whose manifest is replicated and not yet stored
  sent,      \* manifests on their way
  sync,      \* anti-entropy messages on their way
  silent,    \* history: peers not heard of since they were suspected
  placed     \* history: when each member joined, with respect to the uploads

ring_vars == <<ring, peers, dying, events>>
detector == <<state, samples, reaper, silent>>
copies == <<has, upload, sent, placed>>
vars == <<left, ring_vars, detector, copies, pass, sync, qvars>>

Idle == [pc |-> "idle", peer |-> Self, id |-> 0, cur |-> "none"]
NoPass == [node |-> Self, keys |-> {}, on |-> FALSE]

Life == {"none", "alive", "suspect", "dead"}

RingType ==
  /\ Self \in ring /\ ring \subseteq Node /\ peers \subseteq Peer /\ dying \subseteq Peer
  /\ events \subseteq {"joined", "left"} \X Peer

DetectorType ==
  /\ state \in [Peer -> [life : Life, id : Nat]] /\ samples \in [Peer -> 0 .. MaxSamples]
  /\ reaper \in [pc : {"idle", "phi", "loaded"}, peer : Node, id : Nat, cur : Life]
  /\ reaper.pc # "idle" => reaper.peer \in Peer
  /\ silent \subseteq Peer

CopiesType ==
  /\ has \in [Node -> SUBSET File] /\ upload \subseteq File /\ sent \subseteq File \X Peer
  /\ placed \in [with : SUBSET (File \X Peer), amid : SUBSET (File \X Peer), gap : BOOLEAN]
  /\ pass \in [node : Node, keys : SUBSET File, on : BOOLEAN]
  /\ \A x \in sync : x.peer \in Peer /\ x.type \in {"root", "diff"}

TypeOK == left \in Bounds /\ RingType /\ DetectorType /\ CopiesType /\ QTypeOK

Init ==
  /\ left \in Scenario
  /\ ring = {Self} \cup left.peers /\ peers = left.peers /\ dying = {} /\ events = {}
  /\ state = [p \in Peer |-> [life |-> IF p \in peers THEN "alive" ELSE "none", id |-> 0]]
  /\ samples = [p \in Peer |-> IF p \in peers THEN 1 ELSE 0]
  /\ reaper = Idle /\ silent = {}
  /\ has = [n \in Node |-> {}] /\ upload = {} /\ sent = {} /\ pass = NoPass /\ sync = {}
  /\ placed = [with |-> {}, amid |-> {}, gap |-> FALSE]
  /\ QInit

Spend(b) == left[b] > 0 /\ left' = [left EXCEPT ![b] = @ - 1]

-----------------------------------------------------------------------------
(* The hash ring. *)

\* The first members met clockwise from the key's place: at most n of them.
GetNodes(order, members, n) ==
  LET before(i) == members \cap {order[j] : j \in 1 .. i - 1}
  IN {order[i] : i \in {j \in DOMAIN order : order[j] \in members /\ Cardinality(before(j)) < n}}

AddNode(p) == ring' = ring \cup {p}
RemoveNode(p) == ring' = ring \ {p}

-----------------------------------------------------------------------------
(* The failure detector. *)

\* RecordHeartbeat: the window gets a sample, the entry is made if there is none, and
\* is alive again whatever it was.
Recorded(p) ==
  /\ samples' = [samples EXCEPT ![p] = IF @ < MaxSamples THEN @ + 1 ELSE @]
  /\ state' = [state EXCEPT ![p].life = "alive"]
  /\ silent' = silent \ {p}

\* handleHeartbeat, or the ack of a heartbeat.
HandleHeartbeat(p) ==
  /\ Spend("beats") /\ p \in peers
  /\ Recorded(p)
  /\ UNCHANGED <<ring_vars, reaper, copies, pass, sync, qvars>>

\* reap: phi exceeds the threshold; it is 0 for fewer than two intervals.  While a peer
\* is silent, it passes every threshold; how soon is a matter of time.
Suspicious(p) == samples[p] >= 3

ReapPhi(p) ==
  /\ reaper.pc = "idle" /\ p \in peers
  /\ Suspicious(p) \/ state[p].life = "suspect"
  /\ reaper' = [Idle EXCEPT !.pc = "phi", !.peer = p]
  /\ UNCHANGED <<left, ring_vars, state, samples, silent, copies, pass, sync, qvars>>

\* The entry is looked up, or made, and its state is read.
ReapLoad ==
  LET p == reaper.peer IN
  /\ reaper.pc = "phi"
  /\ state' = [state EXCEPT ![p].life = IF @ = "none" THEN "alive" ELSE @]
  /\ reaper' = [reaper EXCEPT !.pc = "loaded", !.id = state[p].id, !.cur = state'[p].life]
  /\ UNCHANGED <<left, ring_vars, samples, silent, copies, pass, sync, qvars>>

\* The state is written whether or not it changed after it was read.
MutUnchanged == TRUE

\* CompareAndSwap succeeds on an entry that still has the state that was read.  An entry
\* that was removed meanwhile still has it.
Unchanged ==
  LET p == reaper.peer IN reaper.id # state[p].id \/ state[p].life = reaper.cur

Swap(life) ==
  LET p == reaper.peer IN
  state' = [state EXCEPT ![p].life = IF reaper.id = state[p].id THEN life ELSE @]

ReapSuspect ==
  /\ reaper.pc = "loaded" /\ reaper.cur = "alive" /\ Unchanged
  /\ Swap("suspect")
  /\ silent' = silent \cup IF reaper.id = state[reaper.peer].id THEN {reaper.peer} ELSE {}
  /\ reaper' = Idle
  /\ UNCHANGED <<left, ring_vars, samples, copies, pass, sync, qvars>>

\* DeadTimeout has passed since the suspicion.
ReapDead ==
  /\ reaper.pc = "loaded" /\ reaper.cur = "suspect" /\ Unchanged
  /\ Swap("dead")
  /\ dying' = dying \cup {reaper.peer}
  /\ reaper' = Idle
  /\ UNCHANGED <<left, ring, peers, events, samples, silent, copies, pass, sync, qvars>>

\* The state has changed, or is dead, or it is too soon.
ReapNothing ==
  /\ reaper.pc = "loaded"
  /\ ~Unchanged \/ reaper.cur \in {"suspect", "dead"}
  /\ reaper' = Idle
  /\ UNCHANGED <<left, ring_vars, state, samples, silent, copies, pass, sync, qvars>>

\* onDead, a goroutine of its own.
OnDead(p) ==
  /\ p \in dying
  /\ dying' = dying \ {p}
  /\ RemoveNode(p)
  /\ events' = events \cup {<<"left", p>>}
  /\ placed' = [placed EXCEPT !.gap = TRUE]
  /\ UNCHANGED <<left, peers, detector, has, upload, sent, pass, sync, qvars>>

-----------------------------------------------------------------------------
(* Peers come and go. *)

\* The rebalancer hears of the peer before it is on the ring.
MutOnPeer(p) ==
  /\ Spend("joins") /\ p \notin peers
  /\ peers' = peers \cup {p}
  /\ pass' = IF pass.on THEN pass
             ELSE [node |-> p, on |-> TRUE, keys |->
                     {f \in has[Self] : {p, Self} \subseteq GetNodes(ManifestOrder[f], ring, Factor)}]
  /\ AddNode(p)
  /\ Recorded(p)
  /\ placed' = [placed EXCEPT !.with = @ \ (File \X {p}), !.amid = @ \cup (upload \X {p})]
  /\ UNCHANGED <<events, dying, reaper, has, upload, sent, sync, qvars>>

\* OnPeer: the peer is on the ring before the rebalancer hears of it.
OnPeer(p) ==
  /\ Spend("joins") /\ p \notin peers
  /\ peers' = peers \cup {p}
  /\ AddNode(p)
  /\ events' = events \cup {<<"joined", p>>}
  /\ Recorded(p)
  /\ placed' = [placed EXCEPT !.with = @ \ (File \X {p}), !.amid = @ \cup (upload \X {p})]
  /\ UNCHANGED <<dying, reaper, has, upload, sent, pass, sync, qvars>>

\* OnPeerDisconnect: RemovePeer drops the entry and the window.
OnPeerDisconnect(p) ==
  /\ Spend("leaves") /\ p \in peers
  /\ peers' = peers \ {p}
  /\ RemoveNode(p)
  /\ state' = [state EXCEPT ![p] = [life |-> "none", id |-> @.id + 1]]
  /\ samples' = [samples EXCEPT ![p] = 0]
  /\ silent' = silent \ {p}
  /\ sent' = {x \in sent : x[2] # p}
  /\ placed' = [placed EXCEPT !.gap = TRUE]
  /\ UNCHANGED <<dying, events, reaper, has, upload, pass, sync, qvars>>

-----------------------------------------------------------------------------
(* Replication of manifests. *)

Connected(f, nodes) == {f} \X (nodes \cap peers)

\* replicateManifest, to the nodes of the file's own key that are connected.
ReplicateManifest(f) ==
  LET targets == GetNodes(FileOrder[f], ring, Factor) \ {Self} IN
  /\ Spend("uploads") /\ upload = {} /\ f \notin has[Self]
  /\ upload' = {f}
  /\ sent' = sent \cup Connected(f, targets)
  /\ placed' = [placed EXCEPT !.with = @ \cup ({f} \X (ring \ {Self}))]
  /\ UNCHANGED <<ring_vars, detector, has, pass, sync, qvars>>

\* SetManifest, and Set of the file's own key.
SetManifest(f) ==
  /\ f \in upload
  /\ upload' = {}
  /\ has' = [has EXCEPT ![Self] = @ \cup {f}]
  /\ UNCHANGED <<left, ring_vars, detector, sent, placed, pass, sync, qvars>>

\* A peer uploads a file of its own.
PeerUploads(p, f) ==
  /\ Spend("foreign") /\ f \notin has[Self] \cup upload
  /\ has' = [has EXCEPT ![p] = @ \cup {f}]
  /\ UNCHANGED <<ring_vars, detector, upload, sent, placed, pass, sync, qvars>>

\* MessageStoreManifest.
StoreManifest(f, p) ==
  /\ <<f, p>> \in sent
  /\ sent' = sent \ {<<f, p>>}
  /\ has' = [has EXCEPT ![p] = @ \cup {f}]
  /\ UNCHANGED <<left, ring_vars, detector, upload, placed, pass, sync, qvars>>

\* migrateToNewNode and rereplicate while a pass is running: the event is forgotten.
Dropped(e) ==
  /\ e \in events /\ pass.on
  /\ events' = events \ {e}
  /\ placed' = [placed EXCEPT !.gap = TRUE]
  /\ UNCHANGED <<left, ring, peers, dying, detector, has, upload, sent, pass, sync, qvars>>

\* migrateToNewNode takes the keys that it has now.
BeginMigration(p) ==
  /\ <<"joined", p>> \in events /\ ~pass.on
  /\ events' = events \ {<<"joined", p>>}
  /\ pass' = [node |-> p, keys |-> has[Self], on |-> TRUE]
  /\ UNCHANGED <<left, ring, peers, dying, detector, copies, sync, qvars>>

\* One key of the pass: sent if both are responsible for the manifest's key.
Migrate(f) ==
  LET nodes == GetNodes(ManifestOrder[f], ring, Factor) IN
  /\ f \in pass.keys
  /\ pass' = [pass EXCEPT !.keys = @ \ {f}]
  /\ sent' = IF {pass.node, Self} \subseteq nodes THEN sent \cup Connected(f, {pass.node}) ELSE sent
  /\ UNCHANGED <<left, ring_vars, detector, has, upload, placed, sync, qvars>>

EndPass ==
  /\ pass.on /\ pass.keys = {}
  /\ pass' = NoPass
  /\ UNCHANGED <<left, ring_vars, detector, copies, sync, qvars>>

\* rereplicate: a pass that sends nothing.  A key with Factor nodes is left alone; one
\* with fewer is read from the content-addressed store, where it is not.
Rereplicate(p) ==
  /\ <<"left", p>> \in events /\ ~pass.on
  /\ events' = events \ {<<"left", p>>}
  /\ pass' = [node |-> p, keys |-> {}, on |-> TRUE]
  /\ UNCHANGED <<left, ring, peers, dying, detector, copies, sync, qvars>>

-----------------------------------------------------------------------------
(* Anti-entropy. *)

\* The keys of a node: of each file its own and that of its manifest.
Keys(n) == {2 * f - 1 : f \in has[n]} \cup {2 * f : f \in has[n]}

\* doSync, to the members of the ring.
DoSync ==
  /\ Spend("syncs") /\ ring # {Self}
  /\ sync' = sync \cup {[type |-> "root", peer |-> p, hash |-> RootHash(Build(Keys(Self))), keys |-> Keys(Self)] :
                          p \in ring \cap peers}
  /\ UNCHANGED <<ring_vars, detector, copies, pass, qvars>>

\* HandleSync at the peer: it answers with its keys if the roots differ.
HandleSync(x) ==
  /\ x \in sync /\ x.type = "root"
  /\ sync' = (sync \ {x}) \cup IF x.hash = RootHash(Build(Keys(x.peer))) THEN {}
                               ELSE {[type |-> "diff", peer |-> x.peer, mine |-> x.keys, theirs |-> Keys(x.peer)]}
  /\ UNCHANGED <<left, ring_vars, detector, copies, pass, qvars>>

\* repair: what is sent to the peer and what is asked of it.
Repair(mine, theirs) ==
  LET diff == Diff(Build(mine), Build(theirs))
  IN [send |-> {k \in diff : k \in mine /\ k \notin theirs}, need |-> {k \in diff : k \notin mine /\ k \in theirs}]

\* HandleDiffResponse: repair by the goroutine that waits, with the keys it had, and again
\* with the present ones.  A key to send is read from the content-addressed store, and one
\* that is needed is asked for from the peer's: both fail for the keys that are compared.
HandleDiffResponse(x) ==
  /\ x \in sync /\ x.type = "diff"
  /\ sync' = sync \ {x}
  /\ UNCHANGED <<left, ring_vars, detector, copies, pass, qvars>>

-----------------------------------------------------------------------------
Detect ==
  \/ \E p \in Peer : HandleHeartbeat(p) \/ ReapPhi(p) \/ OnDead(p)
  \/ ReapLoad \/ ReapSuspect \/ ReapDead \/ ReapNothing

Membership == \E p \in Peer : OnPeer(p) \/ OnPeerDisconnect(p)

Copy ==
  \/ \E f \in File : ReplicateManifest(f) \/ SetManifest(f) \/ Migrate(f)
  \/ \E f \in File, p \in Peer : PeerUploads(p, f) \/ StoreManifest(f, p)
  \/ \E e \in events : Dropped(e)
  \/ \E p \in Peer : BeginMigration(p) \/ Rereplicate(p)
  \/ EndPass

AntiEntropy == DoSync \/ \E x \in sync : HandleSync(x) \/ HandleDiffResponse(x)

\* Quorum calls for the key of file 1.  The nodes' rings agree, and change in no scenario
\* that has calls.
Calls ==
  /\ left.calls
  /\ QNext(GetNodes(FileOrder[1], ring, Factor))
  /\ UNCHANGED <<left, ring_vars, detector, copies, pass, sync>>

Next == Detect \/ Membership \/ Copy \/ AntiEntropy \/ Calls

Spec == Init /\ [][Next]_vars

-----------------------------------------------------------------------------
(* The reaper never leaves a peer dead that was heard of after it had been  *)
(* suspected: a heartbeat that comes between the reaper's reading and its   *)
(* writing of the state wins.                                               *)
DeadIsSilent == \A p \in Peer : state[p].life = "dead" => p \in silent

(* Once nothing is under way, every member of the ring has the manifests    *)
(* that it should have been sent: of a file uploaded while it was a member, *)
(* if it is among the nodes of the file's key, and of an earlier file if    *)
(* it is, with Self, among those of the manifest's key.  No event was       *)
(* dropped and no member left; a join between an upload's replication and   *)
(* its local record is excepted.                                            *)
JoinersServed ==
  ~placed.gap /\ events = {} /\ ~pass.on /\ sent = {} =>
    \A f \in has[Self], p \in ring \ {Self} :
      \/ f \in has[p] \/ <<f, p>> \in placed.amid
      \/ p \notin IF <<f, p>> \in placed.with THEN GetNodes(FileOrder[f], ring, Factor)
                  ELSE {n \in GetNodes(ManifestOrder[f], ring, Factor) :
                          Self \in GetNodes(ManifestOrder[f], ring, Factor)}

(* The comparison of two trees misses no key that one side lacks, and       *)
(* names no key for sending or asking that both have or both lack.          *)
DiffExact ==
  \A x \in sync : x.type = "diff" =>
    \A mine \in {x.mine, Keys(Self)} :
      Repair(mine, x.theirs) = [send |-> mine \ x.theirs, need |-> x.theirs \ mine]
=============================================================================
