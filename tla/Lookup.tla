------------------------------ MODULE Lookup ------------------------------
(***************************************************************************)
(* How a node asks others: manifests, catalogs and provider lists through  *)
(* the pendingFile table, searches that flood the network, and the         *)
(* provider records that seeders register with the ring nodes of a file.   *)
(*                                                                         *)
(* Origin is the node that asks; its lookups are for one file.  A call     *)
(* puts a channel into the table under a key that other calls may use too, *)
(* waits for the first answer or its deadline, and deletes whatever is     *)
(* under the key.  Answers are put into the channel by the node's only     *)
(* control loop, which waits when the channel is full.  Messages travel on *)
(* streams of their own, so that they arrive in any order; one is lost     *)
(* when a connection breaks.                                               *)
(***************************************************************************)
EXTENDS Naturals, FiniteSets, Sequences, TLC

CONSTANTS
  Node, Origin,
  Link,        \* pairs of connected nodes
  Target,      \* the ring nodes of the file
  HasManifest, \* nodes that have its manifest
  Sharing,     \* nodes with a public file that matches the query
  Seeder,      \* nodes that may seed the file
  Call,        \* calls of the lookup functions, each made once
  None,
  TTL,         \* of a search request
  SearchCap,   \* capacity of a search's channel
  MaxLosses,   \* bound on lost messages
  MaxTasks     \* bound on calls made and seeders

ASSUME LookupAssumption ==
  /\ Origin \in Node /\ Target \subseteq Node /\ Seeder \subseteq Node
  /\ IsFiniteSet(Node) /\ Link \subseteq {{m, n} : m \in Node, n \in Node}
  /\ None \notin Call \cup (Call \X Node)
  /\ SearchCap \in Nat /\ TTL \in Nat \ {0} /\ MaxLosses \in Nat /\ MaxTasks \in Nat
  \* A node accepts far fewer connections than a search has room for answers.
  /\ SearchCap >= Cardinality({n \in Node : {n, Origin} \in Link})

VARIABLES
  calls,     \* the calls
  chan,      \* what is in the channel of each call: the nodes that answered
  pending,   \* pendingFile: the call whose channel is under a key
  blocked,   \* the send that the control loop of Origin waits for, or None
  msgs,      \* messages under way
  seen,      \* searches that each node has seen
  results,   \* nodes whose answer a call has taken
  seeds,     \* nodes with a seed source
  gone,      \* nodes whose original file has disappeared
  providers, \* provider records of each node
  lost,      \* number of messages lost
  mixed      \* history: an answer to one call went to another one

asking == <<calls, chan, pending, results, mixed>>
seeding == <<seeds, gone, providers>>
lookupVars == <<asking, blocked, msgs, seen, seeding, lost>>

Peers(n) == {m \in Node \ {n} : {m, n} \in Link}

ManifestKey == <<"manifest", None>>
ProvidersKey == <<"providers", None>>
CatalogKey(p) == <<"catalog", p>>
SearchKey(c) == <<"search", c>>
Key == {ManifestKey, ProvidersKey} \cup {CatalogKey(p) : p \in Node} \cup {SearchKey(c) : c \in Call}

Message ==
  [type : {"get", "answer"}, call : Call, key : Key, from : Node, to : Node]
  \cup [type : {"search"}, call : Call, from : Node, to : Node, ttl : 1 .. TTL]
  \cup [type : {"register"}, from : Node, to : Node]

LookupTypeOK ==
  /\ calls \in [Call -> [pc : {"idle", "wait", "leave", "done"}, key : Key \cup {None}]]
  /\ chan \in [Call -> Seq(Node)]
  /\ pending \in [Key -> Call \cup {None}]
  /\ blocked = None \/ blocked \in Call \X Node
  /\ msgs \subseteq Message
  /\ seen \in [Node -> SUBSET Call] /\ results \in [Call -> SUBSET Node]
  /\ seeds \subseteq Seeder /\ gone \subseteq Seeder /\ providers \in [Node -> SUBSET Seeder]
  /\ lost \in 0 .. MaxLosses /\ mixed \in BOOLEAN

LookupInit ==
  /\ calls = [c \in Call |-> [pc |-> "idle", key |-> None]]
  /\ chan = [c \in Call |-> << >>]
  /\ pending = [k \in Key |-> None] /\ blocked = None /\ msgs = {}
  /\ seen = [n \in Node |-> {}] /\ results = [c \in Call |-> {}]
  /\ seeds = {} /\ gone = {} /\ providers = [n \in Node |-> {}]
  /\ lost = 0 /\ mixed = FALSE

-----------------------------------------------------------------------------
(* Calls.                                                                  *)

\* A channel for the first answer only.
MutCapacity(k) == IF k[1] = "search" THEN SearchCap ELSE 1

\* The buffer that each lookup function makes.
Capacity(k) ==
  CASE k[1] = "search" -> SearchCap
    [] k[1] = "catalog" -> 1
    [] OTHER -> Cardinality(Target)

Tasks == Cardinality({c \in Call : calls[c].pc # "idle"}) + Cardinality(seeds \cup gone)

\* The key is taken, whoever had it; without a request sent, the call returns.
Ask(c, k, requests) ==
  /\ calls[c].pc = "idle" /\ Tasks < MaxTasks
  /\ calls' = [calls EXCEPT ![c] = [pc |-> IF requests = {} THEN "leave" ELSE "wait", key |-> k]]
  /\ pending' = [pending EXCEPT ![k] = c]
  /\ msgs' = msgs \cup requests
  /\ UNCHANGED <<chan, results, mixed, blocked, seeding, lost>>

Get(c, k, nodes) ==
  {[type |-> "get", call |-> c, key |-> k, from |-> Origin, to |-> n] : n \in nodes}

FetchMetadataFromPeers(c) ==
  /\ Ask(c, ManifestKey, Get(c, ManifestKey, Target \cap Peers(Origin)))
  /\ UNCHANGED seen

GetPublicCatalog(c, p) ==
  /\ p \in Peers(Origin)
  /\ Ask(c, CatalogKey(p), Get(c, CatalogKey(p), {p}))
  /\ UNCHANGED seen

\* A list that the node has itself is returned without asking.
GetProviders(c) ==
  /\ providers[Origin] = {}
  /\ Ask(c, ProvidersKey, Get(c, ProvidersKey, Target \cap Peers(Origin)))
  /\ UNCHANGED seen

Search(c, n, to, ttl) ==
  {[type |-> "search", call |-> c, from |-> n, to |-> m, ttl |-> ttl] : m \in to}

SearchFiles(c) ==
  /\ Ask(c, SearchKey(c), Search(c, Origin, Peers(Origin), TTL))
  /\ seen' = [seen EXCEPT ![Origin] = @ \cup {c}]

\* The first answer ends a lookup; a search collects until its time is up.
TakeAnswer(c) ==
  /\ calls[c].pc = "wait" /\ chan[c] # << >>
  /\ results' = [results EXCEPT ![c] = @ \cup {Head(chan[c])}]
  /\ chan' = [chan EXCEPT ![c] = Tail(@)]
  /\ calls' = [calls EXCEPT ![c].pc = IF calls[c].key[1] = "search" THEN "wait" ELSE "leave"]
  /\ UNCHANGED <<pending, mixed, blocked, msgs, seen, seeding, lost>>

Timeout(c) ==
  /\ calls[c].pc = "wait"
  /\ calls' = [calls EXCEPT ![c].pc = "leave"]
  /\ UNCHANGED <<chan, pending, results, mixed, blocked, msgs, seen, seeding, lost>>

\* The deferred function deletes what is under the key now.
Leave(c) ==
  /\ calls[c].pc = "leave"
  /\ pending' = [pending EXCEPT ![calls[c].key] = None]
  /\ calls' = [calls EXCEPT ![c].pc = "done"]
  /\ UNCHANGED <<chan, results, mixed, blocked, msgs, seen, seeding, lost>>

-----------------------------------------------------------------------------
(* The control loops.  That of Origin handles nothing while it waits.      *)

Receive(x, type) == x.type = type /\ (x.to = Origin => blocked = None)

Answer(n, c, k) == [type |-> "answer", call |-> c, key |-> k, from |-> n, to |-> Origin]

\* MessageGetManifest, handleGetPublicCatalog and handleGetProviders.
HandleGet(x) ==
  /\ Receive(x, "get")
  /\ msgs' = (msgs \ {x}) \cup {Answer(x.to, x.call, x.key)}
  /\ UNCHANGED <<asking, blocked, seen, seeding, lost>>

Empty(x) == x.key = ManifestKey /\ x.from \notin HasManifest

\* MessageManifestResponse, MessagePublicCatalogResponse, handleProvidersResponse and
\* handleSearchResponse: only provider lists are dropped when the channel is full.
HandleAnswer(x) ==
  LET c == pending[x.key] IN
  /\ Receive(x, "answer")
  /\ msgs' = msgs \ {x}
  /\ IF c = None \/ Empty(x)
       THEN UNCHANGED <<chan, blocked, mixed>>
       ELSE /\ mixed' = (mixed \/ c # x.call)
            /\ IF Len(chan[c]) < Capacity(x.key)
                 THEN chan' = [chan EXCEPT ![c] = Append(@, x.from)] /\ UNCHANGED blocked
                 ELSE /\ blocked' = IF x.key = ProvidersKey THEN None ELSE <<c, x.from>>
                      /\ UNCHANGED chan
  /\ UNCHANGED <<calls, pending, results, seen, seeding, lost>>

\* The call took an answer, so that there is room for the one that waits.
Unblock ==
  /\ blocked # None /\ Len(chan[blocked[1]]) < Capacity(calls[blocked[1]].key)
  /\ chan' = [chan EXCEPT ![blocked[1]] = Append(@, blocked[2])]
  /\ blocked' = None
  /\ UNCHANGED <<calls, pending, results, mixed, msgs, seen, seeding, lost>>

SeenOrAdd(n, c) == seen' = [seen EXCEPT ![n] = @ \cup {c}]

\* A request whose time to live is used up is dropped before it is answered.
MutHandleSearchRequest(x) ==
  LET n == x.to
      answer == IF n \in Sharing /\ Origin \in Peers(n)
                  THEN {Answer(n, x.call, SearchKey(x.call))} ELSE {} IN
  /\ Receive(x, "search")
  /\ SeenOrAdd(n, x.call)
  /\ msgs' = (msgs \ {x}) \cup
       (IF x.call \in seen[n] \/ x.ttl = 1 THEN {}
          ELSE answer \cup Search(x.call, n, Peers(n) \ {x.from}, x.ttl - 1))
  /\ UNCHANGED <<asking, blocked, seeding, lost>>

\* handleSearchRequest: what is found goes to Origin itself, over a connection to it;
\* the request goes on to the other peers, Origin included.
HandleSearchRequest(x) ==
  LET n == x.to
      answer == IF n \in Sharing /\ Origin \in Peers(n)
                  THEN {Answer(n, x.call, SearchKey(x.call))} ELSE {}
      onward == IF x.ttl > 1 THEN Search(x.call, n, Peers(n) \ {x.from}, x.ttl - 1) ELSE {} IN
  /\ Receive(x, "search")
  /\ SeenOrAdd(n, x.call)
  /\ msgs' = (msgs \ {x}) \cup (IF x.call \in seen[n] THEN {} ELSE answer \cup onward)
  /\ UNCHANGED <<asking, blocked, seeding, lost>>

-----------------------------------------------------------------------------
(* Seeding.                                                                *)

\* The newest record replaces the list.
MutAddProvider(list, p) == {p}

AddProvider(list, p) == list \cup {p}

Registration(n) ==
  {[type |-> "register", from |-> n, to |-> m] : m \in (Target \cap Peers(n)) \ {n}}

\* registerProvider: a node that is a target itself keeps its own record.
RegisterProvider(n) ==
  /\ msgs' = msgs \cup Registration(n)
  /\ providers' = IF n \in Target
       THEN [providers EXCEPT ![n] = AddProvider(@, n)] ELSE providers

\* SeedInPlace, and GetDataToFile when it has the whole file.
Seed(n) ==
  /\ n \in Seeder \ (seeds \cup gone) /\ Tasks < MaxTasks
  /\ seeds' = seeds \cup {n}
  /\ RegisterProvider(n)
  /\ UNCHANGED <<asking, blocked, seen, gone, lost>>

\* The ticker of the re-registration loop.
Reregister(n) ==
  /\ n \in seeds
  /\ RegisterProvider(n)
  /\ UNCHANGED <<asking, blocked, seen, seeds, gone, lost>>

HandleRegisterProvider(x) ==
  /\ Receive(x, "register")
  /\ msgs' = msgs \ {x}
  /\ providers' = [providers EXCEPT ![x.to] = AddProvider(@, x.from)]
  /\ UNCHANGED <<asking, blocked, seen, seeds, gone, lost>>

FileDisappears(n) ==
  /\ n \in seeds \ gone
  /\ gone' = gone \cup {n}
  /\ UNCHANGED <<asking, blocked, msgs, seen, seeds, providers, lost>>

\* deregisterProvider: the records of other nodes stay.
DeregisterProvider(n) == providers' = [providers EXCEPT ![n] = @ \ {n}]

\* handleGetChunkSwarm does not find the original file.
ServeFails(n) ==
  /\ n \in seeds \cap gone
  /\ seeds' = seeds \ {n}
  /\ DeregisterProvider(n)
  /\ UNCHANGED <<asking, blocked, msgs, seen, gone, lost>>

-----------------------------------------------------------------------------
Lose(x) ==
  /\ lost < MaxLosses
  /\ msgs' = msgs \ {x} /\ lost' = lost + 1
  /\ UNCHANGED <<asking, blocked, seen, seeding>>

Deliver(x) ==
  HandleGet(x) \/ HandleAnswer(x) \/ HandleSearchRequest(x) \/ HandleRegisterProvider(x)

Start(c) ==
  \/ FetchMetadataFromPeers(c) \/ GetProviders(c) \/ SearchFiles(c)
  \/ \E p \in Node : GetPublicCatalog(c, p)

LookupNext ==
  \/ \E c \in Call : Start(c) \/ TakeAnswer(c) \/ Timeout(c) \/ Leave(c)
  \/ \E x \in msgs : Deliver(x) \/ Lose(x)
  \/ Unblock
  \/ \E n \in Seeder : Seed(n) \/ Reregister(n) \/ FileDisappears(n) \/ ServeFails(n)

\* The re-registration ticker goes on, and the control loop of a node that does not
\* wait takes every message.
LookupFairness ==
  /\ \A n \in Seeder : WF_lookupVars(Reregister(n))
  /\ \A x \in [type : {"register"}, from : Seeder, to : Node] : WF_lookupVars(x \in msgs /\ Deliver(x))

LookupSpec == LookupInit /\ [][LookupNext]_lookupVars /\ LookupFairness

-----------------------------------------------------------------------------
(* Properties.                                                             *)

\* A lookup's channel has room for every answer to its own requests: as long as no
\* answer has come to the channel of another call of the same key, the node's control
\* loop never waits, not even for a call that returned with answers under way.
LoopNeverWaits == blocked # None => mixed

SearchOver(c) == \A x \in msgs : x.type = "register" \/ x.call # c

\* Once the flood of a search has died down and nothing was lost, a search that still
\* collects has, or will take from its channel, what all of its peers share, whichever
\* way the request reached them first.
SearchFinds ==
  \A c \in Call :
    (calls[c].pc = "wait" /\ calls[c].key = SearchKey(c) /\ SearchOver(c) /\ lost = 0 /\ blocked = None)
      => Sharing \cap Peers(Origin) \subseteq
           results[c] \cup {chan[c][i] : i \in DOMAIN chan[c]}

\* A node that goes on seeding the file comes to be listed for good by every other ring
\* node of the file that it is connected to, whatever is lost and whoever registers.
\* (Origin may have stopped handling messages.)
SeedersListed ==
  \A n \in Seeder, t \in Target \ {Origin} :
    t \in Peers(n) => (<>[](n \in seeds) => <>[](n \in providers[t]))
=============================================================================
