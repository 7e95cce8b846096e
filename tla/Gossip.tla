------------------------------- MODULE Gossip -------------------------------
(***************************************************************************)
(* The cluster view: GossipService (Cluster/gossip) on top of the          *)
(* membership tables, driven by the connection events of the server        *)
(* (OnPeer, handleAnnounce, OnPeerDisconnect, handleLeaving).              *)
(*                                                                         *)
(* Generations are readings of time.Now().UnixNano(); the clock advances   *)
(* with every reading and is the same everywhere, which is the assumption  *)
(* the comments of membership.go make.  Gossip handlers run in goroutines  *)
(* of their own, so messages are handled in any order; they are lost when  *)
(* their connection drops.                                                 *)
(*                                                                         *)
(* Two nodes have at most one connection at a time and open the next one   *)
(* when both have noticed that the last one is gone (module PeerTable is   *)
(* about the other cases).  sharedPort says how a dialler appears to the   *)
(* node it dials: QUIC dials from the listening socket, so that the remote *)
(* address is already the canonical one; behind a NAT, or with TCP, it is  *)
(* an ephemeral one.                                                       *)
(***************************************************************************)
EXTENDS Membership, FiniteSets

CONSTANTS Bootstrap,    \* [Node -> SUBSET Node], the --peers flag
          MaxInFlight,  \* bound on gossip messages in the network
          MaxConnects,  \* bound on connections
          MaxFailures   \* bound on connections that break and shutdowns

ASSUME BootstrapAssumption == Bootstrap \in [Node -> SUBSET Node]
ASSUME BoundsAssumption == MaxInFlight \in Nat /\ MaxConnects \in Nat /\ MaxFailures \in Nat

VARIABLES sharedPort,   \* fixed when the cluster is set up
          up,           \* running nodes
          view,         \* each node's membership table
          ring,         \* members of each node's hash ring
          peers,        \* role of the connection each node holds to another
          link,         \* open connections, <<dialler, acceptor>>
          announce,     \* connections whose MessageAnnounce is under way
          closing,      \* <<n, m, role>>: n has to notice that m is gone
          dial,         \* addresses handed to onNewPeer
          known,        \* known peers in the state database
          net,          \* gossip and leaving messages
          clock, connects, failures,
          heard         \* <<m, n>>: m has handled the leaving of n

tables  == <<view, ring>>
conns   == <<peers, link, announce, closing>>
bounds  == <<connects, failures>>
vars    == <<sharedPort, up, tables, conns, dial, known, net, clock, bounds, heard>>

Role == {"none", "in", "out"}

DigestMsg   == [type : {"digest"}, from : Node, to : Node, digest : Table]
ResponseMsg == [type : {"response"}, from : Node, to : Node, full : Table, digest : Table]
LeavingMsg  == [type : {"leaving"}, from : Node, to : Node, gen : Nat]

TypeOK ==
  /\ sharedPort \in BOOLEAN
  /\ up \subseteq Node
  /\ view \in [Node -> Table]
  /\ ring \in [Node -> SUBSET Node]
  /\ peers \in [Node -> [Node -> Role]]
  /\ link \subseteq Node \X Node /\ announce \subseteq link
  /\ closing \subseteq Node \X Node \X {"out", "in", "raw"}
  /\ dial \in [Node -> SUBSET Node]
  /\ known \in [Node -> SUBSET Node]
  /\ net \subseteq DigestMsg \cup ResponseMsg \cup LeavingMsg
  /\ clock \in Nat
  /\ connects \in 0 .. MaxConnects /\ failures \in 0 .. MaxFailures
  /\ heard \subseteq Node \X Node

\* Every node has just started (generation 2 is New's safety floor).
Init ==
  /\ sharedPort \in BOOLEAN
  /\ up = Node
  /\ view = [n \in Node |-> NewTable(n, 2)]
  /\ ring = [n \in Node |-> {n}]
  /\ peers = [n \in Node |-> [m \in Node |-> "none"]]
  /\ link = {} /\ announce = {} /\ closing = {}
  /\ dial = [n \in Node |-> {}]
  /\ known = Bootstrap
  /\ net = {}
  /\ clock = 2
  /\ connects = 0 /\ failures = 0
  /\ heard = {}

Linked(n, m) == <<n, m>> \in link \/ <<m, n>> \in link

Tell(msgs) == net' = net \cup msgs

-----------------------------------------------------------------------------
(* Connections.                                                            *)

\* A dial succeeds: bootstrap, reconnectPass or onNewPeer.  OnPeer at the
\* dialler enters the ring and the table and bumps its own generation; OnPeer
\* at the acceptor only stores the peer and bumps.
Connect(d, a) ==
  /\ d # a /\ {d, a} \subseteq up
  /\ a \in dial[d] \cup known[d]
  /\ ~Linked(d, a) /\ peers[d][a] = "none" /\ peers[a][d] = "none"
  /\ ~\E r \in {"in", "out", "raw"} : <<d, a, r>> \in closing \/ <<a, d, r>> \in closing
  /\ connects < MaxConnects
  /\ connects' = connects + 1
  /\ clock' = clock + 2
  /\ view' = [view EXCEPT ![d] = BumpSelf(AddNode(@, a), d, clock + 1),
                          ![a] = BumpSelf(@, a, clock + 2)]
  /\ ring' = [ring EXCEPT ![d] = @ \cup {a}]
  /\ peers' = [peers EXCEPT ![d][a] = "out", ![a][d] = "in"]
  /\ link' = link \cup {<<d, a>>}
  /\ announce' = announce \cup {<<d, a>>}
  /\ dial' = [dial EXCEPT ![d] = @ \ {a}]
  /\ known' = [known EXCEPT ![d] = @ \cup {a}]
  /\ UNCHANGED <<sharedPort, up, closing, net, failures, heard>>

\* onNewPeer finds the address connected, or the dial fails.
DialEnds(d, a) ==
  /\ a \in dial[d]
  /\ dial' = [dial EXCEPT ![d] = @ \ {a}]
  /\ UNCHANGED <<sharedPort, up, tables, conns, known, net, clock, bounds, heard>>

\* handleAnnounce at the acceptor.
HandleAnnounce(d, a) ==
  /\ <<d, a>> \in announce
  /\ announce' = announce \ {<<d, a>>}
  /\ ring' = [ring EXCEPT ![a] = @ \cup {d}]
  /\ view' = IF d \in ring[a] THEN view ELSE [view EXCEPT ![a] = AddNode(@, d)]
  /\ UNCHANGED <<sharedPort, up, peers, link, closing, dial, known, net, clock, bounds, heard>>

\* What each end of the connection will notice.
CloseOf(d, a) == {<<d, a, "out">>, <<a, d, IF <<d, a>> \in announce THEN "raw" ELSE "in">>}

\* A connection breaks, with the messages on it.
Drop(d, a) ==
  /\ <<d, a>> \in link
  /\ failures < MaxFailures
  /\ failures' = failures + 1
  /\ link' = link \ {<<d, a>>}
  /\ announce' = announce \ {<<d, a>>}
  /\ closing' = closing \cup CloseOf(d, a)
  /\ net' = {msg \in net : {msg.from, msg.to} # {d, a}}
  /\ UNCHANGED <<sharedPort, up, tables, peers, dial, known, clock, connects, heard>>

\* OnPeerDisconnect.  An outbound peer leaves the ring and is Dead, unless
\* handleLeaving has taken it out of the peers map.  An inbound one that was
\* announced from an ephemeral port likewise; without a remap the code takes
\* the address for an ephemeral one, drops its table entry and keeps the ring.
NoticeClose(n, m, r) ==
  LET gone == \/ r = "out" /\ peers[n][m] = "out"
              \/ r = "in" /\ ~sharedPort /\ peers[n][m] = "in"
  IN
  /\ <<n, m, r>> \in closing
  /\ n \in up
  /\ closing' = closing \ {<<n, m, r>>}
  /\ peers' = [peers EXCEPT ![n][m] = "none"]
  /\ ring' = IF gone THEN [ring EXCEPT ![n] = @ \ {m}] ELSE ring
  /\ clock' = IF gone THEN clock + 1 ELSE clock
  /\ view' =
       CASE gone -> [view EXCEPT ![n] = ForceLocalState(@, m, Dead, clock + 1)]
         [] ~gone /\ r # "out" /\ sharedPort -> [view EXCEPT ![n] = RemoveNode(@, m)]
         [] OTHER -> view
  /\ UNCHANGED <<sharedPort, up, link, announce, dial, known, net, bounds, heard>>

-----------------------------------------------------------------------------
(* Gossip.                                                                 *)

Gossiping == {msg \in net : msg.type # "leaving"}

\* doGossipRound, for one of its targets: a digest of the ring's members.
GossipTo(n, m) ==
  /\ n \in up /\ m \in ring[n] \ {n}
  /\ Linked(n, m)
  /\ Cardinality(Gossiping) < MaxInFlight
  /\ Tell({[type |-> "digest", from |-> n, to |-> m,
            digest |-> RestrictTo(view[n], ring[n] \cup {n})]})
  /\ UNCHANGED <<sharedPort, up, tables, conns, dial, known, clock, bounds, heard>>

\* Alive members the receiver did not know and is not connected to.
Discovered(n, digest) ==
  {a \in Node \ (ring[n] \cup {n}) :
     ~Known(view[n], a) /\ digest[a].gen > 0 /\ digest[a].state = Alive}

\* Addresses to dial: unknown ones, and ones that come back to life.
ToDial(n, digest) ==
  {a \in NeedFull(view[n], digest) \ (ring[n] \cup {n}) :
     ~Known(view[n], a) \/ (digest[a].state = Alive /\ view[n][a].state # Alive)}

\* HandleDigest: merge, register what is new, dial, and answer with the full
\* entries the digest had newer (as this node has them) and the whole digest.
HandleDigest(n, msg) ==
  LET t == UpdateAll(Merge(view[n], msg.digest), Discovered(n, msg.digest), msg.digest) IN
  /\ msg \in net /\ msg.type = "digest" /\ msg.to = n /\ n \in up
  /\ view' = [view EXCEPT ![n] = t]
  /\ dial' = [dial EXCEPT ![n] = @ \cup ToDial(n, msg.digest)]
  /\ net' = (net \ {msg}) \cup
              IF Linked(n, msg.from)
              THEN {[type |-> "response", from |-> n, to |-> msg.from,
                     full |-> RestrictTo(t, NeedFull(view[n], msg.digest)), digest |-> t]}
              ELSE {}
  /\ UNCHANGED <<sharedPort, up, ring, conns, known, clock, bounds, heard>>

\* The entries a response may change: all but the node's own.
Others(n) == Node \ {n}

\* Merge alone: what is newer in the digest waits for another round.
MutApplyDigest(n, t, digest) == Merge(t, digest)

\* Merge, and then the newer states directly from the digest.
ApplyDigest(n, t, digest) == UpdateAll(Merge(t, digest), Others(n), digest)

\* HandleResponse: full entries, then the digest; the own entry is skipped,
\* except by Merge.
HandleResponse(n, msg) ==
  LET t == ApplyDigest(n, UpdateAll(view[n], Others(n), msg.full), msg.digest) IN
  /\ msg \in net /\ msg.type = "response" /\ msg.to = n /\ n \in up
  /\ view' = [view EXCEPT ![n] = t]
  /\ dial' = [dial EXCEPT ![n] = @ \cup
                {a \in Others(n) : ~Known(view[n], a) /\ msg.full[a].gen > 0
                                      /\ msg.full[a].state = Alive}]
  /\ net' = net \ {msg}
  /\ UNCHANGED <<sharedPort, up, ring, conns, known, clock, bounds, heard>>

-----------------------------------------------------------------------------
(* Departure and return.                                                   *)

\* GracefulShutdown: gossip stops, MessageLeaving goes to every peer, the
\* connections close.  What the node had sent before is still under way.
Leave(n) ==
  /\ n \in up
  /\ failures < MaxFailures
  /\ failures' = failures + 1
  /\ up' = up \ {n}
  /\ clock' = clock + 1
  /\ net' = {msg \in net : msg.to # n} \cup
              {[type |-> "leaving", from |-> n, to |-> m, gen |-> view[n][n].gen] :
                 m \in {k \in Node : Linked(n, k)}}
  /\ link' = {l \in link : n \notin {l[1], l[2]}}
  /\ announce' = {l \in announce : n \notin {l[1], l[2]}}
  /\ closing' = {c \in closing : c[1] # n} \cup
                  {c \in UNION {CloseOf(l[1], l[2]) : l \in link} : c[2] = n}
  /\ peers' = [peers EXCEPT ![n] = [m \in Node |-> "none"]]
  /\ dial' = [dial EXCEPT ![n] = {}]
  /\ UNCHANGED <<sharedPort, tables, known, connects, heard>>

\* The generation the leaving node had.
MutLeftGen(msg) == msg.gen

\* "so StateLeft beats any stale gossip digest the leaving node already sent"
LeftGen(msg) == msg.gen + 1

\* handleLeaving: out of the ring, Left at the generation after the one the
\* leaving node had, out of the peers map.
HandleLeaving(n, msg) ==
  /\ msg \in net /\ msg.type = "leaving" /\ msg.to = n /\ n \in up
  /\ net' = net \ {msg}
  /\ ring' = [ring EXCEPT ![n] = @ \ {msg.from}]
  /\ view' = [view EXCEPT ![n] =
                UpdateState(@, msg.from, [gen |-> LeftGen(msg), state |-> Left])]
  /\ peers' = [peers EXCEPT ![n][msg.from] = "none"]
  /\ heard' = heard \cup {<<n, msg.from>>}
  /\ UNCHANGED <<sharedPort, up, link, announce, closing, dial, known, clock, bounds>>

\* The daemon starts again, with an empty table and a new generation.
Restart(n) ==
  /\ n \notin up
  /\ up' = up \cup {n}
  /\ clock' = clock + 1
  /\ view' = [view EXCEPT ![n] = NewTable(n, clock + 1)]
  /\ ring' = [ring EXCEPT ![n] = {n}]
  /\ heard' = {h \in heard : n \notin {h[1], h[2]}}
  /\ net' = {msg \in net : msg.type # "leaving" \/ msg.from # n}
  /\ UNCHANGED <<sharedPort, conns, dial, known, bounds>>

-----------------------------------------------------------------------------

Next ==
  \/ \E n, m \in Node :
       \/ Connect(n, m) \/ DialEnds(n, m) \/ HandleAnnounce(n, m)
       \/ Drop(n, m) \/ GossipTo(n, m)
       \/ \E r \in {"in", "out", "raw"} : NoticeClose(n, m, r)
  \/ \E n \in Node : Leave(n) \/ Restart(n)
  \/ \E n \in Node, msg \in net :
       HandleDigest(n, msg) \/ HandleResponse(n, msg) \/ HandleLeaving(n, msg)

\* A broken connection is noticed, an announcement arrives, a message that is
\* not lost is handled, and the shuffle of doGossipRound picks every target
\* again and again.
Fairness ==
  /\ \A n \in Node : \A m \in Node \ {n} :
       /\ WF_vars(HandleAnnounce(n, m))
       /\ SF_vars(GossipTo(n, m))
       /\ WF_vars(\E r \in {"in", "out", "raw"} : NoticeClose(n, m, r))
  /\ WF_vars(\E n \in Node, msg \in net :
       HandleDigest(n, msg) \/ HandleResponse(n, msg) \/ HandleLeaving(n, msg))

Spec == Init /\ [][Next]_vars

FairSpec == Spec /\ Fairness

-----------------------------------------------------------------------------
(* Properties.                                                             *)

\* "only the node itself can permanently bump its gen": an Alive entry, in any
\* table or message, never carries a generation its owner has not had.
AliveIsOwned ==
  \A n, a \in Node : view[n][a].state = Alive => view[n][a].gen <= view[a][a].gen

\* "stale updates arriving out of order are silently discarded": an entry only
\* moves forward, in generation and then in state, until it is removed or the
\* node restarts.
EntriesAdvance ==
  [][\A n, a \in Node :
       n \in up /\ n \in up' /\ view[n][a].gen > 0 /\ view'[n][a].gen > 0
         => AtLeast(view'[n][a], view[n][a])]_vars

\* A node that said it leaves is not seen alive again, by those it told, until
\* it has restarted: a digest sent before does not bring it back.  This needs
\* ephemeral ports: with a shared one, OnPeerDisconnect removes the Left entry.
LeftStaysLeft ==
  ~sharedPort => \A n, a \in Node : <<n, a>> \in heard /\ Known(view[n], a) => view[n][a].state # Alive

\* Connected, and in each other's ring: both gossip to the other.
Partners(n, m) == Linked(n, m) /\ m \in ring[n] /\ n \in ring[m]

\* "This converges the whole cluster to a consistent view": once connections
\* stop changing, two partners agree about every third node.
Converges ==
  <>[](\A n, m \in Node : Partners(n, m) =>
         \A a \in Node \ {n, m} : view[n][a] = view[m][a])

=============================================================================
