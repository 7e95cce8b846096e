---------------------------- MODULE Gossip_proofs ----------------------------
(***************************************************************************)
(* Proofs about Membership and Gossip, for any set of nodes and any        *)
(* bootstrap configuration, number of connections, failures and messages.  *)
(*                                                                         *)
(* Entries of all tables only move forward, except where one is removed or *)
(* a node restarts; this is a matter of the table operations.  That no     *)
(* Alive entry is ahead of its owner needs the same of every table that is *)
(* under way in a message, and that a node's own generation never goes     *)
(* back, not even over a restart, since it is a reading of the clock.      *)
(***************************************************************************)
EXTENDS Gossip, TLAPS

USE DEF Entry, Table, Alive, Dead, Left, Unknown, Known

-----------------------------------------------------------------------------
(* The table operations.                                                   *)

\* Every entry of u has come from that of t by moving forward.
Ahead(u, t) == \A a \in Node : AtLeast(u[a], t[a])

LEMMA AheadReflexive == \A t \in Table : Ahead(t, t)
  BY DEF Ahead, AtLeast

LEMMA AheadTransitive ==
  ASSUME NEW t \in Table, NEW u \in Table, NEW v \in Table, Ahead(u, t), Ahead(v, u)
  PROVE  Ahead(v, t)
<1> SUFFICES ASSUME NEW a \in Node
             PROVE  AtLeast(v[a], t[a])
  BY DEF Ahead
<1>1. t[a] \in Entry /\ u[a] \in Entry /\ v[a] \in Entry
  OBVIOUS
<1>2. AtLeast(u[a], t[a]) /\ AtLeast(v[a], u[a])
  BY DEF Ahead
<1> QED
  BY <1>1, <1>2 DEF AtLeast

LEMMA NewTableType ==
  ASSUME NEW self \in Node, NEW now \in Nat
  PROVE  /\ NewTable(self, now) \in Table
         /\ NewTable(self, now)[self] = [gen |-> now, state |-> Alive]
         /\ \A a \in Node \ {self} : NewTable(self, now)[a] = Unknown
  BY DEF NewTable, NoEntries

LEMMA AddNodeAdvances ==
  ASSUME NEW t \in Table, NEW a \in Node
  PROVE  AddNode(t, a) \in Table /\ Ahead(AddNode(t, a), t)
  BY DEF AddNode, Ahead, AtLeast

LEMMA UpdateStateAdvances ==
  ASSUME NEW t \in Table, NEW a \in Node, NEW e \in Entry
  PROVE  UpdateState(t, a, e) \in Table /\ Ahead(UpdateState(t, a, e), t)
  BY DEF UpdateState, Newer, Ahead, AtLeast

LEMMA ForceAdvances ==
  ASSUME NEW t \in Table, NEW a \in Node, NEW s \in Alive .. Left, NEW now \in Nat
  PROVE  ForceLocalState(t, a, s, now) \in Table /\ Ahead(ForceLocalState(t, a, s, now), t)
  BY DEF ForceLocalState, Later, Ahead, AtLeast

LEMMA BumpAdvances ==
  ASSUME NEW t \in Table, NEW self \in Node, NEW now \in Nat
  PROVE  /\ BumpSelf(t, self, now) \in Table /\ Ahead(BumpSelf(t, self, now), t)
         /\ BumpSelf(t, self, now)[self].gen = Later(now, t[self].gen)
         /\ \A a \in Node \ {self} : BumpSelf(t, self, now)[a] = t[a]
  BY DEF BumpSelf, Later, Ahead, AtLeast

LEMMA MergeAdvances ==
  ASSUME NEW t \in Table, NEW d \in Table
  PROVE  Merge(t, d) \in Table /\ Ahead(Merge(t, d), t)
  BY DEF Merge, Ahead, AtLeast

LEMMA UpdateAllAdvances ==
  ASSUME NEW t \in Table, NEW d \in Table, NEW S
  PROVE  UpdateAll(t, S, d) \in Table /\ Ahead(UpdateAll(t, S, d), t)
  BY DEF UpdateAll, Newer, Ahead, AtLeast

LEMMA RestrictType ==
  ASSUME NEW t \in Table, NEW S
  PROVE  RestrictTo(t, S) \in Table
  BY DEF RestrictTo

-----------------------------------------------------------------------------
(* What the digest handlers do to the table of a node.                     *)

Digested(n, d) == UpdateAll(Merge(view[n], d), Discovered(n, d), d)
Answered(n, full, d) == ApplyDigest(n, UpdateAll(view[n], Others(n), full), d)

LEMMA DigestedAdvances ==
  ASSUME TypeOK, NEW n \in Node, NEW d \in Table
  PROVE  /\ Digested(n, d) \in Table
         /\ Ahead(Digested(n, d), view[n])
         /\ Digested(n, d)[n].gen = view[n][n].gen
<1>1. view[n] \in Table
  BY DEF TypeOK
<1>2. Merge(view[n], d) \in Table /\ Ahead(Merge(view[n], d), view[n])
  BY <1>1, MergeAdvances
<1>3. Digested(n, d) \in Table /\ Ahead(Digested(n, d), Merge(view[n], d))
  BY <1>2, UpdateAllAdvances DEF Digested
<1>4. Digested(n, d)[n].gen = view[n][n].gen
  <2>1. Merge(view[n], d)[n].gen = view[n][n].gen
    BY <1>1 DEF Merge
  <2>2. n \notin Discovered(n, d)
    BY DEF Discovered
  <2> QED
    BY <2>1, <2>2 DEF Digested, UpdateAll
<1> QED
  BY <1>1, <1>2, <1>3, <1>4, AheadTransitive

LEMMA AnsweredAdvances ==
  ASSUME TypeOK, NEW n \in Node, NEW full \in Table, NEW d \in Table
  PROVE  /\ Answered(n, full, d) \in Table
         /\ Ahead(Answered(n, full, d), view[n])
         /\ Answered(n, full, d)[n].gen = view[n][n].gen
<1> DEFINE t == UpdateAll(view[n], Others(n), full)
<1>1. view[n] \in Table
  BY DEF TypeOK
<1>2. t \in Table /\ Ahead(t, view[n])
  BY <1>1, UpdateAllAdvances
<1>3. Merge(t, d) \in Table /\ Ahead(Merge(t, d), t)
  BY <1>2, MergeAdvances
<1>4. Answered(n, full, d) \in Table /\ Ahead(Answered(n, full, d), Merge(t, d))
  BY <1>3, UpdateAllAdvances DEF Answered, ApplyDigest
<1>5. Answered(n, full, d)[n].gen = view[n][n].gen
  <2>1. t[n] = view[n][n]
    BY DEF UpdateAll, Others
  <2>2. Merge(t, d)[n].gen = t[n].gen
    BY <1>2 DEF Merge
  <2>3. Answered(n, full, d)[n] = Merge(t, d)[n]
    BY DEF Answered, ApplyDigest, UpdateAll, Others
  <2> QED
    BY <2>1, <2>2, <2>3
<1> HIDE DEF t
<1> QED
  BY <1>1, <1>2, <1>3, <1>4, <1>5, AheadTransitive

-----------------------------------------------------------------------------
(* Types.                                                                  *)

\* Nobody is connected with itself.
DistinctEnds ==
  /\ \A l \in link : l[1] # l[2]
  /\ \A c \in closing : c[1] # c[2]
  /\ \A msg \in net : msg.type = "leaving" => msg.from # msg.to

TypeInv == TypeOK /\ DistinctEnds

USE BootstrapAssumption, BoundsAssumption

HIDE DEF Entry, Table

LEMMA InitTypeInv == Init => TypeInv
<1> SUFFICES ASSUME Init
             PROVE  TypeInv
  OBVIOUS
<1>1. view \in [Node -> Table]
  BY NewTableType DEF Init
<1> QED
  BY <1>1 DEF Init, TypeInv, TypeOK, DistinctEnds, Role

\* The entries of a message are a table of the kind that its type says.
LEMMA MessageType ==
  ASSUME TypeOK, NEW msg \in net
  PROVE  /\ msg.type \in {"digest", "response", "leaving"}
         /\ msg.from \in Node /\ msg.to \in Node
         /\ msg.type = "digest" => msg \in DigestMsg /\ msg.digest \in Table
         /\ msg.type = "response" => msg \in ResponseMsg /\ msg.full \in Table /\ msg.digest \in Table
         /\ msg.type = "leaving" => msg \in LeavingMsg /\ msg.gen \in Nat
  BY DEF TypeOK, DigestMsg, ResponseMsg, LeavingMsg

LEMMA CloseOfType ==
  ASSUME NEW d \in Node, NEW a \in Node, d # a
  PROVE  /\ CloseOf(d, a) \subseteq Node \X Node \X {"out", "in", "raw"}
         /\ \A c \in CloseOf(d, a) : c[1] # c[2]
  BY DEF CloseOf

LEMMA ConnectType ==
  ASSUME TypeInv, NEW d \in Node, NEW a \in Node, Connect(d, a)
  PROVE  TypeInv'
<1> USE DEF TypeInv, Connect
<1>1. view' \in [Node -> Table]
  <2>1. view[d] \in Table /\ view[a] \in Table /\ clock + 1 \in Nat /\ clock + 2 \in Nat
    BY DEF TypeOK
  <2>2. BumpSelf(AddNode(view[d], a), d, clock + 1) \in Table
    BY <2>1, AddNodeAdvances, BumpAdvances
  <2>3. BumpSelf(view[a], a, clock + 2) \in Table
    BY <2>1, BumpAdvances
  <2> QED
    BY <2>2, <2>3 DEF TypeOK
<1>2. peers' \in [Node -> [Node -> Role]]
  BY DEF TypeOK, Role
<1>3. DistinctEnds'
  BY DEF DistinctEnds
<1>4. link' \subseteq Node \X Node /\ announce' \subseteq link'
  BY DEF TypeOK
<1>5. clock' \in Nat /\ connects' \in 0 .. MaxConnects
  BY DEF TypeOK
<1>6. /\ ring' \in [Node -> SUBSET Node]
      /\ dial' \in [Node -> SUBSET Node]
      /\ known' \in [Node -> SUBSET Node]
  BY DEF TypeOK
<1> QED
  BY <1>1, <1>2, <1>3, <1>4, <1>5, <1>6 DEF TypeOK

LEMMA ConnectionStepsType ==
  ASSUME TypeInv, NEW d \in Node, NEW a \in Node,
         DialEnds(d, a) \/ HandleAnnounce(d, a) \/ Drop(d, a)
  PROVE  TypeInv'
<1> USE DEF TypeInv
<1>1. CASE DialEnds(d, a)
  BY <1>1 DEF DialEnds, tables, conns, bounds, TypeOK, DistinctEnds
<1>2. CASE HandleAnnounce(d, a)
  <2>1. view' \in [Node -> Table]
    BY <1>2, AddNodeAdvances DEF HandleAnnounce, TypeOK
  <2> QED
    BY <1>2, <2>1 DEF HandleAnnounce, bounds, TypeOK, DistinctEnds
<1>3. CASE Drop(d, a)
  <2>1. d # a
    BY <1>3 DEF Drop, DistinctEnds
  <2>2. /\ closing' \subseteq Node \X Node \X {"out", "in", "raw"}
        /\ \A c \in closing' : c[1] # c[2]
    BY <1>3, <2>1, CloseOfType DEF Drop, TypeOK, DistinctEnds
  <2>3. link' \subseteq link /\ announce' \subseteq link' /\ net' \subseteq net
    BY <1>3 DEF Drop, TypeOK
  <2>4. TypeOK'
    BY <1>3, <2>2, <2>3 DEF Drop, tables, TypeOK
  <2> QED
    BY <2>2, <2>3, <2>4 DEF DistinctEnds
<1> QED
  BY <1>1, <1>2, <1>3

LEMMA NoticeCloseType ==
  ASSUME TypeInv, NEW n \in Node, NEW m \in Node, NEW r \in {"in", "out", "raw"},
         NoticeClose(n, m, r)
  PROVE  TypeInv'
<1> USE DEF TypeInv
<1> DEFINE gone == \/ r = "out" /\ peers[n][m] = "out"
                   \/ r = "in" /\ ~sharedPort /\ peers[n][m] = "in"
<1>1. view' \in [Node -> Table]
  <2>1. view[n] \in Table /\ clock + 1 \in Nat
    BY DEF TypeOK
  <2>2. ForceLocalState(view[n], m, Dead, clock + 1) \in Table
    <3>1. Dead \in Alive .. Left
      OBVIOUS
    <3> QED
      BY <2>1, <3>1, ForceAdvances
  <2>3. RemoveNode(view[n], m) \in Table
    BY <2>1 DEF RemoveNode, Entry, Table
  <2>4. CASE gone
    BY <2>2, <2>4 DEF NoticeClose, TypeOK
  <2>5. CASE ~gone /\ r # "out" /\ sharedPort
    BY <2>3, <2>5 DEF NoticeClose, TypeOK
  <2>6. CASE ~gone /\ ~(r # "out" /\ sharedPort)
    BY <2>6 DEF NoticeClose, TypeOK
  <2> QED
    BY <2>4, <2>5, <2>6
<1>2. clock' \in Nat
  BY DEF NoticeClose, TypeOK
<1>3. ring' \in [Node -> SUBSET Node] /\ peers' \in [Node -> [Node -> Role]]
  BY DEF NoticeClose, TypeOK, Role
<1> QED
  BY <1>1, <1>2, <1>3 DEF NoticeClose, bounds, TypeOK, DistinctEnds

LEMMA GossipToType ==
  ASSUME TypeInv, NEW n \in Node, NEW m \in Node, GossipTo(n, m)
  PROVE  TypeInv'
<1> USE DEF TypeInv
<1>1. RestrictTo(view[n], ring[n] \cup {n}) \in Table
  BY RestrictType DEF TypeOK
<1> DEFINE d == [type |-> "digest", from |-> n, to |-> m,
                 digest |-> RestrictTo(view[n], ring[n] \cup {n})]
<1>2. d \in DigestMsg /\ d.type = "digest"
  BY <1>1 DEF DigestMsg
<1>3. net' = net \cup {d}
  BY DEF GossipTo, Tell
<1> HIDE DEF d
<1>4. net' \subseteq DigestMsg \cup ResponseMsg \cup LeavingMsg
  BY <1>2, <1>3 DEF TypeOK
<1>5. DistinctEnds'
  BY <1>2, <1>3 DEF GossipTo, conns, DistinctEnds
<1> QED
  BY <1>4, <1>5 DEF GossipTo, Tell, tables, conns, bounds, TypeOK

\* The answer to a digest, if there is one.
Reply(n, msg) ==
  IF Linked(n, msg.from)
  THEN {[type |-> "response", from |-> n, to |-> msg.from,
         full |-> RestrictTo(Digested(n, msg.digest), NeedFull(view[n], msg.digest)),
         digest |-> Digested(n, msg.digest)]}
  ELSE {}

LEMMA HandleDigestType ==
  ASSUME TypeInv, NEW n \in Node, NEW msg \in net, HandleDigest(n, msg)
  PROVE  /\ TypeInv'
         /\ msg.digest \in Table
         /\ view' = [view EXCEPT ![n] = Digested(n, msg.digest)]
         /\ net' = (net \ {msg}) \cup Reply(n, msg)
<1> USE DEF TypeInv
<1>1. msg.from \in Node /\ msg.digest \in Table
  BY MessageType DEF HandleDigest
<1>2. Digested(n, msg.digest) \in Table
  BY <1>1, DigestedAdvances
<1>3. /\ view' = [view EXCEPT ![n] = Digested(n, msg.digest)]
      /\ net' = (net \ {msg}) \cup Reply(n, msg)
  BY DEF HandleDigest, Digested, Reply
<1>4. Reply(n, msg) \subseteq ResponseMsg
  BY <1>1, <1>2, RestrictType DEF Reply, ResponseMsg
<1>5. \A x \in Reply(n, msg) : x.type = "response"
  BY DEF Reply
<1>6. dial' \in [Node -> SUBSET Node]
  BY DEF HandleDigest, ToDial, NeedFull, TypeOK
<1>7. view' \in [Node -> Table]
  BY <1>2, <1>3 DEF TypeOK
<1>8. net' \subseteq DigestMsg \cup ResponseMsg \cup LeavingMsg
  BY <1>3, <1>4 DEF TypeOK
<1>9. DistinctEnds'
  BY <1>3, <1>5 DEF HandleDigest, conns, DistinctEnds
<1>10. TypeOK'
  BY <1>6, <1>7, <1>8 DEF HandleDigest, conns, bounds, TypeOK
<1> QED
  BY <1>1, <1>3, <1>9, <1>10

LEMMA HandleResponseType ==
  ASSUME TypeInv, NEW n \in Node, NEW msg \in net, HandleResponse(n, msg)
  PROVE  /\ TypeInv'
         /\ msg.digest \in Table /\ msg.full \in Table
         /\ view' = [view EXCEPT ![n] = Answered(n, msg.full, msg.digest)]
<1> USE DEF TypeInv
<1>1. msg.full \in Table /\ msg.digest \in Table
  BY MessageType DEF HandleResponse
<1>2. Answered(n, msg.full, msg.digest) \in Table
  BY <1>1, AnsweredAdvances
<1>3. view' = [view EXCEPT ![n] = Answered(n, msg.full, msg.digest)]
  BY DEF HandleResponse, Answered
<1>4. dial' \in [Node -> SUBSET Node]
  BY DEF HandleResponse, Others, TypeOK
<1>5. view' \in [Node -> Table]
  BY <1>2, <1>3 DEF TypeOK
<1>6. net' \subseteq net
  BY DEF HandleResponse
<1>7. DistinctEnds'
  BY <1>6 DEF HandleResponse, conns, DistinctEnds
<1>8. TypeOK'
  BY <1>4, <1>5, <1>6 DEF HandleResponse, conns, bounds, TypeOK
<1> QED
  BY <1>1, <1>3, <1>7, <1>8

\* What a node that leaves tells its peers.
Farewell(n) == {[type |-> "leaving", from |-> n, to |-> m, gen |-> view[n][n].gen] :
                  m \in {k \in Node : Linked(n, k)}}

LEMMA LeaveType ==
  ASSUME TypeInv, NEW n \in Node, Leave(n)
  PROVE  /\ TypeInv'
         /\ net' = {msg \in net : msg.to # n} \cup Farewell(n)
<1> USE DEF TypeInv
<1>1. net' = {msg \in net : msg.to # n} \cup Farewell(n)
  BY DEF Leave, Farewell
<1>2. Farewell(n) \subseteq LeavingMsg
  <2>1. view[n][n].gen \in Nat
    BY DEF TypeOK, Entry, Table
  <2> QED
    BY <2>1 DEF Farewell, LeavingMsg
<1>3. \A x \in Farewell(n) : x.from # x.to
  <2>1. \A m \in Node : Linked(n, m) => n # m
    BY DEF Linked, DistinctEnds
  <2> QED
    BY <2>1 DEF Farewell
<1>4. /\ closing' \subseteq Node \X Node \X {"out", "in", "raw"}
      /\ \A c \in closing' : c[1] # c[2]
  <2>1. \A l \in link : l[1] \in Node /\ l[2] \in Node /\ l[1] # l[2]
    BY DEF TypeOK, DistinctEnds
  <2> QED
    BY <2>1, CloseOfType DEF Leave, TypeOK, DistinctEnds
<1>5. link' \subseteq link /\ announce' \subseteq link'
  BY DEF Leave, TypeOK
<1>6. peers' \in [Node -> [Node -> Role]] /\ dial' \in [Node -> SUBSET Node]
  BY DEF Leave, TypeOK, Role
<1>7. up' \subseteq Node /\ clock' \in Nat /\ failures' \in 0 .. MaxFailures
  BY DEF Leave, TypeOK
<1>8. TypeOK'
  BY <1>1, <1>2, <1>4, <1>5, <1>6, <1>7 DEF Leave, tables, TypeOK
<1> QED
  BY <1>1, <1>3, <1>4, <1>5, <1>8 DEF DistinctEnds

LEMMA HandleLeavingType ==
  ASSUME TypeInv, NEW n \in Node, NEW msg \in net, HandleLeaving(n, msg)
  PROVE  /\ TypeInv'
         /\ msg.from \in Node \ {n} /\ msg.gen \in Nat
         /\ Ahead(view'[n], view[n]) /\ view'[n][msg.from].gen > msg.gen
         /\ \A a \in Node \ {msg.from} : view'[n][a] = view[n][a]
         /\ view'[n][msg.from].state = Alive => view'[n][msg.from] = view[n][msg.from]
<1> USE DEF TypeInv
<1>1. msg.from \in Node \ {n} /\ msg.gen \in Nat
  BY MessageType DEF HandleLeaving, DistinctEnds
<1> DEFINE e == [gen |-> LeftGen(msg), state |-> Left]
<1>2. e \in Entry /\ e.gen > msg.gen /\ e.state = Left
  BY <1>1 DEF LeftGen, Entry
<1>3. view[n] \in Table /\ view' = [view EXCEPT ![n] = UpdateState(@, msg.from, e)]
  BY DEF HandleLeaving, TypeOK
<1> HIDE DEF e
<1>4. UpdateState(view[n], msg.from, e) \in Table /\ Ahead(UpdateState(view[n], msg.from, e), view[n])
  BY <1>1, <1>2, <1>3, UpdateStateAdvances
<1>5. view'[n] = UpdateState(view[n], msg.from, e)
  BY <1>3 DEF TypeOK
<1>6. /\ view'[n][msg.from].gen > msg.gen
      /\ \A a \in Node \ {msg.from} : view'[n][a] = view[n][a]
      /\ view'[n][msg.from].state = Alive => view'[n][msg.from] = view[n][msg.from]
  BY <1>1, <1>2, <1>3, <1>5 DEF UpdateState, Newer, Entry, Table
<1>7. view' \in [Node -> Table]
  BY <1>3, <1>4 DEF TypeOK
<1>8. peers' \in [Node -> [Node -> Role]] /\ ring' \in [Node -> SUBSET Node] /\ heard' \subseteq Node \X Node
  BY <1>1 DEF HandleLeaving, TypeOK, Role
<1>9. TypeInv'
  BY <1>7, <1>8 DEF HandleLeaving, bounds, TypeOK, DistinctEnds
<1> QED
  BY <1>1, <1>4, <1>5, <1>6, <1>9

LEMMA RestartType ==
  ASSUME TypeInv, NEW n \in Node, Restart(n)
  PROVE  TypeInv'
<1> USE DEF TypeInv
<1>1. view' \in [Node -> Table]
  <2>1. clock + 1 \in Nat
    BY DEF TypeOK
  <2>2. NewTable(n, clock + 1) \in Table
    BY <2>1, NewTableType
  <2> QED
    BY <2>2 DEF Restart, TypeOK
<1> QED
  BY <1>1 DEF Restart, conns, bounds, TypeOK, DistinctEnds

LEMMA NextTypeInv == TypeInv /\ [Next]_vars => TypeInv'
<1> SUFFICES ASSUME TypeInv, [Next]_vars
             PROVE  TypeInv'
  OBVIOUS
<1>1. CASE Next
  <2>1. ASSUME NEW n \in Node, NEW m \in Node,
               \/ Connect(n, m) \/ DialEnds(n, m) \/ HandleAnnounce(n, m)
               \/ Drop(n, m) \/ GossipTo(n, m)
               \/ \E r \in {"in", "out", "raw"} : NoticeClose(n, m, r)
        PROVE  TypeInv'
    BY <2>1, ConnectType, ConnectionStepsType, GossipToType, NoticeCloseType
  <2>2. ASSUME NEW n \in Node, Leave(n) \/ Restart(n)
        PROVE  TypeInv'
    BY <2>2, LeaveType, RestartType
  <2>3. ASSUME NEW n \in Node, NEW msg \in net,
               HandleDigest(n, msg) \/ HandleResponse(n, msg) \/ HandleLeaving(n, msg)
        PROVE  TypeInv'
    BY <2>3, HandleDigestType, HandleResponseType, HandleLeavingType
  <2> QED
    BY <1>1, <2>1, <2>2, <2>3 DEF Next
<1>2. CASE UNCHANGED vars
  BY <1>2 DEF vars, tables, conns, bounds, TypeInv, TypeOK, DistinctEnds
<1> QED
  BY <1>1, <1>2

-----------------------------------------------------------------------------
(* How one step changes the tables.                                        *)

\* A node's own generation is a reading of the clock.
OwnInv == \A a \in Node : 1 <= view[a][a].gen /\ view[a][a].gen <= clock

\* The table of n moves forward, loses an entry, or is that of a new daemon.
TableStep(n) ==
  \/ Ahead(view'[n], view[n])
  \/ sharedPort /\ \E m \in Node \ {n} : view'[n] = RemoveNode(view[n], m)
  \/ n \notin up /\ n \in up'

\* Its own generation does not go back, and stays while the node is down.
OwnStep(n) ==
  /\ view[n][n].gen <= view'[n][n].gen /\ view'[n][n].gen <= clock'
  /\ n \notin up' => view'[n][n].gen = view[n][n].gen

ViewStep == \A n \in Node : TableStep(n) /\ OwnStep(n)

USE DEF OwnInv, TypeInv

\* Steps that leave all tables alone.
LEMMA SameViewStep ==
  ASSUME TypeInv, OwnInv, UNCHANGED view, clock' \in Nat, clock' >= clock
  PROVE  ViewStep
<1> SUFFICES ASSUME NEW n \in Node
             PROVE  TableStep(n) /\ OwnStep(n)
  BY DEF ViewStep
<1>1. view[n] \in Table /\ view[n][n].gen \in Nat /\ clock \in Nat
  BY DEF TypeOK, Table, Entry
<1> QED
  BY <1>1, AheadReflexive DEF TableStep, OwnStep

\* Steps that move the table of one running node forward, its own generation
\* left alone.
LEMMA OneViewStep ==
  ASSUME TypeInv, OwnInv, NEW n \in Node, NEW t \in Table,
         view' = [view EXCEPT ![n] = t], clock' \in Nat, clock' >= clock,
         t[n].gen = view[n][n].gen,
         \/ Ahead(t, view[n])
         \/ sharedPort /\ \E m \in Node \ {n} : t = RemoveNode(view[n], m)
  PROVE  ViewStep
<1> SUFFICES ASSUME NEW a \in Node
             PROVE  TableStep(a) /\ OwnStep(a)
  BY DEF ViewStep
<1>1. view[a] \in Table /\ view[a][a].gen \in Nat /\ clock \in Nat
  BY DEF TypeOK, Table, Entry
<1>2. view'[n] = t
  BY DEF TypeOK
<1>3. a # n => view'[a] = view[a]
  BY DEF TypeOK
<1> QED
  BY <1>1, <1>2, <1>3, AheadReflexive DEF TableStep, OwnStep

LEMMA ConnectViewStep ==
  ASSUME TypeInv, OwnInv, NEW d \in Node, NEW a \in Node, Connect(d, a)
  PROVE  ViewStep
<1> DEFINE td == BumpSelf(AddNode(view[d], a), d, clock + 1)
           ta == BumpSelf(view[a], a, clock + 2)
<1>1. /\ view[d] \in Table /\ view[a] \in Table /\ clock \in Nat
      /\ clock + 1 \in Nat /\ clock + 2 \in Nat /\ d # a /\ d \in up /\ a \in up
  BY DEF TypeOK, Connect
<1>2. /\ AddNode(view[d], a) \in Table /\ Ahead(AddNode(view[d], a), view[d])
      /\ AddNode(view[d], a)[d] = view[d][d]
  BY <1>1, AddNodeAdvances DEF AddNode, Table
<1>3. td \in Table /\ Ahead(td, AddNode(view[d], a)) /\ td[d].gen = Later(clock + 1, view[d][d].gen)
  <2>1. td[d].gen = Later(clock + 1, AddNode(view[d], a)[d].gen)
    BY <1>1, <1>2, BumpAdvances
  <2> QED
    BY <1>1, <1>2, <2>1, BumpAdvances
<1>4. ta \in Table /\ Ahead(ta, view[a]) /\ ta[a].gen = Later(clock + 2, view[a][a].gen)
  BY <1>1, BumpAdvances
<1>5. td[d].gen = clock + 1 /\ ta[a].gen = clock + 2
  <2>1. \A b \in Node : view[b][b].gen \in Nat
    BY DEF TypeOK, Table, Entry
  <2> QED
    BY <1>1, <1>3, <1>4, <2>1 DEF Later
<1>6. view' = [view EXCEPT ![d] = td, ![a] = ta] /\ clock' = clock + 2 /\ up' = up
  BY <1>1 DEF Connect, TypeOK
<1> HIDE DEF td, ta
<1>7. Ahead(td, view[d])
  BY <1>1, <1>2, <1>3, AheadTransitive
<1> SUFFICES ASSUME NEW b \in Node
             PROVE  TableStep(b) /\ OwnStep(b)
  BY DEF ViewStep
<1>8. view[b] \in Table /\ view[b][b].gen \in Nat
  BY DEF TypeOK, Table, Entry
<1>9. CASE b = d
  <2>1. view'[b] = td
    BY <1>1, <1>6, <1>9 DEF TypeOK
  <2> QED
    BY <1>1, <1>5, <1>6, <1>7, <1>8, <1>9, <2>1 DEF TableStep, OwnStep
<1>10. CASE b = a
  <2>1. view'[b] = ta
    BY <1>1, <1>6, <1>10 DEF TypeOK
  <2> QED
    BY <1>1, <1>4, <1>5, <1>6, <1>8, <1>10, <2>1 DEF TableStep, OwnStep
<1>11. CASE b # d /\ b # a
  <2>1. view'[b] = view[b]
    BY <1>1, <1>6, <1>11 DEF TypeOK
  <2> QED
    BY <1>1, <1>6, <1>8, <2>1, AheadReflexive DEF TableStep, OwnStep
<1> QED
  BY <1>9, <1>10, <1>11

LEMMA NoticeCloseViewStep ==
  ASSUME TypeInv, OwnInv, NEW n \in Node, NEW m \in Node, NEW r \in {"in", "out", "raw"},
         NoticeClose(n, m, r)
  PROVE  ViewStep
<1> DEFINE gone == \/ r = "out" /\ peers[n][m] = "out"
                   \/ r = "in" /\ ~sharedPort /\ peers[n][m] = "in"
<1>1. n # m /\ view[n] \in Table /\ clock \in Nat /\ clock + 1 \in Nat
  BY DEF NoticeClose, DistinctEnds, TypeOK
<1>2. clock' \in Nat /\ clock' >= clock
  BY <1>1 DEF NoticeClose
<1>3. CASE gone
  <2> DEFINE t == ForceLocalState(view[n], m, Dead, clock + 1)
  <2>1. Dead \in Alive .. Left
    OBVIOUS
  <2>2. t \in Table /\ Ahead(t, view[n])
    BY <1>1, <2>1, ForceAdvances
  <2>3. t[n] = view[n][n]
    BY <1>1 DEF ForceLocalState, Table
  <2>4. view' = [view EXCEPT ![n] = t]
    BY <1>3 DEF NoticeClose
  <2> HIDE DEF t
  <2> QED
    BY <1>2, <2>2, <2>3, <2>4, OneViewStep
<1>4. CASE ~gone /\ r # "out" /\ sharedPort
  <2> DEFINE t == RemoveNode(view[n], m)
  <2>1. t \in Table /\ t[n] = view[n][n]
    BY <1>1 DEF RemoveNode, Table, Entry
  <2>2. view' = [view EXCEPT ![n] = t]
    BY <1>4 DEF NoticeClose
  <2>3. sharedPort /\ \E k \in Node \ {n} : t = RemoveNode(view[n], k)
    BY <1>1, <1>4
  <2> HIDE DEF t
  <2> QED
    BY <1>2, <2>1, <2>2, <2>3, OneViewStep
<1>5. CASE ~gone /\ ~(r # "out" /\ sharedPort)
  <2>1. view' = view
    BY <1>5 DEF NoticeClose
  <2> QED
    BY <1>2, <2>1, SameViewStep
<1> QED
  BY <1>3, <1>4, <1>5

LEMMA HandleAnnounceViewStep ==
  ASSUME TypeInv, OwnInv, NEW d \in Node, NEW a \in Node, HandleAnnounce(d, a)
  PROVE  ViewStep
<1>1. d # a /\ view[a] \in Table /\ clock \in Nat /\ clock' = clock
  BY DEF HandleAnnounce, DistinctEnds, TypeOK
<1>2. CASE d \in ring[a]
  BY <1>1, <1>2, SameViewStep DEF HandleAnnounce
<1>3. CASE d \notin ring[a]
  <2> DEFINE t == AddNode(view[a], d)
  <2>1. t \in Table /\ Ahead(t, view[a])
    BY <1>1, AddNodeAdvances
  <2>2. t[a].gen = view[a][a].gen
    BY <1>1 DEF AddNode, Table
  <2>3. view' = [view EXCEPT ![a] = t]
    BY <1>3 DEF HandleAnnounce
  <2>4. clock' \in Nat /\ clock' >= clock
    BY <1>1
  <2> HIDE DEF t
  <2> QED
    BY <2>1, <2>2, <2>3, <2>4, OneViewStep
<1> QED
  BY <1>2, <1>3

LEMMA MessageViewStep ==
  ASSUME TypeInv, OwnInv, NEW n \in Node, NEW msg \in net,
         HandleDigest(n, msg) \/ HandleResponse(n, msg) \/ HandleLeaving(n, msg)
  PROVE  ViewStep
<1>1. clock \in Nat /\ clock' = clock /\ view[n] \in Table
  BY DEF HandleDigest, HandleResponse, HandleLeaving, TypeOK
<1>2. CASE HandleDigest(n, msg)
  BY <1>1, <1>2, HandleDigestType, DigestedAdvances, OneViewStep
<1>3. CASE HandleResponse(n, msg)
  BY <1>1, <1>3, HandleResponseType, AnsweredAdvances, OneViewStep
<1>4. CASE HandleLeaving(n, msg)
  <2>1. view'[n] \in Table
    <3>1. TypeOK'
      BY <1>4, HandleLeavingType
    <3> QED
      BY <3>1 DEF TypeOK
  <2>3. view' = [view EXCEPT ![n] = view'[n]]
    BY <1>4 DEF HandleLeaving, TypeOK
  <2>2. view'[n][n].gen = view[n][n].gen /\ Ahead(view'[n], view[n])
    BY <1>4, HandleLeavingType
  <2>4. clock' \in Nat /\ clock' >= clock
    BY <1>1
  <2> QED
    BY <2>1, <2>2, <2>3, <2>4, OneViewStep
<1> QED
  BY <1>2, <1>3, <1>4

LEMMA RestartViewStep ==
  ASSUME TypeInv, OwnInv, NEW n \in Node, Restart(n)
  PROVE  ViewStep
<1>1. clock \in Nat /\ clock + 1 \in Nat /\ clock' = clock + 1 /\ n \notin up /\ up' = up \cup {n}
  BY DEF Restart, TypeOK
<1>2. view'[n][n].gen = clock + 1
  <2>1. NewTable(n, clock + 1)[n].gen = clock + 1
    BY <1>1 DEF NewTable, NoEntries
  <2> QED
    BY <2>1 DEF Restart, TypeOK
<1> SUFFICES ASSUME NEW a \in Node
             PROVE  TableStep(a) /\ OwnStep(a)
  BY DEF ViewStep
<1>3. view[a] \in Table /\ view[a][a].gen \in Nat
  BY DEF TypeOK, Table, Entry
<1>4. a # n => view'[a] = view[a]
  BY DEF Restart, TypeOK
<1> QED
  BY <1>1, <1>2, <1>3, <1>4, AheadReflexive DEF TableStep, OwnStep

LEMMA NextViewStep == TypeInv /\ OwnInv /\ [Next]_vars => ViewStep /\ OwnInv'
<1> SUFFICES ASSUME TypeInv, OwnInv, [Next]_vars
             PROVE  ViewStep /\ OwnInv'
  OBVIOUS
<1>0. clock \in Nat
  BY DEF TypeOK
<1>1. ASSUME Next PROVE ViewStep
  <2>1. ASSUME NEW n \in Node, NEW m \in Node,
               DialEnds(n, m) \/ Drop(n, m) \/ GossipTo(n, m)
        PROVE  ViewStep
    <3>1. view' = view /\ clock' = clock
      BY <2>1 DEF DialEnds, Drop, GossipTo, tables
    <3> QED
      BY <1>0, <3>1, SameViewStep
  <2>2. ASSUME NEW n \in Node, NEW m \in Node,
               \/ Connect(n, m) \/ HandleAnnounce(n, m)
               \/ \E r \in {"in", "out", "raw"} : NoticeClose(n, m, r)
        PROVE  ViewStep
    BY <2>2, ConnectViewStep, HandleAnnounceViewStep, NoticeCloseViewStep
  <2>3. ASSUME NEW n \in Node, Leave(n)
        PROVE  ViewStep
    <3>1. view' = view /\ clock' = clock + 1
      BY <2>3 DEF Leave, tables
    <3> QED
      BY <1>0, <3>1, SameViewStep
  <2>4. ASSUME NEW n \in Node, Restart(n)
        PROVE  ViewStep
    BY <2>4, RestartViewStep
  <2>6. ASSUME NEW n \in Node, NEW m \in Node,
               \/ Connect(n, m) \/ DialEnds(n, m) \/ HandleAnnounce(n, m)
               \/ Drop(n, m) \/ GossipTo(n, m)
               \/ \E r \in {"in", "out", "raw"} : NoticeClose(n, m, r)
        PROVE  ViewStep
    BY <2>1, <2>2, <2>6
  <2>7. ASSUME NEW n \in Node, Leave(n) \/ Restart(n)
        PROVE  ViewStep
    BY <2>3, <2>4, <2>7
  <2>5. ASSUME NEW n \in Node, NEW msg \in net,
               HandleDigest(n, msg) \/ HandleResponse(n, msg) \/ HandleLeaving(n, msg)
        PROVE  ViewStep
    BY <2>5, MessageViewStep
  <2> QED
    BY <1>1, <2>5, <2>6, <2>7 DEF Next
<1>2. ASSUME UNCHANGED vars PROVE ViewStep
  <2>1. view' = view /\ clock' = clock
    BY <1>2 DEF vars, tables
  <2> QED
    BY <1>0, <2>1, SameViewStep
<1>3. ViewStep
  BY <1>1, <1>2
<1>4. ASSUME NEW a \in Node
      PROVE  1 <= view'[a][a].gen /\ view'[a][a].gen <= clock'
  <2>1. TypeInv'
    BY NextTypeInv
  <2>2. view[a][a].gen \in Nat /\ view'[a][a].gen \in Nat
    BY <2>1 DEF TypeOK, Table, Entry
  <2> QED
    BY <1>3, <2>2 DEF ViewStep, OwnStep
<1> QED
  BY <1>3, <1>4

-----------------------------------------------------------------------------
(* Alive entries belong to their owner.                                    *)

\* The generation of every node, as it has it.
OwnGen == [a \in Node |-> view[a][a].gen]

\* No Alive entry of the table is ahead of the node it is about.
OwnedBy(t, own) == \A a \in Node : t[a].state = Alive => t[a].gen <= own[a]

OwnedViews == \A n \in Node : OwnedBy(view[n], OwnGen)

OwnedMessages ==
  \A msg \in net :
    /\ msg.type \in {"digest", "response"} => OwnedBy(msg.digest, OwnGen)
    /\ msg.type = "response" => OwnedBy(msg.full, OwnGen)

Gens == [Node -> Nat \ {0}]

LEMMA OwnedLater ==
  ASSUME NEW t \in Table, NEW own \in Gens, NEW later \in Gens,
         \A a \in Node : own[a] <= later[a], OwnedBy(t, own)
  PROVE  OwnedBy(t, later)
  BY DEF OwnedBy, Gens, Table, Entry

\* AddNode inserts at generation 1, which everybody has had.
LEMMA AddNodeOwned ==
  ASSUME NEW t \in Table, NEW own \in Gens, NEW a \in Node, OwnedBy(t, own)
  PROVE  OwnedBy(AddNode(t, a), own)
  BY DEF AddNode, OwnedBy, Gens, Table, Entry

LEMMA RemoveNodeOwned ==
  ASSUME NEW t \in Table, NEW own \in Gens, NEW a \in Node, OwnedBy(t, own)
  PROVE  OwnedBy(RemoveNode(t, a), own)
  BY DEF RemoveNode, OwnedBy, Gens, Table, Entry

LEMMA ForceDeadOwned ==
  ASSUME NEW t \in Table, NEW own \in Gens, NEW a \in Node, NEW now \in Nat, OwnedBy(t, own)
  PROVE  OwnedBy(ForceLocalState(t, a, Dead, now), own)
  BY DEF ForceLocalState, OwnedBy, Gens, Table, Entry

\* Merge takes an entry of a higher state, which is not Alive.
LEMMA MergeOwned ==
  ASSUME NEW t \in Table, NEW d \in Table, NEW own \in Gens, OwnedBy(t, own)
  PROVE  OwnedBy(Merge(t, d), own)
  BY DEF Merge, OwnedBy, Gens, Table, Entry

LEMMA UpdateAllOwned ==
  ASSUME NEW t \in Table, NEW d \in Table, NEW own \in Gens, NEW S,
         OwnedBy(t, own), OwnedBy(d, own)
  PROVE  OwnedBy(UpdateAll(t, S, d), own)
  BY DEF UpdateAll, Newer, OwnedBy, Gens, Table, Entry

LEMMA RestrictOwned ==
  ASSUME NEW t \in Table, NEW own \in Gens, NEW S, OwnedBy(t, own)
  PROVE  OwnedBy(RestrictTo(t, S), own)
  BY DEF RestrictTo, OwnedBy, Gens, Table, Entry

LEMMA NewTableOwned ==
  ASSUME NEW n \in Node, NEW now \in Nat, NEW own \in Gens, now <= own[n]
  PROVE  OwnedBy(NewTable(n, now), own)
  BY DEF NewTable, NoEntries, OwnedBy, Gens

LEMMA OwnGenType == TypeInv /\ OwnInv => OwnGen \in Gens
  BY DEF OwnGen, Gens, TypeOK, Table, Entry

\* A node that bumps its own entry is its owner.
LEMMA BumpOwned ==
  ASSUME NEW t \in Table, NEW self \in Node, NEW now \in Nat, NEW own \in Gens,
         OwnedBy(t, own), BumpSelf(t, self, now)[self].gen <= own[self]
  PROVE  OwnedBy(BumpSelf(t, self, now), own)
  BY BumpAdvances DEF OwnedBy, BumpSelf, Gens, Table, Entry

Owned == OwnedViews /\ OwnedMessages

\* What is owned now is owned after any step: own generations never go back.
LEMMA CarriedOver ==
  ASSUME TypeInv, OwnInv, Owned, [Next]_vars
  PROVE  /\ TypeInv' /\ OwnGen' \in Gens
         /\ \A n \in Node : view[n] \in Table /\ OwnedBy(view[n], OwnGen')
         /\ \A msg \in net :
              /\ msg.type = "digest" => msg.digest \in Table /\ OwnedBy(msg.digest, OwnGen')
              /\ msg.type = "response" => /\ msg.digest \in Table /\ OwnedBy(msg.digest, OwnGen')
                                          /\ msg.full \in Table /\ OwnedBy(msg.full, OwnGen')
<1>1. TypeInv' /\ OwnInv' /\ ViewStep
  BY NextTypeInv, NextViewStep
<1>2. OwnGen \in Gens /\ OwnGen' \in Gens
  <2>1. OwnGen \in Gens
    BY OwnGenType
  <2>2. OwnGen' \in Gens
    BY <1>1 DEF OwnGen, Gens, TypeOK, Table, Entry
  <2> QED
    BY <2>1, <2>2
<1>3. \A a \in Node : OwnGen[a] <= OwnGen'[a]
  BY <1>1 DEF OwnGen, ViewStep, OwnStep
<1>4. ASSUME NEW t \in Table, OwnedBy(t, OwnGen)
      PROVE  OwnedBy(t, OwnGen')
  BY <1>2, <1>3, <1>4, OwnedLater
<1>5. \A n \in Node : view[n] \in Table /\ OwnedBy(view[n], OwnGen')
  BY <1>4 DEF Owned, OwnedViews, TypeOK
<1>6. ASSUME NEW msg \in net
      PROVE  /\ msg.type = "digest" => msg.digest \in Table /\ OwnedBy(msg.digest, OwnGen')
             /\ msg.type = "response" => /\ msg.digest \in Table /\ OwnedBy(msg.digest, OwnGen')
                                         /\ msg.full \in Table /\ OwnedBy(msg.full, OwnGen')
  BY <1>4, MessageType DEF Owned, OwnedMessages
<1> QED
  BY <1>1, <1>2, <1>5, <1>6

\* A step that changes the table of one node and sends nothing.
LEMMA OwnedOneTable ==
  ASSUME TypeInv, OwnInv, Owned, [Next]_vars, NEW n \in Node, NEW t,
         view' = view \/ (view' = [view EXCEPT ![n] = t] /\ OwnedBy(t, OwnGen')),
         net' \subseteq net
  PROVE  Owned'
<1>1. \A m \in Node : view'[m] = view[m] \/ OwnedBy(view'[m], OwnGen')
  BY DEF TypeOK
<1>2. OwnedViews'
  BY <1>1, CarriedOver DEF OwnedViews
<1>3. OwnedMessages'
  BY CarriedOver DEF OwnedMessages
<1> QED
  BY <1>2, <1>3 DEF Owned

LEMMA ConnectOwned ==
  ASSUME TypeInv, OwnInv, Owned, [Next]_vars, NEW d \in Node, NEW a \in Node, Connect(d, a)
  PROVE  Owned'
<1> DEFINE t0 == AddNode(view[d], a)
           td == BumpSelf(t0, d, clock + 1)
           ta == BumpSelf(view[a], a, clock + 2)
<1>1. /\ view[d] \in Table /\ view[a] \in Table /\ OwnGen' \in Gens
      /\ OwnedBy(view[d], OwnGen') /\ OwnedBy(view[a], OwnGen')
  BY CarriedOver
<1>2. t0 \in Table /\ OwnedBy(t0, OwnGen')
  BY <1>1, AddNodeOwned, AddNodeAdvances
<1>3. view' = [view EXCEPT ![d] = td, ![a] = ta] /\ d # a /\ net' = net
  BY DEF Connect, TypeOK
<1>4. clock + 1 \in Nat /\ clock + 2 \in Nat
  BY DEF TypeOK
<1> HIDE DEF t0
<1>5. view'[d] = td /\ view'[a] = ta
  BY <1>3 DEF TypeOK
<1>6. td[d].gen = OwnGen'[d] /\ ta[a].gen = OwnGen'[a]
  BY <1>5 DEF OwnGen
<1>7. OwnedBy(td, OwnGen') /\ OwnedBy(ta, OwnGen')
  <2>1. OwnGen'[d] \in Nat /\ OwnGen'[a] \in Nat
    BY <1>1 DEF Gens
  <2>2. td[d].gen <= OwnGen'[d] /\ ta[a].gen <= OwnGen'[a]
    BY <1>6, <2>1
  <2> QED
    BY <1>1, <1>2, <1>4, <2>2, BumpOwned
<1> HIDE DEF td, ta
<1>8. OwnedViews'
  <2>1. \A m \in Node : m # d /\ m # a => view'[m] = view[m]
    BY <1>3 DEF TypeOK
  <2> QED
    BY <1>5, <1>7, <2>1, CarriedOver DEF OwnedViews
<1>9. OwnedMessages'
  BY <1>3, CarriedOver DEF OwnedMessages
<1> QED
  BY <1>8, <1>9 DEF Owned

LEMMA NoticeCloseOwned ==
  ASSUME TypeInv, OwnInv, Owned, [Next]_vars, NEW n \in Node, NEW m \in Node,
         NEW r \in {"in", "out", "raw"}, NoticeClose(n, m, r)
  PROVE  Owned'
<1>1. view[n] \in Table /\ OwnGen' \in Gens /\ OwnedBy(view[n], OwnGen')
  BY CarriedOver
<1>2. clock + 1 \in Nat
  BY DEF TypeOK
<1>3. OwnedBy(ForceLocalState(view[n], m, Dead, clock + 1), OwnGen')
  BY <1>1, <1>2, ForceDeadOwned
<1>4. OwnedBy(RemoveNode(view[n], m), OwnGen')
  BY <1>1, RemoveNodeOwned
<1> DEFINE gone == \/ r = "out" /\ peers[n][m] = "out"
                   \/ r = "in" /\ ~sharedPort /\ peers[n][m] = "in"
<1>5. net' \subseteq net
  BY DEF NoticeClose
<1>6. CASE gone
  <2>1. view' = [view EXCEPT ![n] = ForceLocalState(view[n], m, Dead, clock + 1)]
    BY <1>6 DEF NoticeClose
  <2> QED
    BY <1>3, <1>5, <2>1, OwnedOneTable
<1>7. CASE ~gone /\ r # "out" /\ sharedPort
  <2>1. view' = [view EXCEPT ![n] = RemoveNode(view[n], m)]
    BY <1>7 DEF NoticeClose
  <2> QED
    BY <1>4, <1>5, <2>1, OwnedOneTable
<1>8. CASE ~gone /\ ~(r # "out" /\ sharedPort)
  <2>1. view' = view
    BY <1>8 DEF NoticeClose
  <2> QED
    BY <1>5, <2>1, OwnedOneTable
<1> QED
  BY <1>6, <1>7, <1>8

LEMMA HandleDigestOwned ==
  ASSUME TypeInv, OwnInv, Owned, [Next]_vars, NEW n \in Node, NEW msg \in net,
         HandleDigest(n, msg)
  PROVE  Owned'
<1> DEFINE t == Digested(n, msg.digest)
<1>1. /\ view[n] \in Table /\ OwnGen' \in Gens /\ OwnedBy(view[n], OwnGen')
      /\ msg.digest \in Table /\ OwnedBy(msg.digest, OwnGen')
  BY CarriedOver DEF HandleDigest
<1>2. Merge(view[n], msg.digest) \in Table /\ OwnedBy(Merge(view[n], msg.digest), OwnGen')
  BY <1>1, MergeOwned, MergeAdvances
<1>3. t \in Table /\ OwnedBy(t, OwnGen')
  BY <1>1, <1>2, UpdateAllOwned, UpdateAllAdvances DEF Digested
<1>4. OwnedBy(RestrictTo(t, NeedFull(view[n], msg.digest)), OwnGen')
  BY <1>1, <1>3, RestrictOwned
<1>5. view' = [view EXCEPT ![n] = t] /\ net' = (net \ {msg}) \cup Reply(n, msg)
  BY HandleDigestType
<1>6. \A x \in Reply(n, msg) :
        x.type = "response" /\ OwnedBy(x.digest, OwnGen') /\ OwnedBy(x.full, OwnGen')
  BY <1>3, <1>4 DEF Reply
<1>7. OwnedViews'
  <2>1. view'[n] = t /\ \A m \in Node : m # n => view'[m] = view[m]
    BY <1>5 DEF TypeOK
  <2> QED
    BY <1>3, <2>1, CarriedOver DEF OwnedViews
<1>8. OwnedMessages'
  BY <1>5, <1>6, CarriedOver DEF OwnedMessages
<1> QED
  BY <1>7, <1>8 DEF Owned

LEMMA HandleResponseOwned ==
  ASSUME TypeInv, OwnInv, Owned, [Next]_vars, NEW n \in Node, NEW msg \in net,
         HandleResponse(n, msg)
  PROVE  Owned'
<1> DEFINE t == UpdateAll(view[n], Others(n), msg.full)
<1>1. /\ view[n] \in Table /\ OwnGen' \in Gens /\ OwnedBy(view[n], OwnGen')
      /\ msg.digest \in Table /\ OwnedBy(msg.digest, OwnGen')
      /\ msg.full \in Table /\ OwnedBy(msg.full, OwnGen')
  BY CarriedOver DEF HandleResponse
<1>2. t \in Table /\ OwnedBy(t, OwnGen')
  BY <1>1, UpdateAllOwned, UpdateAllAdvances
<1>3. Merge(t, msg.digest) \in Table /\ OwnedBy(Merge(t, msg.digest), OwnGen')
  BY <1>1, <1>2, MergeOwned, MergeAdvances
<1>4. OwnedBy(Answered(n, msg.full, msg.digest), OwnGen')
  BY <1>1, <1>3, UpdateAllOwned DEF Answered, ApplyDigest
<1>5. view' = [view EXCEPT ![n] = Answered(n, msg.full, msg.digest)] /\ net' \subseteq net
  BY HandleResponseType DEF HandleResponse
<1> QED
  BY <1>4, <1>5, OwnedOneTable

LEMMA NextOwned == TypeInv /\ OwnInv /\ Owned /\ [Next]_vars => Owned'
<1> SUFFICES ASSUME TypeInv, OwnInv, Owned, [Next]_vars
             PROVE  Owned'
  OBVIOUS
<1>1. ASSUME NEW n \in Node, UNCHANGED view, net' \subseteq net
      PROVE  Owned'
  BY <1>1, OwnedOneTable
<1>2. ASSUME NEW n \in Node, NEW m \in Node, DialEnds(n, m) \/ Drop(n, m)
      PROVE  Owned'
  BY <1>1, <1>2 DEF DialEnds, Drop, tables
<1>3. ASSUME NEW d \in Node, NEW a \in Node, HandleAnnounce(d, a)
      PROVE  Owned'
  <2>1. view[a] \in Table /\ OwnGen' \in Gens /\ OwnedBy(view[a], OwnGen')
    BY CarriedOver
  <2>2. OwnedBy(AddNode(view[a], d), OwnGen')
    BY <2>1, AddNodeOwned
  <2>3. /\ net' \subseteq net
        /\ view' = view \/ view' = [view EXCEPT ![a] = AddNode(view[a], d)]
    BY <1>3 DEF HandleAnnounce
  <2> QED
    BY <2>2, <2>3, OwnedOneTable
<1>4. ASSUME NEW n \in Node, NEW m \in Node, GossipTo(n, m)
      PROVE  Owned'
  <2> DEFINE d == RestrictTo(view[n], ring[n] \cup {n})
             x == [type |-> "digest", from |-> n, to |-> m, digest |-> d]
  <2>1. OwnedBy(d, OwnGen')
    BY CarriedOver, RestrictOwned
  <2>2. net' = net \cup {x} /\ view' = view
    BY <1>4 DEF GossipTo, Tell, tables
  <2>3. x.type = "digest" /\ x.digest = d
    OBVIOUS
  <2> HIDE DEF d, x
  <2>4. OwnedMessages'
    BY <2>1, <2>2, <2>3, CarriedOver DEF OwnedMessages
  <2>5. OwnedViews'
    BY <2>2, CarriedOver DEF OwnedViews
  <2> QED
    BY <2>4, <2>5 DEF Owned
<1>5. ASSUME NEW n \in Node, Leave(n)
      PROVE  Owned'
  <2>1. net' = {msg \in net : msg.to # n} \cup Farewell(n) /\ view' = view
    BY <1>5, LeaveType DEF Leave, tables
  <2>2. \A x \in Farewell(n) : x.type = "leaving"
    BY DEF Farewell
  <2>3. OwnedMessages'
    BY <2>1, <2>2, CarriedOver DEF OwnedMessages
  <2>4. OwnedViews'
    BY <2>1, CarriedOver DEF OwnedViews
  <2> QED
    BY <2>3, <2>4 DEF Owned
<1>6. ASSUME NEW n \in Node, Restart(n)
      PROVE  Owned'
  <2>1. OwnGen' \in Gens /\ clock + 1 \in Nat
    BY CarriedOver DEF TypeOK
  <2>2. view' = [view EXCEPT ![n] = NewTable(n, clock + 1)] /\ net' \subseteq net
    BY <1>6 DEF Restart
  <2>3. clock + 1 <= OwnGen'[n]
    <3>1. view'[n][n].gen = clock + 1
      BY <2>1, <2>2 DEF TypeOK, NewTable, NoEntries
    <3> QED
      BY <2>1, <3>1 DEF OwnGen
  <2>4. OwnedBy(NewTable(n, clock + 1), OwnGen')
    BY <2>1, <2>3, NewTableOwned
  <2> QED
    BY <2>2, <2>4, OwnedOneTable
<1>7. ASSUME NEW n \in Node, NEW msg \in net, HandleLeaving(n, msg)
      PROVE  Owned'
  <2>1. view[n] \in Table /\ OwnGen' \in Gens /\ OwnedBy(view[n], OwnGen')
    BY CarriedOver
  <2>2. OwnedBy(view'[n], OwnGen')
    BY <1>7, <2>1, HandleLeavingType DEF OwnedBy
  <2>3. net' \subseteq net /\ view' = [view EXCEPT ![n] = view'[n]]
    BY <1>7 DEF HandleLeaving, TypeOK
  <2> QED
    BY <2>2, <2>3, OwnedOneTable
<1>8. ASSUME UNCHANGED vars
      PROVE  Owned'
  <2>1. view' = view /\ net' = net
    BY <1>8 DEF vars, tables
  <2> QED
    BY <2>1, CarriedOver DEF Owned, OwnedViews, OwnedMessages
<1>9. ASSUME NEW n \in Node, NEW m \in Node,
             \/ Connect(n, m) \/ DialEnds(n, m) \/ HandleAnnounce(n, m)
             \/ Drop(n, m) \/ GossipTo(n, m)
             \/ \E r \in {"in", "out", "raw"} : NoticeClose(n, m, r)
      PROVE  Owned'
  BY <1>2, <1>3, <1>4, <1>9, ConnectOwned, NoticeCloseOwned
<1>10. ASSUME NEW n \in Node, NEW msg \in net,
              HandleDigest(n, msg) \/ HandleResponse(n, msg) \/ HandleLeaving(n, msg)
       PROVE  Owned'
  BY <1>7, <1>10, HandleDigestOwned, HandleResponseOwned
<1> QED
  BY <1>5, <1>6, <1>8, <1>9, <1>10 DEF Next

-----------------------------------------------------------------------------
(* Who has left stays away.                                                *)

\* A leaving message carries the generation its sender, still down, has.
LeavingInv ==
  \A msg \in net : msg.type = "leaving" => msg.from \notin up /\ msg.gen = view[msg.from][msg.from].gen

\* Who has handled it is ahead of the sender.
HeardInv ==
  ~sharedPort => \A n, a \in Node :
    <<n, a>> \in heard => a \notin up /\ view[n][a].gen > view[a][a].gen

LEMMA NextLeaving == TypeInv /\ OwnInv /\ LeavingInv /\ [Next]_vars => LeavingInv'
<1> SUFFICES ASSUME TypeInv, OwnInv, LeavingInv, [Next]_vars,
                    NEW msg \in net', msg.type = "leaving"
             PROVE  msg.from \notin up' /\ msg.gen = view'[msg.from][msg.from].gen
  BY DEF LeavingInv
<1>1. ViewStep /\ TypeInv'
  BY NextViewStep, NextTypeInv
<1>2. msg.from \in Node
  BY <1>1, MessageType DEF TypeOK, DigestMsg, ResponseMsg, LeavingMsg
<1>3. msg.from \notin up' => view'[msg.from][msg.from].gen = view[msg.from][msg.from].gen
  BY <1>1, <1>2 DEF ViewStep, OwnStep
<1>4. \/ msg \in net /\ msg.from \notin up'
      \/ msg.from \notin up' /\ msg.gen = view[msg.from][msg.from].gen
  <2>1. ASSUME msg \in net, up' \subseteq up
        PROVE  msg.from \notin up'
    BY <2>1 DEF LeavingInv
  <2>2. ASSUME NEW n \in Node, NEW m \in Node,
               \/ Connect(n, m) \/ DialEnds(n, m) \/ HandleAnnounce(n, m)
               \/ Drop(n, m) \/ \E r \in {"in", "out", "raw"} : NoticeClose(n, m, r)
        PROVE  msg \in net /\ msg.from \notin up'
    BY <2>1, <2>2 DEF Connect, DialEnds, HandleAnnounce, Drop, NoticeClose
  <2>3. ASSUME NEW n \in Node, NEW m \in Node, GossipTo(n, m)
        PROVE  msg \in net /\ msg.from \notin up'
    BY <2>1, <2>3 DEF GossipTo, Tell
  <2>4. ASSUME NEW n \in Node, Leave(n)
        PROVE  \/ msg \in net /\ msg.from \notin up'
               \/ msg.from \notin up' /\ msg.gen = view[msg.from][msg.from].gen
    <3>1. \A x \in Farewell(n) : x.from = n /\ x.gen = view[n][n].gen
      BY DEF Farewell
    <3>2. msg \in net \/ msg \in Farewell(n)
      BY <2>4, LeaveType
    <3> QED
      BY <2>1, <2>4, <3>1, <3>2 DEF Leave
  <2>5. ASSUME NEW n \in Node, Restart(n)
        PROVE  msg \in net /\ msg.from \notin up'
    BY <2>5 DEF Restart, LeavingInv
  <2>6. ASSUME NEW n \in Node, NEW x \in net, HandleResponse(n, x) \/ HandleLeaving(n, x)
        PROVE  msg \in net /\ msg.from \notin up'
    BY <2>1, <2>6 DEF HandleResponse, HandleLeaving
  <2>7. ASSUME NEW n \in Node, NEW x \in net, HandleDigest(n, x)
        PROVE  msg \in net /\ msg.from \notin up'
    <3>1. net' = (net \ {x}) \cup Reply(n, x) /\ \A y \in Reply(n, x) : y.type = "response"
      BY <2>7, HandleDigestType DEF Reply
    <3> QED
      BY <2>1, <2>7, <3>1 DEF HandleDigest
  <2>8. ASSUME UNCHANGED vars
        PROVE  msg \in net /\ msg.from \notin up'
    BY <2>1, <2>8 DEF vars
  <2> QED
    BY <2>2, <2>3, <2>4, <2>5, <2>6, <2>7, <2>8 DEF Next
<1>5. msg \in net => msg.gen = view[msg.from][msg.from].gen
  BY DEF LeavingInv
<1> QED
  BY <1>3, <1>4, <1>5

\* heard grows in HandleLeaving alone, and loses the pairs of a node that
\* starts again.
LEMMA HeardStep ==
  ASSUME TypeInv, LeavingInv, [Next]_vars, NEW n \in Node, NEW a \in Node, <<n, a>> \in heard'
  PROVE  \/ <<n, a>> \in heard /\ (n \in up \/ n \notin up') /\ (a \in up' => a \in up)
         \/ /\ a \notin up' /\ n \in up
            /\ view'[a] = view[a] /\ view'[n][a].gen > view[a][a].gen
<1> DEFINE Goal1 == <<n, a>> \in heard /\ (n \in up \/ n \notin up') /\ (a \in up' => a \in up)
<1>1. ASSUME heard' = heard, up' \subseteq up
      PROVE  Goal1
  BY <1>1
<1>2. ASSUME NEW k \in Node, NEW m \in Node,
             \/ Connect(k, m) \/ DialEnds(k, m) \/ HandleAnnounce(k, m)
             \/ Drop(k, m) \/ GossipTo(k, m)
             \/ \E r \in {"in", "out", "raw"} : NoticeClose(k, m, r)
      PROVE  Goal1
  <2>1. heard' = heard /\ up' = up
    BY <1>2 DEF Connect, DialEnds, HandleAnnounce, Drop, GossipTo, NoticeClose
  <2> QED
    BY <1>1, <2>1
<1>3. ASSUME NEW k \in Node, Leave(k)
      PROVE  Goal1
  BY <1>1, <1>3 DEF Leave
<1>4. ASSUME NEW k \in Node, Restart(k)
      PROVE  Goal1
  <2>1. <<n, a>> \in heard /\ k # n /\ k # a
    BY <1>4 DEF Restart
  <2> QED
    BY <1>4, <2>1 DEF Restart
<1>5. ASSUME NEW k \in Node, NEW msg \in net, HandleDigest(k, msg) \/ HandleResponse(k, msg)
      PROVE  Goal1
  BY <1>1, <1>5 DEF HandleDigest, HandleResponse
<1>6. ASSUME NEW k \in Node, NEW msg \in net, HandleLeaving(k, msg)
      PROVE  \/ Goal1
             \/ /\ a \notin up' /\ n \in up
                /\ view'[a] = view[a] /\ view'[n][a].gen > view[a][a].gen
  <2>1. heard' = heard \cup {<<k, msg.from>>} /\ up' = up /\ k \in up /\ msg.type = "leaving"
    BY <1>6 DEF HandleLeaving
  <2>2. CASE <<n, a>> \in heard
    BY <2>1, <2>2
  <2>3. CASE <<n, a>> \notin heard
    <3>1. n = k /\ a = msg.from
      BY <2>1, <2>3
    <3>2. a # n /\ view'[n][a].gen > msg.gen
      BY <1>6, <3>1, HandleLeavingType
    <3>3. a \notin up /\ msg.gen = view[a][a].gen
      BY <2>1, <3>1 DEF LeavingInv
    <3>4. view'[a] = view[a]
      BY <1>6, <3>1, <3>2 DEF HandleLeaving, TypeOK
    <3> QED
      BY <2>1, <3>1, <3>2, <3>3, <3>4
  <2> QED
    BY <2>2, <2>3
<1>7. ASSUME UNCHANGED vars
      PROVE  Goal1
  BY <1>1, <1>7 DEF vars
<1> HIDE DEF Goal1
<1>8. \/ Goal1
      \/ /\ a \notin up' /\ n \in up
         /\ view'[a] = view[a] /\ view'[n][a].gen > view[a][a].gen
  BY <1>2, <1>3, <1>4, <1>5, <1>6, <1>7 DEF Next
<1> QED
  BY <1>8 DEF Goal1

LEMMA NextHeard == TypeInv /\ OwnInv /\ LeavingInv /\ HeardInv /\ [Next]_vars => HeardInv'
<1> SUFFICES ASSUME TypeInv, OwnInv, LeavingInv, HeardInv, [Next]_vars, ~sharedPort',
                    NEW n \in Node, NEW a \in Node, <<n, a>> \in heard'
             PROVE  a \notin up' /\ view'[n][a].gen > view'[a][a].gen
  BY DEF HeardInv
<1>1. ViewStep /\ TypeInv'
  BY NextViewStep, NextTypeInv
<1>2. ~sharedPort
  <2>1. ASSUME NEW k \in Node, NEW m \in Node,
               \/ Connect(k, m) \/ DialEnds(k, m) \/ HandleAnnounce(k, m)
               \/ Drop(k, m) \/ GossipTo(k, m)
               \/ \E r \in {"in", "out", "raw"} : NoticeClose(k, m, r)
        PROVE  sharedPort' = sharedPort
    BY <2>1 DEF Connect, DialEnds, HandleAnnounce, Drop, GossipTo, NoticeClose
  <2>2. ASSUME NEW k \in Node, Leave(k) \/ Restart(k)
        PROVE  sharedPort' = sharedPort
    BY <2>2 DEF Leave, Restart
  <2>3. ASSUME NEW k \in Node, NEW msg \in net,
               HandleDigest(k, msg) \/ HandleResponse(k, msg) \/ HandleLeaving(k, msg)
        PROVE  sharedPort' = sharedPort
    BY <2>3 DEF HandleDigest, HandleResponse, HandleLeaving
  <2>4. sharedPort' = sharedPort
    BY <2>1, <2>2, <2>3 DEF Next, vars
  <2> QED
    BY <2>4
<1>3. /\ view[n][a].gen \in Nat /\ view'[n][a].gen \in Nat
      /\ view[a][a].gen \in Nat /\ view'[a][a].gen \in Nat
  BY <1>1 DEF TypeOK, Table, Entry
<1>4. CASE <<n, a>> \in heard /\ (n \in up \/ n \notin up') /\ (a \in up' => a \in up)
  <2>1. a \notin up /\ a \notin up' /\ view[n][a].gen > view[a][a].gen
    BY <1>2, <1>4 DEF HeardInv
  <2>2. view'[a][a].gen = view[a][a].gen
    BY <1>1, <2>1 DEF ViewStep, OwnStep
  <2>3. Ahead(view'[n], view[n])
    BY <1>1, <1>2, <1>4 DEF ViewStep, TableStep
  <2>4. view'[n][a].gen >= view[n][a].gen
    BY <1>3, <2>3 DEF Ahead, AtLeast
  <2> QED
    BY <1>3, <2>1, <2>2, <2>4
<1>5. CASE /\ a \notin up' /\ n \in up
           /\ view'[a] = view[a] /\ view'[n][a].gen > view[a][a].gen
  BY <1>5
<1> QED
  BY <1>4, <1>5, HeardStep

-----------------------------------------------------------------------------
(* The theorems.                                                           *)

IInv == TypeInv /\ OwnInv /\ Owned /\ LeavingInv /\ HeardInv

LEMMA InitIInv == Init => IInv
<1> SUFFICES ASSUME Init
             PROVE  IInv
  OBVIOUS
<1>1. TypeInv
  BY InitTypeInv
<1>2. \A n \in Node : /\ view[n][n] = [gen |-> 2, state |-> Alive]
                      /\ \A a \in Node \ {n} : view[n][a] = Unknown
  BY DEF Init, NewTable, NoEntries
<1>3. OwnInv
  BY <1>2 DEF Init
<1>4. Owned
  <2>1. OwnedViews
    BY <1>2 DEF OwnedViews, OwnedBy, OwnGen
  <2> QED
    BY <2>1 DEF Init, Owned, OwnedMessages
<1> QED
  BY <1>1, <1>3, <1>4 DEF Init, IInv, LeavingInv, HeardInv

LEMMA InductiveInvariant == Spec => []IInv
<1>1. IInv /\ [Next]_vars => IInv'
  BY NextTypeInv, NextViewStep, NextOwned, NextLeaving, NextHeard DEF IInv
<1> QED
  BY InitIInv, <1>1, PTL DEF Spec

\* Every value the cluster's state takes is of its type, whatever the number
\* of nodes, connections, failures and messages.
THEOREM TypeCorrect == Spec => []TypeOK
<1>1. IInv => TypeOK
  BY DEF IInv
<1> QED
  BY <1>1, InductiveInvariant, PTL

\* No member table ever shows a node alive at a generation that the node has
\* not had: gossip does not invent life (UpdateState, Merge, AddNode, New).
THEOREM AliveOwned == Spec => []AliveIsOwned
<1>1. IInv => AliveIsOwned
  BY DEF IInv, Owned, OwnedViews, OwnedBy, OwnGen, AliveIsOwned
<1> QED
  BY <1>1, InductiveInvariant, PTL

\* Where a dialler is seen at an ephemeral port, who has handled MessageLeaving
\* does not see the sender alive before it has restarted, whatever digests are
\* still under way (handleLeaving's generation + 1).
THEOREM LeftRemains == Spec => []LeftStaysLeft
<1>1. IInv => LeftStaysLeft
  <2> SUFFICES ASSUME IInv, ~sharedPort, NEW n \in Node, NEW a \in Node, <<n, a>> \in heard
               PROVE  view[n][a].state # Alive
    BY DEF LeftStaysLeft
  <2>1. view[n][a].gen > view[a][a].gen
    BY DEF IInv, HeardInv
  <2>2. view[n][a].state = Alive => view[n][a].gen <= view[a][a].gen
    BY DEF IInv, Owned, OwnedViews, OwnedBy, OwnGen
  <2>3. view[n][a].gen \in Nat /\ view[a][a].gen \in Nat
    BY DEF IInv, TypeOK, Table, Entry
  <2> QED
    BY <2>1, <2>2, <2>3
<1> QED
  BY <1>1, InductiveInvariant, PTL

\* An entry that stays in a running node's table never moves back, whatever
\* the order in which digests, responses, leaving messages and disconnects
\* arrive (the generation guards of membership.go).
THEOREM EntriesOnlyAdvance == Spec => EntriesAdvance
<1>1. IInv /\ [Next]_vars =>
        [\A n, a \in Node :
           n \in up /\ n \in up' /\ view[n][a].gen > 0 /\ view'[n][a].gen > 0
             => AtLeast(view'[n][a], view[n][a])]_vars
  <2> SUFFICES ASSUME IInv, [Next]_vars, NEW n \in Node, NEW a \in Node,
                      n \in up, view'[n][a].gen > 0
               PROVE  AtLeast(view'[n][a], view[n][a])
    OBVIOUS
  <2>1. TableStep(n)
    BY NextViewStep DEF IInv, ViewStep
  <2>2. CASE Ahead(view'[n], view[n])
    BY <2>2 DEF Ahead
  <2>3. ASSUME NEW m \in Node \ {n}, view'[n] = RemoveNode(view[n], m)
        PROVE  AtLeast(view'[n][a], view[n][a])
    <3>1. view[n] \in Table /\ view[n][a].gen \in Nat /\ view[n][a].state \in Alive .. Left
      BY DEF IInv, TypeOK, Table, Entry
    <3>2. a # m
      BY <2>3, <3>1 DEF RemoveNode, Table
    <3>3. view'[n][a] = view[n][a]
      BY <2>3, <3>1, <3>2 DEF RemoveNode, Table
    <3> QED
      BY <3>1, <3>3 DEF AtLeast
  <2> QED
    BY <2>1, <2>2, <2>3 DEF TableStep
<1> QED
  BY <1>1, InductiveInvariant, PTL DEF Spec, EntriesAdvance
=============================================================================
