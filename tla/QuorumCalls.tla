---------------------------- MODULE QuorumCalls ----------------------------
(***************************************************************************)
(* The quorum coordinator: writes of one key that wait for W acks of its N *)
(* replicas, and reads that wait for R versions.  Acks and responses are   *)
(* matched with the waiting call by the key alone, and a replica takes     *)
(* every version that it is sent.                                          *)
(*                                                                         *)
(* Messages are delivered in any order.  One that is lost, a send that     *)
(* fails and a negative ack count for nothing: they are messages that stay *)
(* on the wire.  Each call is made once, by the node By[o]; its caller     *)
(* increments the clock that the node has.  The replicas are the nodes     *)
(* that the ring names: see Replicas.                                      *)
(***************************************************************************)
EXTENDS VClock

CONSTANTS
  Node,
  Op, By, Kind,   \* calls, the node that makes each, and what it is
  NoCall,
  W, R,
  Stamps          \* what the replicas' wall clocks may say

ASSUME QuorumAssumption ==
  /\ IsFiniteSet(Node)
  /\ By \in [Op -> Node] /\ Kind \in [Op -> {"write", "read"}]
  /\ NoCall \notin Op
  /\ {W, R} \cup Stamps \subseteq Nat \ {0}

VARIABLES
  meta,    \* clock and timestamp that each replica has for the key
  op,      \* the calls
  table,   \* writeAcks and readResps of each node: the call whose channel is there
  wire,    \* messages, and goroutines that are to write or read locally
  stale    \* history: something sent for one call was counted for another, or a
           \* replica went back to a version older than one that it had

qvars == <<meta, op, table, wire, stale>>

Zero == [n \in Node |-> 0]
NoOp == [pc |-> "idle", clock |-> Zero, acks |-> 0, versions |-> << >>, after |-> {}, full |-> FALSE]

Request(o, targets) == {[type |-> Kind[o], op |-> o, to |-> n] : n \in targets}
Message ==
  [type : {"write", "read"}, op : Op, to : Node] \cup [type : {"ack"}, op : Op, from : Node]
  \cup [type : {"version"}, op : Op, from : Node, clock : [Node -> Nat], ts : Nat]

Version == [clock : [Node -> Nat], ts : Nat, from : Node]
Call == [pc : {"idle", "wait", "ok", "failed"}, clock : [Node -> Nat], acks : Nat,
         versions : Seq(Version), after : SUBSET Op, full : BOOLEAN]

QTypeOK ==
  /\ meta \in [Node -> [found : BOOLEAN, clock : [Node -> Nat], ts : Nat, held : SUBSET Op]]
  /\ op \in [Op -> Call]
  /\ table \in [Node -> [{"write", "read"} -> Op \cup {NoCall}]]
  /\ wire \subseteq Message /\ stale \in BOOLEAN

QInit ==
  /\ meta = [n \in Node |-> [found |-> FALSE, clock |-> Zero, ts |-> 0, held |-> {}]]
  /\ op = [o \in Op |-> NoOp]
  /\ table = [n \in Node |-> [k \in {"write", "read"} |-> NoCall]]
  /\ wire = {} /\ stale = FALSE

\* Reads and answers that no call, present or to come, can hear of are forgotten.
Kept(messages) ==
  LET kind(x) == IF x.type \in {"write", "ack"} THEN "write" ELSE "read"
      hears(o, x) == By[o] = By[x.op] /\ Kind[o] = kind(x) /\ op'[o].pc \in {"idle", "wait"}
  IN {x \in messages : x.type = "write" \/ \E o \in Op : hears(o, x)}

\* Write and Read: the channel takes the place of that of an earlier call for the key,
\* which then hears only of itself.
Begin(o, targets) ==
  LET n == By[o] IN
  /\ op[o].pc = "idle"
  /\ op' = [op EXCEPT ![o] = [@ EXCEPT !.pc = "wait", !.clock = Increment(meta[n].clock, n),
                                       !.after = {q \in Op : Kind[q] = "write" /\ op[q].pc = "ok"}]]
  /\ table' = [table EXCEPT ![n][Kind[o]] = o]
  /\ wire' = wire \cup Request(o, targets)
  /\ UNCHANGED <<meta, stale>>

\* handleQuorumWrite, and localWrite of the coordinator.
StoreVersion(x, now) ==
  LET c == op[x.op].clock IN
  /\ x.type = "write"
  /\ meta' = [meta EXCEPT ![x.to] = [found |-> TRUE, clock |-> c, ts |-> now, held |-> @.held \cup {x.op}]]
  /\ stale' = (stale \/ \E o \in meta[x.to].held : Compare(c, op[o].clock) = "Before")
  /\ UNCHANGED <<op, table>>
  /\ wire' = Kept((wire \ {x}) \cup {[type |-> "ack", op |-> x.op, from |-> x.to]})

\* handleQuorumRead, and localRead; an answer that nothing was found does not count.
ReadVersion(x) ==
  LET v == meta[x.to] IN
  /\ x.type = "read"
  /\ wire' = (wire \ {x}) \cup
       IF v.found THEN {[type |-> "version", op |-> x.op, from |-> x.to, clock |-> v.clock, ts |-> v.ts]}
                  ELSE {}
  /\ UNCHANGED <<meta, op, table, stale>>

\* The call that an answer reaches: a local one its own, one of a peer the one in the table.
Heard(x, kind) == IF x.from = By[x.op] THEN x.op ELSE table[By[x.op]][kind]

\* The deferred Delete takes away whatever channel is in the table.
Ends(o) == table' = [table EXCEPT ![By[o]][Kind[o]] = NoCall]

\* One ack less is enough.
MutQuorumMet(acks) == acks + 1 >= W

QuorumMet(acks) == acks >= W

\* HandleWriteAck and the loop of Write that takes the ack.
HandleWriteAck(x) ==
  LET o == Heard(x, "write") IN
  /\ x.type = "ack"
  /\ IF o # NoCall /\ op[o].pc = "wait"
       THEN LET acks == op[o].acks + 1 IN
            /\ op' = [op EXCEPT ![o] = [@ EXCEPT !.acks = acks, !.pc = IF QuorumMet(acks) THEN "ok" ELSE "wait"]]
            /\ IF QuorumMet(acks) THEN Ends(o) ELSE UNCHANGED table
            /\ stale' = (stale \/ o # x.op)
       ELSE UNCHANGED <<op, table, stale>>
  /\ wire' = Kept(wire \ {x})
  /\ UNCHANGED meta

\* resolveRead.
Read(o, versions, full) ==
  op' = [op EXCEPT ![o] = [@ EXCEPT !.versions = versions, !.full = full,
                                    !.pc = "ok", !.clock = Resolve(versions).clock]]

\* HandleReadResponse and the loop of Read.
HandleReadResponse(x) ==
  LET o == Heard(x, "read")
      versions == Append(op[o].versions, [clock |-> x.clock, ts |-> x.ts, from |-> x.from]) IN
  /\ x.type = "version"
  /\ IF o # NoCall /\ op[o].pc = "wait"
       THEN /\ IF Len(versions) >= R
                 THEN Read(o, versions, TRUE) /\ Ends(o)
                 ELSE op' = [op EXCEPT ![o] = [@ EXCEPT !.versions = versions]] /\ UNCHANGED table
            /\ stale' = (stale \/ o # x.op)
       ELSE UNCHANGED <<op, table, stale>>
  /\ wire' = Kept(wire \ {x})
  /\ UNCHANGED meta

\* The timer: a write fails, a read makes do with the versions that it has.
Timeout(o) ==
  /\ op[o].pc = "wait"
  /\ IF op[o].versions # << >> THEN Read(o, op[o].versions, FALSE)
                               ELSE op' = [op EXCEPT ![o] = [@ EXCEPT !.pc = "failed"]]
  /\ Ends(o)
  /\ wire' = Kept(wire)
  /\ UNCHANGED <<meta, stale>>

QNext(targets) ==
  \/ \E o \in Op : Begin(o, targets) \/ Timeout(o)
  \/ \E x \in wire :
       \/ ReadVersion(x) \/ HandleWriteAck(x) \/ HandleReadResponse(x)
       \/ \E now \in Stamps : StoreVersion(x, now)

-----------------------------------------------------------------------------
\* Between concurrent versions the replicas' wall clocks decide.
Comparable(versions) ==
  \A i, j \in DOMAIN versions : Compare(versions[i].clock, versions[j].clock) # "Concurrent"

(* A read that got all the answers it waits for, and that began after a     *)
(* write had succeeded, does not return a version which that write          *)
(* replaces.  This needs W + R > N, a history in which no answer was        *)
(* counted for the wrong call and no replica was put back, and answers of   *)
(* which no two are concurrent: resolveRead would choose by time.           *)
ReadSeesWrite ==
  ~stale => \A r \in Op : Kind[r] = "read" /\ op[r].pc = "ok" /\ op[r].full /\ Comparable(op[r].versions) =>
    \A w \in op[r].after : Compare(op[r].clock, op[w].clock) # "Before"
=============================================================================
