----------------------------- MODULE Membership -----------------------------
(***************************************************************************)
(* The membership table of one node, ClusterState (Cluster/membership):    *)
(* an entry per address, holding a state and the generation that guards    *)
(* it.  These are its operations, as operators from tables to tables;      *)
(* modules Gossip and PeerTable build state machines from them.            *)
(*                                                                         *)
(* An address that is not in the map has generation 0 (real generations    *)
(* start at 1).  Metadata is left out: no decision about a state or a      *)
(* generation looks at it.                                                 *)
(***************************************************************************)
EXTENDS Naturals

CONSTANT Node

Alive   == 0
Suspect == 1            \* declared by the code, never assigned by it
Dead    == 2
Left    == 3

Entry == [gen : Nat, state : Alive .. Left]

Unknown == [gen |-> 0, state |-> Alive]

Table == [Node -> Entry]

Known(t, a) == t[a].gen > 0

NoEntries == [a \in Node |-> Unknown]

\* New: a fresh table holds the node itself, at the generation of the clock.
NewTable(self, now) == [NoEntries EXCEPT ![self] = [gen |-> now, state |-> Alive]]

\* AddNode that revives an entry it finds.
MutAddNode(t, a) == [t EXCEPT ![a] = [gen |-> @.gen + 1, state |-> Alive]]

\* AddNode: insert as Alive at generation 1, or nothing.
AddNode(t, a) == IF Known(t, a) THEN t ELSE [t EXCEPT ![a] = [gen |-> 1, state |-> Alive]]

RemoveNode(t, a) == [t EXCEPT ![a] = Unknown]

\* A stale entry overwrites the newer one.
MutNewer(old, new) == IF new.gen > 0 THEN new ELSE old

\* What UpdateState leaves in the table: an update counts only when its
\* generation is higher, and an unknown address is inserted.
Newer(old, new) == IF new.gen > old.gen THEN new ELSE old

UpdateState(t, a, e) == [t EXCEPT ![a] = Newer(@, e)]

\* The wall clock, or one more than the entry when the clock is behind it.
Later(now, gen) == IF now <= gen THEN gen + 1 ELSE now

\* ForceLocalState: ground truth, at a generation read from the clock.
ForceLocalState(t, a, s, now) ==
  IF Known(t, a) THEN [t EXCEPT ![a] = [gen |-> Later(now, @.gen), state |-> s]] ELSE t

\* BumpSelfGeneration: only the generation changes.
BumpSelf(t, self, now) == [t EXCEPT ![self].gen = Later(now, @)]

\* Digests whose full entry is wanted.
NeedFull(t, digest) == {a \in Node : digest[a].gen > t[a].gen}

\* Merge: at the same generation the higher state wins.
Merge(t, digest) ==
  [a \in Node |->
     IF digest[a].gen = t[a].gen /\ digest[a].state > t[a].state THEN digest[a] ELSE t[a]]

\* UpdateState for every address of a set, from one message.
UpdateAll(t, addrs, entries) ==
  [a \in Node |-> IF a \in addrs THEN Newer(t[a], entries[a]) ELSE t[a]]

\* The part of a table that concerns the given addresses.
RestrictTo(t, addrs) == [a \in Node |-> IF a \in addrs THEN t[a] ELSE Unknown]

\* The order in which an entry may evolve: generation first, then state.
AtLeast(e, f) == e.gen > f.gen \/ (e.gen = f.gen /\ e.state >= f.state)
=============================================================================
