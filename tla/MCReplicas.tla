----------------------------- MODULE MCReplicas -----------------------------
EXTENDS Replicas

CONSTANTS n1, n2, n3, n4

\* Two writes of one node and a read of another.
MCBy == [o \in Op |-> IF o = 3 THEN n2 ELSE n1]
MCKind == [o \in Op |-> IF o = 3 THEN "read" ELSE "write"]

\* The key of file 1 and that of its manifest are met by different nodes.
MCFileOrder == [f \in File |-> IF f = 1 THEN <<n1, n2, n3, n4>> ELSE <<n2, n3, n4, n1>>]
MCManifestOrder == [f \in File |-> IF f = 1 THEN <<n4, n3, n1, n2>> ELSE <<n1, n2, n3, n4>>]

\* The parts share the ring alone, and are taken one or two at a time.
None == [peers |-> {}, calls |-> FALSE, joins |-> 0, leaves |-> 0, beats |-> 0,
         uploads |-> 0, foreign |-> 0, syncs |-> 0]
MCScenario == {
  [None EXCEPT !.peers = {n2, n3, n4}, !.calls = TRUE],
  [None EXCEPT !.peers = {n2}, !.joins = 1, !.leaves = 1, !.beats = 4],
  [None EXCEPT !.peers = {n2}, !.joins = 2, !.uploads = 2],
  [None EXCEPT !.peers = {n2}, !.uploads = 2, !.foreign = 2, !.syncs = 1]}

\* Neither a history that is already stale nor a read that begins before a write has
\* succeeded has anything to show.
Telling ==
  /\ ~stale
  /\ \A o \in Op : Kind[o] = "read" /\ op[o].pc # "idle" => op[o].after # {}
=============================================================================
