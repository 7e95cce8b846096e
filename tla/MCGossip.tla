------------------------------ MODULE MCGossip ------------------------------
(* Small instances of Gossip for TLC: a bootstrap node and nodes that dial  *)
(* it; the other constants are in the cfgs.                                 *)
EXTENDS Gossip

CONSTANTS n1, n2, n3

\* n2 and n3 are started with --peers n1.
Star == [n \in Node |-> IF n = n1 THEN {} ELSE {n1}]

\* The state after n2 dialled n1, n3 dialled n1, n2 dialled n3 and the tables
\* converged: three connections, and six readings of the clock.
MeshEntry(n) == [gen |-> CASE n = n1 -> 6 [] n = n2 -> 7 [] n = n3 -> 8, state |-> Alive]
MeshLinks == {<<n2, n1>>, <<n3, n1>>, <<n2, n3>>}

MeshInit ==
  /\ sharedPort \in BOOLEAN
  /\ up = Node
  /\ view = [n \in Node |-> [a \in Node |-> MeshEntry(a)]]
  /\ ring = [n \in Node |-> Node]
  /\ peers = [n \in Node |-> [m \in Node |->
                IF <<n, m>> \in MeshLinks THEN "out"
                ELSE IF <<m, n>> \in MeshLinks THEN "in" ELSE "none"]]
  /\ link = MeshLinks
  /\ announce = {} /\ closing = {} /\ net = {} /\ heard = {}
  /\ dial = [n \in Node |-> {}]
  /\ known = [n \in Node |-> {m \in Node : <<n, m>> \in MeshLinks}]
  /\ clock = 8
  /\ connects = 3 /\ failures = 0

MeshSpec == MeshInit /\ [][Next]_vars /\ Fairness
=============================================================================
