----------------------------- MODULE MerkleTree -----------------------------
(***************************************************************************)
(* The Merkle trees that anti-entropy compares: package merkle.  Keys are  *)
(* numbers, in the order in which the code sorts them; a node's hash is    *)
(* the node itself, because SHA-256 is taken to be injective.  A tree is   *)
(* its root and the set of its nodes, over which the recursive functions   *)
(* of the package are defined.                                             *)
(***************************************************************************)
EXTENDS Naturals, Sequences, FiniteSets, SequencesExt

Leaf(k) == [key |-> k]
IsLeaf(n) == DOMAIN n = {"key"}
NoTree == [root |-> [empty |-> TRUE], nodes |-> {}]

\* One leaf per key, in the order of the keys.
Leaves(keys) ==
  [i \in 1 .. Cardinality(keys) |->
     Leaf(CHOOSE k \in keys : Cardinality({j \in keys : j <= k}) = i)]

\* Pairs of neighbours; the last node is its own partner if their number is odd.
Pairs(layer) ==
  [i \in 1 .. (Len(layer) + 1) \div 2 |->
     [left |-> layer[2 * i - 1],
      right |-> layer[IF 2 * i <= Len(layer) THEN 2 * i ELSE 2 * i - 1]]]

\* The layers from the leaves up; the root alone is the last one.
BuildLevel(keys) ==
  LET layer[d \in 0 .. Cardinality(keys)] ==
        IF d = 0 THEN Leaves(keys)
        ELSE IF Len(layer[d - 1]) = 1 THEN layer[d - 1] ELSE Pairs(layer[d - 1])
  IN layer

Build(keys) ==
  LET layers == BuildLevel(keys) IN
  IF keys = {} THEN NoTree
  ELSE [root |-> layers[Cardinality(keys)][1],
        nodes |-> UNION {Range(layers[d]) : d \in 0 .. Cardinality(keys)}]

\* The keys below each node.
CollectKeys(tree) ==
  LET below[n \in tree.nodes] ==
        IF IsLeaf(n) THEN {n.key} ELSE below[n.left] \cup below[n.right]
  IN below

\* Where one side is a leaf, the keys below the other are forgotten.
MutAgainstLeaf(s, a, t, b) == IF IsLeaf(a) THEN {a.key} ELSE {b.key}

\* One of the nodes a of s and b of t is a leaf, or both are.
AgainstLeaf(s, a, t, b) == CollectKeys(s)[a] \cup CollectKeys(t)[b]

DiffNodes(s, t) ==
  LET diff[p \in s.nodes \X t.nodes] ==
        LET a == p[1]  b == p[2] IN
        IF a = b THEN {}
        ELSE IF IsLeaf(a) \/ IsLeaf(b) THEN AgainstLeaf(s, a, t, b)
        ELSE diff[<<a.left, b.left>>] \cup diff[<<a.right, b.right>>]
  IN diff

RootHash(tree) == tree.root

\* A tree without keys has no root to descend from.
Diff(s, t) ==
  IF RootHash(s) = RootHash(t) THEN {}
  ELSE IF s = NoTree THEN CollectKeys(t)[t.root]
  ELSE IF t = NoTree THEN CollectKeys(s)[s.root]
  ELSE DiffNodes(s, t)[<<s.root, t.root>>]
=============================================================================
