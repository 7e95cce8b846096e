------------------------------- MODULE VClock -------------------------------
(***************************************************************************)
(* Vector clocks and the resolution of conflicts: packages vclock and      *)
(* conflict.  A clock is a function from nodes to numbers; a node that is  *)
(* not in the Go map has 0.                                                *)
(***************************************************************************)
EXTENDS Naturals, Sequences, FiniteSets, SequencesExt

Increment(vc, n) == [vc EXCEPT ![n] = @ + 1]

\* Before, After, Equal or Concurrent.
Compare(vc, other) ==
  LET thisGreater == \E n \in DOMAIN vc : vc[n] > other[n]
      otherGreater == \E n \in DOMAIN vc : other[n] > vc[n]
  IN CASE thisGreater /\ otherGreater -> "Concurrent"
       [] thisGreater /\ ~otherGreater -> "After"
       [] otherGreater /\ ~thisGreater -> "Before"
       [] OTHER -> "Equal"

\* The version, of the best so far and the next candidate, that is kept.
Better(best, candidate) ==
  LET rel == Compare(best.clock, candidate.clock) IN
  IF rel = "Before" \/ (rel = "Concurrent" /\ candidate.ts > best.ts) THEN candidate ELSE best

\* LWWResolver.Resolve.
Resolve(versions) == FoldLeft(Better, Head(versions), Tail(versions))
=============================================================================
