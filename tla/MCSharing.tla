----------------------------- MODULE MCSharing -----------------------------
(* Instances of Sharing for TLC: one node owns all files. *)
EXTENDS Sharing

CONSTANTS a, b, c, enc, pub

MCOwner == [f \in {enc, pub} |-> a]
=============================================================================
