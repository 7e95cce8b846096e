------------------------------ MODULE MCHandoff ------------------------------
(* Small instances of Handoff for TLC; the other constants are in the cfgs. *)
EXTENDS Handoff

\* Chunks are numbered by their size.
SizeIsKey == [k \in Key |-> k]
=============================================================================
