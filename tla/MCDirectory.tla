---------------------------- MODULE MCDirectory ----------------------------
(* Instances of Directory for TLC. *)
EXTENDS Directory

\* A file of two chunks, and an empty one.
MCChunks == <<{1, 2}, {}>>
=============================================================================
