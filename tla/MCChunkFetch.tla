---------------------------- MODULE MCChunkFetch ----------------------------
(* Instances of ChunkFetch for TLC. *)
EXTENDS ChunkFetch, TLC

\* Workers and peers are interchangeable.
Symmetry == Permutations(Worker) \cup Permutations(Peer)
=============================================================================
