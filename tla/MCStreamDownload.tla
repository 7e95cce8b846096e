-------------------------- MODULE MCStreamDownload --------------------------
(* Small instances of StreamDownload for TLC; the constants are in the cfg. *)
EXTENDS StreamDownload
=============================================================================
