------------------------ MODULE MCResumableDownload ------------------------
(* Small instances of ResumableDownload for TLC; constants are in the cfgs. *)
EXTENDS ResumableDownload
=============================================================================
