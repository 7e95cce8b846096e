------------------------------ MODULE MCUpload ------------------------------
(* Small instances of Upload for TLC; the constants are in the cfgs. *)
EXTENDS Upload
=============================================================================
