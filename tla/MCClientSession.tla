-------------------------- MODULE MCClientSession --------------------------
(* Small instances of ClientSession for TLC; the constants are in the cfg.  *)
EXTENDS ClientSession
=============================================================================
