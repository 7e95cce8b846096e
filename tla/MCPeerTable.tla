---------------------------- MODULE MCPeerTable ----------------------------
(* Small instances of PeerTable for TLC; the constants are in the cfgs.     *)
EXTENDS PeerTable
=============================================================================
