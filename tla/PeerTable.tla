----------------------------- MODULE PeerTable -----------------------------
(***************************************************************************)
(* The connections a server has to one remote node, and the three tables   *)
(* it keeps about it: the peers map, announceAdded and the hash ring, with *)
(* the membership entry beside them (Server/server.go: OnPeer,             *)
(* handleAnnounce, OnPeerDisconnect, DisconnectPeer, handleLeaving).       *)
(*                                                                         *)
(* Every connection has a goroutine of its own (handleConn): OnPeer, then  *)
(* streams until the connection closes, then OnPeerDisconnect.  Handlers   *)
(* change the peers map under peerLock and the ring after releasing it, so *)
(* each handler is two steps.                                              *)
(*                                                                         *)
(* The canonical address of the remote node is the key that matters.  An   *)
(* inbound connection comes from that address when the remote dials from   *)
(* its listening socket (sharedPort, as QUIC does) and from an ephemeral   *)
(* one otherwise, behind a NAT for instance.                               *)
(***************************************************************************)
EXTENDS Naturals

CONSTANT MaxConns      \* bound on connections, over time

ASSUME ConnsAssumption == MaxConns \in Nat

Conn == 1 .. MaxConns
None == 0

VARIABLES sharedPort,   \* fixed by the network between the two nodes
          dir,          \* "out", "in", or "none" for one not opened yet
          stage,        \* where the connection's goroutine is
          closed,       \* connections whose socket is closed
          announce,     \* the MessageAnnounce of an inbound connection
          canonical,    \* peers[canonical]
          ephemeral,    \* connections in the map under their ephemeral address
          announceAdded,\* connection that announceAdded[canonical] came from
          ring,         \* the canonical address is in the hash ring
          entry,        \* its membership entry
          leaver        \* DisconnectPeer or handleLeaving, half done or over

peerVars == <<sharedPort, dir, stage, closed, announce, canonical, ephemeral, announceAdded, ring,
             entry, leaver>>

PeersTypeOK ==
  /\ sharedPort \in BOOLEAN
  /\ dir \in [Conn -> {"none", "out", "in"}]
  /\ stage \in [Conn -> {"none", "start", "stored", "open", "noticing", "done"}]
  /\ closed \subseteq Conn
  /\ announce \in [Conn -> {"none", "sent", "mapped", "done"}]
  /\ canonical \in Conn \cup {None}
  /\ ephemeral \subseteq Conn
  /\ announceAdded \in Conn \cup {None}
  /\ ring \in BOOLEAN
  /\ entry \in {"none", "alive", "dead", "left"}
  /\ leaver \in {"none", "disconnect", "leaving", "over"}

PeersInit ==
  /\ sharedPort \in BOOLEAN
  /\ dir = [c \in Conn |-> "none"]
  /\ stage = [c \in Conn |-> "none"]
  /\ closed = {}
  /\ announce = [c \in Conn |-> "none"]
  /\ canonical = None /\ ephemeral = {} /\ announceAdded = None
  /\ ring = FALSE /\ entry = "none" /\ leaver = "none"

Goto(c, s) == stage' = [stage EXCEPT ![c] = s]

\* ClusterState.AddNode and ForceLocalState, for this one address.
AddNode == entry' = IF entry = "none" THEN "alive" ELSE entry
ForceDead == entry' = IF entry = "none" THEN "none" ELSE "dead"

-----------------------------------------------------------------------------
(* A connection opens: a dial of ours ends well, or the remote dials us.   *)
(* Nothing keeps bootstrap, reconnectPass and gossip from dialling at the  *)
(* same time.                                                              *)

Open(c, d) ==
  /\ stage[c] = "none"
  /\ \A b \in Conn : b < c => stage[b] # "none"
  /\ dir' = [dir EXCEPT ![c] = d]
  /\ announce' = [announce EXCEPT ![c] = IF d = "in" THEN "sent" ELSE "none"]
  /\ Goto(c, "start")
  /\ UNCHANGED <<sharedPort, closed, canonical, ephemeral, announceAdded, ring, entry, leaver>>

\* The socket closes, at either end or in between.
Close(c) ==
  /\ stage[c] \notin {"none", "done"} /\ c \notin closed
  /\ closed' = closed \cup {c}
  /\ UNCHANGED <<sharedPort, dir, stage, announce, canonical, ephemeral, announceAdded, ring, entry, leaver>>

\* OnPeer, inbound: stored under the remote address, and nothing else.
OnPeerInbound(c) ==
  /\ stage[c] = "start" /\ dir[c] = "in"
  /\ canonical' = IF sharedPort THEN c ELSE canonical
  /\ ephemeral' = IF sharedPort THEN ephemeral ELSE ephemeral \cup {c}
  /\ Goto(c, "open")
  /\ UNCHANGED <<sharedPort, dir, closed, announce, announceAdded, ring, entry, leaver>>

HasOutbound == canonical # None /\ dir[canonical] = "out"

\* OnPeer, outbound, under peerLock: a duplicate is closed, otherwise the new
\* connection takes the place of whatever is stored.
OnPeerOutbound(c) ==
  /\ stage[c] = "start" /\ dir[c] = "out"
  /\ \/ /\ HasOutbound
        /\ closed' = closed \cup {c}
        /\ Goto(c, "open")
        /\ UNCHANGED canonical
     \/ /\ ~HasOutbound
        /\ canonical' = c
        /\ Goto(c, "stored")
        /\ UNCHANGED closed
  /\ UNCHANGED <<sharedPort, dir, announce, ephemeral, announceAdded, ring, entry, leaver>>

\* ... and after it: the ring and the membership table.
OnPeerJoins(c) ==
  /\ stage[c] = "stored"
  /\ ring' = TRUE
  /\ AddNode
  /\ Goto(c, "open")
  /\ UNCHANGED <<sharedPort, dir, closed, announce, canonical, ephemeral, announceAdded, leaver>>

-----------------------------------------------------------------------------
(* handleAnnounce, run by the server's RPC loop.                           *)

\* The peer stored under the address the announcement came from is remapped to
\* the canonical one, if they differ; without such a peer nothing is done.
AnnounceRemaps(c) ==
  /\ announce[c] = "sent" /\ stage[c] # "start"
  /\ \/ /\ sharedPort /\ canonical # None
        /\ announce' = [announce EXCEPT ![c] = "mapped"]
        /\ UNCHANGED <<canonical, ephemeral, announceAdded>>
     \/ /\ ~sharedPort /\ c \in ephemeral
        /\ announce' = [announce EXCEPT ![c] = "mapped"]
        /\ ephemeral' = ephemeral \ {c}
        /\ canonical' = c
        /\ announceAdded' = c
     \/ /\ IF sharedPort THEN canonical = None ELSE c \notin ephemeral
        /\ announce' = [announce EXCEPT ![c] = "done"]
        /\ UNCHANGED <<canonical, ephemeral, announceAdded>>
  /\ UNCHANGED <<sharedPort, dir, stage, closed, ring, entry, leaver>>

AnnounceJoins(c) ==
  /\ announce[c] = "mapped"
  /\ announce' = [announce EXCEPT ![c] = "done"]
  /\ ring' = TRUE
  /\ IF ring THEN UNCHANGED entry ELSE AddNode
  /\ UNCHANGED <<sharedPort, dir, stage, closed, canonical, ephemeral, announceAdded, leaver>>

-----------------------------------------------------------------------------
(* OnPeerDisconnect.                                                       *)

\* current == p for the canonical key.
SamePeer(c) == canonical = c

\* The map entry of the closed connection is left behind.
MutOutboundGone(c) ==
  /\ stage[c] = "open" /\ c \in closed /\ dir[c] = "out"
  /\ Goto(c, IF SamePeer(c) THEN "noticing" ELSE "done")
  /\ UNCHANGED <<sharedPort, dir, closed, announce, canonical, ephemeral, announceAdded, ring, entry, leaver>>

\* Under peerLock, outbound: only the stored connection takes its entry out
\* of the map and goes on to the ring.
OutboundGone(c) ==
  /\ stage[c] = "open" /\ c \in closed /\ dir[c] = "out"
  /\ canonical' = IF SamePeer(c) THEN None ELSE canonical
  /\ Goto(c, IF SamePeer(c) THEN "noticing" ELSE "done")
  /\ UNCHANGED <<sharedPort, dir, closed, announce, ephemeral, announceAdded, ring, entry, leaver>>

\* The reverse mapping is not cleaned up.
MutInboundGone(c) ==
  /\ stage[c] = "open" /\ c \in closed /\ dir[c] = "in"
  /\ canonical' = IF sharedPort /\ SamePeer(c) THEN None ELSE canonical
  /\ ephemeral' = ephemeral \ {c}
  /\ Goto(c, IF sharedPort \/ announceAdded = c THEN "noticing" ELSE "done")
  /\ UNCHANGED <<sharedPort, dir, closed, announce, announceAdded, ring, entry, leaver>>

\* Under peerLock, inbound: the map is looked up under the remote address,
\* and announceAdded says whether that address was remapped.
InboundGone(c) ==
  /\ stage[c] = "open" /\ c \in closed /\ dir[c] = "in"
  /\ canonical' = IF sharedPort /\ SamePeer(c) THEN None ELSE canonical
  /\ ephemeral' = ephemeral \ {c}
  /\ announceAdded' = IF announceAdded = c THEN None ELSE announceAdded
  /\ Goto(c, IF sharedPort \/ announceAdded = c THEN "noticing" ELSE "done")
  /\ UNCHANGED <<sharedPort, dir, closed, announce, ring, entry, leaver>>

\* The ring is not updated.
MutGoneLeaves(c) ==
  /\ stage[c] = "noticing"
  /\ Goto(c, "done")
  /\ ForceDead
  /\ UNCHANGED <<sharedPort, dir, closed, announce, canonical, ephemeral, announceAdded, ring, leaver>>

\* After it: the ring and the membership table.  An inbound connection that
\* was not remapped is taken for an ephemeral artifact: its membership entry
\* is removed and the ring is left alone.
GoneLeaves(c) ==
  /\ stage[c] = "noticing"
  /\ Goto(c, "done")
  /\ IF dir[c] = "in" /\ sharedPort
     THEN entry' = "none" /\ UNCHANGED ring
     ELSE ForceDead /\ ring' = FALSE
  /\ UNCHANGED <<sharedPort, dir, closed, announce, canonical, ephemeral, announceAdded, leaver>>

-----------------------------------------------------------------------------
(* Departures.                                                             *)

\* DisconnectPeer, under peerLock: the canonical peer and, by announceAdded,
\* the inbound one still stored under its ephemeral address.
DisconnectPeer ==
  LET reverse == {announceAdded} \cap ephemeral IN
  /\ leaver \in {"none", "over"} /\ canonical # None
  /\ canonical' = None
  /\ ephemeral' = ephemeral \ reverse
  /\ announceAdded' = None
  /\ closed' = closed \cup {canonical} \cup reverse
  /\ leaver' = "disconnect"
  /\ UNCHANGED <<sharedPort, dir, stage, announce, ring, entry>>

DisconnectPeerLeaves ==
  /\ leaver = "disconnect"
  /\ ring' = FALSE
  /\ ForceDead
  /\ leaver' = "over"
  /\ UNCHANGED <<sharedPort, dir, stage, closed, announce, canonical, ephemeral, announceAdded>>

\* handleLeaving: the ring and the membership table first ...
HandleLeaving ==
  /\ leaver \in {"none", "over"}
  /\ ring' = FALSE
  /\ entry' = "left"
  /\ leaver' = "leaving"
  /\ UNCHANGED <<sharedPort, dir, stage, closed, announce, canonical, ephemeral, announceAdded>>

\* ... then the peers map.
HandleLeavingCloses ==
  /\ leaver = "leaving"
  /\ closed' = closed \cup ({canonical} \ {None})
  /\ canonical' = None
  /\ announceAdded' = None
  /\ leaver' = "over"
  /\ UNCHANGED <<sharedPort, dir, stage, announce, ephemeral, ring, entry>>

-----------------------------------------------------------------------------

ConnStep(c) ==
  \/ OnPeerInbound(c) \/ OnPeerOutbound(c) \/ OnPeerJoins(c)
  \/ AnnounceRemaps(c) \/ AnnounceJoins(c)
  \/ OutboundGone(c) \/ InboundGone(c) \/ GoneLeaves(c)

PeersNext ==
  \/ \E c \in Conn : Open(c, "out") \/ Open(c, "in") \/ Close(c) \/ ConnStep(c)
  \/ DisconnectPeer \/ DisconnectPeerLeaves \/ HandleLeaving \/ HandleLeavingCloses

PeersSpec == PeersInit /\ [][PeersNext]_peerVars

-----------------------------------------------------------------------------
(* Properties.                                                             *)

\* No handler is half done, and none has anything left to notice.
Quiet ==
  /\ leaver \in {"none", "over"}
  /\ \A c \in Conn : /\ announce[c] \in {"none", "done"}
                     /\ stage[c] \in {"none", "done"} \/ (stage[c] = "open" /\ c \notin closed)

\* IsPeerConnected "returns true if addr has an active transport connection":
\* the peers map does not keep a connection whose disconnect was handled.  Not
\* so for an inbound one that was moved to the canonical address, which
\* OnPeerDisconnect looks for under the ephemeral one.
NoStalePeer ==
  canonical # None /\ stage[canonical] = "done" => dir[canonical] = "in" /\ ~sharedPort

\* An inbound connection behind an ephemeral address leaves nothing behind,
\* whenever its announcement, its end and a departure are handled: neither its
\* own key in the peers map nor the reverse mapping outlives it.
NoMapLeak ==
  /\ \A c \in ephemeral : stage[c] # "done"
  /\ announceAdded # None => stage[announceAdded] # "done"

\* No connection is open, nothing is under way, and no departure was handled
\* (one handled between the two halves of OnPeer leaves the ring wrong).
Gone == Quiet /\ leaver = "none" /\ \A c \in Conn : stage[c] # "open"

\* A node that we dialled and that never dialled us leaves the ring with its
\* last connection, duplicates and crossing handlers included.
OutboundLeavesRing == Gone /\ (\A c \in Conn : dir[c] # "in") => ~ring

=============================================================================
