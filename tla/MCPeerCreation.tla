---------------------------- MODULE MCPeerCreation ----------------------------
(* Instances of PeerCreation for TLC: an int of 5 bits, a uint16_t of 3,   *)
(* and the settings at their boundaries.                                   *)
EXTENDS PeerCreation

BoundaryLifetimes == {0, 1, 15, 16, 31}
BoundaryCounts == {-16, -1, 0, 15}
BoundaryStreams == {0, 1, 7}
OneLifetime == {0}
OneCount == {0}
NoStream == {}
=============================================================================
