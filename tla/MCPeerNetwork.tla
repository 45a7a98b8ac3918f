--------------------------- MODULE MCPeerNetwork ---------------------------
(* Two peers and one seed. *)
EXTENDS PeerNetwork

CONSTANTS p1, p2, s1

TwoPeers == {p1, p2}
OneSeed == {s1}
=============================================================================
