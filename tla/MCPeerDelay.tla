----------------------------- MODULE MCPeerDelay -----------------------------
(* Instances of PeerDelay: one neighbor, as the protocol demands, or two. *)
EXTENDS PeerDelay
CONSTANTS X, Y
TwoPeers == {X, Y}
OneOrTwo == {{X}, TwoPeers}
=============================================================================
