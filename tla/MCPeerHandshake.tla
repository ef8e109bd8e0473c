--------------------------- MODULE MCPeerHandshake ---------------------------
(* Two ends of this code, or one of them and other software.              *)
EXTENDS PeerHandshake
MCCasts == {{}, {"outbound"}, {"inbound"}}
=============================================================================
