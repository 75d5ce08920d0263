-------------------------- MODULE MCPeerConnection --------------------------
(* The peer connection with small bounds, given in the .cfg files. *)
EXTENDS PeerConnection

=============================================================================
