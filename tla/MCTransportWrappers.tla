------------------------ MODULE MCTransportWrappers ------------------------
(* Two DTLS transports, of which the SCTP transport may use either. *)
EXTENDS TransportWrappers

=============================================================================
