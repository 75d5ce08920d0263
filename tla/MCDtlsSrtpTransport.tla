------------------------- MODULE MCDtlsSrtpTransport -------------------------
(* DtlsSrtpTransport for TLC: transports are model values, and those of one *)
(* kind are interchangeable (only invariants are checked).                  *)
EXTENDS DtlsSrtpTransport, TLC

Symmetry == Permutations(RtpTransports) \cup Permutations(RtcpTransports)
=============================================================================
