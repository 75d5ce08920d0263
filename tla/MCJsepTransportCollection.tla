---------------------- MODULE MCJsepTransportCollection ----------------------
(* JsepTransportCollection for TLC: mids and transports are interchangeable *)
(* model values (only invariants are checked).                              *)
EXTENDS JsepTransportCollection, TLC

Symmetry == Permutations(Mids) \cup Permutations(Transports)
=============================================================================
