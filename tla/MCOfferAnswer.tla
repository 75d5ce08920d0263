---------------------------- MODULE MCOfferAnswer ----------------------------
(* OfferAnswer for TLC: the two endpoints are interchangeable (only         *)
(* invariants are checked).                                                 *)
EXTENDS OfferAnswer, TLC

Symmetry == Permutations(Peers)
=============================================================================
