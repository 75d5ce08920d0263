-------------------------------- MODULE Lists --------------------------------
(***************************************************************************)
(* What a loop picks, in its order, and what it adds up.                   *)
(***************************************************************************)
EXTENDS Integers, Sequences, FiniteSets

\* The n-th number of a set.
Nth(S, n) == CHOOSE k \in S : Cardinality({j \in S : j < k}) = n - 1

\* The n-th member of a set that is in an order, a set of pairs.
InOrder(S, order, n) == CHOOSE x \in S : Cardinality({y \in S : <<y, x>> \in order}) = n - 1

\* What a list has at some places.
Picked(list, places) == [n \in 1 .. Cardinality(places) |-> list[Nth(places, n)]]

\* The sum of a list; sum is what every turn leaves.
SumOf(list) ==
    LET sum[n \in 0 .. Len(list)] == IF n = 0 THEN 0 ELSE sum[n - 1] + list[n]
    IN  sum[Len(list)]
=============================================================================
