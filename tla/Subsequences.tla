------------------------------ MODULE Subsequences ------------------------------
(***************************************************************************)
(* What the code writes as a comprehension over a list, [x for x in xs if   *)
(* ...]: some of the items of a sequence, in their order.                   *)
(***************************************************************************)
EXTENDS Naturals, FiniteSets, Sequences

\* How many of the positions there are up to i.
Rank(positions, i) == Cardinality({j \in positions : j <= i})

Keep(seq, positions) ==
    [k \in 1..Cardinality(positions) |-> seq[CHOOSE i \in positions : Rank(positions, i) = k]]
===============================================================================
