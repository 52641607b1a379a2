------------------------------- MODULE Numbers -------------------------------
(***************************************************************************)
(* What the computations share: the sum of a sequence of numbers, and a    *)
(* set of positions in order, as a list that is filtered keeps them.       *)
(***************************************************************************)
EXTENDS Naturals, FiniteSets, Sequences

Total(s) ==
    LET upto[q \in 0 .. Len(s)] == IF q = 0 THEN 0 ELSE upto[q - 1] + s[q]
    IN  upto[Len(s)]

\* The r-th member is the one with r - 1 smaller ones.
Ascending(S) ==
    [r \in 1 .. Cardinality(S) |-> CHOOSE x \in S : Cardinality({y \in S : y < x}) = r - 1]
=============================================================================
