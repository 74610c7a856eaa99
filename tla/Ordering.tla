------------------------------ MODULE Ordering ------------------------------
(* Finite sets in an order, as sequences. *)
EXTENDS Naturals, FiniteSets

\* The elements of S, which Before orders totally, from the first to the last:
\* the element with n - 1 others before it is the n-th.
Sorted(S, Before(_, _)) ==
    [n \in 1..Cardinality(S) |->
        CHOOSE x \in S : Cardinality({y \in S : Before(y, x)}) = n - 1]

Less(i, j) == i < j

\* The elements of the sequence s at the positions in S, in their order.
Chosen(s, S) == LET at == Sorted(S, Less) IN [n \in DOMAIN at |-> s[at[n]]]
=============================================================================
