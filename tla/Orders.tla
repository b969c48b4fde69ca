-------------------------------- MODULE Orders --------------------------------
(***************************************************************************)
(* Rows in an order, and the rows a loop keeps, by their places.           *)
(***************************************************************************)
EXTENDS Integers, FiniteSets

\* The elements of s, each after those that are before it.
InOrderOf(s, before) ==
    [k \in 1..Cardinality(s) |-> CHOOSE x \in s : Cardinality({y \in s : <<y, x>> \in before}) = k - 1]

\* What is left of the sequence s when only the elements of keep are kept.
Those(s, keep) ==
    LET at == {i \in DOMAIN s : s[i] \in keep}
        places == InOrderOf(at, {p \in at \X at : p[1] < p[2]})
    IN [k \in 1..Cardinality(at) |-> s[places[k]]]
=============================================================================
