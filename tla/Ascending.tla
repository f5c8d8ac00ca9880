------------------------------ MODULE Ascending ------------------------------
(***************************************************************************)
(* A finite set in order, as sorted and ORDER BY make a list of it.        *)
(***************************************************************************)
EXTENDS Naturals, FiniteSets

\* An order is the set of its pairs.
Below(S, order, x) == {y \in S : <<y, x>> \in order}

\* At i the element that i - 1 others are below.
ListBy(S, order) ==
    LET below == [x \in S |-> Cardinality(Below(S, order, x))]
    IN  [i \in 1..Cardinality(S) |-> CHOOSE x \in S : below[x] = i - 1]

\* The numbers of S, the least first.
Ascending(S) == ListBy(S, {pair \in S \X S : pair[1] < pair[2]})
=============================================================================
