------------------------------- MODULE Slices -------------------------------
(* The maps and slices of the code: an assignment to a map, the append of   *)
(* what a loop keeps of a slice, and sort.Slice on distinct numbers.        *)
EXTENDS Integers, Sequences, FiniteSets

\* A map with one more entry, or an entry replaced.
With(f, k, v) == [x \in DOMAIN f \cup {k} |-> IF x = k THEN v ELSE f[x]]

\* The numbers of a finite set in their order: up to the nth there are n of them.
Ascending(set) ==
    [n \in 1..Cardinality(set) |->
        CHOOSE x \in set : Cardinality({y \in set : y <= x}) = n]

\* The elements of s at the places a loop keeps, in the order of s.
Selected(s, places) ==
    LET order == Ascending(places) IN [n \in DOMAIN order |-> s[order[n]]]
=============================================================================
