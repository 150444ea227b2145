------------------------------- MODULE Arrays -------------------------------
(***************************************************************************)
(* filter and sort of JavaScript's arrays, which the pages of the          *)
(* dashboard use on chips, rows and jobs, by the place of each element     *)
(* in the result.                                                          *)
(***************************************************************************)
EXTENDS Integers, Sequences, FiniteSets

\* The elements of S in a strict order: the k-th has k - 1 before it.
SortedBy(S, Before(_, _)) ==
    [k \in 1 .. Cardinality(S) |->
        CHOOSE x \in S : Cardinality({y \in S : Before(y, x)}) = k - 1]

\* The elements of s at the given places, as they follow one another in s.
ElementsAt(s, places) ==
    LET order == SortedBy(places, LAMBDA i, j : i < j)
    IN  [k \in 1 .. Cardinality(places) |-> s[order[k]]]

filter(s, Test(_)) == ElementsAt(s, {i \in DOMAIN s : Test(s[i])})
=============================================================================
