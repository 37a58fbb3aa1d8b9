---------------------------- MODULE NumberOrder -----------------------------
(***************************************************************************)
(* Sets of numbers in order: what code gets that walks a list from its     *)
(* start and keeps the places, or the rows, that pass a test.              *)
(***************************************************************************)
EXTENDS Naturals, FiniteSets

Before(S, n) == {i \in S : i < n}

\* The numbers of a finite set, the smallest first.
InOrder(S) ==
    [n \in 1 .. Cardinality(S) |-> CHOOSE i \in S : Cardinality(Before(S, i)) = n - 1]
=============================================================================
